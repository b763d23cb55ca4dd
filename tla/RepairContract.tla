---------------------------- MODULE RepairContract ----------------------------
(***************************************************************************)
(* What `automaxfix run` promises about one ticket and the working tree,   *)
(* with nothing of how it is done: at most one patch is on trial, a patch  *)
(* is kept with the status "passed" or taken back with the status          *)
(* "failed", and a run that ends early leaves the tree as it is then.  A   *)
(* run that dies while it writes may lose the ticket, never the tree, and  *)
(* no run begins on a lost ticket.  RepairRun implements this module.      *)
(***************************************************************************)
EXTENDS Naturals, Sequences

CONSTANT Patches

VARIABLES
  status,   \* of the ticket on disk, "lost" when it cannot be read
  tree,     \* patches of the tool in the working tree
  phase     \* closed, open, trial, rejected or accepted

contractVars == <<status, tree, phase>>

CInit == status = "new" /\ tree = <<>> /\ phase = "closed"

Begin ==
  /\ phase = "closed" /\ status # "lost"
  /\ phase' = "open"
  /\ UNCHANGED <<status, tree>>

\* Progress and refusals are recorded while no patch is in the tree.
Mark ==
  /\ phase = "open"
  /\ status' \in {"reproduced", "failed"}
  /\ UNCHANGED <<tree, phase>>

Try ==
  /\ phase = "open" /\ phase' = "trial"
  /\ LET p == tree'[Len(tree')]
     IN  p \in Patches /\ tree' = Append(tree, p)
  /\ UNCHANGED status

Keep ==
  /\ phase = "trial"
  /\ phase' = "accepted" /\ status' = "passed"
  /\ UNCHANGED tree

Refuse ==
  /\ phase = "trial"
  /\ phase' = "rejected" /\ status' = "failed"
  /\ UNCHANGED tree

\* Only a refused patch is taken back, and only the last one.
TakeBack ==
  /\ phase = "rejected"
  /\ tree' = SubSeq(tree, 1, Len(tree) - 1)
  /\ phase' = "open"
  /\ UNCHANGED status

\* Finished or killed: the tree and the ticket stay as they are.
End == phase # "closed" /\ phase' = "closed" /\ UNCHANGED <<status, tree>>

\* Killed with a verdict or a mark still to be written.
Lose ==
  /\ phase \in {"open", "trial", "rejected"}
  /\ phase' = "closed" /\ status' = "lost"
  /\ UNCHANGED tree

CNext == Begin \/ Mark \/ Try \/ Keep \/ Refuse \/ TakeBack \/ End \/ Lose

CSpec == CInit /\ [][CNext]_contractVars
===============================================================================
