--------------------------- MODULE RepairRunProofs ---------------------------
(***************************************************************************)
(* Proofs about RepairRun, for any set of invocations, any bounds and any  *)
(* ticket: typing, the inductive invariant behind the rollback guarantee,  *)
(* that an accepted patch is never taken away, and that a run implements   *)
(* its contract.                                                           *)
(***************************************************************************)
EXTENDS RepairRun, TLAPS

USE RepairRunAssumption

-----------------------------------------------------------------------------
\* Taking the last element off what was just appended gives back the sequence.
LEMMA ButLastOfAppend ==
  ASSUME NEW S, NEW s \in Seq(S), NEW x \in S
  PROVE  SubSeq(Append(s, x), 1, Len(Append(s, x)) - 1) = s
  OBVIOUS

\* Dropping the last element of a sequence leaves a sequence over the same set.
LEMMA ButLastType ==
  ASSUME NEW S, NEW s \in Seq(S)
  PROVE  SubSeq(s, 1, Len(s) - 1) \in Seq(S)
  OBVIOUS

\* The initial locals of a run are well typed.
LEMMA FreshType ==
  ASSUME NEW o \in Invocations, NEW t \in Seq(Patch)
  PROVE  Fresh(o, t) \in RunType
  BY DEF Fresh, RunType, Strategies, Minimal, Patch, NoPatch, NothingSeen, Verdicts

\* What a recorded attempt leaves is a memo.
LEMMA RecordedType ==
  ASSUME ticket \in Ticket, run \in RunType, NEW b \in BOOLEAN
  PROVE  Recorded(b) \in Seq(Attempt)
<1>1. ticket.memo \in Seq(Attempt)
  BY DEF Ticket
<1>2. run.strategy \in Strategies
  BY DEF RunType
<1>3. [strategy |-> run.strategy, succeeded |-> b] \in Attempt
  BY <1>2 DEF Attempt
<1>4. QED
  BY <1>1, <1>3 DEF Recorded

-----------------------------------------------------------------------------
\* The three helpers that most actions end with keep the locals well typed.
LEMMA StopType ==
  ASSUME ticket \in Ticket, NEW s \in Statuses, NEW r \in Results, Stop(s, r)
  PROVE  /\ pc' = "save" /\ after' = "report_fail"
         /\ ticket' \in Ticket /\ ticket'.status = s /\ ticket'.result = r
         /\ ticket'.memo = ticket.memo
  BY DEF Stop, SaveThen, Ticket

LEMMA ExitType ==
  ASSUME run \in RunType, Exit
  PROVE  /\ pc' = "idle" /\ after' = "idle"
         /\ ticket' \in Ticket /\ run' \in RunType
<1>1. run.opts \in Invocations
  BY DEF RunType
<1>2. Fresh(run.opts, <<>>) \in RunType
  <2>1. <<>> \in Seq(Patch)
    OBVIOUS
  <2>2. QED
    BY <1>1, <2>1, FreshType
<1>3. NewTicket \in Ticket
  BY DEF NewTicket, Ticket, Statuses, Results
<1>4. QED
  BY <1>2, <1>3 DEF Exit

\* The locals an action sets one by one stay in their ranges.
LEMMA RunUpdates ==
  ASSUME run \in RunType
  PROVE  /\ [run EXCEPT !.reproduced = TRUE] \in RunType
         /\ \A p \in SUBSET Strategies : [run EXCEPT !.plan = p] \in RunType
         /\ \A s \in Strategies :
              [run EXCEPT !.plan = @ \ {s}, !.strategy = s, !.tries = 0,
                          !.seen = NothingSeen] \in RunType
         /\ \A p \in Patch : [run EXCEPT !.calls = @ + 1, !.patch = p] \in RunType
         /\ [run EXCEPT !.calls = @ + 1, !.tries = @ + 1] \in RunType
         /\ [run EXCEPT !.calls = @ + 1] \in RunType
         /\ \A d \in BOOLEAN : [run EXCEPT !.dirty = d] \in RunType
         /\ [run EXCEPT !.applies = @ + 1] \in RunType
         /\ \A v \in Outcomes : [run EXCEPT !.seen = v] \in RunType
<1> USE DEF RunType
<1>1. [run EXCEPT !.reproduced = TRUE] \in RunType
  OBVIOUS
<1>2. \A p \in SUBSET Strategies : [run EXCEPT !.plan = p] \in RunType
  OBVIOUS
<1>3. ASSUME NEW s \in Strategies
      PROVE  [run EXCEPT !.plan = @ \ {s}, !.strategy = s, !.tries = 0,
                         !.seen = NothingSeen] \in RunType
  <2>1. NothingSeen \in [targeted : Verdicts, regression : Verdicts, check : Verdicts]
    BY DEF NothingSeen, Verdicts
  <2>2. run.plan \ {s} \in SUBSET Strategies
    OBVIOUS
  <2>3. QED
    BY <2>1, <2>2
<1>4. run.calls + 1 \in Nat /\ run.tries + 1 \in Nat /\ run.applies + 1 \in Nat
  OBVIOUS
<1>5. /\ \A p \in Patch : [run EXCEPT !.calls = @ + 1, !.patch = p] \in RunType
      /\ [run EXCEPT !.calls = @ + 1, !.tries = @ + 1] \in RunType
      /\ [run EXCEPT !.calls = @ + 1] \in RunType
      /\ [run EXCEPT !.applies = @ + 1] \in RunType
  <2> DEFINE c == run.calls + 1  d == run.tries + 1  e == run.applies + 1
  <2>1. c \in Nat /\ d \in Nat /\ e \in Nat
    BY <1>4
  <2> HIDE DEF c, d, e
  <2>2. /\ \A p \in Patch : [run EXCEPT !.calls = c, !.patch = p] \in RunType
        /\ [run EXCEPT !.calls = c, !.tries = d] \in RunType
        /\ [run EXCEPT !.calls = c] \in RunType
        /\ [run EXCEPT !.applies = e] \in RunType
    BY <2>1
  <2>3. QED
    BY <2>2 DEF c, d, e
<1>6. \A d \in BOOLEAN : [run EXCEPT !.dirty = d] \in RunType
  OBVIOUS
<1>7. ASSUME NEW v \in Outcomes
      PROVE  [run EXCEPT !.seen = v] \in RunType
  <2>1. v \in [targeted : Verdicts, regression : Verdicts, check : Verdicts]
    BY DEF Outcomes, Verdicts
  <2>2. QED
    BY <2>1
<1>8. QED
  BY <1>1, <1>2, <1>3, <1>5, <1>6, <1>7

\* Every variable keeps its type, whatever the instance.
THEOREM Typing == Spec => []TypeOK
<1>1. Init => TypeOK
  <2> SUFFICES ASSUME Init PROVE TypeOK
    OBVIOUS
  <2>1. <<>> \in Seq(Patch)
    OBVIOUS
  <2>2. run \in RunType
    <3>1. PICK o \in Invocations : run = Fresh(o, <<>>)
      BY DEF Init
    <3>2. QED
      BY <3>1, <2>1, FreshType
  <2>3. NewTicket \in Ticket
    BY DEF NewTicket, Ticket, Statuses, Results
  <2>4. NoPatch \in Patch
    BY DEF Patch, NoPatch
  <2>5. QED
    BY <2>1, <2>2, <2>3, <2>4 DEF Init, TypeOK, Labels
<1>2. TypeOK /\ [Next]_vars => TypeOK'
  <2> SUFFICES ASSUME TypeOK, [Next]_vars PROVE TypeOK'
    OBVIOUS
  <2> USE DEF TypeOK, Labels
  <2>1. CASE SkipGate
    BY <2>1 DEF SkipGate, stateFiles, workspace, counters
  <2>2. CASE ReproMissing
    <3>1. ticket.status \in Statuses /\ "no_repro" \in Results
      BY DEF Ticket, Results
    <3>2. QED
      BY <2>2, <3>1, StopType DEF ReproMissing, stateFiles, workspace, counters
  <2>3. CASE ReproExists
    BY <2>3 DEF ReproExists, stateFiles, workspace, counters
  <2>4. CASE ReproPasses
    <3>1. "failed" \in Statuses /\ "repro_passed" \in Results
      BY DEF Statuses, Results
    <3>2. QED
      BY <2>4, <3>1, StopType DEF ReproPasses, stateFiles, workspace, counters
  <2>5. CASE Reproduce
    <3>1. [ticket EXCEPT !.status = "reproduced"] \in Ticket
      BY DEF Ticket, Statuses
    <3>2. QED
      BY <2>5, <3>1, RunUpdates DEF Reproduce, SaveThen, stateFiles, workspace, counters
  <2>6. CASE MakePlan
    <3>1. {Minimal} \in SUBSET Strategies
      BY DEF Minimal, Strategies
    <3>2. StrategyAttempts(ticket.memo, run.opts.maxAttempts) \in SUBSET Strategies
      BY DEF StrategyAttempts
    <3>3. CASE Stop("failed", "exhausted") /\ UNCHANGED run
      <4>1. "failed" \in Statuses /\ "exhausted" \in Results
        BY DEF Statuses, Results
      <4>2. QED
        BY <2>6, <3>3, <4>1, StopType DEF MakePlan, stateFiles, workspace, counters
    <3>4. CASE /\ \E p \in SUBSET Strategies : run' = [run EXCEPT !.plan = p]
               /\ pc' = "strategy" /\ UNCHANGED <<after, ticket>>
      BY <2>6, <3>4, RunUpdates DEF MakePlan, stateFiles, workspace, counters
    <3>5. QED
      BY <2>6, <3>1, <3>2, <3>3, <3>4 DEF MakePlan
  <2>7. CASE NextStrategy
    <3>1. PICK s \in run.plan :
            run' = [run EXCEPT !.plan = @ \ {s}, !.strategy = s, !.tries = 0,
                               !.seen = NothingSeen]
      BY <2>7 DEF NextStrategy
    <3>2. s \in Strategies
      BY DEF RunType
    <3>3. QED
      BY <2>7, <3>1, <3>2, RunUpdates DEF NextStrategy, stateFiles, workspace, counters
  <2>8. CASE AgentFails
    <3>1. "failed" \in Statuses /\ "agent_error" \in Results
      BY DEF Statuses, Results
    <3>2. QED
      BY <2>8, <3>1, StopType DEF AgentFails, stateFiles, workspace, counters
  <2>9. CASE AgentTimeout
    BY <2>9, ExitType DEF AgentTimeout, stateFiles, workspace, counters
  <2>10. CASE ValidDiff
    <3>1. <<runs, run.calls + 1>> \in Patch
      BY DEF Patch, RunType
    <3>2. QED
      BY <2>10, <3>1, RunUpdates DEF ValidDiff, stateFiles, workspace, counters
  <2>11. CASE RetryDiff
    BY <2>11, RunUpdates DEF RetryDiff, stateFiles, workspace, counters
  <2>12. CASE InvalidDiff
    <3>1. "failed" \in Statuses /\ "invalid_diff" \in Results
      BY DEF Statuses, Results
    <3>2. QED
      BY <2>12, <3>1, StopType, RunUpdates DEF InvalidDiff, stateFiles, workspace, counters
  <2>13. CASE NotARepository
    <3>1. "failed" \in Statuses /\ "no_git" \in Results
      BY DEF Statuses, Results
    <3>2. QED
      BY <2>13, <3>1, StopType DEF NotARepository, stateFiles, workspace, counters
  <2>14. CASE ReadWorkspace
    <3>1. Dirty \in BOOLEAN
      BY DEF Dirty
    <3>2. QED
      BY <2>14, <3>1, RunUpdates DEF ReadWorkspace, stateFiles, workspace, counters
  <2>15. CASE Approve
    <3>1. "failed" \in Statuses /\ "denied" \in Results
      BY DEF Statuses, Results
    <3>2. CASE Stop("failed", "denied")
      BY <2>15, <3>1, <3>2, StopType DEF Approve, stateFiles, workspace, counters
    <3>3. CASE pc' = "artifact" /\ UNCHANGED <<after, ticket>>
      BY <2>15, <3>3 DEF Approve, stateFiles, workspace, counters
    <3>4. QED
      BY <2>15, <3>2, <3>3 DEF Approve
  <2>16. CASE WriteArtifact
    <3>1. Tag \in Nat \X Strategies
      BY DEF Tag, RunType, Ticket
    <3>2. run.patch \in Patch
      BY DEF RunType
    <3>3. /\ DOMAIN artifacts' \subseteq (Nat \X Strategies)
          /\ \A t \in DOMAIN artifacts' : artifacts'[t] \in Patch
      BY <2>16, <3>1, <3>2 DEF WriteArtifact
    <3>4. QED
      BY <2>16, <3>3 DEF WriteArtifact, stateFiles, workspace, counters
  <2>17. CASE ApplyFails
    <3>1. "failed" \in Statuses /\ "apply_failed" \in Results
      BY DEF Statuses, Results
    <3>2. QED
      BY <2>17, <3>1, StopType DEF ApplyFails, stateFiles, workspace, counters
  <2>18. CASE ApplyPatch
    <3>1. Append(tree, run.patch) \in Seq(Patch)
      BY DEF RunType
    <3>2. [ticket EXCEPT !.status = "patched"] \in Ticket
      BY DEF Ticket, Statuses
    <3>3. QED
      BY <2>18, <3>1, <3>2, RunUpdates DEF ApplyPatch, stateFiles, workspace, counters
  <2>19. CASE Accept
    <3>1. [status |-> "passed", result |-> "validated", memo |-> Recorded(TRUE)] \in Ticket
      BY RecordedType DEF Ticket, Statuses, Results
    <3>2. run' \in RunType
      BY <2>19, RunUpdates DEF Accept
    <3>3. run.patch \in Patch
      BY DEF RunType
    <3>4. QED
      BY <2>19, <3>1, <3>2, <3>3 DEF Accept, SaveThen, stateFiles, workspace, counters
  <2>20. CASE Reject
    <3>1. [status |-> "failed", result |-> "checks_failed", memo |-> Recorded(FALSE)] \in Ticket
      BY RecordedType DEF Ticket, Statuses, Results
    <3>2. run' \in RunType
      BY <2>20, RunUpdates DEF Reject
    <3>3. run.patch \in Patch
      BY DEF RunType
    <3>4. QED
      BY <2>20, <3>1, <3>2, <3>3 DEF Reject, SaveThen, stateFiles, workspace, counters
  <2>21. CASE RollbackFails
    <3>1. "failed" \in Statuses /\ "rollback_failed" \in Results
      BY DEF Statuses, Results
    <3>2. QED
      BY <2>21, <3>1, StopType DEF RollbackFails, stateFiles, workspace, counters
  <2>22. CASE Rollback
    <3>1. tree' \in Seq(Patch)
      BY <2>22, ButLastType DEF Rollback
    <3>2. "failed" \in Statuses /\ "checks_failed" \in Results
      BY DEF Statuses, Results
    <3>3. CASE Stop("failed", "checks_failed")
      BY <2>22, <3>1, <3>2, <3>3, StopType DEF Rollback, stateFiles, workspace, counters
    <3>4. CASE pc' = "strategy" /\ UNCHANGED <<after, ticket>>
      BY <2>22, <3>1, <3>4 DEF Rollback, stateFiles, workspace, counters
    <3>5. QED
      BY <2>22, <3>3, <3>4 DEF Rollback
  <2>23. CASE Save
    BY <2>23 DEF Save, stateFiles, workspace, counters
  <2>24. CASE Report
    BY <2>24, ExitType DEF Report, stateFiles, workspace, counters
  <2>25. ASSUME NEW o \in Invocations, Start(o) PROVE TypeOK'
    <3>1. Fresh(o, tree) \in RunType
      BY FreshType
    <3>2. QED
      BY <2>25, <3>1 DEF Start, stateFiles, workspace, counters
  <2>26. CASE RefuseTorn
    BY <2>26 DEF RefuseTorn, stateFiles, workspace, counters
  <2>27. CASE Crash
    BY <2>27, ExitType DEF Crash, stateFiles, workspace, counters
  <2>28. CASE TearSave
    BY <2>28, ExitType DEF TearSave, NewTicket, Ticket, Statuses, Results, stateFiles, workspace, counters
  <2>29. CASE OperatorEdit
    BY <2>29 DEF OperatorEdit, stateFiles, workspace, counters
  <2>30. CASE OperatorCommit
    <3>1. Len(tree) \in Nat
      OBVIOUS
    <3>2. QED
      BY <2>30, <3>1 DEF OperatorCommit, stateFiles, workspace, counters
  <2>31. CASE UNCHANGED vars
    BY <2>31 DEF vars, stateFiles, workspace, counters
  <2> HIDE DEF TypeOK, Labels
  <2>32. QED
    BY <2>1, <2>2, <2>3, <2>4, <2>5, <2>6, <2>7, <2>8, <2>9, <2>10, <2>11, <2>12, <2>13, <2>14, <2>15, <2>16, <2>17, <2>18, <2>19, <2>20, <2>21, <2>22, <2>23, <2>24, <2>25, <2>26, <2>27, <2>28, <2>29, <2>30, <2>31 DEF Next, OwnStep, Waiting, Environment
<1>3. QED
  BY <1>1, <1>2, PTL DEF Spec

-----------------------------------------------------------------------------
\* What the rollback guarantee rests on, beside TreeInv: how the ticket in
\* memory relates to the file at every save, and that an artifact of the patch
\* is on disk before the patch is in the tree.
SavedInv ==
  /\ pc # "idle" => ~torn
  /\ pc = "save" => after # "idle"
  /\ pc = "gate" => ticket.status = disk.status
  /\ pc = "save" /\ after = "plan" => ticket.status = "reproduced"
  /\ pc = "save" /\ after = "reverse" => ticket.status = "failed"
  /\ pc = "save" /\ after = "report_pass" => ticket.status = "passed"
  /\ pc = "save" /\ after = "report_fail" =>
       ticket.status = "failed" \/ ticket.status = disk.status
  /\ pc = "reverse" => disk.status = "failed"
  /\ pc = "save" /\ after = "report_fail" /\ ticket.result = "rollback_failed" =>
       disk.status = "failed"
  /\ pc \in {"report_pass", "report_fail"} => disk = ticket

ArtifactInv ==
  pc = "apply" \/ OnTrial => \E t \in DOMAIN artifacts : artifacts[t] = run.patch

In(p, s) == \E i \in DOMAIN s : s[i] = p

\* The patch on trial has just been accepted, or its acceptance is being saved.
Accepting == pc = "report_pass" \/ (pc = "save" /\ after = "report_pass")

\* An accepted patch lies in the tree below anything a rollback may take off.
AcceptedInv ==
  /\ disk.status = "passed" => accepted # NoPatch
  /\ pc # "idle" /\ ticket.status = "passed" => accepted # NoPatch
  /\ pc \in {"git", "approve", "artifact", "apply"} \/ OnTrial => run.patch # NoPatch
  /\ accepted # NoPatch => In(accepted, tree)
  /\ accepted # NoPatch /\ pc # "idle" /\ ~Accepting => In(accepted, run.base)

\* Every save is of the ticket in memory, and every report comes after its save.
LEMMA SavedInvStep == TypeOK /\ SavedInv /\ [Next]_vars => SavedInv'
<1> SUFFICES ASSUME TypeOK, SavedInv, [Next]_vars PROVE SavedInv'
  OBVIOUS
<1> USE DEF stateFiles, workspace, counters, SavedInv
<1>0. /\ ticket \in Ticket /\ run \in RunType /\ tree \in Seq(Patch)
      /\ run.base \in Seq(Patch) /\ run.patch \in Patch
      /\ after \in {"idle", "plan", "reverse", "report_pass", "report_fail"}
  BY DEF TypeOK, RunType
<1>1. CASE SkipGate
  BY <1>1, <1>0 DEF SkipGate
<1>2. CASE ReproMissing
  BY <1>2, <1>0 DEF ReproMissing, Stop, SaveThen, Ticket
<1>3. CASE ReproExists
  BY <1>3, <1>0 DEF ReproExists
<1>4. CASE ReproPasses
  BY <1>4, <1>0 DEF ReproPasses, Stop, SaveThen, Ticket
<1>5. CASE Reproduce
  BY <1>5, <1>0 DEF Reproduce, SaveThen, RunType, Ticket
<1>6. CASE MakePlan
  BY <1>6, <1>0 DEF MakePlan, Stop, SaveThen, RunType, Ticket
<1>7. CASE NextStrategy
  BY <1>7, <1>0 DEF NextStrategy, RunType
<1>8. CASE AgentFails
  BY <1>8, <1>0 DEF AgentFails, Stop, SaveThen, Ticket
<1>9. CASE AgentTimeout
  BY <1>9, <1>0 DEF AgentTimeout, Exit
<1>10. CASE ValidDiff
  BY <1>10, <1>0 DEF ValidDiff, RunType
<1>11. CASE RetryDiff
  BY <1>11, <1>0 DEF RetryDiff, RunType
<1>12. CASE InvalidDiff
  BY <1>12, <1>0 DEF InvalidDiff, Stop, SaveThen, RunType, Ticket
<1>13. CASE NotARepository
  BY <1>13, <1>0 DEF NotARepository, Stop, SaveThen, Ticket
<1>14. CASE ReadWorkspace
  BY <1>14, <1>0 DEF ReadWorkspace, RunType
<1>15. CASE Approve
  BY <1>15, <1>0 DEF Approve, Stop, SaveThen, Ticket
<1>16. CASE WriteArtifact
  BY <1>16, <1>0 DEF WriteArtifact
<1>17. CASE ApplyFails
  BY <1>17, <1>0 DEF ApplyFails, Stop, SaveThen, Ticket
<1>18. CASE ApplyPatch
  BY <1>18, <1>0 DEF ApplyPatch, RunType, Ticket
<1>19. CASE Accept
  BY <1>19, <1>0 DEF Accept, SaveThen, RunType, Ticket
<1>20. CASE Reject
  BY <1>20, <1>0 DEF Reject, SaveThen, RunType, Ticket
<1>21. CASE RollbackFails
  BY <1>21, <1>0 DEF RollbackFails, Stop, SaveThen, Ticket
<1>22. CASE Rollback
  BY <1>22, <1>0 DEF Rollback, Stop, SaveThen, Ticket
<1>23. CASE Save
  BY <1>23, <1>0 DEF Save
<1>24. CASE Report
  BY <1>24, <1>0 DEF Report, Exit
<1>25. ASSUME NEW o \in Invocations, Start(o) PROVE SavedInv'
  BY <1>25, <1>0 DEF Start, Fresh
<1>26. CASE RefuseTorn
  BY <1>26, <1>0 DEF RefuseTorn
<1>27. CASE Crash
  BY <1>27, <1>0 DEF Crash, Exit
<1>28. CASE TearSave
  BY <1>28, <1>0 DEF TearSave, NewTicket, Exit
<1>29. CASE OperatorEdit
  BY <1>29, <1>0 DEF OperatorEdit
<1>30. CASE OperatorCommit
  BY <1>30, <1>0 DEF OperatorCommit
<1>31. CASE UNCHANGED vars
  BY <1>31 DEF vars
<1> HIDE DEF SavedInv
<1>32. QED
  BY <1>1, <1>2, <1>3, <1>4, <1>5, <1>6, <1>7, <1>8, <1>9, <1>10, <1>11, <1>12, <1>13, <1>14, <1>15, <1>16, <1>17, <1>18, <1>19, <1>20, <1>21, <1>22, <1>23, <1>24, <1>25, <1>26, <1>27, <1>28, <1>29, <1>30, <1>31
  DEF Next, OwnStep, Waiting, Environment

\* The tree during a run is the one it began with, plus the patch on trial.
LEMMA TreeInvStep == TypeOK /\ SavedInv /\ TreeInv /\ [Next]_vars => TreeInv'
<1> SUFFICES ASSUME TypeOK, SavedInv, TreeInv, [Next]_vars PROVE TreeInv'
  OBVIOUS
<1> USE DEF stateFiles, workspace, counters, TreeInv, OnTrial
<1>0. /\ ticket \in Ticket /\ run \in RunType /\ tree \in Seq(Patch)
      /\ run.base \in Seq(Patch) /\ run.patch \in Patch
      /\ after \in {"idle", "plan", "reverse", "report_pass", "report_fail"}
  BY DEF TypeOK, RunType
<1>1. CASE SkipGate
  BY <1>1, <1>0 DEF SkipGate
<1>2. CASE ReproMissing
  BY <1>2, <1>0 DEF ReproMissing, Stop, SaveThen, Ticket
<1>3. CASE ReproExists
  BY <1>3, <1>0 DEF ReproExists
<1>4. CASE ReproPasses
  BY <1>4, <1>0 DEF ReproPasses, Stop, SaveThen, Ticket
<1>5. CASE Reproduce
  BY <1>5, <1>0 DEF Reproduce, SaveThen, RunType, Ticket
<1>6. CASE MakePlan
  BY <1>6, <1>0 DEF MakePlan, Stop, SaveThen, RunType, Ticket
<1>7. CASE NextStrategy
  BY <1>7, <1>0 DEF NextStrategy, RunType
<1>8. CASE AgentFails
  BY <1>8, <1>0 DEF AgentFails, Stop, SaveThen, Ticket
<1>9. CASE AgentTimeout
  BY <1>9, <1>0 DEF AgentTimeout, Exit
<1>10. CASE ValidDiff
  BY <1>10, <1>0 DEF ValidDiff, RunType
<1>11. CASE RetryDiff
  BY <1>11, <1>0 DEF RetryDiff, RunType
<1>12. CASE InvalidDiff
  BY <1>12, <1>0 DEF InvalidDiff, Stop, SaveThen, RunType, Ticket
<1>13. CASE NotARepository
  BY <1>13, <1>0 DEF NotARepository, Stop, SaveThen, Ticket
<1>14. CASE ReadWorkspace
  BY <1>14, <1>0 DEF ReadWorkspace, RunType
<1>15. CASE Approve
  BY <1>15, <1>0 DEF Approve, Stop, SaveThen, Ticket
<1>16. CASE WriteArtifact
  BY <1>16, <1>0 DEF WriteArtifact
<1>17. CASE ApplyFails
  BY <1>17, <1>0 DEF ApplyFails, Stop, SaveThen, Ticket
<1>18. CASE ApplyPatch
  BY <1>18, <1>0 DEF ApplyPatch, RunType, Ticket
<1>19. CASE Accept
  BY <1>19, <1>0 DEF Accept, SaveThen, RunType, Ticket
<1>20. CASE Reject
  BY <1>20, <1>0 DEF Reject, SaveThen, RunType, Ticket
<1>21. CASE RollbackFails
  BY <1>21, <1>0 DEF RollbackFails, Stop, SaveThen, Ticket
<1>22. CASE Rollback
  <2>1. tree = Append(run.base, run.patch)
    BY <1>22 DEF Rollback, TreeInv, OnTrial
  <2>2. tree' = run.base /\ run' = run
    BY <1>22, <2>1, <1>0, ButLastOfAppend DEF Rollback
  <2>3. ~OnTrial'
    BY <1>22, <1>0 DEF Rollback, Stop, SaveThen, Ticket
  <2>4. QED
    BY <2>2, <2>3
<1>23. CASE Save
  BY <1>23, <1>0 DEF Save, SavedInv
<1>24. CASE Report
  BY <1>24, <1>0 DEF Report, Exit
<1>25. ASSUME NEW o \in Invocations, Start(o) PROVE TreeInv'
  BY <1>25, <1>0 DEF Start, Fresh
<1>26. CASE RefuseTorn
  BY <1>26, <1>0 DEF RefuseTorn
<1>27. CASE Crash
  BY <1>27, <1>0 DEF Crash, Exit
<1>28. CASE TearSave
  BY <1>28, <1>0 DEF TearSave, NewTicket, Exit
<1>29. CASE OperatorEdit
  BY <1>29, <1>0 DEF OperatorEdit
<1>30. CASE OperatorCommit
  BY <1>30, <1>0 DEF OperatorCommit
<1>31. CASE UNCHANGED vars
  BY <1>31 DEF vars
<1> HIDE DEF TreeInv
<1>32. QED
  BY <1>1, <1>2, <1>3, <1>4, <1>5, <1>6, <1>7, <1>8, <1>9, <1>10, <1>11, <1>12, <1>13, <1>14, <1>15, <1>16, <1>17, <1>18, <1>19, <1>20, <1>21, <1>22, <1>23, <1>24, <1>25, <1>26, <1>27, <1>28, <1>29, <1>30, <1>31
  DEF Next, OwnStep, Waiting, Environment

\* The artifact of a patch is written before the patch is applied.
LEMMA ArtifactInvStep == TypeOK /\ SavedInv /\ ArtifactInv /\ [Next]_vars => ArtifactInv'
<1> SUFFICES ASSUME TypeOK, SavedInv, ArtifactInv, [Next]_vars PROVE ArtifactInv'
  OBVIOUS
<1> USE DEF stateFiles, workspace, counters, ArtifactInv, OnTrial
<1>0. /\ ticket \in Ticket /\ run \in RunType /\ tree \in Seq(Patch)
      /\ run.base \in Seq(Patch) /\ run.patch \in Patch
      /\ after \in {"idle", "plan", "reverse", "report_pass", "report_fail"}
  BY DEF TypeOK, RunType
<1>1. CASE SkipGate
  BY <1>1, <1>0 DEF SkipGate
<1>2. CASE ReproMissing
  BY <1>2, <1>0 DEF ReproMissing, Stop, SaveThen, Ticket
<1>3. CASE ReproExists
  BY <1>3, <1>0 DEF ReproExists
<1>4. CASE ReproPasses
  BY <1>4, <1>0 DEF ReproPasses, Stop, SaveThen, Ticket
<1>5. CASE Reproduce
  BY <1>5, <1>0 DEF Reproduce, SaveThen, RunType, Ticket
<1>6. CASE MakePlan
  BY <1>6, <1>0 DEF MakePlan, Stop, SaveThen, RunType, Ticket
<1>7. CASE NextStrategy
  BY <1>7, <1>0 DEF NextStrategy, RunType
<1>8. CASE AgentFails
  BY <1>8, <1>0 DEF AgentFails, Stop, SaveThen, Ticket
<1>9. CASE AgentTimeout
  BY <1>9, <1>0 DEF AgentTimeout, Exit
<1>10. CASE ValidDiff
  BY <1>10, <1>0 DEF ValidDiff, RunType
<1>11. CASE RetryDiff
  BY <1>11, <1>0 DEF RetryDiff, RunType
<1>12. CASE InvalidDiff
  BY <1>12, <1>0 DEF InvalidDiff, Stop, SaveThen, RunType, Ticket
<1>13. CASE NotARepository
  BY <1>13, <1>0 DEF NotARepository, Stop, SaveThen, Ticket
<1>14. CASE ReadWorkspace
  BY <1>14, <1>0 DEF ReadWorkspace, RunType
<1>15. CASE Approve
  BY <1>15, <1>0 DEF Approve, Stop, SaveThen, Ticket
<1>16. CASE WriteArtifact
  BY <1>16, <1>0 DEF WriteArtifact
<1>17. CASE ApplyFails
  BY <1>17, <1>0 DEF ApplyFails, Stop, SaveThen, Ticket
<1>18. CASE ApplyPatch
  BY <1>18, <1>0 DEF ApplyPatch, RunType, Ticket
<1>19. CASE Accept
  BY <1>19, <1>0 DEF Accept, SaveThen, RunType, Ticket
<1>20. CASE Reject
  BY <1>20, <1>0 DEF Reject, SaveThen, RunType, Ticket
<1>21. CASE RollbackFails
  BY <1>21, <1>0 DEF RollbackFails, Stop, SaveThen, Ticket
<1>22. CASE Rollback
  BY <1>22, <1>0 DEF Rollback, Stop, SaveThen, Ticket
<1>23. CASE Save
  BY <1>23, <1>0 DEF Save, SavedInv
<1>24. CASE Report
  BY <1>24, <1>0 DEF Report, Exit
<1>25. ASSUME NEW o \in Invocations, Start(o) PROVE ArtifactInv'
  BY <1>25, <1>0 DEF Start, Fresh
<1>26. CASE RefuseTorn
  BY <1>26, <1>0 DEF RefuseTorn
<1>27. CASE Crash
  BY <1>27, <1>0 DEF Crash, Exit
<1>28. CASE TearSave
  BY <1>28, <1>0 DEF TearSave, NewTicket, Exit
<1>29. CASE OperatorEdit
  BY <1>29, <1>0 DEF OperatorEdit
<1>30. CASE OperatorCommit
  BY <1>30, <1>0 DEF OperatorCommit
<1>31. CASE UNCHANGED vars
  BY <1>31 DEF vars
<1> HIDE DEF ArtifactInv
<1>32. QED
  BY <1>1, <1>2, <1>3, <1>4, <1>5, <1>6, <1>7, <1>8, <1>9, <1>10, <1>11, <1>12, <1>13, <1>14, <1>15, <1>16, <1>17, <1>18, <1>19, <1>20, <1>21, <1>22, <1>23, <1>24, <1>25, <1>26, <1>27, <1>28, <1>29, <1>30, <1>31
  DEF Next, OwnStep, Waiting, Environment

\* A rollback takes off the patch on trial only, never an accepted one.
LEMMA AcceptedInvStep ==
  TypeOK /\ SavedInv /\ TreeInv /\ AcceptedInv /\ [Next]_vars => AcceptedInv'
<1> SUFFICES ASSUME TypeOK, SavedInv, TreeInv, AcceptedInv, [Next]_vars
             PROVE  AcceptedInv'
  OBVIOUS
<1> USE DEF stateFiles, workspace, counters, AcceptedInv, Accepting, In, OnTrial
<1>0. /\ ticket \in Ticket /\ run \in RunType /\ tree \in Seq(Patch)
      /\ run.base \in Seq(Patch) /\ run.patch \in Patch
      /\ after \in {"idle", "plan", "reverse", "report_pass", "report_fail"}
  BY DEF TypeOK, RunType
<1>1. CASE SkipGate
  BY <1>1, <1>0 DEF SkipGate
<1>2. CASE ReproMissing
  BY <1>2, <1>0 DEF ReproMissing, Stop, SaveThen, Ticket
<1>3. CASE ReproExists
  BY <1>3, <1>0 DEF ReproExists
<1>4. CASE ReproPasses
  BY <1>4, <1>0 DEF ReproPasses, Stop, SaveThen, Ticket
<1>5. CASE Reproduce
  BY <1>5, <1>0 DEF Reproduce, SaveThen, RunType, Ticket
<1>6. CASE MakePlan
  BY <1>6, <1>0 DEF MakePlan, Stop, SaveThen, RunType, Ticket
<1>7. CASE NextStrategy
  BY <1>7, <1>0 DEF NextStrategy, RunType
<1>8. CASE AgentFails
  BY <1>8, <1>0 DEF AgentFails, Stop, SaveThen, Ticket
<1>9. CASE AgentTimeout
  BY <1>9, <1>0 DEF AgentTimeout, Exit
<1>10. CASE ValidDiff
  <2>1. run'.patch = <<runs, run.calls + 1>> /\ run'.base = run.base
    BY <1>10, <1>0 DEF ValidDiff, RunType
  <2>2. run.calls \in Nat /\ runs \in Nat
    BY <1>0 DEF TypeOK, RunType
  <2>3. run'.patch # NoPatch
    BY <2>1, <2>2 DEF NoPatch
  <2>4. QED
    BY <1>10, <2>1, <2>3 DEF ValidDiff
<1>11. CASE RetryDiff
  BY <1>11, <1>0 DEF RetryDiff, RunType
<1>12. CASE InvalidDiff
  BY <1>12, <1>0 DEF InvalidDiff, Stop, SaveThen, RunType, Ticket
<1>13. CASE NotARepository
  BY <1>13, <1>0 DEF NotARepository, Stop, SaveThen, Ticket
<1>14. CASE ReadWorkspace
  BY <1>14, <1>0 DEF ReadWorkspace, RunType
<1>15. CASE Approve
  BY <1>15, <1>0 DEF Approve, Stop, SaveThen, Ticket
<1>16. CASE WriteArtifact
  BY <1>16, <1>0 DEF WriteArtifact
<1>17. CASE ApplyFails
  BY <1>17, <1>0 DEF ApplyFails, Stop, SaveThen, Ticket
<1>18. CASE ApplyPatch
  BY <1>18, <1>0 DEF ApplyPatch, RunType, Ticket
<1>19. CASE Accept
  <2>1. tree = Append(run.base, run.patch) /\ run.patch # NoPatch
    BY <1>19 DEF Accept, TreeInv
  <2>2. /\ Len(run.base) + 1 \in DOMAIN tree
        /\ tree[Len(run.base) + 1] = run.patch
    BY <2>1, <1>0
  <2>3. In(run.patch, tree)
    BY <2>2
  <2>4. run'.patch = run.patch
    BY <1>19, <1>0 DEF Accept, RunType
  <2>5. QED
    BY <1>19, <2>1, <2>3, <2>4 DEF Accept, SaveThen
<1>20. CASE Reject
  BY <1>20, <1>0 DEF Reject, SaveThen, RunType, Ticket
<1>21. CASE RollbackFails
  BY <1>21, <1>0 DEF RollbackFails, Stop, SaveThen, Ticket
<1>22. CASE Rollback
  <2>1. tree = Append(run.base, run.patch)
    BY <1>22 DEF Rollback, TreeInv, OnTrial
  <2>2. tree' = run.base /\ run' = run
    BY <1>22, <2>1, <1>0, ButLastOfAppend DEF Rollback
  <2>3. accepted # NoPatch => In(accepted, run.base)
    BY <1>22 DEF Rollback
  <2>4. pc' # "idle" /\ (ticket'.status = "passed" => ticket.status = "passed")
    BY <1>22, <1>0 DEF Rollback, Stop, SaveThen, Ticket
  <2>5. ~OnTrial'
    BY <1>22, <1>0 DEF Rollback, Stop, SaveThen, Ticket
  <2>6. pc' \notin {"git", "approve", "artifact", "apply"}
    BY <1>22 DEF Rollback, Stop, SaveThen
  <2>7. QED
    BY <1>22, <2>2, <2>3, <2>4, <2>5, <2>6 DEF Rollback
<1>23. CASE Save
  BY <1>23, <1>0 DEF Save, SavedInv
<1>24. CASE Report
  BY <1>24, <1>0 DEF Report, Exit
<1>25. ASSUME NEW o \in Invocations, Start(o) PROVE AcceptedInv'
  BY <1>25, <1>0 DEF Start, Fresh
<1>26. CASE RefuseTorn
  BY <1>26, <1>0 DEF RefuseTorn
<1>27. CASE Crash
  BY <1>27, <1>0 DEF Crash, Exit
<1>28. CASE TearSave
  BY <1>28, <1>0 DEF TearSave, NewTicket, Exit
<1>29. CASE OperatorEdit
  BY <1>29, <1>0 DEF OperatorEdit
<1>30. CASE OperatorCommit
  BY <1>30, <1>0 DEF OperatorCommit
<1>31. CASE UNCHANGED vars
  BY <1>31 DEF vars
<1> HIDE DEF AcceptedInv
<1>32. QED
  BY <1>1, <1>2, <1>3, <1>4, <1>5, <1>6, <1>7, <1>8, <1>9, <1>10, <1>11, <1>12, <1>13, <1>14, <1>15, <1>16, <1>17, <1>18, <1>19, <1>20, <1>21, <1>22, <1>23, <1>24, <1>25, <1>26, <1>27, <1>28, <1>29, <1>30, <1>31
  DEF Next, OwnStep, Waiting, Environment

-----------------------------------------------------------------------------
\* The inductive invariant.
IInv == SavedInv /\ TreeInv /\ ArtifactInv /\ AcceptedInv

LEMMA Invariance == Spec => []IInv
<1>1. Init => IInv
  <2> SUFFICES ASSUME Init PROVE IInv
    OBVIOUS
  <2>1. PICK o \in Invocations : run = Fresh(o, <<>>)
    BY DEF Init
  <2>2. QED
    BY <2>1 DEF Init, IInv, SavedInv, TreeInv, ArtifactInv, AcceptedInv, OnTrial,
                NewTicket
<1>2. TypeOK /\ IInv /\ [Next]_vars => IInv'
  BY SavedInvStep, TreeInvStep, ArtifactInvStep, AcceptedInvStep DEF IInv
<1>3. QED
  BY <1>1, <1>2, Typing, PTL DEF Spec

\* A run that reports FAIL leaves the tree as it found it, or reports that the
\* rollback failed; a run that reports PASS adds one patch.
THEOREM RunLeavesNoResidue == Spec => []NoResidue
<1>1. TypeOK /\ IInv => NoResidue
  BY DEF IInv, TreeInv, OnTrial, NoResidue
<1>2. QED
  BY <1>1, Typing, Invariance, PTL

\* At every step of a run the tree is the run's base, plus the patch on trial.
THEOREM TreeIsAccountedFor == Spec => []TreeInv
<1>1. IInv => TreeInv
  BY DEF IInv
<1>2. QED
  BY <1>1, Invariance, PTL

\* A ticket is saved as passed only with an accepted patch, and the last accepted
\* patch stays in the tree through every later run and crash.
THEOREM AcceptedPatchIsKept == Spec => []AcceptedPatchStays
<1>1. IInv => AcceptedPatchStays
  BY DEF IInv, AcceptedInv, In, AcceptedPatchStays
<1>2. QED
  BY <1>1, Invariance, PTL

\* Wherever a run dies, the patch on trial has an artifact to reverse it with.
THEOREM TrialIsRecoverable == Spec => []TrialPatchIsRecoverable
<1>1. IInv => TrialPatchIsRecoverable
  BY DEF IInv, ArtifactInv, TrialPatchIsRecoverable
<1>2. QED
  BY <1>1, Invariance, PTL

\* A report is about the ticket as it is on disk.
THEOREM ReportsAreSaved == Spec => []ReportedTicketIsSaved
<1>1. IInv => ReportedTicketIsSaved
  BY DEF IInv, SavedInv, ReportedTicketIsSaved
<1>2. QED
  BY <1>1, Invariance, PTL

-----------------------------------------------------------------------------
(***************************************************************************)
(* RepairRun implements RepairContract: every step of a run is a step of   *)
(* the contract or leaves the ticket's status, the tree and the phase      *)
(* unchanged.                                                              *)
(***************************************************************************)
\* A step that changes neither the saved status nor the tree nor the phase.
LEMMA Stutters ==
  ASSUME disk' = disk, torn' = torn, tree' = tree, Phase' = Phase
  PROVE  UNCHANGED Contract!contractVars
  BY DEF Contract!contractVars

\* Every step keeps the contract.
LEMMA StepKeepsContract ==
  TypeOK /\ IInv /\ [Next]_vars => [Contract!CNext]_(Contract!contractVars)
<1> SUFFICES ASSUME TypeOK, IInv, [Next]_vars
             PROVE  Contract!CNext \/ UNCHANGED Contract!contractVars
  OBVIOUS
<1> USE DEF stateFiles, workspace, counters
<1>0. /\ ticket \in Ticket /\ run \in RunType /\ tree \in Seq(Patch)
      /\ run.base \in Seq(Patch) /\ run.patch \in Patch
      /\ after \in {"idle", "plan", "reverse", "report_pass", "report_fail"}
  BY DEF TypeOK, RunType
<1>a. ASSUME Exit, pc # "idle", UNCHANGED <<disk, torn, tree>>
      PROVE  Contract!End
  <2>1. Phase # "closed" /\ Phase' = "closed"
    BY <1>a DEF Phase, Exit
  <2>2. QED
    BY <1>a, <2>1 DEF Contract!End
<1>1. CASE SkipGate
  <2>1. Phase' = Phase
    BY <1>1, <1>0 DEF SkipGate, Phase, OnTrial
  <2>2. QED
    BY <1>1, <2>1, Stutters DEF SkipGate
<1>2. CASE ReproMissing
  <2>1. Phase' = Phase
    BY <1>2, <1>0 DEF ReproMissing, Stop, SaveThen, Ticket, Phase, OnTrial
  <2>2. QED
    BY <1>2, <2>1, Stutters DEF ReproMissing
<1>3. CASE ReproExists
  <2>1. Phase' = Phase
    BY <1>3, <1>0 DEF ReproExists, Phase, OnTrial
  <2>2. QED
    BY <1>3, <2>1, Stutters DEF ReproExists
<1>4. CASE ReproPasses
  <2>1. Phase' = Phase
    BY <1>4, <1>0 DEF ReproPasses, Stop, SaveThen, Ticket, Phase, OnTrial
  <2>2. QED
    BY <1>4, <2>1, Stutters DEF ReproPasses
<1>5. CASE Reproduce
  <2>1. Phase' = Phase
    BY <1>5, <1>0 DEF Reproduce, SaveThen, RunType, Ticket, Phase, OnTrial
  <2>2. QED
    BY <1>5, <2>1, Stutters DEF Reproduce
<1>6. CASE MakePlan
  <2>1. Phase' = Phase
    BY <1>6, <1>0 DEF MakePlan, Stop, SaveThen, RunType, Ticket, Phase, OnTrial
  <2>2. QED
    BY <1>6, <2>1, Stutters DEF MakePlan
<1>7. CASE NextStrategy
  <2>1. Phase' = Phase
    BY <1>7, <1>0 DEF NextStrategy, RunType, Phase, OnTrial
  <2>2. QED
    BY <1>7, <2>1, Stutters DEF NextStrategy
<1>8. CASE AgentFails
  <2>1. Phase' = Phase
    BY <1>8, <1>0 DEF AgentFails, Stop, SaveThen, Ticket, Phase, OnTrial
  <2>2. QED
    BY <1>8, <2>1, Stutters DEF AgentFails
<1>9. CASE AgentTimeout
  BY <1>9, <1>a DEF AgentTimeout, Contract!CNext
<1>10. CASE ValidDiff
  <2>1. Phase' = Phase
    BY <1>10, <1>0 DEF ValidDiff, RunType, Phase, OnTrial
  <2>2. QED
    BY <1>10, <2>1, Stutters DEF ValidDiff
<1>11. CASE RetryDiff
  <2>1. Phase' = Phase
    BY <1>11, <1>0 DEF RetryDiff, RunType, Phase, OnTrial
  <2>2. QED
    BY <1>11, <2>1, Stutters DEF RetryDiff
<1>12. CASE InvalidDiff
  <2>1. Phase' = Phase
    BY <1>12, <1>0 DEF InvalidDiff, Stop, SaveThen, RunType, Ticket, Phase, OnTrial
  <2>2. QED
    BY <1>12, <2>1, Stutters DEF InvalidDiff
<1>13. CASE NotARepository
  <2>1. Phase' = Phase
    BY <1>13, <1>0 DEF NotARepository, Stop, SaveThen, Ticket, Phase, OnTrial
  <2>2. QED
    BY <1>13, <2>1, Stutters DEF NotARepository
<1>14. CASE ReadWorkspace
  <2>1. Phase' = Phase
    BY <1>14, <1>0 DEF ReadWorkspace, RunType, Phase, OnTrial
  <2>2. QED
    BY <1>14, <2>1, Stutters DEF ReadWorkspace
<1>15. CASE Approve
  <2>1. Phase' = Phase
    BY <1>15, <1>0 DEF Approve, Stop, SaveThen, Ticket, Phase, OnTrial
  <2>2. QED
    BY <1>15, <2>1, Stutters DEF Approve
<1>16. CASE WriteArtifact
  <2>1. Phase' = Phase
    BY <1>16, <1>0 DEF WriteArtifact, Phase, OnTrial
  <2>2. QED
    BY <1>16, <2>1, Stutters DEF WriteArtifact
<1>17. CASE ApplyFails
  <2>1. Phase' = Phase
    BY <1>17, <1>0 DEF ApplyFails, Stop, SaveThen, Ticket, Phase, OnTrial
  <2>2. QED
    BY <1>17, <2>1, Stutters DEF ApplyFails
<1>18. CASE ApplyPatch
  <2>1. Phase = "open" /\ Phase' = "trial"
    BY <1>18 DEF ApplyPatch, Phase, OnTrial
  <2>2. tree' = Append(tree, run.patch) /\ tree'[Len(tree')] = run.patch
    BY <1>18, <1>0 DEF ApplyPatch
  <2>3. QED
    BY <1>18, <1>0, <2>1, <2>2 DEF ApplyPatch, Contract!CNext, Contract!Try
<1>19. CASE Accept
  <2>1. Phase' = Phase
    BY <1>19, <1>0 DEF Accept, SaveThen, RunType, Ticket, Phase, OnTrial
  <2>2. QED
    BY <1>19, <2>1, Stutters DEF Accept
<1>20. CASE Reject
  <2>1. Phase' = Phase
    BY <1>20, <1>0 DEF Reject, SaveThen, RunType, Ticket, Phase, OnTrial
  <2>2. QED
    BY <1>20, <2>1, Stutters DEF Reject
<1>21. CASE RollbackFails
  <2>1. Phase' = Phase
    BY <1>21, <1>0 DEF RollbackFails, Stop, SaveThen, Ticket, Phase, OnTrial
  <2>2. QED
    BY <1>21, <2>1, Stutters DEF RollbackFails
<1>22. CASE Rollback
  <2>1. Phase = "rejected" /\ Phase' = "open"
    BY <1>22, <1>0 DEF Rollback, Stop, SaveThen, Ticket, Phase, OnTrial
  <2>2. QED
    BY <1>22, <2>1 DEF Rollback, Contract!CNext, Contract!TakeBack
<1>23. CASE Save
  <2> USE DEF Save, SavedInv, IInv
  <2>1. /\ tree' = tree /\ disk' = ticket /\ pc' = after /\ after' = after /\ ticket' = ticket
        /\ ~torn /\ torn' = torn
    BY <1>23
  <2>2. CASE after = "plan"
    <3>1. Phase = "open" /\ Phase' = "open"
      BY <1>23, <2>1, <2>2 DEF Phase, OnTrial
    <3>2. QED
      BY <1>23, <2>1, <2>2, <3>1 DEF Contract!CNext, Contract!Mark
  <2>3. CASE after = "reverse"
    <3>1. Phase = "trial" /\ Phase' = "rejected"
      BY <1>23, <2>1, <2>3 DEF Phase, OnTrial
    <3>2. QED
      BY <1>23, <2>1, <2>3, <3>1 DEF Contract!CNext, Contract!Refuse
  <2>4. CASE after = "report_pass"
    <3>1. Phase = "trial" /\ Phase' = "accepted"
      BY <1>23, <2>1, <2>4 DEF Phase, OnTrial
    <3>2. QED
      BY <1>23, <2>1, <2>4, <3>1 DEF Contract!CNext, Contract!Keep
  <2>5. CASE after = "report_fail" /\ ticket.result = "rollback_failed"
    <3>1. Phase = "rejected" /\ Phase' = "rejected"
      BY <1>23, <2>1, <2>5 DEF Phase, OnTrial
    <3>2. disk'.status = disk.status
      BY <1>23, <2>1, <2>5
    <3>3. QED
      BY <2>1, <3>1, <3>2 DEF Contract!contractVars
  <2>6. CASE after = "report_fail" /\ ticket.result # "rollback_failed"
    <3>1. Phase = "open" /\ Phase' = "open"
      BY <1>23, <2>1, <2>6 DEF Phase, OnTrial
    <3>2. disk'.status = disk.status \/ disk'.status = "failed"
      BY <1>23, <2>1, <2>6
    <3>3. QED
      BY <2>1, <3>1, <3>2 DEF Contract!contractVars, Contract!CNext, Contract!Mark
  <2>7. QED
    BY <1>23, <1>0, <2>2, <2>3, <2>4, <2>5, <2>6
<1>24. CASE Report
  BY <1>24, <1>a DEF Report, Contract!CNext
<1>25. ASSUME NEW o \in Invocations, Start(o)
      PROVE  Contract!CNext \/ UNCHANGED Contract!contractVars
  <2>1. Phase = "closed" /\ Phase' = "open"
    BY <1>25 DEF Start, Phase, OnTrial
  <2>2. disk.status # "lost"
    BY DEF TypeOK, Ticket, Statuses
  <2>3. QED
    BY <1>25, <2>1, <2>2 DEF Start, Contract!CNext, Contract!Begin
<1>26. CASE RefuseTorn
  <2>1. Phase' = Phase
    BY <1>26, <1>0 DEF RefuseTorn, Phase, OnTrial
  <2>2. QED
    BY <1>26, <2>1, Stutters DEF RefuseTorn
<1>27. CASE Crash
  BY <1>27, <1>a DEF Crash, Contract!CNext
<1>28. CASE TearSave
  <2>1. Phase \in {"open", "trial", "rejected"}
    BY <1>28, <1>0 DEF TearSave, Phase, OnTrial, IInv, SavedInv
  <2>2. Phase' = "closed" /\ torn' /\ tree' = tree
    BY <1>28 DEF TearSave, Exit, Phase
  <2>3. QED
    BY <2>1, <2>2 DEF Contract!CNext, Contract!Lose
<1>29. CASE OperatorEdit
  <2>1. Phase' = Phase
    BY <1>29, <1>0 DEF OperatorEdit, Phase, OnTrial
  <2>2. QED
    BY <1>29, <2>1, Stutters DEF OperatorEdit
<1>30. CASE OperatorCommit
  <2>1. Phase' = Phase
    BY <1>30, <1>0 DEF OperatorCommit, Phase, OnTrial
  <2>2. QED
    BY <1>30, <2>1, Stutters DEF OperatorCommit
<1>31. CASE UNCHANGED vars
  <2>1. Phase' = Phase
    BY <1>31 DEF vars, Phase, OnTrial
  <2>2. QED
    BY <1>31, <2>1, Stutters DEF vars
<1>32. QED
  BY <1>1, <1>2, <1>3, <1>4, <1>5, <1>6, <1>7, <1>8, <1>9, <1>10, <1>11, <1>12, <1>13, <1>14, <1>15, <1>16, <1>17, <1>18, <1>19, <1>20, <1>21, <1>22, <1>23, <1>24, <1>25, <1>26, <1>27, <1>28, <1>29, <1>30, <1>31
  DEF Next, OwnStep, Waiting, Environment

\* Every behaviour of the runs of a ticket is one the contract allows.
THEOREM RunImplementsContract == Spec => ImplementsContract
<1>1. Init => Contract!CInit
  BY DEF Init, Contract!CInit, NewTicket, Phase
<1>2. QED
  BY <1>1, StepKeepsContract, Typing, Invariance, PTL
  DEF Spec, ImplementsContract, Contract!CSpec
=============================================================================
