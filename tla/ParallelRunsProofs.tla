------------------------- MODULE ParallelRunsProofs -------------------------
(***************************************************************************)
(* Proofs about ParallelRuns, for any number of processes, tickets, runs   *)
(* and kills: that runs which share a tree leave each other's patches      *)
(* alone, and what the ticket files, artifacts and reports still say.      *)
(***************************************************************************)
EXTENDS ParallelRuns, TLAPS

USE ParallelRunsAssumption

\* The locals of a process are well typed, part by part.
LEMMA JobParts ==
  ASSUME TypeOK, NEW p \in Procs
  PROVE  /\ job[p] \in JobType /\ job[p].id \in Tickets /\ job[p].run \in Nat
         /\ job[p].ticket \in File /\ job[p].plan \subseteq Strategies /\ job[p].patch \in Patch
         /\ job[p].patch[3] \in Strategies /\ job[p].ticket.memo \in Seq(Attempt)
<1>1. job[p] \in JobType
  BY DEF TypeOK
<1>2. QED
  BY <1>1 DEF JobType, File, Patch

LEMMA LocalsType ==
  ASSUME NEW t \in Tickets, NEW n \in Nat, NEW f \in File
  PROVE  Locals(t, n, f) \in JobType
  BY DEF Locals, JobType, Patch, Strategies

LEMMA NewTicketType == NewTicket \in File
<1>1. <<>> \in Seq(Attempt)
  OBVIOUS
<1>2. QED
  BY <1>1 DEF NewTicket, File, Statuses

\* What a run writes into its locals keeps them well typed.
LEMMA JobUpdates ==
  ASSUME NEW j \in JobType
  PROVE  /\ \A s \in Statuses : [j EXCEPT !.ticket.status = s] \in JobType
         /\ \A f \in File : [j EXCEPT !.ticket = f] \in JobType
         /\ \A s \in SUBSET Strategies : [j EXCEPT !.plan = s] \in JobType
         /\ \A s \in Strategies :
              [j EXCEPT !.plan = @ \ {s}, !.patch = <<j.id, j.run, s>>] \in JobType
<1>1. /\ j.ticket \in File /\ j.plan \in SUBSET Strategies /\ j.id \in Tickets /\ j.run \in Nat
  BY DEF JobType
<1>2. \A s \in Statuses : [j EXCEPT !.ticket.status = s] \in JobType
  BY <1>1 DEF JobType, File
<1>3. \A f \in File : [j EXCEPT !.ticket = f] \in JobType
  BY DEF JobType
<1>4. \A s \in SUBSET Strategies : [j EXCEPT !.plan = s] \in JobType
  BY DEF JobType
<1>5. ASSUME NEW s \in Strategies
      PROVE  [j EXCEPT !.plan = @ \ {s}, !.patch = <<j.id, j.run, s>>] \in JobType
  <2>1. <<j.id, j.run, s>> \in Patch /\ j.plan \ {s} \in SUBSET Strategies
    BY <1>1 DEF Patch
  <2>2. QED
    BY <2>1 DEF JobType
<1>6. QED
  BY <1>2, <1>3, <1>4, <1>5

\* The file a verdict leaves is well typed.
LEMMA VerdictType ==
  ASSUME TypeOK, NEW p \in Procs, NEW s \in Statuses, NEW b \in BOOLEAN
  PROVE  [status |-> s, memo |-> Recorded(p, b)] \in File
<1>1. [strategy |-> job[p].patch[3], succeeded |-> b] \in Attempt
  BY JobParts DEF Attempt
<1>2. Recorded(p, b) \in Seq(Attempt)
  BY <1>1, JobParts DEF Recorded
<1>3. QED
  BY <1>2 DEF File

\* What the steps of one process leave alone: the locals of the others.
Moves(p) ==
  \A q \in Procs : q # p => pc'[q] = pc[q] /\ after'[q] = after[q] /\ job'[q] = job[q]

LEMMA OneMoves ==
  ASSUME TypeOK, NEW p \in Procs, Step(p) \/ Crash(p) \/ \E t \in Tickets : Start(p, t)
  PROVE  Moves(p)
<1> USE DEF TypeOK, Moves, Goto, Work, SaveThen, Stay, Exit
<1>1. CASE \/ SkipReproduction(p) \/ Reproduce(p) \/ MakePlan(p) \/ Ask(p) \/ Stop(p)
  BY <1>1 DEF SkipReproduction, Reproduce, MakePlan, Ask, Stop
<1>2. CASE \/ WriteArtifact(p) \/ Apply(p) \/ Accept(p) \/ Reject(p)
  BY <1>2 DEF WriteArtifact, Apply, Accept, Reject
<1>3. CASE \/ Rollback(p) \/ RollbackFails(p) \/ Truncate(p) \/ Write(p) \/ Report(p)
  BY <1>3 DEF Rollback, RollbackFails, Truncate, Write, Report
<1>4. CASE Crash(p) \/ \E t \in Tickets : Start(p, t)
  BY <1>4 DEF Crash, Start
<1>5. QED
  BY <1>1, <1>2, <1>3, <1>4 DEF Step

\* A step keeps the locals of its process well typed.
LEMMA LocalType ==
  ASSUME TypeOK, NEW p \in Procs, Step(p) \/ Crash(p) \/ \E t \in Tickets : Start(p, t)
  PROVE  /\ pc' \in [Procs -> Labels]
         /\ after' \in [Procs -> {"idle", "plan", "reverse", "report"}]
         /\ job' \in [Procs -> JobType]
<1> USE DEF TypeOK, Goto, Work, SaveThen, Stay
<1>1. CASE SkipReproduction(p) \/ WriteArtifact(p) \/ Apply(p) \/ Rollback(p)
           \/ RollbackFails(p) \/ Truncate(p) \/ Write(p)
  BY <1>1 DEF SkipReproduction, WriteArtifact, Apply, Rollback, RollbackFails, Truncate, Write,
     Labels
<1>2. CASE Reproduce(p) \/ Stop(p)
  <2>1. PICK s \in Statuses : job' = [job EXCEPT ![p] = [job[p] EXCEPT !.ticket.status = s]]
    BY <1>2 DEF Reproduce, Stop, Statuses
  <2> DEFINE j == [job[p] EXCEPT !.ticket.status = s]
  <2>2. j \in JobType
    BY JobUpdates, JobParts
  <2>3. job' = [job EXCEPT ![p] = j]
    BY <2>1
  <2> HIDE DEF j
  <2>4. job' \in [Procs -> JobType]
    BY <2>2, <2>3
  <2>5. QED
    BY <1>2, <2>4 DEF Reproduce, Stop, Labels
<1>3. CASE MakePlan(p)
  <2>1. StrategyAttempts(job[p].ticket.memo) \in SUBSET Strategies
    BY DEF StrategyAttempts
  <2>2. [job[p] EXCEPT !.plan = StrategyAttempts(job[p].ticket.memo)] \in JobType
    BY <2>1, JobUpdates, JobParts
  <2>3. QED
    BY <1>3, <2>2 DEF MakePlan, Labels
<1>4. CASE Ask(p)
  <2>1. PICK s \in job[p].plan :
          job' = [job EXCEPT ![p] = [job[p] EXCEPT !.plan = @ \ {s},
                                       !.patch = <<job[p].id, job[p].run, s>>]]
    BY <1>4 DEF Ask
  <2>2. s \in Strategies
    BY JobParts
  <2>3. job' \in [Procs -> JobType]
    BY <2>1, <2>2, JobUpdates, JobParts
  <2>4. QED
    BY <1>4, <2>3 DEF Ask, Labels
<1>5. CASE Accept(p) \/ Reject(p)
  <2>1. PICK f \in File : job' = [job EXCEPT ![p] = [job[p] EXCEPT !.ticket = f]]
    BY <1>5, VerdictType DEF Accept, Reject, Statuses
  <2> DEFINE j == [job[p] EXCEPT !.ticket = f]
  <2>2. j \in JobType
    BY JobUpdates, JobParts
  <2>3. job' = [job EXCEPT ![p] = j]
    BY <2>1
  <2> HIDE DEF j
  <2>4. job' \in [Procs -> JobType]
    BY <2>2, <2>3
  <2>5. QED
    BY <1>5, <2>4 DEF Accept, Reject, Labels
<1>6. CASE Report(p) \/ Crash(p)
  <2>1. Locals(job[p].id, 0, NewTicket) \in JobType
    BY JobParts, LocalsType, NewTicketType
  <2>2. QED
    BY <1>6, <2>1 DEF Report, Crash, Exit, Labels
<1>7. CASE \E t \in Tickets : Start(p, t)
  <2>1. PICK t \in Tickets : Start(p, t)
    BY <1>7
  <2>2. files[t] \in File /\ runs + 1 \in Nat
    OBVIOUS
  <2>3. Locals(t, runs + 1, files[t]) \in JobType
    BY <2>2, LocalsType
  <2>4. QED
    BY <2>1, <2>3 DEF Start, Labels
<1>8. QED
  BY <1>1, <1>2, <1>3, <1>4, <1>5, <1>6, <1>7 DEF Step

\* The state stays well typed (cli.py:745-1360).
THEOREM Typing == Spec => []TypeOK
<1>1. Init => TypeOK
  <2> SUFFICES ASSUME Init PROVE TypeOK
    OBVIOUS
  <2>1. files \in [Tickets -> File]
    BY NewTicketType DEF Init
  <2>2. job \in [Procs -> JobType]
    BY NewTicketType, LocalsType DEF Init
  <2>3. QED
    BY <2>1, <2>2 DEF Init, TypeOK, Labels
<1>2. TypeOK /\ [Next]_vars => TypeOK'
  <2> SUFFICES ASSUME TypeOK, [Next]_vars PROVE TypeOK'
    OBVIOUS
  <2>1. CASE RefuseTorn \/ UNCHANGED vars
    BY <2>1 DEF TypeOK, RefuseTorn, vars, saved, disk, history, bounds
  <2>2. ASSUME NEW p \in Procs, Step(p) \/ Crash(p) \/ \E t \in Tickets : Start(p, t)
        PROVE  TypeOK'
    <3>1. /\ pc' \in [Procs -> Labels]
          /\ after' \in [Procs -> {"idle", "plan", "reverse", "report"}]
          /\ job' \in [Procs -> JobType]
      BY <2>2, LocalType
    <3>2. /\ job[p].patch \in Patch /\ job[p].id \in Tickets /\ job[p].ticket \in File
          /\ job[p].ticket.memo \in Seq(Attempt) /\ job[p].patch[3] \in Strategies
      BY JobParts
    <3> USE DEF TypeOK, saved, disk, history, bounds, Stay
    <3>3. CASE SkipReproduction(p) \/ Reproduce(p) \/ MakePlan(p) \/ Ask(p) \/ Stop(p)
               \/ Reject(p)
      BY <3>1, <3>3 DEF SkipReproduction, Reproduce, MakePlan, Ask, Stop, Reject
    <3>4. CASE WriteArtifact(p)
      <4>1. TagOf(p) \in Tag
        BY <3>2 DEF TagOf, Tag
      <4>2. DOMAIN artifacts' = DOMAIN artifacts \cup {TagOf(p)}
            /\ \A g \in DOMAIN artifacts' :
                 artifacts'[g] = IF g = TagOf(p) THEN job[p].patch ELSE artifacts[g]
        BY <3>4 DEF WriteArtifact
      <4>3. QED
        BY <3>1, <3>2, <3>4, <4>1, <4>2 DEF WriteArtifact
    <3>5. CASE Apply(p) \/ Accept(p) \/ Rollback(p) \/ RollbackFails(p)
      BY <3>1, <3>2, <3>5 DEF Apply, Accept, Rollback, RollbackFails
    <3>6. CASE Truncate(p) \/ Write(p)
      <4>1. files' \in [Tickets -> File]
        <5>1. CASE Truncate(p)
          BY <3>2, <5>1, NewTicketType DEF Truncate
        <5>2. CASE Write(p)
          BY <3>2, <5>2, NewTicketType DEF Write
        <5>3. QED
          BY <3>6, <5>1, <5>2
      <4>2. torn' \subseteq Tickets /\ mixed' \subseteq Procs
        <5>1. CASE Truncate(p)
          BY <3>2, <5>1 DEF Truncate
        <5>2. CASE Write(p)
          BY <3>2, <5>2 DEF Write
        <5>3. QED
          BY <3>6, <5>1, <5>2
      <4>3. QED
        BY <3>1, <3>6, <4>1, <4>2 DEF Truncate, Write
    <3>7. CASE Report(p)
      <4>1. now' \in Nat
        BY <3>7, ParallelRunsAssumption DEF Report
      <4>2. NameOf(p, now') \in ReportName
        BY <3>2, <4>1 DEF NameOf, ReportName
      <4>3. QED
        BY <3>1, <3>7, <4>1, <4>2 DEF Report
    <3>8. CASE Crash(p)
      BY <3>1, <3>2, <3>8 DEF Crash
    <3>9. CASE \E t \in Tickets : Start(p, t)
      BY <3>1, <3>9 DEF Start
    <3>10. QED
      BY <2>2, <3>3, <3>4, <3>5, <3>6, <3>7, <3>8, <3>9 DEF Step
  <2>3. QED
    BY <2>1, <2>2 DEF Next
<1>3. QED
  BY <1>1, <1>2, PTL DEF Spec

-----------------------------------------------------------------------------
\* The run has accepted its patch, lost it, or has none: it is about to end.
Ending(p) == pc[p] = "report" \/ (pc[p] \in {"save", "write"} /\ after[p] = "report")

\* Patches are told apart by the run that made them, and a run that is not yet
\* ending has none among those that stay.
OwnerInv ==
  /\ \A p \in Procs : job[p].patch[1] = job[p].id /\ job[p].patch[2] = job[p].run
  /\ \A p \in Procs : Active(p) => job[p].run \in 1..runs
  /\ \A p, q \in Procs : Active(p) /\ Active(q) /\ job[p].run = job[q].run => p = q
  /\ \A k \in kept \cup stranded : k[2] \in 1..runs
  /\ \A p \in Procs : Active(p) /\ ~Ending(p) =>
       \A k \in kept \cup stranded : k[2] # job[p].run

\* A step that changes nothing of what OwnerInv is about.
Quiet(p) ==
  /\ UNCHANGED <<kept, stranded, tree, runs>>
  /\ job'[p].patch = job[p].patch /\ job'[p].id = job[p].id /\ job'[p].run = job[p].run
  /\ Active(p) /\ (OnTrial(p)' <=> OnTrial(p))
  /\ (Active(p)' /\ ~Ending(p)' => ~Ending(p))

LEMMA QuietSteps ==
  ASSUME TypeOK, NEW p \in Procs,
         \/ SkipReproduction(p) \/ Reproduce(p) \/ MakePlan(p) \/ Stop(p)
         \/ WriteArtifact(p) \/ Reject(p) \/ Truncate(p) \/ Write(p)
  PROVE  Quiet(p)
<1>1. job[p] \in JobType /\ p \in DOMAIN pc /\ p \in DOMAIN after /\ p \in DOMAIN job
  BY JobParts DEF TypeOK
<1> USE DEF Quiet, Active, OnTrial, Ending, Goto, Work, SaveThen, Stay, history, bounds, disk
<1>2. CASE SkipReproduction(p) \/ WriteArtifact(p)
  BY <1>1, <1>2 DEF SkipReproduction, WriteArtifact
<1>3. CASE Reproduce(p) \/ Stop(p)
  BY <1>1, <1>3 DEF Reproduce, Stop, JobType
<1>4. CASE MakePlan(p)
  BY <1>1, <1>4 DEF MakePlan, JobType
<1>5. CASE Reject(p)
  BY <1>1, <1>5 DEF Reject, JobType
<1>6. CASE Truncate(p)
  BY <1>1, <1>6 DEF Truncate
<1>7. CASE Write(p)
  <2>1. /\ pc[p] = "write" /\ pc'[p] = after[p] /\ after'[p] = "idle" /\ job' = job
        /\ UNCHANGED <<kept, stranded, tree, runs>>
    BY <1>1, <1>7 DEF Write
  <2>2. after[p] \in {"idle", "plan", "reverse", "report"}
    BY DEF TypeOK
  <2>3. QED
    BY <2>1, <2>2
<1>8. QED
  BY <1>2, <1>3, <1>4, <1>5, <1>6, <1>7

LEMMA OwnerStep ==
  ASSUME TypeOK, OwnerInv, [Next]_vars
  PROVE  OwnerInv'
<1> USE DEF OwnerInv
<1>1. CASE RefuseTorn \/ UNCHANGED vars
  <2>1. UNCHANGED <<kept, stranded, pc, after, job>> /\ runs' \in {runs, runs + 1} /\ runs \in Nat
    BY <1>1 DEF RefuseTorn, vars, history, bounds, TypeOK
  <2>2. QED
    BY <2>1 DEF Active, Ending
<1>2. ASSUME NEW p \in Procs, Step(p) \/ Crash(p) \/ \E t \in Tickets : Start(p, t)
      PROVE  OwnerInv'
  <2>1. /\ Moves(p) /\ p \in DOMAIN pc /\ p \in DOMAIN after /\ p \in DOMAIN job
        /\ runs \in Nat /\ job[p] \in JobType /\ \A q \in Procs : job[q].run \in Nat
    BY <1>2, OneMoves, JobParts DEF TypeOK
  <2> USE DEF Moves, Active, Ending
  <2>2. CASE \/ SkipReproduction(p) \/ Reproduce(p) \/ MakePlan(p) \/ Stop(p)
             \/ WriteArtifact(p) \/ Reject(p) \/ Truncate(p) \/ Write(p)
    <3>1. Quiet(p)
      BY <2>2, QuietSteps
    <3>2. QED
      BY <2>1, <3>1 DEF Quiet
  <2>3. CASE Ask(p)
    <3>1. /\ pc[p] = "ask" /\ pc'[p] = "artifact" /\ UNCHANGED <<kept, stranded, runs>>
          /\ job'[p].id = job[p].id /\ job'[p].run = job[p].run
          /\ job'[p].patch[1] = job[p].id /\ job'[p].patch[2] = job[p].run
      <4>1. PICK s \in job[p].plan :
              Work(p, [job[p] EXCEPT !.plan = @ \ {s}, !.patch = <<job[p].id, job[p].run, s>>])
        BY <2>3 DEF Ask
      <4>2. /\ job'[p].id = job[p].id /\ job'[p].run = job[p].run
            /\ job'[p].patch = <<job[p].id, job[p].run, s>>
        BY <2>1, <4>1 DEF Work, JobType
      <4>3. QED
        BY <2>1, <2>3, <4>2 DEF Ask, Goto, Stay, history, bounds
    <3>2. QED
      BY <2>1, <3>1
  <2>4. CASE Apply(p) \/ Rollback(p)
    <3>1. /\ pc[p] \in {"apply", "reverse"} /\ pc'[p] # "idle" /\ job' = job
          /\ UNCHANGED <<kept, stranded, runs>>
      BY <2>1, <2>4 DEF Apply, Rollback, Goto, SaveThen, Stay, history, bounds
    <3>2. QED
      BY <2>1, <3>1
  <2>5. CASE Accept(p) \/ RollbackFails(p)
    <3>1. /\ pc[p] \in {"validate", "reverse"} /\ pc'[p] = "save" /\ after'[p] = "report"
          /\ runs' = runs
          /\ kept' \cup stranded' = kept \cup stranded \cup {job[p].patch}
          /\ job'[p].patch = job[p].patch /\ job'[p].id = job[p].id /\ job'[p].run = job[p].run
      BY <2>1, <2>5 DEF Accept, RollbackFails, Work, SaveThen, bounds, history, JobType
    <3>2. QED
      BY <2>1, <3>1
  <2>6. CASE Report(p) \/ Crash(p)
    <3>1. /\ pc[p] # "idle" /\ pc'[p] = "idle" /\ runs' = runs
          /\ kept' \cup stranded' \subseteq kept \cup stranded \cup {job[p].patch}
          /\ job'[p].patch[1] = job'[p].id /\ job'[p].patch[2] = job'[p].run
      BY <2>1, <2>6 DEF Report, Crash, Exit, Work, Locals, history, bounds
    <3>2. QED
      BY <2>1, <3>1
  <2>7. CASE \E t \in Tickets : Start(p, t)
    <3>1. /\ pc[p] = "idle" /\ pc'[p] = "begin" /\ runs' = runs + 1
          /\ UNCHANGED <<kept, stranded>> /\ job'[p].run = runs + 1
          /\ job'[p].patch[1] = job'[p].id /\ job'[p].patch[2] = job'[p].run
      BY <2>1, <2>7 DEF Start, Goto, Work, Locals
    <3>2. QED
      BY <2>1, <3>1
  <2>8. QED
    BY <1>2, <2>2, <2>3, <2>4, <2>5, <2>6, <2>7 DEF Step
<1>3. QED
  BY <1>1, <1>2 DEF Next

\* The tree is the accepted patches, those on trial and those left behind
\* (cli.py:1149-1305).
LEMMA TreeStep ==
  ASSUME TypeOK, OwnerInv, TreeIsShared, [Next]_vars
  PROVE  TreeIsShared'
<1> USE DEF TreeIsShared
<1>1. CASE RefuseTorn \/ UNCHANGED vars
  BY <1>1 DEF RefuseTorn, vars, history, bounds, OnTrial
<1>2. ASSUME NEW p \in Procs, Step(p) \/ Crash(p) \/ \E t \in Tickets : Start(p, t)
      PROVE  TreeIsShared'
  <2>1. /\ Moves(p) /\ p \in DOMAIN pc /\ p \in DOMAIN after /\ p \in DOMAIN job
        /\ job[p] \in JobType
    BY <1>2, OneMoves, JobParts DEF TypeOK
  <2>2. /\ \A q \in Procs : q # p => (OnTrial(q)' <=> OnTrial(q))
        /\ \A q \in Procs : q # p => job'[q].patch = job[q].patch
    BY <2>1 DEF Moves, OnTrial
  <2> DEFINE others == {job[q].patch : q \in {r \in Procs : OnTrial(r) /\ r # p}}
  <2>3. /\ tree = kept \cup stranded \cup others \cup (IF OnTrial(p) THEN {job[p].patch} ELSE {})
        /\ {job'[q].patch : q \in {r \in Procs : OnTrial(r)'}} =
             others \cup (IF OnTrial(p)' THEN {job'[p].patch} ELSE {})
    BY <2>2
  <2> HIDE DEF others
  <2>4. CASE \/ SkipReproduction(p) \/ Reproduce(p) \/ MakePlan(p) \/ Stop(p)
             \/ WriteArtifact(p) \/ Reject(p) \/ Truncate(p) \/ Write(p)
    <3>1. Quiet(p)
      BY <2>4, QuietSteps
    <3>2. QED
      BY <2>3, <3>1 DEF Quiet
  <2>5. CASE Ask(p) \/ \E t \in Tickets : Start(p, t)
    <3>1. ~OnTrial(p) /\ ~OnTrial(p)' /\ UNCHANGED <<tree, kept, stranded>>
      BY <2>1, <2>5 DEF Ask, Start, Goto, Work, Stay, history, OnTrial
    <3>2. QED
      BY <2>3, <3>1
  <2>6. CASE Apply(p)
    <3>1. /\ ~OnTrial(p) /\ OnTrial(p)' /\ job' = job /\ UNCHANGED <<kept, stranded>>
          /\ tree' = tree \cup {job[p].patch}
      BY <2>1, <2>6 DEF Apply, Goto, Stay, history, OnTrial
    <3>2. QED
      BY <2>3, <3>1
  <2>7. CASE Accept(p) \/ RollbackFails(p)
    <3>1. /\ OnTrial(p) /\ ~OnTrial(p)' /\ tree' = tree
          /\ kept' \cup stranded' = kept \cup stranded \cup {job[p].patch}
      BY <2>1, <2>7 DEF Accept, RollbackFails, Work, SaveThen, OnTrial
    <3>2. QED
      BY <2>3, <3>1
  <2>8. CASE Rollback(p)
    <3>1. /\ OnTrial(p) /\ ~OnTrial(p)' /\ UNCHANGED <<kept, stranded>>
          /\ tree' = tree \ {job[p].patch}
      BY <2>1, <2>8 DEF Rollback, PatchText, Goto, SaveThen, history, OnTrial
    <3>2. job[p].patch \notin kept \cup stranded
      <4>1. pc[p] = "reverse"
        BY <2>8 DEF Rollback
      <4>2. QED
        BY <4>1 DEF OwnerInv, Active, Ending
    <3>3. job[p].patch \notin others
      <4>1. \A q \in Procs : OnTrial(q) => Active(q)
        BY DEF OnTrial, Active
      <4>2. QED
        BY <3>1, <4>1 DEF OwnerInv, others
    <3>4. QED
      BY <2>3, <3>1, <3>2, <3>3
  <2>9. CASE Report(p) \/ Crash(p)
    <3>1. /\ ~OnTrial(p)' /\ tree' = tree /\ kept' = kept
          /\ stranded' = stranded \cup (IF OnTrial(p) THEN {job[p].patch} ELSE {})
      BY <2>1, <2>9 DEF Report, Crash, Exit, history, OnTrial
    <3>2. QED
      BY <2>3, <3>1
  <2>10. QED
    BY <1>2, <2>4, <2>5, <2>6, <2>7, <2>8, <2>9 DEF Step
<1>3. QED
  BY <1>1, <1>2 DEF Next

LEMMA SharingInvariance == Spec => [](TypeOK /\ OwnerInv /\ TreeIsShared)
<1>1. Init => OwnerInv /\ TreeIsShared
  BY DEF Init, OwnerInv, TreeIsShared, Active, OnTrial, Locals
<1>2. QED
  BY <1>1, OwnerStep, TreeStep, Typing, PTL DEF Spec

\* No run takes out a patch of another run, nor one that was accepted, whatever
\* runs at the same time (cli.py:1302-1305).
THEOREM RunsShareTheTree == Spec => []TreeIsShared
  BY SharingInvariance, PTL

-----------------------------------------------------------------------------
\* A ticket that says "passed", on file or in a process, has an accepted patch.
PassedInv ==
  /\ \A t \in Tickets : files[t].status = "passed" => \E k \in kept : k[1] = t
  /\ \A p \in Procs : job[p].ticket.status = "passed" => \E k \in kept : k[1] = job[p].id

\* A ticket whose runs have never overlapped has one run at most, the memo of that
\* run goes on from the one on file, and the file is whole unless that run is
\* writing it.  Only runs that overlap write into each other's files.
MemoInv ==
  /\ \A p \in Procs : Active(p) /\ job[p].id \notin overlapped =>
       /\ \A q \in Procs : Active(q) /\ job[q].id = job[p].id => q = p
       /\ Extends(job[p].ticket.memo, files[job[p].id].memo)
       /\ job[p].id \in torn => pc[p] = "write"
  /\ \A p \in mixed : pc[p] = "write" /\ job[p].id \in overlapped

\* A patch accepted for the ticket, and an artifact of it that no later run of
\* the ticket writes over.
HasArtifact(t, n) ==
  \E k \in kept : k[1] = t /\
    \E g \in DOMAIN artifacts : g[1] = t /\ g[2] <= n /\ artifacts[g] = k

ArtifactInv ==
  /\ \A t \in Tickets \ overlapped :
       files[t].status = "passed" => HasArtifact(t, Len(files[t].memo))
  /\ \A p \in Procs : Active(p) /\ job[p].id \notin overlapped =>
       /\ job[p].ticket.status = "passed" => HasArtifact(job[p].id, Len(job[p].ticket.memo))
       /\ pc[p] \in {"apply", "validate"} =>
            TagOf(p) \in DOMAIN artifacts /\ artifacts[TagOf(p)] = job[p].patch

\* The steps that leave the files, the memo in memory and the history alone.
Steady(p) ==
  /\ Active(p) /\ pc[p] # "write" /\ pc'[p] # "write"
  /\ UNCHANGED <<saved, kept, overlapped>>
  /\ job'[p].id = job[p].id /\ job'[p].ticket.memo = job[p].ticket.memo
  /\ job'[p].ticket.status \in {job[p].ticket.status, "reproduced", "failed"}

LEMMA SteadySteps ==
  ASSUME TypeOK, NEW p \in Procs,
         \/ SkipReproduction(p) \/ Reproduce(p) \/ MakePlan(p) \/ Ask(p) \/ Stop(p)
         \/ WriteArtifact(p) \/ Apply(p) \/ Rollback(p) \/ RollbackFails(p)
  PROVE  Steady(p)
<1>1. job[p] \in JobType /\ job[p].ticket \in File /\ p \in DOMAIN job /\ p \in DOMAIN pc
  BY JobParts DEF TypeOK
<1> USE DEF Steady, Active, Goto, SaveThen, Work, Stay, history, saved, disk
<1>2. CASE SkipReproduction(p) \/ WriteArtifact(p) \/ Apply(p) \/ Rollback(p) \/ RollbackFails(p)
  BY <1>1, <1>2 DEF SkipReproduction, WriteArtifact, Apply, Rollback, RollbackFails
<1>3. CASE Reproduce(p) \/ Stop(p)
  <2>1. PICK s \in {"reproduced", "failed"} :
          job' = [job EXCEPT ![p] = [job[p] EXCEPT !.ticket.status = s]]
    BY <1>3 DEF Reproduce, Stop
  <2>2. job'[p].id = job[p].id /\ job'[p].ticket.memo = job[p].ticket.memo
        /\ job'[p].ticket.status = s
    BY <1>1, <2>1 DEF JobType, File
  <2>3. pc[p] \in {"begin", "ask", "apply"} /\ pc'[p] = "save"
    BY <1>1, <1>3 DEF Reproduce, Stop
  <2>4. UNCHANGED <<saved, kept, overlapped>>
    BY <1>3 DEF Reproduce, Stop
  <2>5. QED
    BY <2>2, <2>3, <2>4
<1>4. CASE MakePlan(p)
  BY <1>1, <1>4 DEF MakePlan, JobType
<1>5. CASE Ask(p)
  <2>1. PICK s \in job[p].plan :
          Work(p, [job[p] EXCEPT !.plan = @ \ {s}, !.patch = <<job[p].id, job[p].run, s>>])
    BY <1>5 DEF Ask
  <2>2. job'[p].id = job[p].id /\ job'[p].ticket = job[p].ticket
    BY <1>1, <2>1 DEF JobType
  <2>3. pc[p] = "ask" /\ pc'[p] = "artifact" /\ UNCHANGED <<saved, kept, overlapped>>
    BY <1>1, <1>5 DEF Ask
  <2>4. QED
    BY <2>2, <2>3
<1>6. QED
  BY <1>2, <1>3, <1>4, <1>5

\* What the other steps do to the files and to the ticket in memory.
LEMMA VerdictSteps ==
  ASSUME TypeOK, NEW p \in Procs, Accept(p) \/ Reject(p)
  PROVE  /\ Active(p) /\ pc[p] = "validate" /\ pc'[p] = "save"
         /\ UNCHANGED <<saved, overlapped, artifacts>>
         /\ job'[p].id = job[p].id
         /\ \E a \in Attempt : job'[p].ticket.memo = Append(job[p].ticket.memo, a)
         /\ \/ job'[p].ticket.status = "failed" /\ kept' = kept
            \/ job'[p].ticket.status = "passed" /\ kept' = kept \cup {job[p].patch}
<1>1. job[p] \in JobType /\ p \in DOMAIN job /\ p \in DOMAIN pc
  BY JobParts DEF TypeOK
<1>2. PICK b \in BOOLEAN, s \in {"passed", "failed"} :
        /\ job' = [job EXCEPT ![p] = [job[p] EXCEPT !.ticket = [status |-> s, memo |-> Recorded(p, b)]]]
        /\ \/ s = "failed" /\ kept' = kept
           \/ s = "passed" /\ kept' = kept \cup {job[p].patch}
  BY DEF Accept, Reject, Work, history
<1>3. job'[p].id = job[p].id /\ job'[p].ticket = [status |-> s, memo |-> Recorded(p, b)]
  BY <1>1, <1>2 DEF JobType
<1>4. \E a \in Attempt : job'[p].ticket.memo = Append(job[p].ticket.memo, a)
  <2>1. [strategy |-> job[p].patch[3], succeeded |-> b] \in Attempt
    BY JobParts DEF Attempt
  <2>2. QED
    BY <1>3, <2>1 DEF Recorded
<1>5. /\ Active(p) /\ pc[p] = "validate" /\ pc'[p] = "save"
      /\ UNCHANGED <<saved, overlapped, artifacts>>
  BY <1>1 DEF Accept, Reject, SaveThen, Active, saved, disk, history
<1>6. job'[p].ticket.status = s
  BY <1>3
<1>7. QED
  BY <1>2, <1>3, <1>4, <1>5, <1>6

LEMMA EndSteps ==
  ASSUME TypeOK, NEW p \in Procs, Report(p) \/ Crash(p)
  PROVE  /\ pc'[p] = "idle" /\ job'[p].ticket = NewTicket
         /\ UNCHANGED <<files, torn, kept, overlapped, artifacts>>
         /\ mixed' = mixed \/ mixed' = mixed \ {p}
  BY DEF TypeOK, Report, Crash, Exit, Work, Locals, history, saved, disk

LEMMA StartSteps ==
  ASSUME TypeOK, NEW p \in Procs, NEW t \in Tickets, Start(p, t)
  PROVE  /\ ~Active(p) /\ pc'[p] = "begin" /\ job'[p].id = t /\ job'[p].ticket = files[t]
         /\ UNCHANGED <<saved, kept, artifacts>> /\ overlapped \subseteq overlapped'
         /\ t \notin torn
         /\ t \notin overlapped' => \A q \in Procs : Active(q) => job[q].id # t
  BY DEF TypeOK, Start, Goto, Work, Locals, Active, saved, disk

\* What a save does to the file and to the process.
LEMMA SaveSteps ==
  ASSUME TypeOK, NEW p \in Procs, Truncate(p) \/ Write(p)
  PROVE  /\ Active(p) /\ job' = job /\ UNCHANGED <<kept, overlapped, artifacts>>
         /\ files'[job[p].id] \in {NewTicket, job[p].ticket}
         /\ \A t \in Tickets : t # job[p].id =>
              files'[t] = files[t] /\ (t \in torn' <=> t \in torn)
         /\ Truncate(p) => /\ pc[p] = "save" /\ pc'[p] = "write"
                           /\ mixed' = {q \in mixed : job[q].id # job[p].id}
         /\ Write(p) => /\ pc[p] = "write"
                        /\ pc'[p] \in {"idle", "plan", "reverse", "report"}
                        /\ mixed' = (mixed \ {p}) \cup
                                      {q \in Procs \ {p} : Writing(q, job[p].id)}
                        /\ p \notin mixed => /\ files'[job[p].id] = job[p].ticket
                                             /\ job[p].id \notin torn'
<1>1. /\ p \in DOMAIN pc /\ job[p].id \in DOMAIN files
      /\ after[p] \in {"idle", "plan", "reverse", "report"}
  BY JobParts DEF TypeOK
<1>2. CASE Truncate(p)
  BY <1>1, <1>2 DEF Truncate, Write, Goto, Stay, history, Active, TypeOK
<1>3. CASE Write(p)
  <2>1. PICK whole \in IF p \in mixed THEN BOOLEAN ELSE {TRUE} :
          /\ files' = [files EXCEPT ![job[p].id] = IF whole THEN job[p].ticket ELSE NewTicket]
          /\ torn' = IF whole THEN torn \ {job[p].id} ELSE torn \cup {job[p].id}
    BY <1>3 DEF Write
  <2>2. /\ files'[job[p].id] = IF whole THEN job[p].ticket ELSE NewTicket
        /\ \A t \in Tickets : t # job[p].id => files'[t] = files[t]
    BY <1>1, <2>1 DEF TypeOK
  <2>3. /\ pc[p] = "write" /\ pc'[p] = after[p] /\ job' = job
        /\ UNCHANGED <<kept, overlapped, artifacts>> /\ Active(p) /\ ~Truncate(p)
        /\ mixed' = (mixed \ {p}) \cup {q \in Procs \ {p} : Writing(q, job[p].id)}
    BY <1>1, <1>3 DEF Write, Truncate, history, Active
  <2>4. QED
    BY <1>1, <2>1, <2>2, <2>3
<1>4. QED
  BY <1>2, <1>3

LEMMA PassedStep ==
  ASSUME TypeOK, OwnerInv, PassedInv, [Next]_vars
  PROVE  PassedInv'
<1> USE DEF PassedInv
<1>1. CASE RefuseTorn \/ UNCHANGED vars
  BY <1>1 DEF RefuseTorn, vars, history, saved, disk
<1>2. ASSUME NEW p \in Procs, Step(p) \/ Crash(p) \/ \E t \in Tickets : Start(p, t)
      PROVE  PassedInv'
  <2>1. \A q \in Procs : q # p => job'[q] = job[q]
    BY <1>2, OneMoves DEF Moves
  <2>2. CASE \/ SkipReproduction(p) \/ Reproduce(p) \/ MakePlan(p) \/ Ask(p) \/ Stop(p)
             \/ WriteArtifact(p) \/ Apply(p) \/ Rollback(p) \/ RollbackFails(p)
    BY <2>1, <2>2, SteadySteps DEF Steady, saved
  <2>3. CASE Accept(p) \/ Reject(p)
    <3>1. job[p].patch[1] = job[p].id
      BY DEF OwnerInv
    <3>2. QED
      BY <2>1, <2>3, <3>1, VerdictSteps DEF saved
  <2>4. CASE Truncate(p) \/ Write(p)
    BY <2>4, SaveSteps DEF NewTicket
  <2>5. CASE Report(p) \/ Crash(p)
    BY <2>1, <2>5, EndSteps DEF NewTicket
  <2>6. CASE \E t \in Tickets : Start(p, t)
    BY <2>1, <2>6, StartSteps DEF saved
  <2>7. QED
    BY <1>2, <2>2, <2>3, <2>4, <2>5, <2>6 DEF Step
<1>3. QED
  BY <1>1, <1>2 DEF Next

\* A ticket on file as passed has a patch in the tree (cli.py:1227-1247, 1302).
THEOREM PassedTicketsHoldPatches == Spec => []PassedTicketHasItsPatch
<1>1. Init => PassedInv
  BY DEF Init, PassedInv, NewTicket, Locals
<1>2. PassedInv /\ TreeIsShared => PassedTicketHasItsPatch
  BY DEF PassedInv, TreeIsShared, PassedTicketHasItsPatch
<1>3. QED
  BY <1>1, <1>2, PassedStep, SharingInvariance, PTL DEF Spec

\* Extending a memo that goes on from the file's one.
LEMMA ExtendsAppend ==
  ASSUME NEW m \in Seq(Attempt), NEW f \in Seq(Attempt), NEW a \in Attempt, Extends(m, f)
  PROVE  Extends(Append(m, a), f)
  BY DEF Extends

LEMMA MemoStep ==
  ASSUME TypeOK, MemoInv, [Next]_vars
  PROVE  MemoInv'
<1> USE DEF MemoInv
<1>1. CASE RefuseTorn \/ UNCHANGED vars
  BY <1>1 DEF RefuseTorn, vars, history, saved, disk, Active
<1>2. ASSUME NEW p \in Procs, Step(p) \/ Crash(p) \/ \E t \in Tickets : Start(p, t)
      PROVE  MemoInv'
  <2>1. /\ \A q \in Procs : q # p =>
             job'[q] = job[q] /\ pc'[q] = pc[q] /\ (Active(q)' <=> Active(q))
        /\ mixed \subseteq Procs
    BY <1>2, OneMoves DEF Moves, Active, TypeOK
  <2>2. CASE \/ SkipReproduction(p) \/ Reproduce(p) \/ MakePlan(p) \/ Ask(p) \/ Stop(p)
             \/ WriteArtifact(p) \/ Apply(p) \/ Rollback(p) \/ RollbackFails(p)
    <3>1. Steady(p)
      BY <2>2, SteadySteps
    <3>2. p \notin mixed
      BY <3>1 DEF Steady
    <3>3. QED
      BY <2>1, <3>1, <3>2 DEF Steady, saved
  <2>3. CASE Accept(p) \/ Reject(p)
    <3>1. PICK a \in Attempt : job'[p].ticket.memo = Append(job[p].ticket.memo, a)
      BY <2>3, VerdictSteps
    <3>2. /\ Active(p) /\ job'[p].id = job[p].id /\ UNCHANGED <<saved, overlapped>>
          /\ pc[p] # "write" /\ p \notin mixed
      BY <2>3, VerdictSteps
    <3>3. job[p].id \notin overlapped => Extends(job'[p].ticket.memo, files[job[p].id].memo)
      <4>1. job[p].ticket.memo \in Seq(Attempt) /\ files[job[p].id].memo \in Seq(Attempt)
        BY JobParts DEF TypeOK, File
      <4>2. QED
        BY <3>1, <3>2, <4>1, ExtendsAppend
    <3>4. QED
      BY <2>1, <3>2, <3>3 DEF saved
  <2>4. CASE Truncate(p) \/ Write(p)
    <3>1. /\ Extends(job[p].ticket.memo, job[p].ticket.memo)
          /\ Extends(job[p].ticket.memo, NewTicket.memo)
      BY JobParts DEF Extends, NewTicket
    <3>2. \A q \in Procs : job[q].id \in Tickets
      BY JobParts
    <3>3. /\ job' = job /\ overlapped' = overlapped /\ Active(p)
          /\ Extends(job[p].ticket.memo, files'[job[p].id].memo)
          /\ \A t \in Tickets : t # job[p].id =>
               files'[t] = files[t] /\ (t \in torn' <=> t \in torn)
      BY <2>4, <3>1, SaveSteps
    <3>4. CASE Truncate(p)
      <4>1. pc[p] = "save" /\ pc'[p] = "write" /\ mixed' \subseteq mixed
        BY <3>4, SaveSteps
      <4>2. QED
        BY <2>1, <3>2, <3>3, <4>1
    <3>5. CASE Write(p)
      <4>1. /\ pc[p] = "write"
            /\ mixed' = (mixed \ {p}) \cup {q \in Procs \ {p} : Writing(q, job[p].id)}
            /\ p \notin mixed => job[p].id \notin torn'
        BY <3>5, SaveSteps
      <4>2. \A q \in mixed' : pc'[q] = "write" /\ job[q].id \in overlapped
        BY <2>1, <3>3, <4>1 DEF Writing, Active
      <4>3. job[p].id \notin overlapped => job[p].id \notin torn'
        BY <4>1
      <4>4. QED
        BY <2>1, <3>2, <3>3, <4>2, <4>3
    <3>6. QED
      BY <2>4, <3>4, <3>5
  <2>5. CASE Report(p) \/ Crash(p)
    <3>1. ~Active(p)'
      BY <2>5, EndSteps DEF Active
    <3>2. p \notin mixed'
      <4>1. CASE Report(p)
        BY <4>1 DEF Report, saved
      <4>2. CASE Crash(p)
        BY <4>2 DEF Crash
      <4>3. QED
        BY <2>5, <4>1, <4>2
    <3>3. QED
      BY <2>1, <2>5, <3>1, <3>2, EndSteps
  <2>6. CASE \E t \in Tickets : Start(p, t)
    <3>1. PICK t \in Tickets : Start(p, t)
      BY <2>6
    <3>2. Extends(files[t].memo, files[t].memo)
      BY DEF Extends, TypeOK, File
    <3>3. p \notin mixed
      BY <3>1, StartSteps DEF Active
    <3>4. QED
      BY <2>1, <3>1, <3>2, <3>3, StartSteps DEF saved
  <2>7. QED
    BY <1>2, <2>2, <2>3, <2>4, <2>5, <2>6 DEF Step
<1>3. QED
  BY <1>1, <1>2 DEF Next

\* The one run of a ticket is the only one that may be writing its file.
LEMMA OneWriter ==
  ASSUME MemoInv, NEW p \in Procs, Active(p), job[p].id \notin overlapped
  PROVE  OnFile(job[p].id) =
           IF pc[p] = "write" THEN {job[p].ticket.memo} ELSE {files[job[p].id].memo}
<1>1. \A q \in Procs : Writing(q, job[p].id) => q = p
  BY DEF MemoInv, Writing, Active
<1>2. CASE pc[p] = "write"
  <2>1. {q \in Procs : Writing(q, job[p].id)} = {p}
    BY <1>1, <1>2 DEF Writing
  <2>2. QED
    BY <1>2, <2>1 DEF OnFile
<1>3. CASE pc[p] # "write"
  <2>1. {q \in Procs : Writing(q, job[p].id)} = {}
    BY <1>1, <1>3 DEF Writing
  <2>2. QED
    BY <1>3, <2>1 DEF OnFile
<1>4. QED
  BY <1>2, <1>3

\* A run takes part in the files of its own ticket only.
LEMMA OthersFiles ==
  ASSUME TypeOK, NEW p \in Procs, NEW t \in Tickets, Moves(p),
         files'[t] = files[t], t \in torn' <=> t \in torn,
         ~Writing(p, t), ~Writing(p, t)'
  PROVE  OnFile(t)' = OnFile(t) /\ (Lost(t)' <=> Lost(t))
<1>1. \A q \in Procs : (Writing(q, t)' <=> Writing(q, t)) /\ (Writing(q, t) => job'[q] = job[q])
  BY DEF Moves, Writing
<1>2. {q \in Procs : Writing(q, t)'} = {q \in Procs : Writing(q, t)}
  BY <1>1
<1>3. {job'[q].ticket.memo : q \in {r \in Procs : Writing(r, t)'}} =
        {job[q].ticket.memo : q \in {r \in Procs : Writing(r, t)}}
  BY <1>1, <1>2
<1>4. QED
  BY <1>1, <1>2, <1>3 DEF OnFile, Lost

\* The attempts on file only grow, unless two runs of the ticket overlapped or a
\* run was killed inside its save (cli.py:758, 1247, 1302, utils.py:48-52).
THEOREM AttemptsSurvive == Spec => AttemptsAreLostToOverlapOrTear
<1> DEFINE Kept(t) == \A old \in OnFile(t) : \A new \in OnFile(t)' : Extends(new, old)
           Killed(t) == \E p \in Procs : Writing(p, t) /\ pc'[p] = "idle" /\ crashes' > crashes
           Gone(t) == Lost(t) => Lost(t)' /\ \A p \in Procs : job[p].id = t => ~Active(p)
           A == \A t \in Tickets \ overlapped' :
                  /\ \/ \A old \in OnFile(t) : \A new \in OnFile(t)' : Extends(new, old)
                     \/ \E p \in Procs : Writing(p, t) /\ pc'[p] = "idle" /\ crashes' > crashes
                  /\ Lost(t) => Lost(t)' /\ \A p \in Procs : job[p].id = t => ~Active(p)
<1>1. Init => MemoInv
  BY DEF Init, MemoInv, Active
<1>2. TypeOK /\ MemoInv /\ [Next]_vars => [A]_vars
  <2> SUFFICES ASSUME TypeOK, MemoInv, [Next]_vars, NEW t \in Tickets \ overlapped'
               PROVE  (Kept(t) \/ Killed(t)) /\ Gone(t)
    OBVIOUS
  <2>1. t \notin overlapped =>
          /\ \A old, new \in OnFile(t) : Extends(new, old)
          /\ Lost(t) => \A p \in Procs : job[p].id = t => ~Active(p)
    <3>1. \A m \in OnFile(t) : Len(m) \in Nat
      BY JobParts DEF OnFile, TypeOK, File
    <3>2. t \notin overlapped => \A old, new \in OnFile(t) : new = old
      BY DEF OnFile, MemoInv, Writing, Active
    <3>3. \A m \in OnFile(t) : Extends(m, m)
      BY <3>1 DEF Extends
    <3>4. t \notin overlapped /\ Lost(t) => \A p \in Procs : job[p].id = t => ~Active(p)
      BY DEF MemoInv, Lost, Writing
    <3>5. QED
      BY <3>2, <3>3, <3>4
  <2>2. CASE RefuseTorn \/ UNCHANGED vars
    <3>1. UNCHANGED <<files, torn, pc, job, overlapped>>
      BY <2>2 DEF RefuseTorn, vars, history, saved, disk
    <3>2. OnFile(t)' = OnFile(t) /\ (Lost(t)' <=> Lost(t))
      BY <3>1 DEF OnFile, Lost, Writing
    <3>3. QED
      BY <2>1, <3>1, <3>2
  <2>3. ASSUME NEW p \in Procs, Step(p) \/ Crash(p)
        PROVE  (Kept(t) \/ Killed(t)) /\ Gone(t)
    <3>1. /\ Moves(p) /\ overlapped' = overlapped /\ Active(p) /\ job'[p].id = job[p].id
          /\ \A u \in Tickets : u # job[p].id =>
               files'[u] = files[u] /\ (u \in torn' <=> u \in torn)
      <4>1. Moves(p)
        BY <2>3, OneMoves
      <4>2. CASE Truncate(p) \/ Write(p)
        BY <4>1, <4>2, SaveSteps
      <4>3. CASE Report(p) \/ Crash(p)
        <5>1. job'[p].id = job[p].id /\ Active(p)
          BY <4>3 DEF TypeOK, Report, Crash, Exit, Work, Locals, Active
        <5>2. QED
          BY <4>1, <4>3, <5>1, EndSteps
      <4>4. CASE Accept(p) \/ Reject(p)
        BY <4>1, <4>4, VerdictSteps DEF saved
      <4>5. CASE ~(Truncate(p) \/ Write(p) \/ Report(p) \/ Crash(p) \/ Accept(p) \/ Reject(p))
        BY <2>3, <4>1, <4>5, SteadySteps DEF Step, Steady, saved
      <4>6. QED
        BY <4>2, <4>3, <4>4, <4>5
    <3>2. CASE t # job[p].id
      <4>1. ~Writing(p, t) /\ ~Writing(p, t)'
        BY <3>1, <3>2 DEF Writing
      <4>2. OnFile(t)' = OnFile(t) /\ (Lost(t)' <=> Lost(t))
        BY <3>1, <3>2, <4>1, OthersFiles
      <4>3. QED
        BY <2>1, <3>1, <4>2
    <3>3. CASE t = job[p].id
      <4>1. /\ t \notin overlapped /\ p \notin mixed /\ Extends(job[p].ticket.memo, files[t].memo)
            /\ Extends(job[p].ticket.memo, job[p].ticket.memo)
        BY <3>1, <3>3, JobParts DEF MemoInv, Extends
      <4>2. OnFile(t) = IF pc[p] = "write" THEN {job[p].ticket.memo} ELSE {files[t].memo}
        BY <3>1, <3>3, <4>1, OneWriter
      <4>3. Gone(t)
        BY <2>1, <3>1, <3>3, <4>1
      <4>4. \A q \in Procs : Writing(q, t)' => q = p
        BY <3>1, <3>3, <4>1 DEF MemoInv, Moves, Writing, Active
      <4>5. CASE Truncate(p)
        <5>1. pc[p] = "save" /\ pc'[p] = "write" /\ job' = job
          BY <4>5, SaveSteps
        <5>2. {q \in Procs : Writing(q, t)'} = {p}
          BY <3>3, <4>4, <5>1 DEF Writing
        <5>3. OnFile(t)' = {job[p].ticket.memo}
          BY <5>1, <5>2 DEF OnFile
        <5>4. QED
          BY <4>1, <4>2, <4>3, <5>1, <5>3
      <4>6. CASE Write(p)
        <5>1. pc[p] = "write" /\ pc'[p] # "write" /\ files'[t] = job[p].ticket
          BY <3>3, <4>1, <4>6, SaveSteps
        <5>2. {q \in Procs : Writing(q, t)'} = {}
          BY <4>4, <5>1 DEF Writing
        <5>3. OnFile(t)' = {job[p].ticket.memo}
          BY <5>1, <5>2 DEF OnFile
        <5>4. QED
          BY <4>1, <4>2, <4>3, <5>1, <5>3
      <4>7. CASE Crash(p) /\ pc[p] = "write"
        <5>1. Writing(p, t) /\ pc'[p] = "idle" /\ crashes' > crashes
          <6>1. Writing(p, t)
            BY <3>3, <4>7 DEF Writing
          <6>2. pc'[p] = "idle"
            BY <4>7, EndSteps
          <6>3. crashes' = crashes + 1 /\ crashes \in Nat
            BY <4>7 DEF Crash, TypeOK
          <6>4. QED
            BY <6>1, <6>2, <6>3
        <5>2. QED
          BY <4>3, <5>1
      <4>8. CASE ~(Truncate(p) \/ Write(p)) /\ ~(Crash(p) /\ pc[p] = "write")
        <5>1. pc[p] # "write" /\ pc'[p] # "write" /\ files' = files /\ torn' = torn
          <6>1. CASE Crash(p) \/ Report(p)
            BY <4>8, <6>1, EndSteps DEF Report
          <6>2. CASE Accept(p) \/ Reject(p)
            BY <6>2, VerdictSteps DEF saved
          <6>3. CASE ~(Crash(p) \/ Report(p) \/ Accept(p) \/ Reject(p))
            BY <2>3, <4>8, <6>3, SteadySteps DEF Step, Steady, saved
          <6>4. QED
            BY <6>1, <6>2, <6>3
        <5>2. ~Writing(p, t) /\ ~Writing(p, t)'
          BY <5>1 DEF Writing
        <5>3. OnFile(t)' = OnFile(t)
          BY <3>1, <5>1, <5>2, OthersFiles
        <5>4. Kept(t)
          BY <2>1, <4>1, <5>3
        <5>5. QED
          BY <4>3, <5>4
      <4>9. QED
        BY <4>5, <4>6, <4>7, <4>8
    <3>4. QED
      BY <3>2, <3>3
  <2>4. ASSUME NEW p \in Procs, NEW u \in Tickets, Start(p, u)
        PROVE  (Kept(t) \/ Killed(t)) /\ Gone(t)
    <3>1. Moves(p)
      BY <2>4, OneMoves
    <3>2. /\ ~Active(p) /\ pc'[p] = "begin" /\ files' = files /\ torn' = torn
          /\ t \notin overlapped
      BY <2>4, StartSteps DEF saved
    <3>3. ~Writing(p, t) /\ ~Writing(p, t)'
      BY <3>2 DEF Writing, Active
    <3>4. OnFile(t)' = OnFile(t) /\ (Lost(t)' <=> Lost(t))
      BY <3>1, <3>2, <3>3, OthersFiles
    <3>5. Kept(t)
      BY <2>1, <3>2, <3>4
    <3>6. Lost(t) => Lost(t)' /\ \A q \in Procs : job[q].id = t => ~Active(q)
      BY <2>1, <3>2, <3>4
    <3>7. QED
      BY <3>5, <3>6
  <2>5. QED
    BY <2>2, <2>3, <2>4 DEF Next
<1>3. QED
  BY <1>1, <1>2, MemoStep, Typing, PTL DEF Spec, AttemptsAreLostToOverlapOrTear

-----------------------------------------------------------------------------
\* An artifact written for a later attempt hides none of the earlier ones.
LEMMA ArtifactStays ==
  ASSUME NEW t, NEW n \in Nat, HasArtifact(t, n), kept \subseteq kept',
         NEW g, g[2] \in Nat, g[1] = t => g[2] > n,
         \A h \in DOMAIN artifacts :
           h[2] \in Nat /\ (h # g => h \in DOMAIN artifacts' /\ artifacts'[h] = artifacts[h])
  PROVE  HasArtifact(t, n)'
<1>1. PICK k \in kept, h \in DOMAIN artifacts :
        k[1] = t /\ h[1] = t /\ h[2] <= n /\ artifacts[h] = k
  BY DEF HasArtifact
<1>2. h # g
  BY <1>1
<1>3. k \in kept' /\ h \in DOMAIN artifacts' /\ artifacts'[h] = k
  BY <1>1, <1>2
<1>4. QED
  BY <1>1, <1>3 DEF HasArtifact

\* More attempts on record, and more accepted patches, take no artifact away.
LEMMA ArtifactGrows ==
  ASSUME NEW t, NEW m \in Nat, NEW n \in Nat, m <= n, HasArtifact(t, m),
         \A h \in DOMAIN artifacts : h[2] \in Nat, kept \subseteq kept', artifacts' = artifacts
  PROVE  HasArtifact(t, n)'
<1>1. PICK k \in kept, h \in DOMAIN artifacts :
        k[1] = t /\ h[1] = t /\ h[2] <= m /\ artifacts[h] = k
  BY DEF HasArtifact
<1>2. h[2] <= n
  BY <1>1
<1>3. QED
  BY <1>1, <1>2 DEF HasArtifact

LEMMA ArtifactStep ==
  ASSUME TypeOK, OwnerInv, MemoInv, ArtifactInv, [Next]_vars
  PROVE  ArtifactInv'
<1>1. /\ \A h \in DOMAIN artifacts : h[2] \in Nat
      /\ \A t \in Tickets : Len(files[t].memo) \in Nat
      /\ \A q \in Procs : Len(job[q].ticket.memo) \in Nat /\ job[q].id \in Tickets
  <2>1. \A h \in DOMAIN artifacts : h[2] \in Nat
    BY DEF TypeOK, Tag
  <2>2. \A t \in Tickets : Len(files[t].memo) \in Nat
    BY DEF TypeOK, File
  <2>3. QED
    BY <2>1, <2>2, JobParts
<1>2. ASSUME UNCHANGED <<kept, artifacts>>
      PROVE  \A t, n : HasArtifact(t, n)' <=> HasArtifact(t, n)
  BY <1>2 DEF HasArtifact
<1>3. CASE RefuseTorn \/ UNCHANGED vars
  <2>1. UNCHANGED <<kept, artifacts, files, overlapped, pc, job>>
    BY <1>3 DEF RefuseTorn, vars, history, saved, disk
  <2>2. QED
    BY <2>1, <1>2 DEF ArtifactInv, Active, TagOf
<1>4. ASSUME NEW p \in Procs, Step(p) \/ Crash(p) \/ \E t \in Tickets : Start(p, t)
      PROVE  ArtifactInv'
  <2>1. \A q \in Procs : q # p =>
          /\ job'[q] = job[q] /\ pc'[q] = pc[q] /\ (Active(q)' <=> Active(q))
          /\ TagOf(q)' = TagOf(q)
    BY <1>4, OneMoves DEF Moves, Active, TagOf
  <2>2. CASE \/ SkipReproduction(p) \/ Reproduce(p) \/ MakePlan(p) \/ Ask(p) \/ Stop(p)
             \/ Rollback(p) \/ RollbackFails(p)
    <3>1. Steady(p) /\ artifacts' = artifacts
      BY <2>2, SteadySteps DEF Stay, disk, SkipReproduction, Reproduce, MakePlan, Ask, Stop,
         Rollback, RollbackFails
    <3>2. pc'[p] \notin {"apply", "validate"}
      BY <2>2 DEF TypeOK, Goto, SaveThen, SkipReproduction, Reproduce, MakePlan, Ask, Stop,
         Rollback, RollbackFails
    <3>3. QED
      BY <2>1, <3>1, <3>2, <1>2 DEF Steady, saved, ArtifactInv
  <2>3. CASE Apply(p)
    <3>1. /\ job' = job /\ pc[p] = "apply" /\ UNCHANGED <<files, kept, overlapped, artifacts>>
          /\ Active(p) /\ TagOf(p)' = TagOf(p)
      BY <2>3 DEF Apply, Stay, saved, disk, history, Active, TagOf
    <3>2. QED
      BY <2>1, <3>1, <1>2 DEF ArtifactInv
  <2>4. CASE WriteArtifact(p)
    <3>1. /\ job' = job /\ UNCHANGED <<files, kept, overlapped>> /\ Active(p)
          /\ artifacts' = [g \in DOMAIN artifacts \cup {TagOf(p)} |->
                             IF g = TagOf(p) THEN job[p].patch ELSE artifacts[g]]
          /\ TagOf(p)' = TagOf(p)
      BY <2>4 DEF WriteArtifact, Stay, saved, history, Active, TagOf
    <3>2. /\ TagOf(p)[1] = job[p].id /\ TagOf(p)[2] = Len(job[p].ticket.memo) + 1
      BY DEF TagOf
    <3> DEFINE tag == TagOf(p)
    <3>3. /\ tag[2] \in Nat
          /\ \A h \in DOMAIN artifacts :
               h[2] \in Nat /\ (h # tag => h \in DOMAIN artifacts' /\ artifacts'[h] = artifacts[h])
      BY <1>1, <3>1, <3>2
    <3>4. ASSUME NEW t, NEW n \in Nat, HasArtifact(t, n), tag[1] = t => tag[2] > n
          PROVE  HasArtifact(t, n)'
      <4>1. PICK g : g = tag
        OBVIOUS
      <4> HIDE DEF tag
      <4>2. /\ g[2] \in Nat /\ (g[1] = t => g[2] > n) /\ kept \subseteq kept'
            /\ \A h \in DOMAIN artifacts :
                 h[2] \in Nat /\ (h # g => h \in DOMAIN artifacts' /\ artifacts'[h] = artifacts[h])
        BY <3>1, <3>3, <3>4, <4>1
      <4>3. QED
        BY <3>4, <4>2, ArtifactStays
    <3>5. ASSUME NEW t \in Tickets \ overlapped, files[t].status = "passed"
          PROVE  HasArtifact(t, Len(files[t].memo))'
      <4>1. PICK n \in Nat : n = Len(files[t].memo)
        BY <1>1
      <4>2. HasArtifact(t, n)
        BY <3>5, <4>1 DEF ArtifactInv
      <4>3. job[p].id = t => n <= Len(job[p].ticket.memo)
        BY <3>1, <4>1 DEF MemoInv, Extends
      <4>4. tag[1] = t => tag[2] > n
        BY <1>1, <3>2, <4>3
      <4>5. HasArtifact(t, n)'
        BY <3>4, <4>2, <4>4
      <4>6. QED
        BY <3>1, <4>1, <4>5
    <3>6. ASSUME NEW q \in Procs, Active(q), job[q].id \notin overlapped,
                 job[q].ticket.status = "passed"
          PROVE  HasArtifact(job[q].id, Len(job[q].ticket.memo))'
      <4>1. HasArtifact(job[q].id, Len(job[q].ticket.memo))
        BY <3>6 DEF ArtifactInv
      <4>2. job[p].id = job[q].id => p = q
        BY <3>1, <3>6 DEF MemoInv
      <4>3. PICK n \in Nat, t \in Tickets : n = Len(job[q].ticket.memo) /\ t = job[q].id
        BY <1>1
      <4>4. tag[1] = t => tag[2] > n
        BY <3>2, <4>2, <4>3
      <4>5. HasArtifact(t, n)'
        BY <3>4, <4>1, <4>3, <4>4
      <4>6. QED
        BY <3>1, <4>3, <4>5
    <3>7. ASSUME NEW q \in Procs, Active(q), job[q].id \notin overlapped, q # p,
                 pc[q] \in {"apply", "validate"}
          PROVE  TagOf(q) \in DOMAIN artifacts' /\ artifacts'[TagOf(q)] = job[q].patch
      <4>1. job[p].id # job[q].id
        BY <3>1, <3>7 DEF MemoInv
      <4>2. TagOf(q) # TagOf(p)
        BY <4>1 DEF TagOf
      <4>3. QED
        BY <3>1, <3>7, <4>2 DEF ArtifactInv
    <3>8. TagOf(p) \in DOMAIN artifacts' /\ artifacts'[TagOf(p)] = job[p].patch
      BY <3>1
    <3>9. QED
      BY <2>1, <3>1, <3>5, <3>6, <3>7, <3>8 DEF ArtifactInv
  <2>5. CASE Accept(p) \/ Reject(p)
    <3>1. PICK a \in Attempt : job'[p].ticket.memo = Append(job[p].ticket.memo, a)
      BY <2>5, VerdictSteps
    <3>2. /\ Active(p) /\ pc[p] = "validate" /\ pc'[p] = "save" /\ job'[p].id = job[p].id
          /\ UNCHANGED <<files, overlapped, artifacts>> /\ kept \subseteq kept'
          /\ \/ job'[p].ticket.status = "failed"
             \/ job'[p].ticket.status = "passed" /\ job[p].patch \in kept'
      BY <2>5, VerdictSteps DEF saved
    <3>3. ASSUME NEW t, NEW n \in Nat, HasArtifact(t, n) PROVE HasArtifact(t, n)'
      BY <1>1, <3>2, <3>3, ArtifactGrows
    <3>4. Len(job'[p].ticket.memo) = Len(job[p].ticket.memo) + 1
      BY <3>1, JobParts
    <3>5. ASSUME job[p].id \notin overlapped, job'[p].ticket.status = "passed",
                 NEW t, NEW n \in Nat, t = job[p].id, n = Len(job[p].ticket.memo) + 1
          PROVE  HasArtifact(t, n)'
      <4>1. /\ TagOf(p) \in DOMAIN artifacts /\ artifacts[TagOf(p)] = job[p].patch
            /\ job[p].patch \in kept' /\ job[p].patch[1] = job[p].id
        BY <3>2, <3>5 DEF ArtifactInv, OwnerInv
      <4>2. TagOf(p)[1] = t /\ TagOf(p)[2] <= n
        BY <1>1, <3>5 DEF TagOf
      <4>3. PICK k \in kept', g \in DOMAIN artifacts :
              k[1] = t /\ g[1] = t /\ g[2] <= n /\ artifacts[g] = k
        BY <3>5, <4>1, <4>2
      <4>4. QED
        BY <3>2, <4>3 DEF HasArtifact
    <3>6. ASSUME NEW t \in Tickets \ overlapped, files[t].status = "passed"
          PROVE  HasArtifact(t, Len(files[t].memo))'
      <4>1. PICK n \in Nat : n = Len(files[t].memo)
        BY <1>1
      <4>2. HasArtifact(t, n)'
        BY <3>3, <3>6, <4>1 DEF ArtifactInv
      <4>3. QED
        BY <3>2, <4>1, <4>2
    <3>7. ASSUME NEW q \in Procs, q # p, Active(q), job[q].id \notin overlapped,
                 job[q].ticket.status = "passed"
          PROVE  HasArtifact(job[q].id, Len(job[q].ticket.memo))'
      <4>1. PICK n \in Nat, t \in Tickets : n = Len(job[q].ticket.memo) /\ t = job[q].id
        BY <1>1
      <4>2. HasArtifact(t, n)'
        BY <3>3, <3>7, <4>1 DEF ArtifactInv
      <4>3. QED
        BY <2>1, <3>7, <4>1, <4>2
    <3>8. ASSUME job[p].id \notin overlapped, job'[p].ticket.status = "passed"
          PROVE  HasArtifact(job[p].id, Len(job[p].ticket.memo))'
      <4>0. Len(job[p].ticket.memo) + 1 \in Nat
        BY <1>1
      <4>1. PICK n \in Nat, t \in {job[p].id} : n = Len(job[p].ticket.memo) + 1
        BY <4>0
      <4>2. HasArtifact(t, n)'
        BY <3>5, <3>8, <4>1
      <4>3. QED
        BY <3>2, <3>4, <4>1, <4>2
    <3>9. QED
      BY <2>1, <3>2, <3>6, <3>7, <3>8 DEF ArtifactInv
  <2>6. CASE Truncate(p) \/ Write(p)
    <3>1. /\ job' = job /\ UNCHANGED <<kept, overlapped, artifacts>> /\ Active(p)
          /\ files'[job[p].id] \in {NewTicket, job[p].ticket}
          /\ \A t \in Tickets : t # job[p].id => files'[t] = files[t]
          /\ pc'[p] \notin {"apply", "validate"}
      BY <2>6, SaveSteps
    <3>2. NewTicket.status # "passed"
      BY DEF NewTicket
    <3>3. QED
      BY <1>1, <1>2, <2>1, <3>1, <3>2 DEF ArtifactInv
  <2>7. CASE Report(p) \/ Crash(p)
    <3>1. ~Active(p)'
      BY <2>7, EndSteps DEF Active
    <3>2. QED
      BY <1>2, <2>1, <2>7, <3>1, EndSteps DEF ArtifactInv
  <2>8. CASE \E t \in Tickets : Start(p, t)
    <3>1. PICK t \in Tickets : Start(p, t)
      BY <2>8
    <3>2. QED
      BY <1>2, <2>1, <3>1, StartSteps DEF saved, ArtifactInv
  <2>9. QED
    BY <1>4, <2>2, <2>3, <2>4, <2>5, <2>6, <2>7, <2>8 DEF Step
<1>5. QED
  BY <1>3, <1>4 DEF Next

\* A ticket on file as passed whose runs never overlapped has, in the tree, a
\* patch that its artifact can reverse (cli.py:1131-1147).
THEOREM PassedTicketsCanBeReverted == Spec => []PassedTicketCanBeReverted
<1>1. Init => MemoInv /\ ArtifactInv
  BY DEF Init, MemoInv, ArtifactInv, Active, NewTicket
<1>2. ArtifactInv /\ TreeIsShared => PassedTicketCanBeReverted
  BY DEF ArtifactInv, TreeIsShared, PassedTicketCanBeReverted, HasArtifact
<1>3. QED
  BY <1>1, <1>2, MemoStep, ArtifactStep, SharingInvariance, PTL DEF Spec

-----------------------------------------------------------------------------
\* A report says what its name says.
ReportInv == \A n \in DOMAIN reports : reports[n] = [ticket |-> n[2], at |-> n[1]]

\* Reports of other tickets, and of other seconds, survive (reporter.py:121-122).
THEOREM ReportsSurvive == Spec => ReportsOfOthersSurvive
<1> DEFINE A == \A n \in DOMAIN reports :
                  /\ n \in DOMAIN reports'
                  /\ reports'[n].ticket = reports[n].ticket /\ reports'[n].at = reports[n].at
<1>1. Init => ReportInv
  BY DEF Init, ReportInv
<1>2. [Next]_vars => reports' = reports \/ \E p \in Procs : Report(p)
  BY DEF Next, Step, SkipReproduction, Reproduce, MakePlan, Ask, Stop, WriteArtifact, Apply,
     Accept, Reject, Rollback, RollbackFails, Truncate, Write, Crash, Start, RefuseTorn, Stay, disk,
     vars
<1>3. ASSUME ReportInv, NEW p \in Procs, Report(p) PROVE ReportInv' /\ A
  <2>1. /\ DOMAIN reports' = DOMAIN reports \cup {NameOf(p, now')}
        /\ \A n \in DOMAIN reports' :
             reports'[n] = IF n = NameOf(p, now') THEN [ticket |-> job[p].id, at |-> now']
                           ELSE reports[n]
    BY <1>3 DEF Report
  <2>2. NameOf(p, now')[1] = now' /\ NameOf(p, now')[2] = job[p].id
    BY DEF NameOf
  <2>3. QED
    BY <1>3, <2>1, <2>2 DEF ReportInv
<1>4. ReportInv /\ [Next]_vars => ReportInv' /\ [A]_vars
  BY <1>2, <1>3 DEF ReportInv
<1>5. QED
  BY <1>1, <1>4, PTL DEF Spec, ReportsOfOthersSurvive
=============================================================================
