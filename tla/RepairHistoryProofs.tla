------------------------ MODULE RepairHistoryProofs ------------------------
(***************************************************************************)
(* Proofs about what successive runs of a ticket remember: the attempts on *)
(* file, the strategies spent, the artifacts, the consent to a patch, and  *)
(* the number of agent calls, for any instance of RepairRun.               *)
(***************************************************************************)
EXTENDS RepairRunProofs, FiniteSetTheorems

-----------------------------------------------------------------------------
\* An attempt spends its own strategy at most.
LEMMA ExhaustedAppend ==
  ASSUME NEW m \in Seq(Attempt), NEW a \in Attempt
  PROVE  Exhausted(Append(m, a)) \subseteq Exhausted(m) \cup {a.strategy}
<1> DEFINE n == Append(m, a)
<1>1. /\ DOMAIN n = 1..(Len(m) + 1) /\ DOMAIN m = 1..Len(m) /\ Len(m) \in Nat
      /\ n[Len(m) + 1] = a /\ \A i \in 1..Len(m) : n[i] = m[i]
  OBVIOUS
<1>2. ASSUME NEW i \in DOMAIN n, ~n[i].succeeded
      PROVE  n[i].strategy \in Exhausted(m) \cup {a.strategy}
  <2>1. CASE i = Len(m) + 1
    BY <1>1, <2>1
  <2>2. CASE i # Len(m) + 1
    <3>1. i \in DOMAIN m /\ n[i] = m[i]
      BY <1>1, <2>2
    <3>2. QED
      BY <1>2, <3>1 DEF Exhausted
  <2>3. QED
    BY <2>1, <2>2
<1>3. Exhausted(n) \subseteq Exhausted(m) \cup {a.strategy}
  BY <1>2 DEF Exhausted
<1>4. QED
  BY <1>3

\* The memo in memory is the one on file, but for the attempt being saved.
MemoInv ==
  pc # "idle" =>
    \/ ticket.memo = disk.memo
    \/ /\ pc = "save" /\ after \in {"reverse", "report_pass"}
       /\ \E a \in Attempt : ticket.memo = Append(disk.memo, a)

\* A run holds untried strategies only: none of its plan, nor the one at work,
\* is spent in the ticket it has in memory.
AtWork == pc \in {"agent", "git", "approve", "artifact", "apply", "validate"}
Planned ==
  \/ AtWork \/ pc \in {"strategy", "reverse"} \/ (pc = "save" /\ after = "reverse")
PlanInv ==
  ~run.opts.patchFile =>
    /\ Planned => run.plan \cap Exhausted(ticket.memo) = {}
    /\ AtWork => run.strategy \notin run.plan /\ run.strategy \notin Exhausted(ticket.memo)

\* What an approval without --yes rests on still holds when the patch is applied.
ConsentInv ==
  /\ pc = "approve" /\ ~run.dirty => Len(run.base) <= head
  /\ pc \in {"artifact", "apply"} /\ run.opts.approval = "gate" => Len(run.base) <= head

\* Only the verdict on a patch adds to the memo, and its save follows.
LEMMA MemoInvStep ==
  TypeOK /\ MemoInv /\ [Next]_vars => MemoInv'
<1> SUFFICES ASSUME TypeOK, MemoInv, [Next]_vars PROVE MemoInv'
  OBVIOUS
<1> USE DEF stateFiles, workspace, counters, MemoInv
<1>0. /\ ticket \in Ticket /\ run \in RunType /\ disk \in Ticket
      /\ after \in {"idle", "plan", "reverse", "report_pass", "report_fail"}
  BY DEF TypeOK
<1>1. CASE SkipGate
  BY <1>1, <1>0 DEF SkipGate
<1>2. CASE ReproMissing
  BY <1>2, <1>0 DEF ReproMissing, Stop, SaveThen, Ticket
<1>3. CASE ReproExists
  BY <1>3, <1>0 DEF ReproExists
<1>4. CASE ReproPasses
  BY <1>4, <1>0 DEF ReproPasses, Stop, SaveThen, Ticket
<1>5. CASE Reproduce
  BY <1>5, <1>0 DEF Reproduce, SaveThen, RunType, Ticket
<1>6. CASE MakePlan
  BY <1>6, <1>0 DEF MakePlan, Stop, SaveThen, RunType, Ticket
<1>7. CASE NextStrategy
  BY <1>7, <1>0 DEF NextStrategy, RunType
<1>8. CASE AgentFails
  BY <1>8, <1>0 DEF AgentFails, Stop, SaveThen, Ticket
<1>9. CASE AgentTimeout
  BY <1>9, <1>0 DEF AgentTimeout, Exit
<1>10. CASE ValidDiff
  BY <1>10, <1>0 DEF ValidDiff, RunType
<1>11. CASE RetryDiff
  BY <1>11, <1>0 DEF RetryDiff, RunType
<1>12. CASE InvalidDiff
  BY <1>12, <1>0 DEF InvalidDiff, Stop, SaveThen, RunType, Ticket
<1>13. CASE NotARepository
  BY <1>13, <1>0 DEF NotARepository, Stop, SaveThen, Ticket
<1>14. CASE ReadWorkspace
  BY <1>14, <1>0 DEF ReadWorkspace, RunType
<1>15. CASE Approve
  BY <1>15, <1>0 DEF Approve, Stop, SaveThen, Ticket
<1>16. CASE WriteArtifact
  BY <1>16, <1>0 DEF WriteArtifact
<1>17. CASE ApplyFails
  BY <1>17, <1>0 DEF ApplyFails, Stop, SaveThen, Ticket
<1>18. CASE ApplyPatch
  BY <1>18, <1>0 DEF ApplyPatch, RunType, Ticket
<1>19. CASE Accept
  <2>1. run.strategy \in Strategies
    BY <1>0 DEF RunType
  <2>2. [strategy |-> run.strategy, succeeded |-> TRUE] \in Attempt
    BY <2>1 DEF Attempt
  <2>3. ticket.memo = disk.memo
    BY <1>19 DEF Accept
  <2>4. QED
    BY <1>19, <1>0, <2>2, <2>3 DEF Accept, SaveThen, Recorded, Ticket
<1>20. CASE Reject
  <2>1. run.strategy \in Strategies
    BY <1>0 DEF RunType
  <2>2. [strategy |-> run.strategy, succeeded |-> FALSE] \in Attempt
    BY <2>1 DEF Attempt
  <2>3. ticket.memo = disk.memo
    BY <1>20 DEF Reject
  <2>4. QED
    BY <1>20, <1>0, <2>2, <2>3 DEF Reject, SaveThen, Recorded, Ticket
<1>21. CASE RollbackFails
  BY <1>21, <1>0 DEF RollbackFails, Stop, SaveThen, Ticket
<1>22. CASE Rollback
  BY <1>22, <1>0 DEF Rollback, Stop, SaveThen, Ticket
<1>23. CASE Save
  BY <1>23, <1>0 DEF Save
<1>24. CASE Report
  BY <1>24, <1>0 DEF Report, Exit
<1>25. ASSUME NEW o \in Invocations, Start(o) PROVE MemoInv'
  BY <1>25, <1>0 DEF Start, Fresh
<1>26. CASE RefuseTorn
  BY <1>26, <1>0 DEF RefuseTorn
<1>27. CASE Crash
  BY <1>27, <1>0 DEF Crash, Exit
<1>28. CASE TearSave
  BY <1>28, <1>0 DEF TearSave, NewTicket, Exit
<1>29. CASE OperatorEdit
  BY <1>29, <1>0 DEF OperatorEdit
<1>30. CASE OperatorCommit
  BY <1>30, <1>0 DEF OperatorCommit
<1>31. CASE UNCHANGED vars
  BY <1>31 DEF vars
<1> HIDE DEF MemoInv
<1>32. QED
  BY <1>1, <1>2, <1>3, <1>4, <1>5, <1>6, <1>7, <1>8, <1>9, <1>10, <1>11, <1>12, <1>13, <1>14, <1>15, <1>16, <1>17, <1>18, <1>19, <1>20, <1>21, <1>22, <1>23, <1>24, <1>25, <1>26, <1>27, <1>28, <1>29, <1>30, <1>31
  DEF Next, OwnStep, Waiting, Environment

\* A failed strategy leaves the plan for good.
LEMMA PlanInvStep ==
  TypeOK /\ PlanInv /\ [Next]_vars => PlanInv'
<1> SUFFICES ASSUME TypeOK, PlanInv, [Next]_vars PROVE PlanInv'
  OBVIOUS
<1> USE DEF stateFiles, workspace, counters, PlanInv, AtWork, Planned
<1>0. /\ ticket \in Ticket /\ run \in RunType /\ disk \in Ticket
      /\ after \in {"idle", "plan", "reverse", "report_pass", "report_fail"}
  BY DEF TypeOK
<1>1. CASE SkipGate
  BY <1>1, <1>0 DEF SkipGate
<1>2. CASE ReproMissing
  BY <1>2, <1>0 DEF ReproMissing, Stop, SaveThen, Ticket
<1>3. CASE ReproExists
  BY <1>3, <1>0 DEF ReproExists
<1>4. CASE ReproPasses
  BY <1>4, <1>0 DEF ReproPasses, Stop, SaveThen, Ticket
<1>5. CASE Reproduce
  BY <1>5, <1>0 DEF Reproduce, SaveThen, RunType, Ticket
<1>6. CASE MakePlan
  <2>1. StrategyAttempts(ticket.memo, run.opts.maxAttempts) \cap Exhausted(ticket.memo) = {}
    BY DEF StrategyAttempts
  <2>2. QED
    BY <1>6, <1>0, <2>1 DEF MakePlan, Stop, SaveThen, RunType, Ticket
<1>7. CASE NextStrategy
  <2>1. PICK s \in run.plan :
          run' = [run EXCEPT !.plan = @ \ {s}, !.strategy = s, !.tries = 0,
                             !.seen = NothingSeen]
    BY <1>7 DEF NextStrategy
  <2>2. run'.plan = run.plan \ {s} /\ run'.strategy = s /\ run'.opts = run.opts
    BY <1>0, <2>1 DEF RunType
  <2>3. QED
    BY <1>7, <2>2 DEF NextStrategy
<1>8. CASE AgentFails
  BY <1>8, <1>0 DEF AgentFails, Stop, SaveThen, Ticket
<1>9. CASE AgentTimeout
  BY <1>9, <1>0 DEF AgentTimeout, Exit
<1>10. CASE ValidDiff
  BY <1>10, <1>0 DEF ValidDiff, RunType
<1>11. CASE RetryDiff
  BY <1>11, <1>0 DEF RetryDiff, RunType
<1>12. CASE InvalidDiff
  BY <1>12, <1>0 DEF InvalidDiff, Stop, SaveThen, RunType, Ticket
<1>13. CASE NotARepository
  BY <1>13, <1>0 DEF NotARepository, Stop, SaveThen, Ticket
<1>14. CASE ReadWorkspace
  BY <1>14, <1>0 DEF ReadWorkspace, RunType
<1>15. CASE Approve
  BY <1>15, <1>0 DEF Approve, Stop, SaveThen, Ticket
<1>16. CASE WriteArtifact
  BY <1>16, <1>0 DEF WriteArtifact
<1>17. CASE ApplyFails
  BY <1>17, <1>0 DEF ApplyFails, Stop, SaveThen, Ticket
<1>18. CASE ApplyPatch
  BY <1>18, <1>0 DEF ApplyPatch, RunType, Ticket
<1>19. CASE Accept
  BY <1>19, <1>0 DEF Accept, SaveThen, RunType
<1>20. CASE Reject
  <2>1. /\ run'.plan = run.plan /\ run'.opts = run.opts
        /\ pc' = "save" /\ after' = "reverse" /\ ticket'.memo = Recorded(FALSE)
    BY <1>20, <1>0 DEF Reject, SaveThen, RunType
  <2>2. SUFFICES ASSUME ~run.opts.patchFile PROVE run.plan \cap Exhausted(ticket'.memo) = {}
    BY <2>1
  <2>3. [strategy |-> run.strategy, succeeded |-> FALSE] \in Attempt
    BY <1>0 DEF RunType, Attempt
  <2>4. ticket.memo \in Seq(Attempt)
    BY <1>0 DEF Ticket
  <2>5. Exhausted(ticket'.memo) \subseteq Exhausted(ticket.memo) \cup {run.strategy}
    BY <2>1, <2>2, <2>3, <2>4, ExhaustedAppend DEF Recorded
  <2>6. run.plan \cap Exhausted(ticket.memo) = {} /\ run.strategy \notin run.plan
    BY <1>20, <2>2 DEF Reject
  <2>7. QED
    BY <2>5, <2>6
<1>21. CASE RollbackFails
  BY <1>21, <1>0 DEF RollbackFails, Stop, SaveThen, Ticket
<1>22. CASE Rollback
  BY <1>22, <1>0 DEF Rollback, Stop, SaveThen, Ticket
<1>23. CASE Save
  BY <1>23, <1>0 DEF Save
<1>24. CASE Report
  BY <1>24, <1>0 DEF Report, Exit
<1>25. ASSUME NEW o \in Invocations, Start(o) PROVE PlanInv'
  BY <1>25, <1>0 DEF Start, Fresh
<1>26. CASE RefuseTorn
  BY <1>26, <1>0 DEF RefuseTorn
<1>27. CASE Crash
  BY <1>27, <1>0 DEF Crash, Exit
<1>28. CASE TearSave
  BY <1>28, <1>0 DEF TearSave, NewTicket, Exit
<1>29. CASE OperatorEdit
  BY <1>29, <1>0 DEF OperatorEdit
<1>30. CASE OperatorCommit
  BY <1>30, <1>0 DEF OperatorCommit
<1>31. CASE UNCHANGED vars
  BY <1>31 DEF vars
<1> HIDE DEF PlanInv
<1>32. QED
  BY <1>1, <1>2, <1>3, <1>4, <1>5, <1>6, <1>7, <1>8, <1>9, <1>10, <1>11, <1>12, <1>13, <1>14, <1>15, <1>16, <1>17, <1>18, <1>19, <1>20, <1>21, <1>22, <1>23, <1>24, <1>25, <1>26, <1>27, <1>28, <1>29, <1>30, <1>31
  DEF Next, OwnStep, Waiting, Environment

\* Between the git gate and the apply nobody moves the head.
LEMMA ConsentInvStep ==
  TypeOK /\ TreeInv /\ ConsentInv /\ [Next]_vars => ConsentInv'
<1> SUFFICES ASSUME TypeOK, TreeInv, ConsentInv, [Next]_vars PROVE ConsentInv'
  OBVIOUS
<1> USE DEF stateFiles, workspace, counters, ConsentInv
<1>0. /\ ticket \in Ticket /\ run \in RunType /\ disk \in Ticket
      /\ after \in {"idle", "plan", "reverse", "report_pass", "report_fail"}
  BY DEF TypeOK
<1>1. CASE SkipGate
  BY <1>1, <1>0 DEF SkipGate
<1>2. CASE ReproMissing
  BY <1>2, <1>0 DEF ReproMissing, Stop, SaveThen, Ticket
<1>3. CASE ReproExists
  BY <1>3, <1>0 DEF ReproExists
<1>4. CASE ReproPasses
  BY <1>4, <1>0 DEF ReproPasses, Stop, SaveThen, Ticket
<1>5. CASE Reproduce
  BY <1>5, <1>0 DEF Reproduce, SaveThen, RunType, Ticket
<1>6. CASE MakePlan
  BY <1>6, <1>0 DEF MakePlan, Stop, SaveThen, RunType, Ticket
<1>7. CASE NextStrategy
  BY <1>7, <1>0 DEF NextStrategy, RunType
<1>8. CASE AgentFails
  BY <1>8, <1>0 DEF AgentFails, Stop, SaveThen, Ticket
<1>9. CASE AgentTimeout
  BY <1>9, <1>0 DEF AgentTimeout, Exit
<1>10. CASE ValidDiff
  BY <1>10, <1>0 DEF ValidDiff, RunType
<1>11. CASE RetryDiff
  BY <1>11, <1>0 DEF RetryDiff, RunType
<1>12. CASE InvalidDiff
  BY <1>12, <1>0 DEF InvalidDiff, Stop, SaveThen, RunType, Ticket
<1>13. CASE NotARepository
  BY <1>13, <1>0 DEF NotARepository, Stop, SaveThen, Ticket
<1>14. CASE ReadWorkspace
  <2>1. tree = run.base
    BY <1>14 DEF ReadWorkspace, TreeInv, OnTrial
  <2>2. run'.dirty = Dirty /\ run'.base = run.base
    BY <1>14, <1>0 DEF ReadWorkspace, RunType
  <2>3. Len(tree) \in Nat /\ head \in Nat
    BY DEF TypeOK
  <2>4. ~Dirty => Len(tree) <= head
    BY <2>3 DEF Dirty
  <2>5. QED
    BY <1>14, <2>1, <2>2, <2>4 DEF ReadWorkspace
<1>15. CASE Approve
  <2>1. run' = run /\ head' = head
    BY <1>15 DEF Approve
  <2>2. pc' = "artifact" /\ run.opts.approval = "gate" => ~run.dirty
    BY <1>15 DEF Approve, ApprovalAnswers, Stop, SaveThen
  <2>3. pc' \in {"artifact", "save"} /\ pc = "approve"
    BY <1>15 DEF Approve, Stop, SaveThen
  <2>4. QED
    BY <2>1, <2>2, <2>3
<1>16. CASE WriteArtifact
  BY <1>16, <1>0 DEF WriteArtifact
<1>17. CASE ApplyFails
  BY <1>17, <1>0 DEF ApplyFails, Stop, SaveThen, Ticket
<1>18. CASE ApplyPatch
  BY <1>18, <1>0 DEF ApplyPatch, RunType, Ticket
<1>19. CASE Accept
  BY <1>19, <1>0 DEF Accept, SaveThen, RunType, Ticket
<1>20. CASE Reject
  BY <1>20, <1>0 DEF Reject, SaveThen, RunType, Ticket
<1>21. CASE RollbackFails
  BY <1>21, <1>0 DEF RollbackFails, Stop, SaveThen, Ticket
<1>22. CASE Rollback
  BY <1>22, <1>0 DEF Rollback, Stop, SaveThen, Ticket
<1>23. CASE Save
  BY <1>23, <1>0 DEF Save
<1>24. CASE Report
  BY <1>24, <1>0 DEF Report, Exit
<1>25. ASSUME NEW o \in Invocations, Start(o) PROVE ConsentInv'
  BY <1>25, <1>0 DEF Start, Fresh
<1>26. CASE RefuseTorn
  BY <1>26, <1>0 DEF RefuseTorn
<1>27. CASE Crash
  BY <1>27, <1>0 DEF Crash, Exit
<1>28. CASE TearSave
  BY <1>28, <1>0 DEF TearSave, NewTicket, Exit
<1>29. CASE OperatorEdit
  BY <1>29, <1>0 DEF OperatorEdit
<1>30. CASE OperatorCommit
  BY <1>30, <1>0 DEF OperatorCommit
<1>31. CASE UNCHANGED vars
  BY <1>31 DEF vars
<1> HIDE DEF ConsentInv
<1>32. QED
  BY <1>1, <1>2, <1>3, <1>4, <1>5, <1>6, <1>7, <1>8, <1>9, <1>10, <1>11, <1>12, <1>13, <1>14, <1>15, <1>16, <1>17, <1>18, <1>19, <1>20, <1>21, <1>22, <1>23, <1>24, <1>25, <1>26, <1>27, <1>28, <1>29, <1>30, <1>31
  DEF Next, OwnStep, Waiting, Environment

-----------------------------------------------------------------------------
HistoryInv == MemoInv /\ PlanInv /\ ConsentInv

LEMMA HistoryInvariance == Spec => []HistoryInv
<1>1. Init => HistoryInv
  <2> SUFFICES ASSUME Init PROVE HistoryInv
    OBVIOUS
  <2>1. PICK o \in Invocations : run = Fresh(o, <<>>)
    BY DEF Init
  <2>2. QED
    BY <2>1 DEF Init, HistoryInv, MemoInv, PlanInv, ConsentInv, AtWork, Planned
<1>2. TypeOK /\ TreeInv /\ HistoryInv /\ [Next]_vars => HistoryInv'
  BY MemoInvStep, PlanInvStep, ConsentInvStep DEF HistoryInv
<1>3. QED
  BY <1>1, <1>2, Typing, TreeIsAccountedFor, PTL DEF Spec

\* Without --yes and outside watch mode no patch is stacked on an uncommitted one.
THEOREM NoPatchIsStacked == Spec => []NoStackingWithoutConsent
<1>1. HistoryInv => NoStackingWithoutConsent
  BY DEF HistoryInv, ConsentInv, NoStackingWithoutConsent
<1>2. QED
  BY <1>1, HistoryInvariance, PTL

\* Only a save, finished or cut short, writes the ticket file, and only
\* WriteArtifact the artifacts.
LEMMA WhoWrites ==
  ASSUME [Next]_vars
  PROVE  /\ (disk' = disk /\ torn' = torn) \/ Save \/ TearSave
         /\ artifacts' = artifacts \/ WriteArtifact
BY DEF vars, stateFiles, Next, OwnStep, Waiting, Environment,
       SkipGate, ReproMissing, ReproExists, ReproPasses, Reproduce, MakePlan,
       NextStrategy, AgentFails, AgentTimeout, ValidDiff, RetryDiff, InvalidDiff,
       NotARepository, ReadWorkspace, Approve, WriteArtifact, ApplyFails, ApplyPatch,
       Accept, Reject, RollbackFails, Rollback, Save, Report, Start, RefuseTorn,
       Crash, TearSave, OperatorEdit, OperatorCommit

\* Between runs a run starts, is refused, or the operator works on the tree.
LEMMA IdleSteps ==
  ASSUME Next, pc = "idle"
  PROVE  (\E o \in Invocations : Start(o)) \/ RefuseTorn \/ OperatorEdit \/ OperatorCommit
BY DEF Next, OwnStep, Waiting, Environment, SkipGate, ReproMissing, ReproExists, ReproPasses,
       Reproduce, MakePlan, NextStrategy, AgentFails, AgentTimeout, ValidDiff, RetryDiff,
       InvalidDiff, NotARepository, ReadWorkspace, Approve, WriteArtifact, ApplyFails, ApplyPatch,
       Accept, Reject, RollbackFails, Rollback, Save, Report, Crash, TearSave

\* The attempts on file are only appended to, one at a time, until a kill inside
\* a save loses the file; after that no run works on the ticket.
THEOREM MemoGrows == Spec => MemoGrowsUnlessTorn
<1> DEFINE Grows == \/ disk'.memo = disk.memo
                    \/ \E a \in Attempt : disk'.memo = Append(disk.memo, a)
                    \/ pc = "save" /\ ~torn /\ torn'
           Stays == torn => torn' /\ pc = "idle" /\ pc' = "idle"
<1>1. IInv /\ HistoryInv /\ [Next]_vars => [Grows /\ Stays]_vars
  <2> SUFFICES ASSUME IInv, HistoryInv, [Next]_vars PROVE (Grows /\ Stays) \/ UNCHANGED vars
    OBVIOUS
  <2>0. pc # "idle" => ~torn
    BY DEF IInv, SavedInv
  <2>1. CASE disk' = disk /\ torn' = torn
    <3>1. torn /\ Next => pc' = "idle"
      BY <2>0, IdleSteps DEF Start, RefuseTorn, OperatorEdit, OperatorCommit
    <3>2. QED
      BY <2>0, <2>1, <3>1
  <2>2. CASE Save
    BY <2>0, <2>2 DEF Save, HistoryInv, MemoInv
  <2>3. CASE TearSave
    BY <2>0, <2>3 DEF TearSave
  <2>4. QED
    BY <2>1, <2>2, <2>3, WhoWrites
<1>2. QED
  BY <1>1, HistoryInvariance, Invariance, PTL DEF Spec, MemoGrowsUnlessTorn

\* The artifact of an attempt on file is never written over by an agent run.
THEOREM ArtifactsAreKept == Spec => RecordedArtifactsAreKept
<1> DEFINE A == ~run.opts.patchFile =>
                  \A t \in DOMAIN artifacts :
                    t[1] <= Len(disk.memo) => artifacts'[t] = artifacts[t]
<1>1. TypeOK /\ HistoryInv /\ [Next]_vars => [A]_vars
  <2> SUFFICES ASSUME TypeOK, HistoryInv, [Next]_vars PROVE A
    OBVIOUS
  <2>1. CASE artifacts' = artifacts
    BY <2>1
  <2>2. CASE WriteArtifact
    <3> SUFFICES ASSUME ~run.opts.patchFile, NEW t \in DOMAIN artifacts, t[1] <= Len(disk.memo)
                 PROVE  artifacts'[t] = artifacts[t]
      OBVIOUS
    <3>1. ticket.memo = disk.memo /\ disk.memo \in Seq(Attempt)
      BY <2>2 DEF WriteArtifact, HistoryInv, MemoInv, TypeOK, Ticket
    <3>2. Tag = <<Len(disk.memo) + 1, run.strategy>> /\ Len(disk.memo) \in Nat
      BY <3>1 DEF Tag
    <3>3. t # Tag
      BY <3>2
    <3>4. QED
      BY <2>2, <3>3 DEF WriteArtifact
  <2>3. QED
    BY <2>1, <2>2, WhoWrites
<1>2. QED
  BY <1>1, HistoryInvariance, Typing, PTL DEF Spec, RecordedArtifactsAreKept

\* An agent call is counted where an agent is asked.
LEMMA WhoCalls ==
  ASSUME TypeOK, [Next]_vars, run'.calls > run.calls
  PROVE  pc = "agent"
<1>1. run \in RunType /\ run.calls \in Nat
  BY DEF TypeOK, RunType
<1>2. CASE ValidDiff \/ RetryDiff \/ InvalidDiff
  BY <1>2 DEF ValidDiff, RetryDiff, InvalidDiff
<1>3. CASE \/ Reproduce \/ NextStrategy \/ ReadWorkspace \/ ApplyPatch \/ Accept \/ Reject
  <2>1. CASE Reproduce
    BY <1>1, <2>1 DEF Reproduce, RunType
  <2>2. CASE NextStrategy
    BY <1>1, <2>2 DEF NextStrategy, RunType
  <2>3. CASE ReadWorkspace
    BY <1>1, <2>3 DEF ReadWorkspace, RunType
  <2>4. CASE ApplyPatch
    BY <1>1, <2>4 DEF ApplyPatch, RunType
  <2>5. CASE Accept
    BY <1>1, <2>5 DEF Accept, RunType
  <2>6. CASE Reject
    BY <1>1, <2>6 DEF Reject, RunType
  <2>7. QED
    BY <1>3, <2>1, <2>2, <2>3, <2>4, <2>5, <2>6
<1>4. CASE MakePlan
  <2>1. {Minimal} \in SUBSET Strategies
        /\ StrategyAttempts(ticket.memo, run.opts.maxAttempts) \in SUBSET Strategies
    BY DEF Minimal, Strategies, StrategyAttempts
  <2>2. CASE run' = run
    BY <2>2, <1>1
  <2>3. CASE \E p \in SUBSET Strategies : run' = [run EXCEPT !.plan = p]
    BY <2>3, <1>1 DEF RunType
  <2>4. QED
    BY <1>4, <2>1, <2>2, <2>3 DEF MakePlan
<1>5. CASE \/ AgentTimeout \/ Report \/ Crash \/ TearSave \/ \E o \in Invocations : Start(o)
  BY <1>1, <1>5 DEF AgentTimeout, Report, Crash, TearSave, Start, Exit, Fresh
<1>6. CASE \/ SkipGate \/ ReproMissing \/ ReproExists \/ ReproPasses \/ AgentFails
           \/ NotARepository \/ Approve \/ WriteArtifact \/ ApplyFails \/ RollbackFails
           \/ Rollback \/ Save \/ RefuseTorn \/ OperatorEdit \/ OperatorCommit \/ UNCHANGED vars
  BY <1>1, <1>6 DEF SkipGate, ReproMissing, ReproExists, ReproPasses, AgentFails,
     NotARepository, Approve, WriteArtifact, ApplyFails, RollbackFails,
     Rollback, Save, RefuseTorn, OperatorEdit, OperatorCommit, vars
<1>7. QED
  BY <1>2, <1>3, <1>4, <1>5, <1>6 DEF Next, OwnStep, Waiting, Environment

\* No agent call spends a strategy that the ticket on file records as failed.
THEOREM SpentStaysSpent == Spec => NoSpentStrategyIsRetried
<1> DEFINE A == run'.calls > run.calls /\ ~run.opts.patchFile
                  => run.strategy \notin Exhausted(disk.memo)
<1>1. TypeOK /\ HistoryInv /\ [Next]_vars => [A]_vars
  <2> SUFFICES ASSUME TypeOK, HistoryInv, [Next]_vars, run'.calls > run.calls, ~run.opts.patchFile
               PROVE  run.strategy \notin Exhausted(disk.memo)
    OBVIOUS
  <2>1. pc = "agent"
    BY WhoCalls
  <2>2. ticket.memo = disk.memo /\ run.strategy \notin Exhausted(ticket.memo)
    BY <2>1 DEF HistoryInv, MemoInv, PlanInv, AtWork
  <2>3. QED
    BY <2>2
<1>2. QED
  BY <1>1, HistoryInvariance, Typing, PTL DEF Spec, NoSpentStrategyIsRetried

-----------------------------------------------------------------------------
\* A set of rungs has a highest one.
LEMMA HighestRung ==
  ASSUME NEW P \in SUBSET Strategies, P # {}
  PROVE  \E m \in P : \A s \in P : s <= m
<1>1. \A s \in P : s = 1 \/ s = 2 \/ s = 3 \/ s = 4
  BY DEF Strategies
<1>2. CASE 4 \in P
  BY <1>1, <1>2
<1>3. CASE 4 \notin P /\ 3 \in P
  BY <1>1, <1>3
<1>4. CASE 4 \notin P /\ 3 \notin P /\ 2 \in P
  BY <1>1, <1>4
<1>5. CASE 4 \notin P /\ 3 \notin P /\ 2 \notin P
  BY <1>1, <1>5
<1>. QED  BY <1>2, <1>3, <1>4, <1>5

LEMMA RungsAreFinite ==
  ASSUME NEW P \in SUBSET Strategies
  PROVE  IsFiniteSet(P) /\ Cardinality(P) \in Nat
<1>1. IsFiniteSet(1..4)
  <2>1. 1 \in Int /\ 4 \in Int
    OBVIOUS
  <2>. QED  BY <2>1, FS_Interval
<1>. QED  BY <1>1, FS_Subset, FS_CardinalityType DEF Strategies

LEMMA RungsAreFour ==
  ASSUME NEW P \in SUBSET Strategies
  PROVE  Cardinality(P) \in 0..4
<1>1. IsFiniteSet(1..4) /\ Cardinality(1..4) = 4
  <2>1. 1 \in Int /\ 4 \in Int
    OBVIOUS
  <2>2. IsFiniteSet(1..4) /\ Cardinality(1..4) = IF 1 > 4 THEN 0 ELSE 4 - 1 + 1
    BY <2>1, FS_Interval, Zenon
  <2>. QED  BY <2>2
<1>2. Cardinality(P) <= 4
  BY <1>1, FS_Subset DEF Strategies
<1>. QED  BY <1>2, RungsAreFinite

\* A plan has no more rungs than the run may try.
LEMMA PlanIsBounded ==
  ASSUME NEW m, NEW n \in Nat
  PROVE  Cardinality(StrategyAttempts(m, n)) <= n
<1>. DEFINE unspent == Strategies \ Exhausted(m)
            UpTo(s) == {t \in unspent : t <= s}
            P == StrategyAttempts(m, n)
<1>1. P = {s \in unspent : Cardinality(UpTo(s)) <= n}
  BY DEF StrategyAttempts
<1>2. P \in SUBSET Strategies
  BY <1>1
<1>3. CASE P = {}
  BY <1>3, FS_EmptySet
<1>4. CASE P # {}
  <2>. HIDE DEF P
  <2>1. PICK high \in P : \A s \in P : s <= high
    BY <1>2, <1>4, HighestRung
  <2>2. P \subseteq UpTo(high) /\ Cardinality(UpTo(high)) <= n
    BY <1>1, <2>1
  <2>. HIDE DEF unspent
  <2>3. UpTo(high) \in SUBSET Strategies
    BY DEF unspent
  <2>. HIDE DEF UpTo
  <2>4. Cardinality(P) <= Cardinality(UpTo(high))
    BY <2>2, <2>3, RungsAreFinite, FS_Subset
  <2>5. Cardinality(P) \in Nat /\ Cardinality(UpTo(high)) \in Nat
    BY <1>2, <2>3, RungsAreFinite
  <2>6. Cardinality(P) <= n
    BY <2>2, <2>4, <2>5
  <2>. QED  BY <2>6 DEF P
<1>. QED  BY <1>3, <1>4

\* The arithmetic of the budget: k rungs left of n, b tries at each.
LEMMA Budget ==
  ASSUME NEW b \in 1..3, NEW n \in Nat, NEW k \in Nat, NEW c \in Nat, NEW t \in Nat
  PROVE  /\ k <= n => k * b <= n * b
         /\ c + (k + 1) * b <= n * b => c + k * b + b <= n * b
         /\ c + k * b + b <= n * b + t /\ t < b => (c + 1) + k * b <= n * b /\ c + 1 <= n * b
         /\ c + k * b + b <= n * b + t => (c + 1) + k * b + b <= n * b + (t + 1)
         /\ 0 <= n * b /\ n * b \in Nat /\ k * b \in Nat
<1>1. CASE b = 1
  BY <1>1
<1>2. CASE b = 2
  BY <1>2
<1>3. CASE b = 3
  BY <1>3
<1>. QED  BY <1>1, <1>2, <1>3

LEMMA BoundValues == MaxInvalidDiffAttempts \in 1..3
BY RepairRunAssumption DEF MaxInvalidDiffAttempts

\* What the calls and the patches tried leave of the budget, at each point of a run.
RungsLeft == Cardinality(run.plan)
Unasked ==
  run.calls + RungsLeft * MaxInvalidDiffAttempts <= run.opts.maxAttempts * MaxInvalidDiffAttempts
BudgetInv ==
  /\ CallBudget
  /\ pc \in {"gate", "before", "plan"} \/ (pc = "save" /\ after = "plan")
       => run.calls = 0 /\ run.applies = 0
  /\ pc = "strategy" \/ pc = "validate" \/ pc = "reverse" \/ (pc = "save" /\ after = "reverse")
       => Unasked /\ run.applies + RungsLeft <= run.opts.maxAttempts
  /\ pc = "agent" =>
       /\ run.tries < MaxInvalidDiffAttempts
       /\ run.calls + RungsLeft * MaxInvalidDiffAttempts + MaxInvalidDiffAttempts
            <= run.opts.maxAttempts * MaxInvalidDiffAttempts + run.tries
       /\ run.applies + RungsLeft + 1 <= run.opts.maxAttempts
  /\ pc \in {"git", "approve", "artifact", "apply"}
       => Unasked /\ run.applies + RungsLeft + 1 <= run.opts.maxAttempts

LEMMA RunNumbers ==
  ASSUME run \in RunType
  PROVE  /\ run.calls \in Nat /\ run.applies \in Nat /\ run.tries \in Nat /\ RungsLeft \in Nat
         /\ run.opts.maxAttempts \in Nat \ {0} /\ run.plan \in SUBSET Strategies
         /\ MaxInvalidDiffAttempts \in Nat
<1>1. run.opts \in InvocationType /\ run.plan \in SUBSET Strategies
  BY RepairRunAssumption DEF RunType
<1>2. RungsLeft \in Nat
  BY <1>1, RungsAreFinite DEF RungsLeft
<1>. QED  BY <1>1, <1>2, BoundValues DEF RunType, InvocationType

LEMMA BudgetInvStep == TypeOK /\ BudgetInv /\ [Next]_vars => BudgetInv'
<1>. SUFFICES ASSUME TypeOK, BudgetInv, [Next]_vars
              PROVE  BudgetInv'
  OBVIOUS
<1>. DEFINE b == MaxInvalidDiffAttempts
<1>0. /\ run \in RunType /\ run.calls \in Nat /\ run.applies \in Nat /\ run.tries \in Nat
      /\ RungsLeft \in Nat /\ run.opts.maxAttempts \in Nat \ {0}
      /\ run.plan \in SUBSET Strategies /\ b \in 1..3
  BY RunNumbers, BoundValues DEF TypeOK
\* The process ends, or begins: nothing is counted yet.
<1>1. ASSUME NEW o \in Invocations, NEW t, run' = Fresh(o, t), pc' \in {"idle", "gate"}
      PROVE  BudgetInv'
  <2>1. run'.calls = 0 /\ run'.applies = 0 /\ run'.opts = o /\ o.maxAttempts \in Nat
    BY <1>1, RepairRunAssumption DEF Fresh, InvocationType
  <2>2. 0 <= o.maxAttempts * b
    BY <1>0, <2>1, Budget
  <2>3. CallBudget'
    BY <2>1, <2>2 DEF CallBudget, MaxInvalidDiffAttempts
  <2>. QED  BY <1>1, <2>1, <2>3 DEF BudgetInv
\* The run stops: the count stays.
<1>2. ASSUME run' = run, pc' = "save", after' = "report_fail"
      PROVE  BudgetInv'
  BY <1>2 DEF BudgetInv, CallBudget, MaxInvalidDiffAttempts
<1>3. CASE \/ ReproMissing \/ ReproPasses \/ AgentFails \/ NotARepository \/ ApplyFails
           \/ RollbackFails
  BY <1>2, <1>3 DEF ReproMissing, ReproPasses, AgentFails, NotARepository, ApplyFails,
     RollbackFails, Stop, SaveThen
<1>4. CASE \/ AgentTimeout \/ Report \/ Crash \/ TearSave
  <2>1. run' = Fresh(run.opts, <<>>) /\ pc' = "idle"
    BY <1>4 DEF AgentTimeout, Report, Crash, TearSave, Exit
  <2>2. run.opts \in Invocations
    BY <1>0 DEF RunType
  <2>. QED  BY <1>1, <2>1, <2>2
<1>5. ASSUME NEW o \in Invocations, Start(o)
      PROVE  BudgetInv'
  BY <1>1, <1>5 DEF Start
\* The steps that leave the run's locals alone.
<1>6. CASE \/ SkipGate \/ ReproExists \/ WriteArtifact \/ Save \/ RefuseTorn
           \/ OperatorEdit \/ OperatorCommit \/ UNCHANGED vars
  <2>1. run' = run
    BY <1>6 DEF SkipGate, ReproExists, WriteArtifact, Save, RefuseTorn, OperatorEdit,
       OperatorCommit, vars
  <2>2. \/ pc' = pc /\ after' = after
        \/ pc \in {"gate", "before"} /\ pc' \in {"before", "plan"}
        \/ pc = "artifact" /\ pc' = "apply"
        \/ pc = "save" /\ pc' = after
    BY <1>6 DEF SkipGate, ReproExists, WriteArtifact, Save, RefuseTorn, OperatorEdit,
       OperatorCommit, vars
  <2>3. after \in {"idle", "plan", "reverse", "report_pass", "report_fail"}
    BY DEF TypeOK
  <2>. QED
    BY <2>1, <2>2, <2>3 DEF BudgetInv, CallBudget, MaxInvalidDiffAttempts, Unasked, RungsLeft
<1>7. CASE Approve \/ Rollback
  <2>1. /\ run' = run
        /\ \/ pc = "approve" /\ pc' = "artifact"
           \/ pc = "reverse" /\ pc' = "strategy"
           \/ pc' = "save" /\ after' = "report_fail"
    BY <1>7 DEF Approve, Rollback, Stop, SaveThen
  <2>. QED
    BY <1>2, <2>1 DEF BudgetInv, CallBudget, MaxInvalidDiffAttempts, Unasked, RungsLeft
<1>8. CASE Reproduce
  <2>1. /\ run'.calls = run.calls /\ run'.applies = run.applies /\ run'.opts = run.opts
        /\ pc = "before" /\ pc' = "save" /\ after' = "plan"
    BY <1>0, <1>8 DEF Reproduce, SaveThen, RunType
  <2>. QED  BY <2>1 DEF BudgetInv, CallBudget, MaxInvalidDiffAttempts
<1>9. CASE MakePlan
  <2>. DEFINE plan == IF run.opts.patchFile THEN {Minimal}
                      ELSE StrategyAttempts(ticket.memo, run.opts.maxAttempts)
  <2>1. run.calls = 0 /\ run.applies = 0
    BY <1>9 DEF MakePlan, BudgetInv
  <2>2. CASE plan = {}
    BY <1>2, <1>9, <2>2 DEF MakePlan, Stop, SaveThen
  <2>3. CASE plan # {}
    <3>1. run' = [run EXCEPT !.plan = plan] /\ pc' = "strategy"
      BY <1>9, <2>3 DEF MakePlan
    <3>2. plan \in SUBSET Strategies
      BY DEF StrategyAttempts, Minimal, Strategies
    <3>3. Cardinality(plan) <= run.opts.maxAttempts /\ Cardinality(plan) \in Nat
      <4>1. CASE run.opts.patchFile
        BY <1>0, <4>1, FS_Singleton
      <4>2. CASE ~run.opts.patchFile
        BY <1>0, <3>2, <4>2, PlanIsBounded, RungsAreFinite
      <4>. QED  BY <4>1, <4>2
    <3>. HIDE DEF plan
    <3>4. /\ run'.plan = plan /\ run'.calls = 0 /\ run'.applies = 0 /\ run'.opts = run.opts
      BY <1>0, <2>1, <3>1 DEF RunType
    <3>5. Cardinality(plan) * b <= run.opts.maxAttempts * b
      BY <1>0, <3>3, Budget
    <3>6. CallBudget'
      BY <2>1, <3>4 DEF BudgetInv, CallBudget, MaxInvalidDiffAttempts
    <3>7. Cardinality(plan) * b \in Nat
      BY <1>0, <3>3, Budget
    <3>8. Unasked' /\ run'.applies + RungsLeft' <= run'.opts.maxAttempts
      BY <3>3, <3>4, <3>5, <3>7 DEF Unasked, RungsLeft, MaxInvalidDiffAttempts
    <3>. QED  BY <3>1, <3>6, <3>8 DEF BudgetInv
  <2>. QED  BY <2>2, <2>3
<1>10. CASE NextStrategy
  <2>1. PICK s \in run.plan : run' = [run EXCEPT !.plan = @ \ {s}, !.strategy = s, !.tries = 0,
                                                 !.seen = NothingSeen]
    BY <1>10 DEF NextStrategy
  <2>2. /\ run'.plan = run.plan \ {s} /\ run'.tries = 0 /\ run'.calls = run.calls
        /\ run'.applies = run.applies /\ run'.opts = run.opts
    BY <1>0, <2>1 DEF RunType
  <2>3. RungsLeft' = RungsLeft - 1 /\ RungsLeft' \in Nat
    <3>1. IsFiniteSet(run.plan)
      BY <1>0, RungsAreFinite
    <3>2. Cardinality(run.plan \ {s}) = Cardinality(run.plan) - 1
      BY <3>1, FS_RemoveElement
    <3>3. Cardinality(run.plan \ {s}) \in Nat
      BY <3>1, FS_RemoveElement, FS_CardinalityType
    <3>. QED  BY <2>2, <3>2, <3>3 DEF RungsLeft
  <2>4. /\ run.calls + RungsLeft * b <= run.opts.maxAttempts * b
        /\ run.applies + RungsLeft <= run.opts.maxAttempts /\ pc' = "agent"
    BY <1>10 DEF NextStrategy, BudgetInv, Unasked
  <2>5. run.calls + (RungsLeft' + 1) * b <= run.opts.maxAttempts * b
    BY <1>0, <2>3, <2>4
  <2>6. run.calls + RungsLeft' * b + b <= run.opts.maxAttempts * b
    BY <1>0, <2>3, <2>5, Budget
  <2>7. CallBudget'
    BY <2>2 DEF BudgetInv, CallBudget, MaxInvalidDiffAttempts
  <2>8. run.opts.maxAttempts * b \in Nat
    BY <1>0, Budget
  <2>9. /\ run'.tries < b
        /\ run'.calls + RungsLeft' * b + b <= run'.opts.maxAttempts * b + run'.tries
        /\ run'.applies + RungsLeft' + 1 <= run'.opts.maxAttempts
    BY <1>0, <2>2, <2>3, <2>4, <2>6, <2>8
  <2>. QED  BY <2>4, <2>7, <2>9 DEF BudgetInv, MaxInvalidDiffAttempts
<1>11. CASE ValidDiff \/ InvalidDiff \/ RetryDiff
  <2>1. /\ run'.plan = run.plan /\ run'.calls = run.calls + 1 /\ run'.applies = run.applies
        /\ run'.opts = run.opts /\ RungsLeft' = RungsLeft
    BY <1>0, <1>11 DEF ValidDiff, InvalidDiff, RetryDiff, RunType, RungsLeft
  <2>2. /\ run.tries < b
        /\ run.calls + RungsLeft * b + b <= run.opts.maxAttempts * b + run.tries
        /\ run.applies + RungsLeft + 1 <= run.opts.maxAttempts
    BY <1>11 DEF ValidDiff, InvalidDiff, RetryDiff, BudgetInv
  <2>3. /\ (run.calls + 1) + RungsLeft * b <= run.opts.maxAttempts * b
        /\ run.calls + 1 <= run.opts.maxAttempts * b
        /\ (run.calls + 1) + RungsLeft * b + b <= run.opts.maxAttempts * b + (run.tries + 1)
    BY <1>0, <2>2, Budget
  <2>4. CallBudget'
    BY <2>1, <2>3 DEF BudgetInv, CallBudget, MaxInvalidDiffAttempts
  <2>5. Unasked'
    BY <2>1, <2>3 DEF Unasked, MaxInvalidDiffAttempts
  <2>6. CASE ValidDiff
    BY <2>1, <2>2, <2>4, <2>5, <2>6 DEF ValidDiff, BudgetInv
  <2>7. CASE InvalidDiff
    BY <2>4, <2>7 DEF InvalidDiff, Stop, SaveThen, BudgetInv
  <2>8. CASE RetryDiff
    <3>1. run'.tries = run.tries + 1 /\ run.tries + 1 < b /\ pc' = "agent"
      BY <1>0, <2>8 DEF RetryDiff, RunType
    <3>. QED  BY <2>1, <2>2, <2>3, <2>4, <3>1 DEF BudgetInv, MaxInvalidDiffAttempts
  <2>. QED  BY <1>11, <2>6, <2>7, <2>8
<1>12. CASE ReadWorkspace
  <2>1. /\ run'.plan = run.plan /\ run'.calls = run.calls /\ run'.applies = run.applies
        /\ run'.opts = run.opts /\ pc = "git" /\ pc' = "approve"
    BY <1>0, <1>12 DEF ReadWorkspace, RunType
  <2>. QED  BY <2>1 DEF BudgetInv, CallBudget, MaxInvalidDiffAttempts, Unasked, RungsLeft
<1>13. CASE ApplyPatch
  <2>1. /\ run'.plan = run.plan /\ run'.calls = run.calls /\ run'.applies = run.applies + 1
        /\ run'.opts = run.opts /\ pc = "apply" /\ pc' = "validate"
    BY <1>0, <1>13 DEF ApplyPatch, RunType
  <2>2. Unasked /\ run.applies + RungsLeft + 1 <= run.opts.maxAttempts /\ CallBudget
    BY <2>1 DEF BudgetInv
  <2>3. RungsLeft' = RungsLeft
    BY <2>1 DEF RungsLeft
  <2>4. Unasked' /\ run'.applies + RungsLeft' <= run'.opts.maxAttempts
    BY <1>0, <2>1, <2>2, <2>3 DEF Unasked, MaxInvalidDiffAttempts
  <2>5. CallBudget'
    BY <1>0, <2>1, <2>2 DEF CallBudget, MaxInvalidDiffAttempts
  <2>. QED  BY <2>1, <2>4, <2>5 DEF BudgetInv
<1>14. CASE Accept \/ Reject
  <2>1. /\ run'.plan = run.plan /\ run'.calls = run.calls /\ run'.applies = run.applies
        /\ run'.opts = run.opts /\ pc = "validate" /\ pc' = "save"
        /\ after' \in {"reverse", "report_pass"}
    BY <1>0, <1>14 DEF Accept, Reject, SaveThen, RunType
  <2>. QED  BY <2>1 DEF BudgetInv, CallBudget, MaxInvalidDiffAttempts, Unasked, RungsLeft
<1>. QED
  BY <1>3, <1>4, <1>5, <1>6, <1>7, <1>8, <1>9, <1>10, <1>11, <1>12, <1>13, <1>14
  DEF Next, OwnStep, Waiting, Environment

LEMMA BudgetHolds == Spec => []BudgetInv
<1>1. Init => BudgetInv
  <2>. SUFFICES ASSUME Init
                PROVE  BudgetInv
    OBVIOUS
  <2>1. PICK o \in Invocations : run = Fresh(o, <<>>)
    BY DEF Init
  <2>2. run.calls = 0 /\ run.applies = 0 /\ run.opts = o /\ o.maxAttempts \in Nat
    BY <2>1, RepairRunAssumption DEF Fresh, InvocationType
  <2>3. 0 <= o.maxAttempts * MaxInvalidDiffAttempts
    BY <2>2, BoundValues, Budget
  <2>. QED  BY <2>2, <2>3 DEF Init, BudgetInv, CallBudget
<1>. QED  BY <1>1, BudgetInvStep, Typing, PTL DEF Spec

\* An agent is asked at most max_attempts times the bound on invalid diffs, and
\* at most max_attempts patches are tried, whatever the memo says, for any
\* options and configuration (cli.py:213-216, 250-254, 356).
THEOREM CallsAreBounded == Spec => []CallBudget
<1>1. BudgetInv => CallBudget
  BY DEF BudgetInv
<1>. QED  BY <1>1, BudgetHolds, PTL

-----------------------------------------------------------------------------
\* How many steps may lie ahead at each label, now and after a step.
LEMMA Stages ==
  LET early == /\ StepsFrom("idle") = 0
               /\ StepsFrom("report_pass") = 1 /\ StepsFrom("report_fail") = 1
               /\ StepsFrom("plan") = 47 /\ StepsFrom("before") = 49
               /\ StepsFrom("gate") = 50
      trial == /\ StepsFrom("strategy") = 2 + 11 * RungsLeft
               /\ StepsFrom("reverse") = 3 + 11 * RungsLeft
               /\ StepsFrom("validate") = 5 + 11 * RungsLeft
               /\ StepsFrom("apply") = 6 + 11 * RungsLeft
               /\ StepsFrom("artifact") = 7 + 11 * RungsLeft
               /\ StepsFrom("approve") = 8 + 11 * RungsLeft
               /\ StepsFrom("git") = 9 + 11 * RungsLeft
               /\ StepsFrom("agent") = 9 + MaxInvalidDiffAttempts - run.tries + 11 * RungsLeft
  IN  early /\ trial /\ early' /\ trial'
BY DEF StepsFrom, RungsLeft

LEMMA MovesOn ==
  TypeOK /\ BudgetInv /\ Next /\ pc # "idle" /\ userDirty' = userDirty
    => StepsLeft' < StepsLeft
<1>. SUFFICES ASSUME TypeOK, BudgetInv, Next, pc # "idle", userDirty' = userDirty
              PROVE  StepsLeft' < StepsLeft
  OBVIOUS
<1>. DEFINE b == MaxInvalidDiffAttempts
<1>0. /\ run \in RunType /\ run.tries \in Nat /\ RungsLeft \in Nat
      /\ run.plan \in SUBSET Strategies /\ b \in 1..3
  BY RunNumbers, BoundValues DEF TypeOK
<1>a. after \in {"idle", "plan", "reverse", "report_pass", "report_fail"} /\ pc \in Labels
  BY DEF TypeOK
<1>b. pc = "agent" => run.tries < b
  BY DEF BudgetInv
\* What is ahead of a run that stops, and of one that is not about to.
<1>c. /\ pc' = "save" /\ after' = "report_fail" => StepsLeft' = 2
      /\ pc' = "idle" => StepsLeft' = 0
  BY Stages DEF StepsLeft
<1>d. /\ pc \notin {"report_pass", "report_fail", "save", "strategy"} => StepsLeft > 2
      /\ StepsLeft > 0
  BY <1>0, <1>a, <1>b, Stages DEF StepsLeft, Labels
<1>1. CASE \/ ReproMissing \/ ReproPasses \/ AgentFails \/ InvalidDiff \/ NotARepository
           \/ ApplyFails \/ RollbackFails
  BY <1>1, <1>c, <1>d DEF ReproMissing, ReproPasses, AgentFails, InvalidDiff, NotARepository,
     ApplyFails, RollbackFails, Stop, SaveThen
<1>2. CASE AgentTimeout \/ Report \/ Crash \/ TearSave
  BY <1>2, <1>c, <1>d DEF AgentTimeout, Report, Crash, TearSave, Exit
<1>3. CASE SkipGate \/ ReproExists \/ Reproduce
  BY <1>3, Stages DEF SkipGate, ReproExists, Reproduce, SaveThen, StepsLeft
\* A plan has a rung at most for each of the four strategies.
<1>4. CASE MakePlan
  <2>. DEFINE plan == IF run.opts.patchFile THEN {Minimal}
                      ELSE StrategyAttempts(ticket.memo, run.opts.maxAttempts)
  <2>1. CASE plan = {}
    BY <1>4, <1>c, <1>d, <2>1 DEF MakePlan, Stop, SaveThen
  <2>2. CASE plan # {}
    <3>1. run' = [run EXCEPT !.plan = plan] /\ pc' = "strategy" /\ pc = "plan"
      BY <1>4, <2>2 DEF MakePlan
    <3>2. plan \in SUBSET Strategies
      BY DEF StrategyAttempts, Minimal, Strategies
    <3>3. Cardinality(plan) \in 0..4
      BY <3>2, RungsAreFour
    <3>. HIDE DEF plan
    <3>4. RungsLeft' = Cardinality(plan)
      BY <1>0, <3>1 DEF RunType, RungsLeft
    <3>. QED  BY <3>1, <3>3, <3>4, Stages DEF StepsLeft
  <2>. QED  BY <2>1, <2>2
<1>5. CASE NextStrategy
  <2>1. PICK s \in run.plan : run' = [run EXCEPT !.plan = @ \ {s}, !.strategy = s, !.tries = 0,
                                                 !.seen = NothingSeen]
    BY <1>5 DEF NextStrategy
  <2>2. run'.plan = run.plan \ {s} /\ run'.tries = 0 /\ pc = "strategy" /\ pc' = "agent"
    BY <1>0, <1>5, <2>1 DEF RunType, NextStrategy
  <2>3. RungsLeft' = RungsLeft - 1 /\ MaxInvalidDiffAttempts' = b
    BY <1>0, <2>2, RungsAreFinite, FS_RemoveElement DEF RungsLeft, MaxInvalidDiffAttempts
  <2>. QED  BY <1>0, <2>2, <2>3, Stages DEF StepsLeft
<1>6. CASE RetryDiff
  <2>1. /\ run'.tries = run.tries + 1 /\ RungsLeft' = RungsLeft /\ MaxInvalidDiffAttempts' = b
        /\ pc = "agent" /\ pc' = pc
    BY <1>0, <1>6 DEF RetryDiff, RunType, RungsLeft, MaxInvalidDiffAttempts
  <2>. QED  BY <1>0, <2>1, Stages DEF StepsLeft
<1>7. CASE ValidDiff \/ ReadWorkspace \/ ApplyPatch \/ Accept \/ Reject
  <2>1. RungsLeft' = RungsLeft
    BY <1>0, <1>7 DEF ValidDiff, ReadWorkspace, ApplyPatch, Accept, Reject, RunType, RungsLeft
  <2>2. \/ pc = "agent" /\ pc' = "git"
        \/ pc = "git" /\ pc' = "approve"
        \/ pc = "apply" /\ pc' = "validate"
        \/ pc = "validate" /\ pc' = "save" /\ after' \in {"reverse", "report_pass"}
    BY <1>7 DEF ValidDiff, ReadWorkspace, ApplyPatch, Accept, Reject, SaveThen
  <2>. QED  BY <1>0, <1>b, <2>1, <2>2, Stages DEF StepsLeft
<1>8. CASE Approve \/ WriteArtifact \/ Rollback \/ Save
  <2>1. RungsLeft' = RungsLeft
    BY <1>8 DEF Approve, WriteArtifact, Rollback, Save, RungsLeft
  <2>2. \/ pc = "approve" /\ pc' = "artifact"
        \/ pc = "artifact" /\ pc' = "apply"
        \/ pc = "reverse" /\ pc' = "strategy"
        \/ pc = "save" /\ pc' = after
        \/ pc \in {"approve", "reverse"} /\ pc' = "save" /\ after' = "report_fail"
    BY <1>8 DEF Approve, WriteArtifact, Rollback, Save, Stop, SaveThen
  <2>. QED  BY <1>0, <1>a, <1>c, <1>d, <2>1, <2>2, Stages DEF StepsLeft
<1>9. CASE (\E o \in Invocations : Start(o)) \/ RefuseTorn \/ OperatorEdit \/ OperatorCommit
  BY <1>9 DEF Start, RefuseTorn, OperatorEdit, OperatorCommit
<1>. QED
  BY <1>1, <1>2, <1>3, <1>4, <1>5, <1>6, <1>7, <1>8, <1>9
  DEF Next, OwnStep, Waiting, Environment

\* Every step of a run brings it nearer to its end, and at most 50 of them lie
\* ahead of it at any time: whatever agent, git, tests and user answer, for any
\* options and configuration (cli.py:213-216, 339-393, 911-1377).
THEOREM RunsMoveOn == Spec => RunMovesOn /\ [](StepsLeft \in 0..50)
<1>1. Init => StepsLeft \in 0..50
  BY Stages DEF Init, StepsLeft
<1>2. TypeOK /\ BudgetInv => StepsLeft \in Nat
  <2>. SUFFICES ASSUME TypeOK, BudgetInv
                PROVE  StepsLeft \in Nat
    OBVIOUS
  <2>1. /\ pc \in Labels /\ after \in {"idle", "plan", "reverse", "report_pass", "report_fail"}
        /\ pc = "agent" => run.tries < MaxInvalidDiffAttempts
    BY DEF TypeOK, BudgetInv
  <2>2. RungsLeft \in Nat /\ run.tries \in Nat /\ MaxInvalidDiffAttempts \in 1..3
    BY RunNumbers, BoundValues DEF TypeOK
  <2>. QED  BY <2>1, <2>2, Stages DEF StepsLeft, Labels
<1>3. /\ TypeOK /\ BudgetInv /\ StepsLeft \in 0..50
      /\ TypeOK' /\ BudgetInv' /\ [Next]_vars
      => (StepsLeft \in 0..50)'
  <2>. SUFFICES ASSUME TypeOK, BudgetInv, StepsLeft \in 0..50, TypeOK', BudgetInv', [Next]_vars
                PROVE  (StepsLeft \in 0..50)'
    OBVIOUS
  <2>1. StepsLeft \in Nat /\ StepsLeft' \in Nat
    <3>1. (StepsLeft \in Nat)'
      BY <1>2, PTL
    <3>. QED  BY <3>1
  <2>2. CASE Next /\ pc # "idle" /\ userDirty' = userDirty
    BY <2>1, <2>2, MovesOn
  <2>3. ASSUME NEW o \in Invocations, Start(o)
        PROVE  StepsLeft' = 50
    BY <2>3, Stages DEF Start, StepsLeft
  <2>4. CASE RefuseTorn \/ OperatorEdit \/ OperatorCommit \/ UNCHANGED vars
    <3>1. run' = run /\ pc' = pc /\ after' = after
      BY <2>4 DEF RefuseTorn, OperatorEdit, OperatorCommit, vars
    <3>2. StepsLeft' = StepsLeft
      BY <3>1 DEF StepsLeft, StepsFrom, MaxInvalidDiffAttempts
    <3>. QED  BY <3>2
  <2>5. Next /\ userDirty' # userDirty => OperatorEdit \/ OperatorCommit
    BY DEF Next, OwnStep, Waiting, Environment, SkipGate, ReproMissing, ReproExists, ReproPasses,
       Reproduce, MakePlan, NextStrategy, AgentFails, AgentTimeout, ValidDiff, RetryDiff,
       InvalidDiff, NotARepository, ReadWorkspace, Approve, WriteArtifact, ApplyFails, ApplyPatch,
       Accept, Reject, RollbackFails, Rollback, Save, Report, Start, RefuseTorn, Crash, TearSave,
       workspace
  <2>6. Next /\ pc = "idle" =>
          (\E o \in Invocations : Start(o)) \/ RefuseTorn \/ OperatorEdit \/ OperatorCommit
    BY IdleSteps
  <2>. QED  BY <2>2, <2>3, <2>4, <2>5, <2>6
<1>4. TypeOK /\ BudgetInv /\ [Next]_vars =>
        [pc # "idle" /\ userDirty' = userDirty => StepsLeft' < StepsLeft]_vars
  BY MovesOn
<1>. QED
  BY <1>1, <1>3, <1>4, BudgetHolds, Typing, PTL DEF Spec, RunMovesOn
=============================================================================
