--------------------------- MODULE WatchLoopProofs ---------------------------
(***************************************************************************)
(* Proofs about WatchLoop, for any number of polls, tickets and attempts:  *)
(* typing, the counters of the summary, what a SIGINT still lets through,  *)
(* one consent per patch, and that an accepted repair passes its poll.     *)
(***************************************************************************)
EXTENDS WatchLoop, TLAPS

USE WatchLoopAssumption

\* The actions that neither count nor touch the run in progress.
LoopStep == Begin \/ SetUp \/ SetUpFails \/ Top \/ CheckStop \/ Sleep \/ Raises \/ CleanUp

\* Those of the run that leave the counters of the summary alone.
RunStep == RunFails \/ Try \/ Keep \/ Refuse \/ TakeBack \/ RunEnds \/ AgentTimeout

LEMMA Steps ==
  ASSUME [Next]_vars
  PROVE  \/ LoopStep \/ RunStep \/ Poll \/ Scan \/ Grant \/ Deny
         \/ Interrupt \/ Terminate \/ OperatorEdit \/ UNCHANGED vars
  BY DEF Next, OwnStep, Waiting, Environment, LoopStep, RunStep

\* A run that is about to try a patch has a strategy left for it.
TurnInv == pc = "run" /\ turn \in {"ask", "try"} => attempts < MaxAttempts

LEMMA InitType == Init => TypeOK /\ TurnInv
<1> SUFFICES ASSUME Init PROVE TypeOK /\ TurnInv
  OBVIOUS
<1>1. /\ auto \in AutoApproves /\ pc \in Labels /\ stop \in BOOLEAN
      /\ handler \in {"default", "watch"}
  BY DEF Init, Labels
<1>2. exit \in Exits /\ summary \in [Counters -> Nat]
  BY DEF Init, Exits
<1>3. tree \in Seq(Nat \X Nat)
  BY DEF Init
<1>4. /\ status \in {"new", "passed", "failed"}
      /\ phase \in {"closed", "open", "trial", "accepted", "rejected"}
      /\ turn \in {"ask", "try", "end"} /\ attempts \in 0..MaxAttempts
  BY DEF Init
<1>5. suite \in Suites /\ kept \in BOOLEAN /\ tries \in Nat
  BY DEF Init
<1>6. atStop \in [polls : Nat, runs : Nat]
  BY DEF Init
<1>7. TurnInv
  BY DEF Init, TurnInv
<1>8. QED
  BY <1>1, <1>2, <1>3, <1>4, <1>5, <1>6, <1>7 DEF TypeOK

\* What a poll counts: itself, and a pass or a failure.
LEMMA PollCounts ==
  ASSUME TypeOK, Poll
  PROVE  /\ summary' \in [Counters -> Nat]
         /\ summary'["polls"] = summary["polls"] + 1
         /\ \/ /\ pc' = "check" /\ summary'["passes"] = summary["passes"] + 1
               /\ summary'["failures"] = summary["failures"]
            \/ /\ pc' = "scan" /\ summary'["passes"] = summary["passes"]
               /\ summary'["failures"] = summary["failures"] + 1
         /\ \A c \in {"created", "runs", "granted", "denied"} : summary'[c] = summary[c]
<1>1. PICK answer \in Answers :
        /\ summary' = [summary EXCEPT !["polls"] = @ + 1,
              ![IF answer = "green" THEN "passes" ELSE "failures"] = @ + 1]
        /\ pc' = IF answer = "green" THEN "check" ELSE "scan"
  BY DEF Poll
<1>2. summary \in [Counters -> Nat]
  BY DEF TypeOK
<1>3. CASE answer = "green"
  BY <1>1, <1>2, <1>3 DEF Counters
<1>4. CASE answer # "green"
  BY <1>1, <1>2, <1>4 DEF Counters
<1>5. QED
  BY <1>3, <1>4

\* What the tickets of a failing poll count: all of them, and one run.
LEMMA ScanCounts ==
  ASSUME TypeOK, Scan
  PROVE  \/ pc' = "check" /\ UNCHANGED <<summary, status, tree, phase, turn, attempts>>
         \/ /\ pc' = "run" /\ tree' = tree
            /\ status' = "new" /\ phase' = "open" /\ turn' = "ask" /\ attempts' = 0
            /\ summary' \in [Counters -> Nat]
            /\ summary'["runs"] = summary["runs"] + 1
            /\ summary'["created"] >= summary["created"] + 1
            /\ \A c \in {"polls", "passes", "failures", "granted", "denied"} :
                 summary'[c] = summary[c]
<1>1. PICK n \in 0..MaxTickets :
        \/ n = 0 /\ pc' = "check" /\ UNCHANGED <<summary, repair>>
        \/ /\ n > 0 /\ pc' = "run"
           /\ summary' = [summary EXCEPT !["created"] = @ + n, !["runs"] = @ + 1]
           /\ status' = "new" /\ phase' = "open" /\ turn' = "ask" /\ attempts' = 0
           /\ UNCHANGED tree
  BY DEF Scan
<1>2. summary \in [Counters -> Nat] /\ n \in Nat
  BY DEF TypeOK
<1>3. CASE n = 0
  BY <1>1, <1>3 DEF repair
<1>4. CASE n > 0
  <2> DEFINE more == [summary EXCEPT !["created"] = summary["created"] + n,
                                     !["runs"] = summary["runs"] + 1]
  <2>1. /\ more \in [Counters -> Nat]
        /\ more["runs"] = summary["runs"] + 1 /\ more["created"] = summary["created"] + n
        /\ \A c \in {"polls", "passes", "failures", "granted", "denied"} : more[c] = summary[c]
    BY <1>2 DEF Counters
  <2>2. summary["created"] \in Nat
    BY <1>2 DEF Counters
  <2>3. summary' = more
    BY <1>1, <1>4
  <2> HIDE DEF more
  <2>4. summary'["created"] >= summary["created"] + 1
    BY <1>2, <1>4, <2>1, <2>2, <2>3
  <2>5. QED
    BY <1>1, <1>4, <2>1, <2>3, <2>4
<1>5. QED
  BY <1>2, <1>3, <1>4

LEMMA LoopType ==
  ASSUME TypeOK, TurnInv, LoopStep
  PROVE  TypeOK' /\ TurnInv'
<1> USE DEF TypeOK, TurnInv, repair
<1>1. CASE Begin
  BY <1>1 DEF Begin, Labels
<1>2. CASE SetUp \/ SetUpFails
  BY <1>2 DEF SetUp, SetUpFails, Labels, Exits
<1>3. CASE Top
  BY <1>3 DEF Top, Labels, Exits
<1>4. CASE CheckStop \/ Sleep
  BY <1>4 DEF CheckStop, Sleep, Labels, Exits
<1>5. CASE Raises
  BY <1>5 DEF Raises, Labels, Exits
<1>6. CASE CleanUp
  BY <1>6 DEF CleanUp, Labels
<1>7. QED
  BY <1>1, <1>2, <1>3, <1>4, <1>5, <1>6 DEF LoopStep

LEMMA RunType ==
  ASSUME TypeOK, TurnInv, RunStep
  PROVE  TypeOK' /\ TurnInv'
<1> USE DEF TypeOK, TurnInv, loop
<1>1. CASE RunFails
  BY <1>1 DEF RunFails, Contract!Mark
<1>2. CASE Try
  <2>1. attempts + 1 \in 0..MaxAttempts /\ tries + 1 \in Nat
    BY <1>2 DEF Try
  <2>2. <<summary["runs"], attempts + 1>> \in Nat \X Nat
    BY DEF Counters
  <2>3. tree' \in Seq(Nat \X Nat)
    BY <1>2, <2>2 DEF Try
  <2>4. QED
    BY <1>2, <2>1, <2>3 DEF Try, Contract!Try
<1>3. CASE Keep \/ Refuse
  BY <1>3 DEF Keep, Refuse, Contract!Keep, Contract!Refuse
<1>4. CASE TakeBack
  <2>1. tree' \in Seq(Nat \X Nat)
    BY <1>4 DEF TakeBack, Contract!TakeBack
  <2>2. QED
    BY <1>4, <2>1 DEF TakeBack, Contract!TakeBack
<1>5. CASE RunEnds
  BY <1>5 DEF RunEnds, Contract!End, Labels
<1>6. CASE AgentTimeout
  BY <1>6 DEF AgentTimeout, Contract!End, Labels, Exits
<1>7. QED
  BY <1>1, <1>2, <1>3, <1>4, <1>5, <1>6 DEF RunStep

LEMMA StepType ==
  ASSUME TypeOK, TurnInv, [Next]_vars
  PROVE  TypeOK' /\ TurnInv'
<1> USE DEF TypeOK, TurnInv
<1>1. CASE Poll
  <2>1. pc' \in Labels /\ pc' # "run"
    BY <1>1, PollCounts DEF Labels
  <2>2. QED
    BY <1>1, <2>1, PollCounts DEF Poll, repair
<1>2. CASE Scan
  BY <1>2, ScanCounts DEF Scan, Labels
<1>3. CASE Grant
  BY <1>3 DEF Grant, Count, loop, Counters
<1>4. CASE Deny
  BY <1>4 DEF Deny, Count, loop, Counters, Contract!Mark
<1>5. CASE Interrupt
  BY <1>5 DEF Interrupt, Counters, repair
<1>6. CASE Terminate
  BY <1>6 DEF Terminate, Labels, Exits, repair
<1>7. CASE OperatorEdit
  BY <1>7 DEF OperatorEdit, loop, repair
<1>8. CASE UNCHANGED vars
  BY <1>8 DEF vars, loop, repair
<1>9. QED
  BY <1>1, <1>2, <1>3, <1>4, <1>5, <1>6, <1>7, <1>8, LoopType, RunType, Steps

\* The state stays well typed (watcher.py:199-274).
THEOREM Typing == Spec => [](TypeOK /\ TurnInv)
  BY InitType, StepType, PTL DEF Spec

-----------------------------------------------------------------------------
\* Where a stop that has been requested is still to be noticed.
StopInv ==
  /\ stop => summary["polls"] <=
               atStop.polls + IF pc \in {"setup", "top", "test", "sleep"} THEN 0 ELSE 1
  /\ stop => summary["runs"] <=
               atStop.runs + IF pc \in {"setup", "top", "test", "scan", "sleep"} THEN 0 ELSE 1
  /\ pc = "off" /\ exit = "none" => ~stop
  /\ pc = "cleanup" => exit # "none"

\* Each run is for a failing poll, and each of its patches had its question.
CountInv ==
  /\ summary["polls"] = summary["passes"] + summary["failures"]
  /\ summary["runs"] + (IF pc = "scan" THEN 1 ELSE 0) <= summary["failures"]
  /\ summary["runs"] <= summary["created"]
  /\ summary["granted"] + summary["denied"] <= MaxAttempts * summary["runs"]
  /\ pc = "run" => summary["granted"] + summary["denied"] + MaxAttempts <=
       MaxAttempts * summary["runs"] + attempts
         + IF turn = "ask" \/ phase \in {"trial", "rejected"} THEN 0 ELSE 1

\* While a patch is kept and nobody has edited, the watched command is green.
KeptInv ==
  /\ kept => suite = "green"
  /\ phase \in {"trial", "rejected"} => ~kept

LEMMA CounterTypes ==
  ASSUME TypeOK
  PROVE  /\ \A c \in Counters : summary[c] \in Nat
         /\ atStop.polls \in Nat /\ atStop.runs \in Nat
  BY DEF TypeOK

\* An answer at the prompt counts one consent or one refusal, and ends the turn.
LEMMA AnswerCounts ==
  ASSUME TypeOK, Grant \/ Deny
  PROVE  /\ pc = "run" /\ turn = "ask" /\ phase = "open"
         /\ UNCHANGED <<pc, exit, stop, atStop, attempts, phase>> /\ turn' # "ask"
         /\ summary' \in [Counters -> Nat]
         /\ \A c \in {"polls", "passes", "failures", "created", "runs"} : summary'[c] = summary[c]
         /\ \/ /\ summary'["granted"] = summary["granted"] + 1
               /\ summary'["denied"] = summary["denied"]
            \/ /\ summary'["granted"] = summary["granted"]
               /\ summary'["denied"] = summary["denied"] + 1
<1>0. summary \in [Counters -> Nat]
  BY DEF TypeOK
<1>1. CASE Grant
  <2>1. summary' = [summary EXCEPT !["granted"] = @ + 1]
    BY <1>1 DEF Grant, Count
  <2>2. QED
    BY <1>0, <1>1, <2>1 DEF Grant, loop, Counters
<1>2. CASE Deny
  <2>1. summary' = [summary EXCEPT !["denied"] = @ + 1]
    BY <1>2 DEF Deny, Count
  <2>2. QED
    BY <1>0, <1>2, <2>1 DEF Deny, loop, Counters, Contract!Mark
<1>3. QED
  BY <1>1, <1>2

\* The other steps of a run stay in it, or leave it for the end of the iteration.
LEMMA RunFrame ==
  ASSUME RunStep
  PROVE  /\ pc = "run" /\ UNCHANGED <<summary, stop, atStop>>
         /\ pc' \in {"run", "check", "cleanup"} /\ (pc' = "cleanup" => exit' # "none")
<1>1. CASE RunFails \/ Try \/ TakeBack
  BY <1>1 DEF RunFails, Try, TakeBack, loop
<1>2. CASE Keep \/ Refuse
  BY <1>2 DEF Keep, Refuse, loop
<1>3. CASE RunEnds \/ AgentTimeout
  BY <1>3 DEF RunEnds, AgentTimeout
<1>4. QED
  BY <1>1, <1>2, <1>3 DEF RunStep

LEMMA LoopFrame ==
  ASSUME LoopStep
  PROVE  UNCHANGED <<summary, turn, attempts, kept, tries, atStop, stop>>
         /\ pc' # "run" /\ pc' # "scan"
  BY DEF LoopStep, Begin, SetUp, SetUpFails, Top, CheckStop, Sleep, Raises, CleanUp, repair

\* One more run makes room for MaxAttempts more answers.
LEMMA OneMoreRun ==
  ASSUME NEW r \in Nat
  PROVE  MaxAttempts * (r + 1) = MaxAttempts * r + MaxAttempts
  OBVIOUS

LEMMA RoomGrows ==
  \A g, d, m, r, a, b \in Nat : \A x, y \in {0, 1} :
    g + d + m <= r + a + x /\ b + y >= a + x => g + d + m <= r + b + y
  OBVIOUS

\* After SIGINT at most one more test and one more repair are begun
\* (watcher.py:228, 266-270).
THEOREM StopIsSoon == Spec => []StopBoundsWork
<1>1. Init => StopInv
  BY DEF Init, StopInv, Counters
<1>2. TypeOK /\ TurnInv /\ StopInv /\ [Next]_vars => StopInv'
  <2> SUFFICES ASSUME TypeOK, TurnInv, StopInv, [Next]_vars PROVE StopInv'
    OBVIOUS
  <2>0. /\ summary["polls"] \in Nat /\ summary["runs"] \in Nat
        /\ atStop.polls \in Nat /\ atStop.runs \in Nat
    BY CounterTypes DEF Counters
  <2> USE DEF StopInv
  <2>1. CASE LoopStep
    <3>1. UNCHANGED <<summary, stop, atStop>>
      BY <2>1, LoopFrame
    <3>2. CASE Begin \/ SetUp \/ SetUpFails
      BY <2>0, <3>1, <3>2 DEF Begin, SetUp, SetUpFails
    <3>3. CASE Top \/ CheckStop \/ Sleep
      BY <2>0, <3>1, <3>3 DEF Top, CheckStop, Sleep
    <3>4. CASE Raises \/ CleanUp
      BY <2>0, <3>1, <3>4 DEF Raises, CleanUp
    <3>5. QED
      BY <2>1, <3>2, <3>3, <3>4 DEF LoopStep
  <2>2. CASE RunStep
    BY <2>0, <2>2, RunFrame
  <2>3. CASE Poll
    <3>1. pc = "test" /\ UNCHANGED <<stop, atStop>> /\ summary'["runs"] = summary["runs"]
      BY <2>3, PollCounts DEF Poll
    <3>2. QED
      BY <2>0, <2>3, <3>1, PollCounts
  <2>4. CASE Scan
    <3>1. pc = "scan" /\ UNCHANGED <<stop, atStop>>
      BY <2>4 DEF Scan
    <3>2. QED
      BY <2>0, <2>4, <3>1, ScanCounts
  <2>5. CASE Grant \/ Deny
    BY <2>0, <2>5, AnswerCounts
  <2>6. CASE Interrupt
    BY <2>0, <2>6 DEF Interrupt
  <2>7. CASE Terminate
    BY <2>0, <2>7 DEF Terminate
  <2>8. CASE OperatorEdit \/ UNCHANGED vars
    BY <2>8 DEF OperatorEdit, vars, loop
  <2>9. QED
    BY <2>1, <2>2, <2>3, <2>4, <2>5, <2>6, <2>7, <2>8, Steps
<1>3. TypeOK /\ StopInv => StopBoundsWork
  <2> SUFFICES ASSUME TypeOK, StopInv PROVE StopBoundsWork
    OBVIOUS
  <2>1. /\ summary["polls"] \in Nat /\ summary["runs"] \in Nat
        /\ atStop.polls \in Nat /\ atStop.runs \in Nat
    BY CounterTypes DEF Counters
  <2>2. QED
    BY <2>1 DEF StopInv, StopBoundsWork
<1>4. QED
  BY <1>1, <1>2, <1>3, Typing, PTL DEF Spec

\* The counters of the printed summary agree (watcher.py:147-174, 237-266).
THEOREM SummaryIsSound == Spec => []SummaryAddsUp
<1>1. Init => CountInv
  BY DEF Init, CountInv, Counters
<1>2. TypeOK /\ TurnInv /\ CountInv /\ [Next]_vars => CountInv'
  <2> SUFFICES ASSUME TypeOK, TurnInv, CountInv, [Next]_vars PROVE CountInv'
    OBVIOUS
  <2>0. /\ \A c \in {"polls", "passes", "failures", "created", "runs", "granted", "denied"} :
             summary[c] \in Nat
        /\ attempts \in 0..MaxAttempts /\ MaxAttempts * summary["runs"] \in Nat
    BY CounterTypes DEF Counters, TypeOK
  <2> USE DEF CountInv
  <2>1. CASE LoopStep
    BY <2>0, <2>1, LoopFrame
  <2>2. CASE RunStep
    <3>1. pc = "run" /\ UNCHANGED summary /\ pc' # "scan"
      BY <2>2, RunFrame
    <3>2. pc' # "run" \/ attempts' + (IF turn' = "ask" \/ phase' \in {"trial", "rejected"} THEN 0 ELSE 1)
                 >= attempts + (IF turn = "ask" \/ phase \in {"trial", "rejected"} THEN 0 ELSE 1)
      <4>1. CASE RunFails \/ RunEnds \/ AgentTimeout
        BY <2>0, <4>1 DEF RunFails, RunEnds, AgentTimeout, Contract!Mark
      <4>2. CASE Try
        BY <2>0, <4>2 DEF Try, Contract!Try
      <4>3. CASE Keep \/ Refuse
        BY <2>0, <4>3 DEF Keep, Refuse, Contract!Keep, Contract!Refuse
      <4>4. CASE TakeBack
        BY <2>0, <4>4 DEF TakeBack, Contract!TakeBack
      <4>5. QED
        BY <2>2, <4>1, <4>2, <4>3, <4>4 DEF RunStep
    <3>3. attempts' \in Nat
      <4>1. TypeOK'
        BY <2>2, RunType
      <4>2. QED
        BY <4>1 DEF TypeOK
    <3>4. MaxAttempts * summary'["runs"] = MaxAttempts * summary["runs"]
      BY <3>1
    <3>5. CASE pc' = "run"
      <4>1. PICK x \in {0, 1} : x = IF turn = "ask" \/ phase \in {"trial", "rejected"} THEN 0 ELSE 1
        OBVIOUS
      <4>2. PICK y \in {0, 1} : y = IF turn' = "ask" \/ phase' \in {"trial", "rejected"} THEN 0 ELSE 1
        OBVIOUS
      <4>3. PICK r \in Nat : r = MaxAttempts * summary["runs"]
        BY <2>0
      <4>4. summary["granted"] + summary["denied"] + MaxAttempts <= r + attempts + x
        BY <3>1, <4>1, <4>3
      <4>5. attempts' + y >= attempts + x
        BY <3>2, <3>5, <4>1, <4>2
      <4>6. /\ summary["granted"] \in Nat /\ summary["denied"] \in Nat
            /\ attempts \in Nat /\ MaxAttempts \in Nat
        BY <2>0
      <4>7. summary["granted"] + summary["denied"] + MaxAttempts <= r + attempts' + y
        BY ONLY <3>3, <4>1, <4>2, <4>3, <4>4, <4>5, <4>6, RoomGrows
      <4>8. QED
        BY <2>0, <3>1, <3>4, <3>5, <4>2, <4>3, <4>7
    <3>6. CASE pc' # "run"
      BY <2>0, <3>1, <3>4, <3>6
    <3>7. QED
      BY <3>5, <3>6
  <2>3. CASE Poll
    <3>1. pc' # "run"
      BY <2>3, PollCounts
    <3>2. pc = "test" /\ summary'["runs"] = summary["runs"]
      BY <2>3, PollCounts DEF Poll
    <3>3. MaxAttempts * summary'["runs"] = MaxAttempts * summary["runs"]
      BY <3>2
    <3>4. QED
      BY <2>0, <2>3, <3>1, <3>2, <3>3, PollCounts
  <2>4. CASE Scan
    <3>1. pc = "scan"
      BY <2>4 DEF Scan
    <3>2. CASE summary' = summary /\ pc' = "check"
      BY <2>0, <3>1, <3>2
    <3>3. CASE pc' = "run"
      <4>1. /\ turn' = "ask" /\ attempts' = 0
            /\ summary'["runs"] = summary["runs"] + 1
            /\ summary'["created"] >= summary["created"] + 1 /\ summary'["created"] \in Nat
            /\ \A c \in {"polls", "passes", "failures", "granted", "denied"} :
                 summary'[c] = summary[c]
        BY <2>4, <3>3, ScanCounts DEF Counters
      <4>2. MaxAttempts * summary'["runs"] = MaxAttempts * summary["runs"] + MaxAttempts
        BY <2>0, <4>1, OneMoreRun
      <4>3. QED
        BY <2>0, <3>1, <3>3, <4>1, <4>2
    <3>4. QED
      BY <2>4, <3>2, <3>3, ScanCounts
  <2>5. CASE Grant \/ Deny
    <3>1. attempts < MaxAttempts /\ summary'["runs"] = summary["runs"]
      BY <2>5, AnswerCounts DEF TurnInv
    <3>2. MaxAttempts * summary'["runs"] = MaxAttempts * summary["runs"]
      BY <3>1
    <3>3. QED
      BY <2>0, <2>5, <3>1, <3>2, AnswerCounts
  <2>6. CASE Interrupt \/ OperatorEdit \/ UNCHANGED vars
    BY <2>6 DEF Interrupt, OperatorEdit, vars, loop, repair
  <2>7. CASE Terminate
    BY <2>0, <2>7 DEF Terminate, repair
  <2>8. QED
    BY <2>1, <2>2, <2>3, <2>4, <2>5, <2>6, <2>7, Steps
<1>3. TypeOK /\ CountInv => SummaryAddsUp
  <2> SUFFICES ASSUME TypeOK, CountInv, pc \in {"cleanup", "off"} PROVE SummaryAddsUp
    BY DEF SummaryAddsUp
  <2>1. summary["runs"] \in Nat /\ summary["failures"] \in Nat
    BY CounterTypes DEF Counters
  <2>2. QED
    BY <2>1 DEF CountInv, SummaryAddsUp
<1>4. QED
  BY <1>1, <1>2, <1>3, Typing, PTL DEF Spec

\* Every patch tried had a consent of its own (cli.py:1078-1087).
THEOREM EveryTrialHasConsent == Spec => []ConsentPerPatch
<1>1. Init => ConsentPerPatch
  BY DEF Init, ConsentPerPatch, Counters
<1>2. TypeOK /\ TurnInv /\ ConsentPerPatch /\ [Next]_vars => ConsentPerPatch'
  <2> SUFFICES ASSUME TypeOK, TurnInv, ConsentPerPatch, [Next]_vars PROVE ConsentPerPatch'
    OBVIOUS
  <2>0. summary["granted"] \in Nat /\ tries \in Nat
    BY CounterTypes DEF Counters, TypeOK
  <2> USE DEF ConsentPerPatch
  <2>1. CASE LoopStep
    BY <2>1 DEF LoopStep, Begin, SetUp, SetUpFails, Top, CheckStop, Sleep, Raises, CleanUp, repair
  <2>2. CASE Try
    BY <2>0, <2>2 DEF Try
  <2>3. CASE RunStep /\ ~Try
    BY <2>0, <2>3 DEF RunStep, RunFails, Keep, Refuse, TakeBack, RunEnds, AgentTimeout
  <2>4. CASE Poll
    BY <2>4, PollCounts DEF Poll, repair
  <2>5. CASE Scan
    <3>1. tries' = tries
      BY <2>5 DEF Scan
    <3>2. QED
      BY <2>0, <2>5, <3>1, ScanCounts
  <2>6. CASE Grant
    <3>1. summary'["granted"] = summary["granted"] + 1
      BY <2>6 DEF Grant, Count, TypeOK, Counters
    <3>2. QED
      BY <2>0, <2>6, <3>1 DEF Grant
  <2>7. CASE Deny
    <3>1. summary'["granted"] = summary["granted"]
      BY <2>7 DEF Deny, Count, TypeOK, Counters
    <3>2. QED
      BY <2>0, <2>7, <3>1 DEF Deny
  <2>8. CASE Interrupt \/ Terminate \/ OperatorEdit \/ UNCHANGED vars
    BY <2>8 DEF Interrupt, Terminate, OperatorEdit, vars, repair
  <2>9. QED
    BY <2>1, <2>2, <2>3, <2>4, <2>5, <2>6, <2>7, <2>8, Steps
<1>3. QED
  BY <1>1, <1>2, Typing, PTL DEF Spec

\* The poll after an accepted repair passes (cli.py:1415, watcher.py:242).
THEOREM RepairIsSeen == Spec => AcceptedRepairPolls
<1> DEFINE A == kept /\ ~stop /\ summary'["polls"] > summary["polls"]
                  => summary'["passes"] > summary["passes"]
<1>1. Init => KeptInv
  BY DEF Init, KeptInv
<1>2. KeptInv /\ [Next]_vars => KeptInv'
  <2> SUFFICES ASSUME KeptInv, [Next]_vars PROVE KeptInv'
    OBVIOUS
  <2> USE DEF KeptInv
  <2>1. CASE LoopStep
    BY <2>1 DEF LoopStep, Begin, SetUp, SetUpFails, Top, CheckStop, Sleep, Raises, CleanUp, repair
  <2>2. CASE RunFails \/ RunEnds \/ AgentTimeout \/ Grant \/ Deny
    BY <2>2 DEF RunFails, RunEnds, AgentTimeout, Grant, Deny, Contract!Mark, Contract!End
  <2>3. CASE Try \/ TakeBack
    BY <2>3 DEF Try, TakeBack, Contract!Try, Contract!TakeBack
  <2>4. CASE Keep
    BY <2>4 DEF Keep, Answers, Contract!Keep
  <2>5. CASE Refuse
    BY <2>5 DEF Refuse, Contract!Refuse
  <2>6. CASE Poll \/ Scan
    BY <2>6 DEF Poll, Scan, repair
  <2>7. CASE Interrupt \/ Terminate \/ OperatorEdit \/ UNCHANGED vars
    BY <2>7 DEF Interrupt, Terminate, OperatorEdit, vars, repair
  <2>8. QED
    BY <2>1, <2>2, <2>3, <2>4, <2>5, <2>6, <2>7, Steps DEF RunStep
<1>3. TypeOK /\ KeptInv /\ [Next]_vars => [A]_vars
  <2> SUFFICES ASSUME TypeOK, KeptInv, [Next]_vars, kept, ~stop,
                      summary'["polls"] > summary["polls"]
               PROVE  summary'["passes"] > summary["passes"]
    OBVIOUS
  <2>0. summary["polls"] \in Nat /\ summary["passes"] \in Nat
    BY CounterTypes DEF Counters
  <2>1. CASE Poll
    <3>1. Answers = {"green"}
      BY DEF KeptInv, Answers
    <3>2. pc' = "check"
      BY <2>1, <3>1 DEF Poll
    <3>3. QED
      BY <2>0, <2>1, <3>2, PollCounts
  <2>2. CASE Scan
    <3>1. summary'["polls"] = summary["polls"]
      BY <2>2, ScanCounts
    <3>2. QED
      BY <2>0, <3>1
  <2>3. CASE Grant \/ Deny
    BY <2>0, <2>3, AnswerCounts
  <2>4. CASE LoopStep \/ RunStep \/ Interrupt \/ Terminate \/ OperatorEdit \/ UNCHANGED vars
    <3>1. summary' = summary
      BY <2>4, LoopFrame, RunFrame DEF Interrupt, Terminate, OperatorEdit, vars
    <3>2. QED
      BY <2>0, <3>1
  <2>5. QED
    BY <2>1, <2>2, <2>3, <2>4, Steps
<1>4. QED
  BY <1>1, <1>2, <1>3, Typing, PTL DEF Spec, AcceptedRepairPolls
=============================================================================
