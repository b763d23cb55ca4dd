-------------------------- MODULE TicketStoreProofs --------------------------
(***************************************************************************)
(* Proofs about TicketStore: the types, that filing a ticket leaves the    *)
(* earlier ones alone, and that no lasting regression is missed, for any   *)
(* number of commands, signals, ids and crashes.                           *)
(***************************************************************************)
EXTENDS TicketStore, WellFoundedInduction, TLAPS

-----------------------------------------------------------------------------
\* A non-empty set of ids has a highest one.
LEMMA HighestId ==
  ASSUME NEW n \in Nat, NEW S, S \subseteq 1..n, S # {}
  PROVE  \E i \in S : \A j \in S : j <= i
<1>. DEFINE Bounds == {b \in Nat : \A j \in S : j <= b}
<1>1. Bounds \subseteq Nat /\ n \in Bounds
  OBVIOUS
<1>2. IsWellFoundedOn(OpToRel(<, Nat), Nat)
  BY NatLessThanWellFounded
<1>3. PICK b \in Bounds : \A c \in Bounds : ~(<<c, b>> \in OpToRel(<, Nat))
  BY <1>1, <1>2, WFMin
<1>4. \A c \in Bounds : ~(c < b)
  BY <1>3 DEF OpToRel
<1>5. b \in S
  <2>. SUFFICES ASSUME b \notin S
                PROVE  FALSE
    OBVIOUS
  <2>1. PICK k \in S : TRUE
    OBVIOUS
  <2>2. b \in Nat /\ \A j \in S : j \in Nat /\ j >= 1 /\ j <= b /\ j # b
    OBVIOUS
  <2>3. b - 1 \in Nat /\ b - 1 < b
    BY <2>1, <2>2
  <2>4. \A j \in S : j <= b - 1
    BY <2>2
  <2>5. b - 1 \in Bounds
    BY <2>3, <2>4
  <2>. QED  BY <2>3, <2>5, <1>4
<1>. QED  BY <1>5, <1>3

\* next_ticket_id gives an id above all those in the directory.
LEMMA NextIdIsNew ==
  ASSUME Ids \subseteq 1..MaxIds
  PROVE  NextId \in Nat /\ NextId >= 1 /\ \A i \in Ids : i < NextId
<1>1. CASE Ids = {}
  BY <1>1 DEF NextId
<1>2. CASE Ids # {}
  <2>. DEFINE m == CHOOSE i \in Ids : \A j \in Ids : j <= i
  <2>1. \E i \in Ids : \A j \in Ids : j <= i
    BY <1>2, HighestId, TicketStoreAssumption
  <2>2. m \in Ids /\ \A j \in Ids : j <= m
    BY <2>1
  <2>3. NextId = m + 1
    BY <1>2 DEF NextId
  <2>. HIDE DEF m
  <2>. QED  BY <2>2, <2>3
<1>. QED  BY <1>1, <1>2

-----------------------------------------------------------------------------
USE DEF Ids

\* Tickets that `check` files carry the check; the locals as records.
Sound == {t \in Tickets : t.source = "check" => t.check}
Snapshots == SUBSET ((1..MaxIds) \X Sound)
JobType ==
  [kind : Kinds, todo : SUBSET Sound, ticket : Sound, id : 0..MaxIds, seen : SUBSET (1..MaxIds),
   snap : Snapshots, left : Snapshots, held : SUBSET Signals, filed : SUBSET Sound]
FileType == [ticket : Sound, torn : BOOLEAN, by : Procs]

TypeInv ==
  /\ Ids \subseteq 1..MaxIds /\ \A i \in Ids : files[i] \in FileType
  /\ broken \subseteq Signals
  /\ pc \in [Procs -> Labels] /\ commands \in 0..MaxCommands
  /\ job \in [Procs -> JobType]
  /\ \A p \in Procs : job[p].left \subseteq job[p].snap /\ job[p].held \subseteq broken
  /\ \A p \in Procs : pc[p] \in {"open", "close", "repair"} => job[p].id >= 1

LEMMA DraftsAreSound ==
  ASSUME NEW source \in {"user", "check", "regression"}, NEW signal \in Signals \cup {NoSignal},
         NEW check \in BOOLEAN, NEW from \in Nat, source = "check" => check
  PROVE  Draft(source, signal, check, from) \in Sound
BY DEF Draft, Sound, Tickets

LEMMA NoJobIsTyped ==
  /\ NoJob \in JobType /\ NoJob.left \subseteq NoJob.snap /\ NoJob.held = {}
<1>1. Draft("user", NoSignal, FALSE, 0) \in Sound
  BY DraftsAreSound
<1>2. {} \in Snapshots /\ {} \in SUBSET Sound /\ {} \in SUBSET Signals /\ {} \in SUBSET (1..MaxIds)
  BY DEF Snapshots
<1>3. 0 \in 0..MaxIds /\ "bug" \in Kinds
  BY TicketStoreAssumption DEF Kinds
<1>4. NoJob \in JobType
  <2>. DEFINE t == Draft("user", NoSignal, FALSE, 0)
  <2>. HIDE DEF t
  <2>1. NoJob = [kind |-> "bug", todo |-> {}, ticket |-> t, id |-> 0, seen |-> {}, snap |-> {},
                 left |-> {}, held |-> {}, filed |-> {}]
    BY DEF NoJob, t
  <2>2. t \in Sound
    BY <1>1 DEF t
  <2>. QED  BY <1>2, <1>3, <2>1, <2>2 DEF JobType
<1>5. NoJob.left = {} /\ NoJob.snap = {} /\ NoJob.held = {}
  BY DEF NoJob
<1>. QED  BY <1>4, <1>5

LEMMA TypeInvInit == Init => TypeInv
BY NoJobIsTyped, TicketStoreAssumption DEF Init, TypeInv, Labels

\* What a command that begins, and what one that goes on, must show.
LEMMA BeginIsTyped ==
  ASSUME TypeInv, NEW p \in Procs, NEW l \in Labels, NEW j \in JobType,
         j.left \subseteq j.snap, j.held \subseteq broken, Begin(p, l, j),
         l \in {"open", "close", "repair"} => j.id >= 1
  PROVE  TypeInv'
<1>1. UNCHANGED <<files, broken>> /\ commands' \in 0..MaxCommands
  BY TicketStoreAssumption DEF TypeInv, Begin
<1>2. /\ pc' = [pc EXCEPT ![p] = l] /\ job' = [job EXCEPT ![p] = j]
      /\ pc \in [Procs -> Labels] /\ job \in [Procs -> JobType]
  BY DEF TypeInv, Begin, Goto, Work
<1>3. pc' \in [Procs -> Labels] /\ job' \in [Procs -> JobType]
  BY <1>2
<1>4. pc'[p] = l /\ job'[p] = j /\ \A q \in Procs \ {p} : pc'[q] = pc[q] /\ job'[q] = job[q]
  BY <1>2
<1>. QED  BY <1>1, <1>3, <1>4 DEF TypeInv

LEMMA WorkIsTyped ==
  ASSUME TypeInv, NEW p \in Procs, NEW j \in JobType,
         j.left \subseteq j.snap, j.held \subseteq broken, Work(p, j),
         UNCHANGED <<files, broken, commands>>,
         NEW l \in Labels, pc' = [pc EXCEPT ![p] = l], l \in {"open", "close", "repair"} => j.id >= 1
  PROVE  TypeInv'
BY TicketStoreAssumption DEF TypeInv, Work

LEMMA TypeInvStep == TypeInv /\ [Next]_vars => TypeInv'
<1>. SUFFICES ASSUME TypeInv, [Next]_vars
              PROVE  TypeInv'
  OBVIOUS
<1>1. ASSUME NEW p \in Procs, Bug(p)
      PROVE  TypeInv'
  <2>. DEFINE j == [NoJob EXCEPT !.todo = {Draft("user", NoSignal, FALSE, 0)}]
  <2>. DEFINE t == Draft("user", NoSignal, FALSE, 0)
  <2>1. t \in Sound
    BY DraftsAreSound
  <2>2. j = [NoJob EXCEPT !.todo = {t}]
    OBVIOUS
  <2>. HIDE DEF j, t
  <2>3. j \in JobType /\ j.left \subseteq j.snap /\ j.held \subseteq broken
    BY <2>1, <2>2, NoJobIsTyped DEF JobType
  <2>. QED  BY <1>1, <2>3, BeginIsTyped DEF Bug, Labels, j
<1>2. ASSUME NEW p \in Procs, Check(p)
      PROVE  TypeInv'
  <2>. DEFINE todo == {Draft("check", s, TRUE, 0) : s \in broken}
              j == [NoJob EXCEPT !.kind = "check", !.todo = todo]
  <2>1. todo \subseteq Sound
    BY DraftsAreSound DEF TypeInv
  <2>2. j \in JobType /\ j.left \subseteq j.snap /\ j.held \subseteq broken
    BY <2>1, NoJobIsTyped DEF JobType, Kinds
  <2>. QED  BY <1>2, <2>2, BeginIsTyped DEF Check, Labels
<1>3. ASSUME NEW p \in Procs, Monitor(p)
      PROVE  TypeInv'
  <2>. DEFINE passed == {<<i, files[i].ticket>> : i \in Monitorable}
              j == [NoJob EXCEPT !.kind = "monitor", !.snap = passed, !.left = passed,
                                 !.held = broken]
  <2>1. passed \in Snapshots
    BY DEF TypeInv, Monitorable, FileType, Snapshots
  <2>2. j \in JobType /\ j.left \subseteq j.snap /\ j.held \subseteq broken
    BY <2>1, NoJobIsTyped DEF JobType, Kinds, TypeInv
  <2>. QED  BY <1>3, <2>2, BeginIsTyped DEF Monitor, Labels
<1>4. ASSUME NEW p \in Procs, MonitorRaises(p)
      PROVE  TypeInv'
  BY <1>4, TicketStoreAssumption DEF MonitorRaises, TypeInv
<1>5. ASSUME NEW p \in Procs, NEW id \in Ids, Run(p, id)
      PROVE  TypeInv'
  <2>. DEFINE j == [NoJob EXCEPT !.kind = "run", !.ticket = files[id].ticket, !.id = id]
  <2>1. files[id].ticket \in Sound /\ id \in 0..MaxIds /\ id >= 1
    BY DEF TypeInv, FileType
  <2>2. j \in JobType /\ j.left \subseteq j.snap /\ j.held \subseteq broken /\ j.id >= 1
    BY <2>1, NoJobIsTyped DEF JobType, Kinds
  <2>. QED  BY <1>5, <2>2, BeginIsTyped DEF Run, Labels
<1>6. ASSUME NEW p \in Procs, Verify(p)
      PROVE  TypeInv'
  <2>1. PICK e \in job[p].left :
          Work(p, [job[p] EXCEPT !.left = @ \ {e},
                     !.todo = IF Regressed(e[2]) THEN @ \cup {Regression(e[1], e[2])} ELSE @])
    BY <1>6 DEF Verify
  <2>. DEFINE todo == IF Regressed(e[2]) THEN job[p].todo \cup {Regression(e[1], e[2])}
                      ELSE job[p].todo
              j == [job[p] EXCEPT !.left = job[p].left \ {e}, !.todo = todo]
  <2>2. job[p] \in JobType /\ job[p].left \subseteq job[p].snap /\ job[p].held \subseteq broken
    BY DEF TypeInv
  <2>3. e[1] \in Nat /\ e[2] \in Sound
    BY <2>2 DEF JobType, Snapshots
  <2>4. Regression(e[1], e[2]) \in Sound
    BY <2>3, DraftsAreSound DEF Regression, Sound, Tickets
  <2>5. todo \subseteq Sound
    BY <2>2, <2>4 DEF JobType
  <2>6. j \in JobType /\ j.left \subseteq j.snap /\ j.held \subseteq broken /\ j.id = job[p].id
    <3>. HIDE DEF todo
    <3>. QED  BY <2>2, <2>5 DEF JobType, Snapshots
  <2>7. pc[p] = "verify" /\ pc' = [pc EXCEPT ![p] = "verify"] /\ UNCHANGED <<files, broken, commands>>
    BY <1>6 DEF Verify, TypeInv
  <2>8. Work(p, j)
    BY <2>1
  <2>. HIDE DEF j
  <2>. QED  BY <2>6, <2>7, <2>8, WorkIsTyped DEF Labels
<1>7. ASSUME NEW p \in Procs, Verified(p) \/ Finish(p)
      PROVE  TypeInv'
  BY <1>7 DEF Verified, Finish, Goto, TypeInv, Labels
<1>8. ASSUME NEW p \in Procs, PickId(p)
      PROVE  TypeInv'
  <2>1. PICK t \in job[p].todo :
          Work(p, [job[p] EXCEPT !.todo = @ \ {t}, !.ticket = t, !.id = NextId, !.seen = Ids])
    BY <1>8 DEF PickId
  <2>. DEFINE j == [job[p] EXCEPT !.todo = @ \ {t}, !.ticket = t, !.id = NextId, !.seen = Ids]
  <2>2. job[p] \in JobType /\ job[p].left \subseteq job[p].snap /\ job[p].held \subseteq broken
    BY DEF TypeInv
  <2>3. NextId \in 0..MaxIds /\ NextId >= 1 /\ Ids \subseteq 1..MaxIds
    BY <1>8, NextIdIsNew, TicketStoreAssumption DEF PickId, TypeInv
  <2>4. j \in JobType /\ j.left \subseteq j.snap /\ j.held \subseteq broken /\ j.id >= 1
    BY <2>2, <2>3 DEF JobType
  <2>5. pc' = [pc EXCEPT ![p] = "open"] /\ UNCHANGED <<files, broken, commands>>
    BY <1>8 DEF PickId, Goto
  <2>. HIDE DEF j
  <2>. QED  BY <2>1, <2>4, <2>5, WorkIsTyped DEF j, Labels
<1>9. ASSUME NEW p \in Procs, Open(p)
      PROVE  TypeInv'
  <2>1. job[p].id \in 1..MaxIds /\ job[p].ticket \in Sound
    BY <1>9, TicketStoreAssumption DEF Open, TypeInv, JobType
  <2>2. files' = [i \in Ids \cup {job[p].id} |->
                    IF i = job[p].id THEN [ticket |-> job[p].ticket, torn |-> TRUE, by |-> p]
                    ELSE files[i]]
    BY <1>9 DEF Open, Put
  <2>3. Ids' \subseteq 1..MaxIds /\ \A i \in Ids' : files'[i] \in FileType
    BY <2>1, <2>2 DEF TypeInv, FileType
  <2>4. /\ pc[p] = "open" /\ pc' = [pc EXCEPT ![p] = "close"] /\ UNCHANGED <<broken, job, commands>>
    BY <1>9 DEF Open, Goto
  <2>. QED  BY <2>3, <2>4 DEF TypeInv, Labels
<1>10. ASSUME NEW p \in Procs, Close(p)
       PROVE  TypeInv'
  <2>1. job[p].id \in 1..MaxIds /\ job[p].ticket \in Sound /\ job[p] \in JobType
    BY <1>10, TicketStoreAssumption DEF Close, TypeInv, JobType
  <2>2. PICK torn \in BOOLEAN :
          files' = [i \in Ids \cup {job[p].id} |->
                    IF i = job[p].id THEN [ticket |-> job[p].ticket, torn |-> torn, by |-> p]
                    ELSE files[i]]
    BY <1>10 DEF Close, Put
  <2>3. Ids' \subseteq 1..MaxIds /\ \A i \in Ids' : files'[i] \in FileType
    BY <2>1, <2>2 DEF TypeInv, FileType
  <2>4. PICK l \in {"idle", "pick"} : pc' = [pc EXCEPT ![p] = l]
    BY <1>10 DEF Close, Goto
  <2>5. /\ job' = [job EXCEPT ![p] = [job[p] EXCEPT !.filed = @ \cup {job[p].ticket}]]
        /\ UNCHANGED <<broken, commands>>
    BY <1>10 DEF Close, Work
  <2>6. /\ job'[p] \in JobType /\ job'[p].left = job[p].left /\ job'[p].snap = job[p].snap
        /\ job'[p].held = job[p].held
    BY <2>1, <2>5 DEF JobType, TypeInv
  <2>7. job' \in [Procs -> JobType] /\ \A q \in Procs \ {p} : job'[q] = job[q]
    BY <2>5, <2>6 DEF TypeInv
  <2>. QED  BY <2>3, <2>4, <2>5, <2>6, <2>7 DEF TypeInv, Labels
<1>11. ASSUME NEW p \in Procs, RunPasses(p) \/ RunFails(p)
       PROVE  TypeInv'
  <2>. DEFINE passed == [job[p] EXCEPT !.ticket.status = "passed", !.held = broken]
              failed == [job[p] EXCEPT !.ticket.status = "failed"]
  <2>1. job[p] \in JobType /\ job[p].left \subseteq job[p].snap /\ job[p].held \subseteq broken
    BY DEF TypeInv
  <2>2. /\ [job[p].ticket EXCEPT !.status = "passed"] \in Sound
        /\ [job[p].ticket EXCEPT !.status = "failed"] \in Sound
    BY <2>1 DEF JobType, Sound, Tickets
  <2>3. /\ passed \in JobType /\ passed.left \subseteq passed.snap /\ passed.held \subseteq broken
        /\ passed.id = job[p].id
    BY <2>1, <2>2 DEF JobType, TypeInv
  <2>4. /\ failed \in JobType /\ failed.left \subseteq failed.snap /\ failed.held \subseteq broken
        /\ failed.id = job[p].id
    BY <2>1, <2>2 DEF JobType
  <2>5. /\ job[p].id >= 1 /\ pc' = [pc EXCEPT ![p] = "open"]
        /\ UNCHANGED <<files, broken, commands>>
    BY <1>11 DEF RunPasses, RunFails, Goto, TypeInv
  <2>6. Work(p, passed) \/ Work(p, failed)
    BY <1>11 DEF RunPasses, RunFails
  <2>. HIDE DEF passed, failed
  <2>7. CASE Work(p, passed)
    BY <2>3, <2>5, <2>7, WorkIsTyped DEF Labels
  <2>8. CASE Work(p, failed)
    BY <2>4, <2>5, <2>8, WorkIsTyped DEF Labels
  <2>. QED  BY <2>6, <2>7, <2>8
<1>12. ASSUME NEW p \in Procs, Crash(p)
       PROVE  TypeInv'
  BY <1>12, NoJobIsTyped DEF Crash, Goto, Work, TypeInv, Labels
<1>13. ASSUME NEW s \in Signals, Drift(s)
       PROVE  TypeInv'
  <2>1. broken' \subseteq Signals
    BY <1>13 DEF Drift, TypeInv
  <2>2. ASSUME NEW p \in Procs
        PROVE  /\ job'[p] \in JobType /\ job'[p].held \subseteq broken'
               /\ job'[p].left = job[p].left /\ job'[p].snap = job[p].snap
               /\ job'[p].id = job[p].id
    <3>1. job'[p] = [job[p] EXCEPT !.held = job[p].held \cap broken']
      BY <1>13 DEF Drift
    <3>2. job[p] \in JobType
      BY DEF TypeInv
    <3>. QED  BY <3>1, <3>2 DEF JobType
  <2>3. job' \in [Procs -> JobType]
    BY <1>13, <2>2 DEF Drift
  <2>. QED  BY <1>13, <2>1, <2>2, <2>3 DEF Drift, TypeInv
<1>14. ASSUME NEW id \in Ids, Remove(id)
       PROVE  TypeInv'
  BY <1>14 DEF Remove, TypeInv
<1>15. CASE UNCHANGED vars
  BY <1>15 DEF vars, TypeInv
<1>. QED
  BY <1>1, <1>2, <1>3, <1>4, <1>5, <1>6, <1>7, <1>8, <1>9, <1>10, <1>11, <1>12, <1>13,
     <1>14, <1>15 DEF Next, Command, Step, Verdict, Environment

\* The model's type invariant: ids stay within the directory's range, files and
\* locals are records of their types (ticket.py:19-36).
THEOREM Typing == Spec => []TypeOK
<1>1. TypeInv => TypeOK
  <2>. SUFFICES ASSUME TypeInv
                PROVE  TypeOK
    OBVIOUS
  <2>1. \A i \in Ids : files[i] \in Files
    BY DEF TypeInv, FileType, Files, Sound
  <2>2. ASSUME NEW p \in Procs
        PROVE  /\ job[p].kind \in Kinds /\ job[p].id \in 0..MaxIds
               /\ job[p].ticket \in Tickets /\ job[p].todo \subseteq Tickets
               /\ job[p].filed \subseteq Tickets /\ job[p].seen \subseteq 1..MaxIds
               /\ job[p].left \subseteq job[p].snap
               /\ job[p].snap \subseteq (1..MaxIds) \X Tickets
               /\ job[p].held \subseteq Signals
    <3>1. job[p] \in JobType /\ job[p].left \subseteq job[p].snap
      BY DEF TypeInv
    <3>2. Sound \subseteq Tickets
      BY DEF Sound
    <3>. QED  BY <3>1, <3>2 DEF JobType, Snapshots
  <2>. QED  BY <2>1, <2>2 DEF TypeInv, TypeOK
<1>. QED  BY <1>1, TypeInvInit, TypeInvStep, PTL DEF Spec

-----------------------------------------------------------------------------
\* What the locals j of a command at label l promise.  A picked id is above all
\* those seen; what a monitor has verified and must file is still to be filed,
\* in its hands, or filed.
Fresh(j, l) == l \in {"open", "close"} /\ j.kind # "run" => \A i \in j.seen : i < j.id
Pending(j, l) == j.todo \cup j.filed \cup (IF l \in {"open", "close"} THEN {j.ticket} ELSE {})
Lasting(j, e) == e[2].signal \in j.held /\ (e[2].source = "check" \/ e[2].signal \notin Silent)
Reports(t, e) == t.from = e[1] /\ t.signal = e[2].signal
Covered(j, l) ==
  j.kind = "monitor" =>
    /\ l # "verify" => j.left = {}
    /\ \A e \in j.snap :
         e \in j.left \/ (Lasting(j, e) => \E t \in Pending(j, l) : Reports(t, e))
Local(j, l) == Fresh(j, l) /\ Covered(j, l) /\ (l = "repair" => j.kind = "run")
LocalInv == \A p \in Procs : Local(job[p], pc[p])

\* A step of p only has to show it of p.
LEMMA LocalOf ==
  ASSUME TypeInv, LocalInv, NEW p \in Procs, NEW l, NEW j, Local(j, l),
         pc' = [pc EXCEPT ![p] = l], job' = [job EXCEPT ![p] = j]
  PROVE  LocalInv'
<1>1. pc'[p] = l /\ job'[p] = j /\ \A q \in Procs \ {p} : pc'[q] = pc[q] /\ job'[q] = job[q]
  BY DEF TypeInv
<1>2. \A q \in Procs : Local(job'[q], pc'[q])
  BY <1>1 DEF LocalInv
<1>. QED  BY <1>2 DEF LocalInv

\* A command that begins has nothing behind it.
LEMMA BeginIsLocal ==
  ASSUME TypeInv, LocalInv, NEW p \in Procs, NEW l \in {"pick", "verify", "repair"}, NEW j,
         Begin(p, l, j), l = "repair" => j.kind = "run",
         j.kind = "monitor" => l = "verify" /\ j.left = j.snap
  PROVE  LocalInv'
<1>1. Local(j, l)
  BY DEF Local, Fresh, Covered
<1>. QED  BY <1>1, LocalOf DEF Begin, Goto, Work

LEMMA LocalInvInit == Init => LocalInv
<1>. SUFFICES ASSUME Init, NEW p \in Procs
              PROVE  Local(job[p], pc[p])
  BY DEF LocalInv
<1>1. job[p] = NoJob /\ pc[p] = "idle" /\ NoJob.kind = "bug"
  BY DEF Init, NoJob
<1>. QED  BY <1>1 DEF Local, Fresh, Covered

\* Verifying covers the ticket that is verified: a lasting signal has failed,
\* and the check's own tickets are judged with their pattern.
LEMMA VerifyIsLocal ==
  ASSUME TypeInv, LocalInv, NEW p \in Procs, Verify(p)
  PROVE  LocalInv'
<1>1. PICK e \in job[p].left :
        Work(p, [job[p] EXCEPT !.left = @ \ {e},
                   !.todo = IF Regressed(e[2]) THEN @ \cup {Regression(e[1], e[2])} ELSE @])
  BY DEF Verify
<1>. DEFINE todo == IF Regressed(e[2]) THEN job[p].todo \cup {Regression(e[1], e[2])}
                    ELSE job[p].todo
            j == [job[p] EXCEPT !.left = job[p].left \ {e}, !.todo = todo]
<1>2. job[p] \in JobType /\ job[p].left \subseteq job[p].snap /\ job[p].held \subseteq broken
  BY DEF TypeInv
<1>3. /\ j.kind = job[p].kind /\ j.snap = job[p].snap /\ j.left = job[p].left \ {e}
      /\ j.held = job[p].held /\ j.filed = job[p].filed /\ j.todo = todo
  <2>. HIDE DEF todo
  <2>. QED  BY <1>2 DEF JobType
<1>4. e[2] \in Sound
  BY <1>2 DEF JobType, Snapshots
<1>5. Lasting(job[p], e) => Regressed(e[2])
  BY <1>2, <1>4 DEF Lasting, Regressed, Sound
<1>6. Reports(Regression(e[1], e[2]), e)
  BY DEF Reports, Regression, Draft
<1>7. job[p].todo \subseteq todo /\ (Lasting(job[p], e) => \E t \in todo : Reports(t, e))
  BY <1>5, <1>6
<1>8. Local(job[p], "verify") /\ pc[p] = "verify"
  BY DEF Verify, LocalInv
<1>. HIDE DEF j, todo
<1>9. Covered(j, "verify")
  <2>. SUFFICES ASSUME j.kind = "monitor", NEW d \in j.snap, d \notin j.left, Lasting(j, d)
                PROVE  \E t \in Pending(j, "verify") : Reports(t, d)
    BY DEF Covered
  <2>1. Lasting(job[p], d)
    BY <1>3 DEF Lasting
  <2>2. CASE d = e
    BY <2>1, <2>2, <1>3, <1>7 DEF Pending
  <2>3. CASE d # e
    <3>1. d \in job[p].snap /\ d \notin job[p].left /\ job[p].kind = "monitor"
      BY <1>3, <2>3
    <3>2. PICK t \in Pending(job[p], "verify") : Reports(t, d)
      BY <1>8, <2>1, <3>1 DEF Local, Covered
    <3>3. t \in Pending(j, "verify")
      BY <3>2, <1>3, <1>7 DEF Pending
    <3>. QED  BY <3>2, <3>3
  <2>. QED  BY <2>2, <2>3
<1>10. Local(j, "verify")
  BY <1>9 DEF Local, Fresh
<1>11. pc' = [pc EXCEPT ![p] = "verify"] /\ job' = [job EXCEPT ![p] = j]
  BY <1>1, <1>8 DEF Verify, TypeInv, Work, j, todo
<1>. QED  BY <1>10, <1>11, LocalOf

LEMMA PickIsLocal ==
  ASSUME TypeInv, LocalInv, NEW p \in Procs, PickId(p)
  PROVE  LocalInv'
<1>1. PICK t \in job[p].todo :
        Work(p, [job[p] EXCEPT !.todo = @ \ {t}, !.ticket = t, !.id = NextId, !.seen = Ids])
  BY DEF PickId
<1>. DEFINE j == [job[p] EXCEPT !.todo = @ \ {t}, !.ticket = t, !.id = NextId, !.seen = Ids]
<1>2. /\ j.kind = job[p].kind /\ j.snap = job[p].snap /\ j.left = job[p].left
      /\ j.held = job[p].held /\ j.filed = job[p].filed /\ j.todo = job[p].todo \ {t}
      /\ j.ticket = t /\ j.id = NextId /\ j.seen = Ids
  BY DEF TypeInv, JobType
<1>3. Local(job[p], "pick") /\ pc[p] = "pick"
  BY DEF PickId, LocalInv
<1>. HIDE DEF j
<1>4. Fresh(j, "open")
  BY <1>2, NextIdIsNew DEF Fresh, TypeInv
<1>5. Pending(job[p], "pick") \subseteq Pending(j, "open")
  BY <1>2 DEF Pending
<1>6. Covered(j, "open")
  BY <1>2, <1>3, <1>5 DEF Local, Covered, Lasting
<1>7. Local(j, "open")
  BY <1>4, <1>6 DEF Local
<1>8. pc' = [pc EXCEPT ![p] = "open"] /\ job' = [job EXCEPT ![p] = j]
  BY <1>1 DEF PickId, Goto, Work, j
<1>. QED  BY <1>7, <1>8, LocalOf

LEMMA CloseIsLocal ==
  ASSUME TypeInv, LocalInv, NEW p \in Procs, Close(p)
  PROVE  LocalInv'
<1>. DEFINE j == [job[p] EXCEPT !.filed = @ \cup {job[p].ticket}]
<1>1. /\ j.kind = job[p].kind /\ j.snap = job[p].snap /\ j.left = job[p].left
      /\ j.held = job[p].held /\ j.filed = job[p].filed \cup {job[p].ticket}
      /\ j.todo = job[p].todo
  BY DEF TypeInv, JobType
<1>2. Local(job[p], "close") /\ pc[p] = "close"
  BY DEF Close, LocalInv
<1>3. PICK l \in {"idle", "pick"} : pc' = [pc EXCEPT ![p] = l]
  BY DEF Close, Goto
<1>4. job' = [job EXCEPT ![p] = j]
  BY DEF Close, Work
<1>. HIDE DEF j
<1>5. Pending(job[p], "close") \subseteq Pending(j, l)
  BY <1>1 DEF Pending
<1>6. Covered(j, l)
  BY <1>1, <1>2, <1>5 DEF Local, Covered, Lasting
<1>7. Local(j, l)
  BY <1>6 DEF Local, Fresh
<1>. QED  BY <1>3, <1>4, <1>7, LocalOf

LEMMA LocalInvStep == TypeInv /\ LocalInv /\ [Next]_vars => LocalInv'
<1>. SUFFICES ASSUME TypeInv, LocalInv, [Next]_vars
              PROVE  LocalInv'
  OBVIOUS
<1>. USE NoJobIsTyped
<1>1. ASSUME NEW p \in Procs, Bug(p)
      PROVE  LocalInv'
  <2>. DEFINE j == [NoJob EXCEPT !.todo = {Draft("user", NoSignal, FALSE, 0)}]
  <2>1. j.kind = "bug"
    BY DEF NoJob
  <2>. QED  BY <1>1, <2>1, BeginIsLocal DEF Bug
<1>2. ASSUME NEW p \in Procs, Check(p)
      PROVE  LocalInv'
  <2>. DEFINE j == [NoJob EXCEPT !.kind = "check",
                                 !.todo = {Draft("check", s, TRUE, 0) : s \in broken}]
  <2>1. j.kind = "check"
    BY DEF NoJob
  <2>. QED  BY <1>2, <2>1, BeginIsLocal DEF Check
<1>3. ASSUME NEW p \in Procs, Monitor(p)
      PROVE  LocalInv'
  <2>. DEFINE passed == {<<i, files[i].ticket>> : i \in Monitorable}
              j == [NoJob EXCEPT !.kind = "monitor", !.snap = passed, !.left = passed,
                                 !.held = broken]
  <2>1. j.left = j.snap
    <3>. HIDE DEF passed
    <3>. QED  BY DEF NoJob
  <2>. QED  BY <1>3, <2>1, BeginIsLocal DEF Monitor
<1>4. ASSUME NEW p \in Procs, NEW id \in Ids, Run(p, id)
      PROVE  LocalInv'
  <2>. DEFINE j == [NoJob EXCEPT !.kind = "run", !.ticket = files[id].ticket, !.id = id]
  <2>1. j.kind = "run"
    BY DEF NoJob
  <2>. QED  BY <1>4, <2>1, BeginIsLocal DEF Run
<1>5. ASSUME NEW p \in Procs, Verified(p) \/ Open(p) \/ Finish(p)
      PROVE  LocalInv'
  <2>. DEFINE l == IF pc[p] = "verify" THEN "pick" ELSE IF pc[p] = "open" THEN "close" ELSE "idle"
  <2>1. /\ pc' = [pc EXCEPT ![p] = l] /\ UNCHANGED job
        /\ pc[p] \in {"verify", "open", "pick"} /\ (pc[p] = "verify" => job[p].left = {})
    BY <1>5 DEF Verified, Open, Finish, Goto
  <2>2. job' = [job EXCEPT ![p] = job[p]]
    BY <2>1 DEF TypeInv
  <2>3. Pending(job[p], l) = Pending(job[p], pc[p])
    BY <2>1 DEF Pending
  <2>4. Local(job[p], pc[p])
    BY DEF LocalInv
  <2>5. Local(job[p], l)
    BY <2>1, <2>3, <2>4 DEF Local, Fresh, Covered
  <2>. HIDE DEF l
  <2>. QED  BY <2>1, <2>2, <2>5, LocalOf
<1>6. ASSUME NEW p \in Procs, RunPasses(p) \/ RunFails(p)
      PROVE  LocalInv'
  <2>. DEFINE passed == [job[p] EXCEPT !.ticket.status = "passed", !.held = broken]
              failed == [job[p] EXCEPT !.ticket.status = "failed"]
  <2>1. job[p].kind = "run"
    BY <1>6 DEF RunPasses, RunFails, LocalInv, Local
  <2>2. passed.kind = "run" /\ failed.kind = "run"
    BY <2>1 DEF TypeInv, JobType
  <2>3. pc' = [pc EXCEPT ![p] = "open"]
    BY <1>6 DEF RunPasses, RunFails, Goto
  <2>4. job' = [job EXCEPT ![p] = passed] \/ job' = [job EXCEPT ![p] = failed]
    BY <1>6 DEF RunPasses, RunFails, Work
  <2>. HIDE DEF passed, failed
  <2>5. Local(passed, "open") /\ Local(failed, "open")
    BY <2>2 DEF Local, Fresh, Covered
  <2>. QED  BY <2>3, <2>4, <2>5, LocalOf
<1>7. ASSUME NEW p \in Procs, Crash(p)
      PROVE  LocalInv'
  <2>1. Local(NoJob, "idle")
    BY DEF NoJob, Local, Fresh, Covered
  <2>. QED  BY <1>7, <2>1, LocalOf DEF Crash, Goto, Work
<1>8. ASSUME NEW s \in Signals, Drift(s)
      PROVE  LocalInv'
  <2>. SUFFICES ASSUME NEW p \in Procs
                PROVE  Local(job'[p], pc'[p])
    BY DEF LocalInv
  <2>1. job'[p] = [job[p] EXCEPT !.held = job[p].held \cap broken'] /\ pc'[p] = pc[p]
    BY <1>8 DEF Drift
  <2>2. /\ job'[p].kind = job[p].kind /\ job'[p].snap = job[p].snap
        /\ job'[p].left = job[p].left /\ job'[p].filed = job[p].filed
        /\ job'[p].todo = job[p].todo /\ job'[p].ticket = job[p].ticket
        /\ job'[p].id = job[p].id /\ job'[p].seen = job[p].seen
        /\ job'[p].held \subseteq job[p].held
    BY <2>1 DEF TypeInv, JobType
  <2>3. Pending(job'[p], pc'[p]) = Pending(job[p], pc[p])
    BY <2>1, <2>2 DEF Pending
  <2>4. \A e : Lasting(job'[p], e) => Lasting(job[p], e)
    BY <2>2 DEF Lasting
  <2>5. Local(job[p], pc[p])
    BY DEF LocalInv
  <2>6. Fresh(job'[p], pc'[p])
    BY <2>1, <2>2, <2>5 DEF Local, Fresh
  <2>7. Covered(job'[p], pc'[p])
    BY <2>1, <2>2, <2>3, <2>4, <2>5 DEF Local, Covered
  <2>. QED  BY <2>1, <2>2, <2>5, <2>6, <2>7 DEF Local
<1>9. ASSUME UNCHANGED <<pc, job>>
      PROVE  LocalInv'
  BY <1>9 DEF LocalInv
<1>10. ASSUME NEW p \in Procs, MonitorRaises(p)
       PROVE  LocalInv'
  BY <1>10, <1>9 DEF MonitorRaises
<1>11. ASSUME NEW id \in Ids, Remove(id)
       PROVE  LocalInv'
  BY <1>11, <1>9 DEF Remove
<1>12. CASE UNCHANGED vars
  BY <1>12, <1>9 DEF vars
<1>. QED
  BY <1>1, <1>2, <1>3, <1>4, <1>5, <1>6, <1>7, <1>8, <1>10, <1>11, <1>12, VerifyIsLocal,
     PickIsLocal, CloseIsLocal DEF Next, Command, Step, Verdict, Environment

-----------------------------------------------------------------------------
\* A command that files tickets changes none that was in the directory when it
\* picked its id: the original of a regression is left untouched
\* (ticket.py:19-36, monitor.py:48-79).
THEOREM OldTicketsStay == Spec => OldTicketsAreLeftAlone
<1>. DEFINE Alone(p) ==
              pc[p] \in {"open", "close"} /\ pc'[p] # pc[p] /\ job[p].kind # "run"
                => \A i \in job[p].seen : i \in Ids => i \in DOMAIN files' /\ files'[i] = files[i]
<1>1. TypeInv /\ LocalInv /\ [Next]_vars => \A p \in Procs : Alone(p)
  <2>. SUFFICES ASSUME TypeInv, LocalInv, [Next]_vars, NEW p \in Procs,
                       pc[p] \in {"open", "close"}, pc'[p] # pc[p], job[p].kind # "run",
                       NEW i \in job[p].seen, i \in Ids
                PROVE  i \in DOMAIN files' /\ files'[i] = files[i]
    OBVIOUS
  <2>1. i # job[p].id
    BY DEF LocalInv, Local, Fresh, TypeInv, JobType
  <2>2. Open(p) \/ Close(p) \/ UNCHANGED files
    <3>1. ASSUME NEW q \in Procs, Open(q) \/ Close(q)
          PROVE  q = p
      BY <3>1 DEF Open, Close, Goto, TypeInv
    <3>2. ASSUME NEW id \in Ids, Remove(id)
          PROVE  FALSE
      BY <3>2 DEF Remove
    <3>. QED
      BY <3>1, <3>2 DEF Next, Command, Step, Verdict, Environment, vars, Begin, Bug, Check,
         Monitor, MonitorRaises, Run, Verify, Verified, PickId, Finish, RunPasses, RunFails,
         Crash, Drift
  <2>3. ASSUME NEW f, Put(job[p].id, f)
        PROVE  i \in DOMAIN files' /\ files'[i] = files[i]
    BY <2>1, <2>3 DEF Put
  <2>4. CASE Open(p)
    BY <2>3, <2>4 DEF Open
  <2>5. CASE Close(p)
    BY <2>3, <2>5 DEF Close
  <2>. QED  BY <2>2, <2>4, <2>5
<1>2. TypeInv /\ LocalInv /\ [Next]_vars => [\A p \in Procs : Alone(p)]_vars
  BY <1>1
<1>3. Spec => [][\A p \in Procs : Alone(p)]_vars
  <2>. HIDE DEF Alone
  <2>. QED
    BY <1>2, TypeInvInit, TypeInvStep, LocalInvInit, LocalInvStep, PTL DEF Spec
<1>. QED  BY <1>3 DEF OldTicketsAreLeftAlone

\* A monitor that finishes has filed every regression that lasted
\* (monitor.py:63-65, 82-108, cli.py:652-662).
THEOREM RegressionsAreFiled == Spec => []NoRegressionMissed
<1>1. TypeInv /\ LocalInv => NoRegressionMissed
  <2>. SUFFICES ASSUME LocalInv, NEW p \in Procs, pc[p] = "pick", job[p].kind = "monitor",
                       job[p].todo = {}, NEW e \in job[p].snap, Lasting(job[p], e)
                PROVE  \E t \in job[p].filed : Reports(t, e)
    BY DEF NoRegressionMissed, Lasting, Reports
  <2>1. job[p].left = {} /\ \E t \in Pending(job[p], "pick") : Reports(t, e)
    BY DEF LocalInv, Local, Covered
  <2>. QED  BY <2>1 DEF Pending
<1>. QED
  BY <1>1, TypeInvInit, TypeInvStep, LocalInvInit, LocalInvStep, PTL DEF Spec
=============================================================================
