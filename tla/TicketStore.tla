----------------------------- MODULE TicketStore -----------------------------
(***************************************************************************)
(* The tickets directory and the commands that share it: `bug` and `scan`, *)
(* `check`, `monitor`, and the runs that re-save a ticket (automaxfix/     *)
(* ticket.py, monitor.py, cli.py).  Commands are processes with no lock    *)
(* between them: a new id is read off the directory in one step and the    *)
(* file is opened, and then written, in later ones.                        *)
(***************************************************************************)
EXTENDS Naturals, FiniteSets

CONSTANTS
  Procs,         \* commands that may be running at the same time
  Signals,       \* commands of the configured checks
  Silent,        \* those that exit 0 whatever their output says
  MaxCommands,   \* bound: commands started
  MaxIds         \* bound: tickets filed in a day

ASSUME TicketStoreAssumption ==
  /\ Procs # {} /\ Silent \subseteq Signals
  /\ MaxCommands \in Nat /\ MaxIds \in Nat

\* A ticket: what filed it, the signal it is verified by (verification_command)
\* with or without the check's pattern (check_definition), and its origin
\* (regressed_from, 0 for none).
NoSignal == "none"
Draft(source, signal, check, from) ==
  [source |-> source, signal |-> signal, check |-> check, from |-> from, status |-> "new"]
Tickets ==
  [source : {"user", "check", "regression"}, signal : Signals \cup {NoSignal},
   check : BOOLEAN, from : Nat, status : {"new", "failed", "passed"}]

\* A file: its ticket, whether it parses, and the process that opened it last.
Files == [ticket : Tickets, torn : BOOLEAN, by : Procs]

Kinds == {"bug", "check", "monitor", "run"}
Labels == {"idle", "verify", "pick", "open", "close", "repair"}

VARIABLES
  files,     \* the directory: id -> file
  broken,    \* the signals that fail right now
  pc, job,   \* of each process
  commands   \* bounded counter

vars == <<files, broken, pc, job, commands>>

\* The locals of a command: what it still has to file, the ids it saw when it
\* picked one, and for monitor the passed tickets it loaded and has still to
\* verify, and (history) the signals that have been broken ever since.
NoJob ==
  [kind |-> "bug", todo |-> {}, ticket |-> Draft("user", NoSignal, FALSE, 0),
   id |-> 0, seen |-> {}, snap |-> {}, left |-> {}, held |-> {}, filed |-> {}]

Ids == DOMAIN files
Put(id, f) == files' = [i \in Ids \cup {id} |-> IF i = id THEN f ELSE files[i]]

\* Mutants: ids from 0; ids by counting the files.
NextIdFromZero == IF Ids = {} THEN 0 ELSE (CHOOSE m \in Ids : \A i \in Ids : i <= m) + 1
NextIdByCount == Cardinality(Ids) + 1

\* next_ticket_id: one above the highest id of the day.
NextId == IF Ids = {} THEN 1 ELSE (CHOOSE m \in Ids : \A i \in Ids : i <= m) + 1

\* find_monitorable: passed, with a verification command.
Monitorable ==
  {i \in Ids : files[i].ticket.status = "passed" /\ files[i].ticket.signal # NoSignal}

\* Mutant: every ticket is judged by exit code.
RegressedByExit(t) == t.signal \in broken \ Silent

\* monitor_once: check tickets are judged with their pattern, others by exit code.
Regressed(t) == t.signal \in broken /\ (t.check \/ t.signal \notin Silent)

\* create_regression_ticket copies the commands, not the check definition.
Regression(id, t) == Draft("regression", t.signal, FALSE, id)

Idle(p) == pc[p] = "idle"
Goto(p, l) == pc' = [pc EXCEPT ![p] = l]
Work(p, j) == job' = [job EXCEPT ![p] = j]

Begin(p, l, j) ==
  /\ Idle(p) /\ commands < MaxCommands
  /\ commands' = commands + 1
  /\ Goto(p, l) /\ Work(p, j)
  /\ UNCHANGED <<files, broken>>

-----------------------------------------------------------------------------
Init ==
  /\ files = [i \in {} |-> {}]
  /\ broken = Signals
  /\ pc = [p \in Procs |-> "idle"] /\ job = [p \in Procs |-> NoJob]
  /\ commands = 0

\* `bug` and `scan`: a ticket with neither a verification nor a check.
Bug(p) ==
  Begin(p, "pick", [NoJob EXCEPT !.todo = {Draft("user", NoSignal, FALSE, 0)}])

\* `check`: all checks are run first, then a ticket is filed for each failure.
Check(p) ==
  /\ broken # {}
  /\ Begin(p, "pick", [NoJob EXCEPT !.kind = "check",
                         !.todo = {Draft("check", s, TRUE, 0) : s \in broken}])

\* `monitor`: every ticket of the directory is loaded before any is verified.
Monitor(p) ==
  /\ \A i \in Ids : ~files[i].torn
  /\ LET passed == {<<i, files[i].ticket>> : i \in Monitorable}
     IN  Begin(p, "verify", [NoJob EXCEPT !.kind = "monitor", !.snap = passed,
                               !.left = passed, !.held = broken])

\* A ticket file that does not parse: load_ticket raises and nothing is monitored.
MonitorRaises(p) ==
  /\ Idle(p) /\ commands < MaxCommands /\ \E i \in Ids : files[i].torn
  /\ commands' = commands + 1
  /\ UNCHANGED <<files, broken, pc, job>>

\* One verification; its command has a timeout, and a timeout is a failure.
Verify(p) ==
  /\ pc[p] = "verify"
  /\ \E e \in job[p].left :
       Work(p, [job[p] EXCEPT !.left = @ \ {e},
                  !.todo = IF Regressed(e[2]) THEN @ \cup {Regression(e[1], e[2])} ELSE @])
  /\ UNCHANGED <<files, broken, pc, commands>>

\* All of the snapshot is verified before the first ticket is filed.
Verified(p) ==
  /\ pc[p] = "verify" /\ job[p].left = {}
  /\ Goto(p, "pick")
  /\ UNCHANGED <<files, broken, job, commands>>

-----------------------------------------------------------------------------
\* next_ticket_id for the next ticket to file.
PickId(p) ==
  /\ pc[p] = "pick" /\ NextId <= MaxIds
  /\ \E t \in job[p].todo :
       Work(p, [job[p] EXCEPT !.todo = @ \ {t}, !.ticket = t, !.id = NextId, !.seen = Ids])
  /\ Goto(p, "open")
  /\ UNCHANGED <<files, broken, commands>>

\* write_json: the file is truncated ...
Open(p) ==
  /\ pc[p] = "open"
  /\ Put(job[p].id, [ticket |-> job[p].ticket, torn |-> TRUE, by |-> p])
  /\ Goto(p, "close")
  /\ UNCHANGED <<broken, job, commands>>

\* ... and then written.  Text that somebody else has written since may be
\* longer, and its tail stays behind.
Close(p) ==
  /\ pc[p] = "close"
  /\ LET j == job[p]
     IN  /\ \E torn \in IF files[j.id].by # p /\ ~files[j.id].torn
                          THEN BOOLEAN ELSE {FALSE} :
              Put(j.id, [ticket |-> j.ticket, torn |-> torn, by |-> p])
         /\ Work(p, [j EXCEPT !.filed = @ \cup {j.ticket}])
         /\ Goto(p, IF j.kind = "run" THEN "idle" ELSE "pick")
  /\ UNCHANGED <<broken, commands>>

\* The command has filed its tickets and prints them.
Finish(p) ==
  /\ pc[p] = "pick" /\ job[p].todo = {}
  /\ Goto(p, "idle")
  /\ UNCHANGED <<files, broken, job, commands>>

-----------------------------------------------------------------------------
\* `run`: the ticket is loaded, and saved with its verdict when that is known.
Run(p, id) ==
  /\ ~files[id].torn
  /\ Begin(p, "repair", [NoJob EXCEPT !.kind = "run", !.ticket = files[id].ticket, !.id = id])

\* Accepted: the check of the ticket, if it has one, has just passed.
RunPasses(p) ==
  /\ pc[p] = "repair"
  /\ job[p].ticket.check => job[p].ticket.signal \notin broken
  /\ Work(p, [job[p] EXCEPT !.ticket.status = "passed", !.held = broken])
  /\ Goto(p, "open")
  /\ UNCHANGED <<files, broken, commands>>

RunFails(p) ==
  /\ pc[p] = "repair"
  /\ Work(p, [job[p] EXCEPT !.ticket.status = "failed"])
  /\ Goto(p, "open")
  /\ UNCHANGED <<files, broken, commands>>

-----------------------------------------------------------------------------
Crash(p) ==
  /\ ~Idle(p)
  /\ Goto(p, "idle") /\ Work(p, NoJob)
  /\ UNCHANGED <<files, broken, commands>>

\* The system drifts, or somebody puts it right.
Drift(s) ==
  /\ broken' = IF s \in broken THEN broken \ {s} ELSE broken \cup {s}
  /\ job' = [p \in Procs |-> [job[p] EXCEPT !.held = @ \cap broken']]
  /\ UNCHANGED <<files, pc, commands>>

\* "Recreate the ticket or remove the file": the operator removes one that no
\* command has open.
Remove(id) ==
  /\ \A p \in Procs : ~(pc[p] = "close" /\ job[p].id = id)
  /\ files' = [i \in Ids \ {id} |-> files[i]]
  /\ UNCHANGED <<broken, pc, job, commands>>

Command(p) ==
  \/ Bug(p) \/ Check(p) \/ Monitor(p) \/ MonitorRaises(p) \/ \E id \in Ids : Run(p, id)

\* What a command does by itself once it is started; a run's tests may hang.
Step(p) ==
  Verify(p) \/ Verified(p) \/ PickId(p) \/ Open(p) \/ Close(p) \/ Finish(p)

Verdict(p) == RunPasses(p) \/ RunFails(p)

Environment == (\E s \in Signals : Drift(s)) \/ \E id \in Ids : Remove(id)

Next ==
  (\E p \in Procs : Command(p) \/ Step(p) \/ Verdict(p) \/ Crash(p)) \/ Environment

Spec == Init /\ [][Next]_vars

-----------------------------------------------------------------------------
TypeOK ==
  /\ Ids \subseteq 1..MaxIds /\ \A i \in Ids : files[i] \in Files
  /\ broken \subseteq Signals
  /\ pc \in [Procs -> Labels] /\ commands \in 0..MaxCommands
  /\ \A p \in Procs :
       /\ job[p].kind \in Kinds /\ job[p].id \in 0..MaxIds
       /\ job[p].ticket \in Tickets /\ job[p].todo \subseteq Tickets
       /\ job[p].filed \subseteq Tickets /\ job[p].seen \subseteq 1..MaxIds
       /\ job[p].left \subseteq job[p].snap /\ job[p].snap \subseteq (1..MaxIds) \X Tickets
       /\ job[p].held \subseteq Signals

\* A command that files tickets never changes one that was in the directory
\* when it picked the id: not the original of a regression, which "is left
\* untouched", nor any other.  Only a ticket filed by another command in
\* between can be lost (ticket.py:19-36, monitor.py:48-79).
OldTicketsAreLeftAlone ==
  [][\A p \in Procs :
       pc[p] \in {"open", "close"} /\ pc'[p] # pc[p] /\ job[p].kind # "run"
         => \A i \in job[p].seen : i \in Ids => i \in DOMAIN files' /\ files'[i] = files[i]]_vars

\* A monitor that finishes has filed a regression ticket for every passed
\* ticket it loaded whose signal was broken all the time, also where only the
\* pattern of the check tells (monitor.py:63-65, 82-108, cli.py:652-662).
NoRegressionMissed ==
  \A p \in Procs :
    pc[p] = "pick" /\ job[p].kind = "monitor" /\ job[p].todo = {} =>
      \A e \in job[p].snap :
        e[2].signal \in job[p].held /\ (e[2].source = "check" \/ e[2].signal \notin Silent)
          => \E t \in job[p].filed : t.from = e[1] /\ t.signal = e[2].signal

\* "validates every repair against the same signal that detected the problem"
\* (README.md:16-17): when a ticket is accepted, its signal holds.
AcceptedSignalHolds ==
  \A p \in Procs :
    pc[p] = "open" /\ job[p].kind = "run" /\ job[p].ticket.status = "passed"
      => job[p].ticket.signal \notin job[p].held
=============================================================================
