---------------------------- MODULE ParallelRuns ----------------------------
(***************************************************************************)
(* Several `automaxfix run` processes at work in one repository at the     *)
(* same time: a watch and a run by hand, or a shell loop over tickets      *)
(* (automaxfix/cli.py, _run_command_with_config).  Nothing locks.  They    *)
(* share the working tree, the ticket files, the patch artifacts and the   *)
(* reports; each keeps the ticket as it loaded it.  What one run does by   *)
(* itself is in RepairRun: here the runs are approved agent runs, and a    *)
(* failure before the apply is one step.  A ticket is saved in two steps,  *)
(* as write_json does it: the file is truncated, then written.             *)
(***************************************************************************)
EXTENDS Naturals, Sequences, FiniteSets

CONSTANTS
  Procs,        \* the processes
  Tickets,      \* the tickets
  MaxAttempts,  \* --max-attempts of every run
  MaxRuns,      \* bound: runs started
  MaxCrashes,   \* bound: runs killed
  MaxTime       \* bound: the last second of the clock

ASSUME ParallelRunsAssumption ==
  /\ MaxAttempts \in Nat /\ MaxRuns \in Nat /\ MaxCrashes \in Nat /\ MaxTime \in Nat

Strategies == 1..4

\* A patch is named by its ticket, its run and the strategy it was made for.
Patch == Tickets \X Nat \X Strategies
Attempt == [strategy : Strategies, succeeded : BOOLEAN]
Statuses == {"new", "reproduced", "failed", "passed"}
File == [status : Statuses, memo : Seq(Attempt)]
Tag == Tickets \X Nat \X Strategies
ReportName == Nat \X Tickets
Labels == {"idle", "begin", "plan", "ask", "artifact", "apply", "validate", "save", "write",
           "reverse", "report"}

VARIABLES
  files,      \* ticket -> what its file says, NewTicket if that does not load
  torn,       \* tickets whose file is cut short or garbled: it does not load
  mixed,      \* processes whose file somebody has written since they truncated it
  tree,       \* patches in the working tree
  artifacts,  \* logs/applied_<tag>.diff : tag -> patch
  reports,    \* <second>-<ticket>.md : name -> what it is about
  now,        \* the clock, in seconds, as the last report has it
  pc, after,  \* of each process; where its save goes on
  job,        \* the locals of each process
  kept,       \* history: patches accepted
  stranded,   \* history: patches left behind by a failed rollback or a kill
  overlapped, \* history: tickets that two runs have been at work on at once
  runs, crashes

saved == <<files, torn, mixed>>
disk == <<saved, artifacts, reports>>
history == <<kept, stranded, overlapped>>
bounds == <<now, runs, crashes>>
vars == <<disk, tree, pc, after, job, history, bounds>>

-----------------------------------------------------------------------------
Failed(memo) == {memo[i].strategy : i \in {j \in DOMAIN memo : ~memo[j].succeeded}}

\* Mutant: rungs are numbered from zero.
RungsFromZero(memo) ==
  LET unspent == (0..3) \ Failed(memo)
  IN  {s \in unspent : Cardinality({t \in unspent : t <= s}) <= MaxAttempts}

\* _strategy_attempts on the memo as it was loaded.
StrategyAttempts(memo) ==
  LET unspent == Strategies \ Failed(memo)
  IN  {s \in unspent : Cardinality({t \in unspent : t <= s}) <= MaxAttempts}

\* Mutant: only the last attempt is remembered.
RecordedAlone(p, succeeded) ==
  <<[strategy |-> job[p].patch[3], succeeded |-> succeeded]>>

\* _record_strategy_attempt: onto the memo in memory.
Recorded(p, succeeded) ==
  Append(job[p].ticket.memo, [strategy |-> job[p].patch[3], succeeded |-> succeeded])

\* Mutant: the tag names the strategy only.
TagByStrategy(p) == <<job[p].id, 1, job[p].patch[3]>>

\* _agent_attempt_tag
TagOf(p) == <<job[p].id, Len(job[p].ticket.memo) + 1, job[p].patch[3]>>

\* Mutant: one report per second.
NameBySecond(p, second) == <<second, CHOOSE t \in Tickets : TRUE>>

\* reports_dir / f"{timestamp}-{ticket.id}.md"
NameOf(p, second) == <<second, job[p].id>>

\* Mutant: the text is read back from the artifact.
ArtifactText(p) ==
  artifacts[<<job[p].id, Len(job[p].ticket.memo), job[p].patch[3]>>]

\* What reverse_patch is given: the patch in memory.
PatchText(p) == job[p].patch

Active(p) == pc[p] # "idle"
Writing(p, t) == pc[p] = "write" /\ job[p].id = t
Goto(p, l) == pc' = [pc EXCEPT ![p] = l]
Work(p, j) == job' = [job EXCEPT ![p] = j]
SaveThen(p, l) == pc' = [pc EXCEPT ![p] = "save"] /\ after' = [after EXCEPT ![p] = l]
Stay == UNCHANGED <<after, history, bounds>>

\* The locals of a run of ticket t.
NewTicket == [status |-> "new", memo |-> <<>>]
Locals(t, n, ticket) ==
  [id |-> t, run |-> n, ticket |-> ticket, plan |-> {}, patch |-> <<t, n, 1>>]

\* The process ends: its locals are gone.
Exit(p) ==
  /\ pc' = [pc EXCEPT ![p] = "idle"] /\ after' = [after EXCEPT ![p] = "idle"]
  /\ Work(p, Locals(job[p].id, 0, NewTicket))

-----------------------------------------------------------------------------
Init ==
  /\ files = [t \in Tickets |-> NewTicket] /\ torn = {} /\ mixed = {}
  /\ tree = {}
  /\ artifacts = [g \in {} |-> {}] /\ reports = [n \in {} |-> {}]
  /\ pc = [p \in Procs |-> "idle"] /\ after = [p \in Procs |-> "idle"]
  /\ \E t \in Tickets : job = [p \in Procs |-> Locals(t, 0, NewTicket)]
  /\ kept = {} /\ stranded = {} /\ overlapped = {}
  /\ now = 0 /\ runs = 0 /\ crashes = 0

\* load_ticket: whatever the file says now is what this run goes on with.
Start(p, t) ==
  /\ pc[p] = "idle" /\ runs < MaxRuns /\ t \notin torn
  /\ runs' = runs + 1
  /\ Goto(p, "begin") /\ Work(p, Locals(t, runs + 1, files[t]))
  /\ overlapped' = overlapped \cup {u \in {t} : \E q \in Procs : Active(q) /\ job[q].id = t}
  /\ UNCHANGED <<disk, tree, after, kept, stranded, now, crashes>>

\* A file that does not parse, or is being written: load_ticket raises.
RefuseTorn ==
  /\ torn # {} /\ runs < MaxRuns /\ \E p \in Procs : pc[p] = "idle"
  /\ runs' = runs + 1
  /\ UNCHANGED <<disk, tree, pc, after, job, history, now, crashes>>

\* The reproduction gate: skipped, or the test fails as it should and that is saved.
SkipReproduction(p) ==
  /\ pc[p] = "begin" /\ Goto(p, "plan")
  /\ UNCHANGED <<disk, tree, job>> /\ Stay

Reproduce(p) ==
  /\ pc[p] = "begin"
  /\ Work(p, [job[p] EXCEPT !.ticket.status = "reproduced"])
  /\ SaveThen(p, "plan")
  /\ UNCHANGED <<disk, tree, history, bounds>>

MakePlan(p) ==
  /\ pc[p] = "plan"
  /\ Work(p, [job[p] EXCEPT !.plan = StrategyAttempts(job[p].ticket.memo)])
  /\ Goto(p, "ask")
  /\ UNCHANGED <<disk, tree>> /\ Stay

\* The next strategy of the plan brings a valid diff.
Ask(p) ==
  /\ pc[p] = "ask"
  /\ \E s \in job[p].plan :
       /\ \A t \in job[p].plan : s <= t
       /\ Work(p, [job[p] EXCEPT !.plan = @ \ {s}, !.patch = <<job[p].id, job[p].run, s>>])
  /\ Goto(p, "artifact")
  /\ UNCHANGED <<disk, tree>> /\ Stay

\* No reproduction, nothing left to try, no valid diff, no repository, or the
\* diff does not apply: the ticket in memory is saved as failed.
Stop(p) ==
  /\ pc[p] \in {"begin", "ask", "apply"}
  /\ Work(p, [job[p] EXCEPT !.ticket.status = "failed"])
  /\ SaveThen(p, "report")
  /\ UNCHANGED <<disk, tree, history, bounds>>

WriteArtifact(p) ==
  /\ pc[p] = "artifact"
  /\ artifacts' = [g \in DOMAIN artifacts \cup {TagOf(p)} |->
                     IF g = TagOf(p) THEN job[p].patch ELSE artifacts[g]]
  /\ Goto(p, "apply")
  /\ UNCHANGED <<saved, reports, tree, job>> /\ Stay

Apply(p) ==
  /\ pc[p] = "apply"
  /\ tree' = tree \cup {job[p].patch}
  /\ Goto(p, "validate")
  /\ UNCHANGED <<disk, job>> /\ Stay

\* The tests judge the tree as it is, with whatever other runs have in it.
Accept(p) ==
  /\ pc[p] = "validate"
  /\ Work(p, [job[p] EXCEPT !.ticket = [status |-> "passed", memo |-> Recorded(p, TRUE)]])
  /\ kept' = kept \cup {job[p].patch}
  /\ SaveThen(p, "report")
  /\ UNCHANGED <<disk, tree, stranded, overlapped, bounds>>

Reject(p) ==
  /\ pc[p] = "validate"
  /\ Work(p, [job[p] EXCEPT !.ticket = [status |-> "failed", memo |-> Recorded(p, FALSE)]])
  /\ SaveThen(p, "reverse")
  /\ UNCHANGED <<disk, tree, history, bounds>>

\* Mutant: the rollback of one run discards every change in the tree.
RollbackByCheckout(p) ==
  /\ pc[p] = "reverse"
  /\ tree' = {}
  /\ IF job[p].plan = {} THEN SaveThen(p, "report") ELSE Goto(p, "ask") /\ UNCHANGED after
  /\ UNCHANGED <<disk, job, history, bounds>>

\* git apply -R of the patch, wherever in the tree it is by now.
Rollback(p) ==
  /\ pc[p] = "reverse"
  /\ tree' = tree \ {PatchText(p)}
  /\ IF job[p].plan = {} THEN SaveThen(p, "report") ELSE Goto(p, "ask") /\ UNCHANGED after
  /\ UNCHANGED <<disk, job, history, bounds>>

\* It does not come off any more, for instance under another run's patch.
RollbackFails(p) ==
  /\ pc[p] = "reverse"
  /\ stranded' = stranded \cup {job[p].patch}
  /\ SaveThen(p, "report")
  /\ UNCHANGED <<disk, tree, job, kept, overlapped, bounds>>

\* save_ticket truncates the file, whatever it has become ...
Truncate(p) ==
  /\ pc[p] = "save"
  /\ files' = [files EXCEPT ![job[p].id] = NewTicket]
  /\ torn' = torn \cup {job[p].id}
  /\ mixed' = {q \in mixed : job[q].id # job[p].id}
  /\ Goto(p, "write")
  /\ UNCHANGED <<artifacts, reports, tree, job>> /\ Stay

\* ... and then writes the ticket of the run.  Text that another run has written
\* in between may be longer, and its tail stays behind.
Write(p) ==
  /\ pc[p] = "write"
  /\ \E whole \in IF p \in mixed THEN BOOLEAN ELSE {TRUE} :
       /\ files' = [files EXCEPT ![job[p].id] = IF whole THEN job[p].ticket ELSE NewTicket]
       /\ torn' = IF whole THEN torn \ {job[p].id} ELSE torn \cup {job[p].id}
  /\ mixed' = (mixed \ {p}) \cup {q \in Procs \ {p} : Writing(q, job[p].id)}
  /\ pc' = [pc EXCEPT ![p] = after[p]] /\ after' = [after EXCEPT ![p] = "idle"]
  /\ UNCHANGED <<artifacts, reports, tree, job, history, bounds>>

\* The report is written, after whatever time has passed since the last one.
Report(p) ==
  /\ pc[p] = "report"
  /\ now' \in now..MaxTime
  /\ reports' = [n \in DOMAIN reports \cup {NameOf(p, now')} |->
                   IF n = NameOf(p, now') THEN [ticket |-> job[p].id, at |-> now']
                   ELSE reports[n]]
  /\ Exit(p)
  /\ UNCHANGED <<saved, artifacts, tree, history, runs, crashes>>

-----------------------------------------------------------------------------
\* The run's patch is in the tree, and the run has not accepted it.
OnTrial(p) ==
  pc[p] \in {"validate", "reverse"} \/ (pc[p] \in {"save", "write"} /\ after[p] = "reverse")

\* Killed between two steps, the two of a save included.
Crash(p) ==
  /\ Active(p) /\ crashes < MaxCrashes
  /\ crashes' = crashes + 1
  /\ stranded' = IF OnTrial(p) THEN stranded \cup {job[p].patch} ELSE stranded
  /\ mixed' = mixed \ {p}
  /\ Exit(p)
  /\ UNCHANGED <<files, torn, artifacts, reports, tree, kept, overlapped, now, runs>>

Step(p) ==
  \/ SkipReproduction(p) \/ Reproduce(p) \/ MakePlan(p) \/ Ask(p) \/ Stop(p)
  \/ WriteArtifact(p) \/ Apply(p) \/ Accept(p) \/ Reject(p)
  \/ Rollback(p) \/ RollbackFails(p) \/ Truncate(p) \/ Write(p) \/ Report(p)

Next ==
  \/ \E p \in Procs : Step(p) \/ Crash(p) \/ \E t \in Tickets : Start(p, t)
  \/ RefuseTorn

Spec == Init /\ [][Next]_vars

-----------------------------------------------------------------------------
JobType ==
  [id : Tickets, run : Nat, ticket : File, plan : SUBSET Strategies, patch : Patch]

TypeOK ==
  /\ files \in [Tickets -> File] /\ torn \subseteq Tickets /\ mixed \subseteq Procs
  /\ tree \subseteq Patch /\ kept \subseteq Patch /\ stranded \subseteq Patch
  /\ DOMAIN artifacts \subseteq Tag /\ \A g \in DOMAIN artifacts : artifacts[g] \in Patch
  /\ DOMAIN reports \subseteq ReportName
  /\ pc \in [Procs -> Labels] /\ after \in [Procs -> {"idle", "plan", "reverse", "report"}]
  /\ job \in [Procs -> JobType]
  /\ overlapped \subseteq Tickets
  /\ now \in Nat /\ runs \in Nat /\ crashes \in Nat

\* Whatever runs at the same time, the tree holds exactly the accepted patches,
\* those on trial, and those whose rollback failed or whose run was killed: no
\* run takes out the patch of another one (cli.py:1149-1305).
TreeIsShared ==
  tree = kept \cup stranded \cup {job[p].patch : p \in {q \in Procs : OnTrial(q)}}

\* A ticket is saved as passed only while a patch accepted for that ticket is in
\* the tree, whichever of its runs saved last (cli.py:1227-1247, 1302).
PassedTicketHasItsPatch ==
  \A t \in Tickets : files[t].status = "passed" => \E k \in kept \cap tree : k[1] = t

\* Unless two of its runs overlapped, a ticket saved as passed has a patch in the
\* tree and an artifact to reverse it with, whatever runs of other tickets and
\* killed runs of its own have written (cli.py:1131-1147, README.md:254-260).
PassedTicketCanBeReverted ==
  \A t \in Tickets \ overlapped :
    files[t].status = "passed" =>
      \E k \in kept \cap tree : k[1] = t /\ \E g \in DOMAIN artifacts : artifacts[g] = k

\* A memo that goes on from an earlier one.
Extends(memo, earlier) ==
  Len(earlier) <= Len(memo) /\ \A i \in DOMAIN earlier : memo[i] = earlier[i]

\* The attempts on file, or those that the save under way is putting there.
OnFile(t) ==
  LET writers == {p \in Procs : Writing(p, t)}
  IN  IF writers = {} THEN {files[t].memo} ELSE {job[p].ticket.memo : p \in writers}

\* Nothing that loads is left of the ticket's file, and nobody is writing it.
Lost(t) == t \in torn /\ \A p \in Procs : ~Writing(p, t)

\* Unless two runs have been at work on a ticket at once, its recorded attempts
\* are lost to nothing but a kill inside the save of that very ticket, whatever
\* other runs do; and then no run works on the ticket any more
\* (cli.py:758, 1247, 1302, utils.py:48-52).
AttemptsAreLostToOverlapOrTear ==
  [][\A t \in Tickets \ overlapped' :
       /\ \/ \A old \in OnFile(t) : \A new \in OnFile(t)' : Extends(new, old)
          \/ \E p \in Procs : Writing(p, t) /\ pc'[p] = "idle" /\ crashes' > crashes
       /\ Lost(t) => Lost(t)' /\ \A p \in Procs : job[p].id = t => ~Active(p)]_vars

\* A report is overwritten only by one of the same ticket within the same second,
\* however many runs end at once (reporter.py:121-122).
ReportsOfOthersSurvive ==
  [][\A n \in DOMAIN reports :
       /\ n \in DOMAIN reports'
       /\ reports'[n].ticket = reports[n].ticket /\ reports'[n].at = reports[n].at]_vars
=============================================================================
