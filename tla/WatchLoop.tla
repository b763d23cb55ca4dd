------------------------------ MODULE WatchLoop ------------------------------
(***************************************************************************)
(* `automaxfix watch` (automaxfix/watcher.py, watch_loop, and the closures *)
(* of cli.py, _watch_command): poll the test command, file tickets for     *)
(* what fails, run the first of them, sleep.  A run is not modelled again: *)
(* its steps are those of RepairContract, which RepairRun implements, with *)
(* the approval callback of the watch between them.  SIGINT may arrive     *)
(* between any two steps and only raises a flag; nothing handles SIGTERM.  *)
(***************************************************************************)
EXTENDS Naturals, Sequences

CONSTANTS
  AutoApproves,  \* values of config.watch_mode.auto_approve_in_watch
  MaxAttempts,   \* max_attempts of the runs it starts (2 in the code)
  MaxTickets,    \* bound: failures parsed from one output
  MaxPolls       \* bound: polls of one watch

ASSUME WatchLoopAssumption ==
  /\ AutoApproves # {} /\ AutoApproves \subseteq BOOLEAN
  /\ MaxAttempts \in Nat \ {0} /\ MaxTickets \in Nat /\ MaxPolls \in Nat

VARIABLES
  auto,      \* auto_approve_in_watch, as configured
  pc,        \* where the loop is
  stop,      \* _StopController.stop_requested
  handler,   \* who handles SIGINT
  summary,   \* the counters of WatchSummary, and whether it was printed
  exit,      \* how the watch ended
  status, tree, phase,   \* the run in progress, as RepairContract sees it
  turn,      \* its next step: ask for a patch, try it, or end
  attempts,  \* patches it has tried
  suite,     \* what the test command says of the tree as it is
  kept,      \* history: the tree is the one of the last accepted repair
  tries,     \* history: patches tried by this watch
  atStop     \* history: polls and runs counted when SIGINT came

loop == <<auto, pc, stop, handler, exit>>
repair == <<status, tree, phase, turn, attempts>>
vars == <<loop, summary, repair, suite, kept, tries, atStop>>

Labels == {"off", "setup", "top", "test", "scan", "run", "check", "sleep", "cleanup"}
Counters == {"polls", "passes", "failures", "created", "runs", "granted", "denied"}
Suites == {"green", "red"}
Exits == {"none", "returned", "raised", "agent_timeout", "setup_failed", "terminated"}

Contract == INSTANCE RepairContract WITH Patches <- Nat \X Nat

Count(c) == summary' = [summary EXCEPT ![c] = @ + 1]

-----------------------------------------------------------------------------
Init ==
  /\ auto \in AutoApproves
  /\ pc = "off" /\ stop = FALSE /\ handler = "default" /\ exit = "none"
  /\ summary = [c \in Counters |-> 0]
  /\ status = "new" /\ tree = <<>> /\ phase = "closed"
  /\ turn = "end" /\ attempts = 0
  /\ suite \in Suites /\ kept = FALSE /\ tries = 0
  /\ atStop = [polls |-> 0, runs |-> 0]

\* The request is valid; the SIGINT handler is installed before the try block.
Begin ==
  /\ pc = "off" /\ exit = "none"
  /\ pc' = "setup" /\ handler' = "watch"
  /\ UNCHANGED <<auto, stop, exit, summary, repair, suite, kept, tries, atStop>>

SetUp ==
  /\ pc = "setup" /\ pc' = "top"
  /\ UNCHANGED <<auto, stop, handler, exit, summary, repair, suite, kept, tries, atStop>>

\* The logs directory cannot be made: outside the try block, nothing is undone.
SetUpFails ==
  /\ pc = "setup" /\ pc' = "off" /\ exit' = "setup_failed"
  /\ UNCHANGED <<auto, stop, handler, summary, repair, suite, kept, tries, atStop>>

\* Mutant: a requested stop skips the test and sleeps on.
TopSleepsOn ==
  /\ pc = "top"
  /\ \/ stop /\ pc' = "sleep"
     \/ ~stop /\ summary["polls"] < MaxPolls /\ pc' = "test"
  /\ UNCHANGED <<auto, stop, handler, exit, summary, repair, suite, kept, tries, atStop>>

\* while not stop.stop_requested
Top ==
  /\ pc = "top"
  /\ \/ stop /\ pc' = "cleanup" /\ exit' = "returned"
     \/ ~stop /\ summary["polls"] < MaxPolls /\ pc' = "test" /\ UNCHANGED exit
  /\ UNCHANGED <<auto, stop, handler, summary, repair, suite, kept, tries, atStop>>

\* What a test command answers: a terminal's SIGINT reaches it as well.
Answers == {suite} \cup (IF stop THEN {"red"} ELSE {})

\* Mutant: a red test run is counted when its tickets are.
PollsUncounted ==
  /\ pc = "test"
  /\ \E answer \in Answers :
       /\ IF answer = "green"
          THEN summary' = [summary EXCEPT !["polls"] = @ + 1, !["passes"] = @ + 1]
          ELSE Count("failures")
       /\ pc' = IF answer = "green" THEN "check" ELSE "scan"
  /\ UNCHANGED <<auto, stop, handler, exit, repair, suite, kept, tries, atStop>>

\* The test command ends; it runs without a timeout.
Poll ==
  /\ pc = "test"
  /\ \E answer \in Answers :
       LET tally == IF answer = "green" THEN "passes" ELSE "failures"
       IN  /\ summary' = [summary EXCEPT !["polls"] = @ + 1, ![tally] = @ + 1]
           /\ pc' = IF answer = "green" THEN "check" ELSE "scan"
  /\ UNCHANGED <<auto, stop, handler, exit, repair, suite, kept, tries, atStop>>

\* Mutant: every new ticket is run.
ScanRunsAll ==
  /\ pc = "scan"
  /\ \E n \in 1..MaxTickets :
       summary' = [summary EXCEPT !["created"] = @ + n, !["runs"] = @ + n]
  /\ pc' = "run"
  /\ status' = "new" /\ phase' = "open" /\ turn' = "ask" /\ attempts' = 0
  /\ UNCHANGED <<auto, stop, handler, exit, tree, suite, kept, tries, atStop>>

\* One new ticket per parsed failure, whatever earlier polls have filed; only
\* the first of them is run.
Scan ==
  /\ pc = "scan"
  /\ \E n \in 0..MaxTickets :
       \/ /\ n = 0 /\ pc' = "check"
          /\ UNCHANGED <<summary, repair>>
       \/ /\ n > 0 /\ pc' = "run"
          /\ summary' = [summary EXCEPT !["created"] = @ + n, !["runs"] = @ + 1]
          /\ status' = "new" /\ phase' = "open" /\ turn' = "ask" /\ attempts' = 0
          /\ UNCHANGED tree
  /\ UNCHANGED <<auto, stop, handler, exit, suite, kept, tries, atStop>>

-----------------------------------------------------------------------------
\* A run of the ticket.  It fails before a patch is tried: agent, diff or git.
RunFails ==
  /\ pc = "run" /\ turn \in {"ask", "try"}
  /\ Contract!Mark /\ status' = "failed" /\ turn' = "end"
  /\ UNCHANGED <<loop, summary, attempts, suite, kept, tries, atStop>>

\* approval_callback: auto-approve, or the answer to the prompt.
Grant ==
  /\ pc = "run" /\ turn = "ask" /\ phase = "open"
  /\ Count("granted") /\ turn' = "try"
  /\ UNCHANGED <<loop, status, tree, phase, attempts, suite, kept, tries, atStop>>

Deny ==
  /\ pc = "run" /\ turn = "ask" /\ ~auto
  /\ Contract!Mark /\ status' = "failed"
  /\ Count("denied") /\ turn' = "end"
  /\ UNCHANGED <<loop, attempts, suite, kept, tries, atStop>>

Try ==
  /\ pc = "run" /\ turn = "try"
  /\ tree' = Append(tree, <<summary["runs"], attempts + 1>>)
  /\ Contract!Try
  /\ attempts' = attempts + 1 /\ tries' = tries + 1 /\ turn' = "end"
  /\ suite' \in Suites /\ kept' = FALSE
  /\ UNCHANGED <<loop, summary, atStop>>

\* Mutant: the regression suite is some other command.
KeepUntested ==
  /\ pc = "run"
  /\ Contract!Keep
  /\ kept' = TRUE
  /\ UNCHANGED <<loop, summary, turn, attempts, suite, tries, atStop>>

\* The regression suite is the watched command itself, so is its answer.
Keep ==
  /\ pc = "run" /\ "green" \in Answers
  /\ Contract!Keep
  /\ kept' = TRUE
  /\ UNCHANGED <<loop, summary, turn, attempts, suite, tries, atStop>>

Refuse ==
  /\ pc = "run" /\ "red" \in Answers
  /\ Contract!Refuse
  /\ UNCHANGED <<loop, summary, turn, attempts, suite, kept, tries, atStop>>

\* Mutants: no bound on the strategies; the consent of the run is used again.
TakeBackLoops ==
  /\ pc = "run"
  /\ Contract!TakeBack
  /\ turn' = "ask" /\ suite' \in Suites
  /\ UNCHANGED <<loop, summary, attempts, kept, tries, atStop>>
TakeBackConsents ==
  /\ pc = "run"
  /\ Contract!TakeBack
  /\ turn' = IF attempts < MaxAttempts THEN "try" ELSE "end"
  /\ suite' \in Suites
  /\ UNCHANGED <<loop, summary, attempts, kept, tries, atStop>>

\* The patch is reversed, and the next strategy asks again.
TakeBack ==
  /\ pc = "run"
  /\ Contract!TakeBack
  /\ turn' = IF attempts < MaxAttempts THEN "ask" ELSE "end"
  /\ suite' \in Suites
  /\ UNCHANGED <<loop, summary, attempts, kept, tries, atStop>>

\* The run returns; what it returns is ignored, a failed rollback as well.
RunEnds ==
  /\ pc = "run" /\ turn = "end" /\ phase # "trial"
  /\ Contract!End
  /\ pc' = "check"
  /\ UNCHANGED <<auto, stop, handler, exit, summary, turn, attempts, suite, kept, tries, atStop>>

\* subprocess.TimeoutExpired of the agent is caught neither here nor there.
AgentTimeout ==
  /\ pc = "run" /\ turn = "ask"
  /\ Contract!End
  /\ pc' = "cleanup" /\ exit' = "agent_timeout"
  /\ UNCHANGED <<auto, stop, handler, summary, turn, attempts, suite, kept, tries, atStop>>

-----------------------------------------------------------------------------
CheckStop ==
  /\ pc = "check"
  /\ \/ stop /\ pc' = "cleanup" /\ exit' = "returned"
     \/ ~stop /\ pc' = "sleep" /\ UNCHANGED exit
  /\ UNCHANGED <<auto, stop, handler, summary, repair, suite, kept, tries, atStop>>

\* time.sleep goes on after the handler has returned.
Sleep ==
  /\ pc = "sleep" /\ pc' = "top"
  /\ UNCHANGED <<auto, stop, handler, exit, summary, repair, suite, kept, tries, atStop>>

\* An exception of the test command, the scanner, a file write or the run.
Raises ==
  /\ pc \in {"test", "scan", "run"}
  /\ phase' = "closed"
  /\ pc' = "cleanup" /\ exit' = "raised"
  /\ UNCHANGED <<auto, stop, handler, summary, status, tree, turn, attempts, suite, kept,
                 tries, atStop>>

\* The finally block: the previous handler, then the summary.
CleanUp ==
  /\ pc = "cleanup" /\ pc' = "off"
  /\ handler' = "default"
  /\ UNCHANGED <<auto, stop, exit, summary, repair, suite, kept, tries, atStop>>

-----------------------------------------------------------------------------
Interrupt ==
  /\ handler = "watch" /\ pc # "off" /\ ~stop
  /\ stop' = TRUE
  /\ atStop' = [polls |-> summary["polls"], runs |-> summary["runs"]]
  /\ UNCHANGED <<auto, pc, handler, exit, summary, repair, suite, kept, tries>>

\* SIGTERM: nothing installs a handler for it.  The process is gone, and the
\* run it was in stays as it stands.
Terminate ==
  /\ pc # "off"
  /\ pc' = "off" /\ exit' = "terminated"
  /\ UNCHANGED <<auto, stop, handler, summary, repair, suite, kept, tries, atStop>>

\* The operator edits the sources while the watch runs.
OperatorEdit ==
  /\ pc # "off"
  /\ suite' \in Suites /\ kept' = FALSE
  /\ UNCHANGED <<loop, summary, repair, tries, atStop>>

-----------------------------------------------------------------------------
\* Steps the watch takes by itself; the agent has an enforced timeout.
OwnStep ==
  \/ SetUp \/ SetUpFails \/ Top \/ Scan \/ CheckStop \/ Sleep \/ CleanUp
  \/ RunFails \/ Try \/ TakeBack \/ RunEnds \/ AgentTimeout
  \/ (auto /\ Grant)

\* Steps that wait for a test command or the user, with no timeout.
Waiting == Poll \/ Keep \/ Refuse \/ (~auto /\ Grant) \/ Deny

Environment == Begin \/ Raises \/ Interrupt \/ Terminate \/ OperatorEdit

Next == OwnStep \/ Waiting \/ Environment

Spec == Init /\ [][Next]_vars

FairSpec == Spec /\ WF_vars(OwnStep)

-----------------------------------------------------------------------------
TypeOK ==
  /\ auto \in AutoApproves
  /\ pc \in Labels /\ stop \in BOOLEAN /\ handler \in {"default", "watch"}
  /\ exit \in Exits /\ summary \in [Counters -> Nat]
  /\ status \in {"new", "passed", "failed"} /\ tree \in Seq(Nat \X Nat)
  /\ phase \in {"closed", "open", "trial", "accepted", "rejected"}
  /\ turn \in {"ask", "try", "end"} /\ attempts \in 0..MaxAttempts
  /\ suite \in Suites /\ kept \in BOOLEAN /\ tries \in Nat
  /\ atStop \in [polls : Nat, runs : Nat]

\* However the watch ends, the counters of its summary agree with each other
\* (watcher.py:237-266, 147-174).
SummaryAddsUp ==
  pc \in {"cleanup", "off"} /\ exit # "terminated" =>
    /\ summary["polls"] = summary["passes"] + summary["failures"]
    /\ summary["runs"] <= summary["failures"]
    /\ summary["runs"] <= summary["created"]
    /\ summary["granted"] + summary["denied"] <= MaxAttempts * summary["runs"]

\* Once SIGINT has come, at most one more test is run and at most one more
\* repair started: the flag is read at the top of the loop and before the
\* sleep, never before a run (watcher.py:228, 266-270).
StopBoundsWork ==
  stop => /\ summary["polls"] <= atStop.polls + 1
          /\ summary["runs"] <= atStop.runs + 1

\* No patch is tried on a consent given for another one: each strategy of each
\* run asks anew (cli.py:1078-1087, watcher.py:142-177).
ConsentPerPatch == tries + (IF turn = "try" THEN 1 ELSE 0) <= summary["granted"]

\* An accepted repair is not followed by another one for the same cause: the
\* poll after it passes if nobody has edited since, because the run's
\* regression command is the watched command (cli.py:1415, watcher.py:242).
AcceptedRepairPolls ==
  [][kept /\ ~stop /\ summary'["polls"] > summary["polls"]
       => summary'["passes"] > summary["passes"]]_vars

\* A SIGINT ends the watch, unless it waits forever for the watched command, a
\* run's tests or the user's answer: these have no timeout (watcher.py:117-124).
StopEndsOrWaits ==
  stop ~> \/ pc = "off"
          \/ [](pc = "test") \/ [](phase = "trial") \/ [](turn = "ask" /\ pc = "run")

\* 'A "subprocess timed out" line indicates the underlying agent CLI did not
\* respond. The watch loop should have restarted'
\* (docs/runbooks/watch-mode-hang.md:36-38).
AgentTimeoutIsSurvived == exit # "agent_timeout"
=============================================================================
