------------------------------ MODULE RepairRun ------------------------------
(***************************************************************************)
(* One ticket and the successive `automaxfix run` invocations made for it  *)
(* (automaxfix/cli.py, _run_command_with_config; `watch` calls the same    *)
(* function with an approval callback).  A run is a process with a program *)
(* counter: every label is a point between two effects that outlive the    *)
(* process (the ticket file, the patch artifact, the working tree), so a   *)
(* crash may fall between any two of them.  What external commands answer  *)
(* (the agent, git, the tests, the checks) is a nondeterministic choice.   *)
(***************************************************************************)
EXTENDS Naturals, Sequences, FiniteSets

CONSTANTS
  Invocations,        \* option records a run may be started with
  MaxPatchAttempts,   \* config.patch.max_patch_attempts
  HasReproTest,       \* ticket.reproduction_test is set
  HasCheck,           \* ticket.check_definition is set
  MaxRuns,            \* bound: runs started
  MaxCrashes          \* bound: runs killed or ended by an uncaught exception

\* How approval is decided: --yes, neither flag nor callback, or the two
\* answers of watch mode's callback (prompt the user, auto_approve_in_watch).
ApprovalModes == {"yes", "gate", "prompt", "auto"}

InvocationType ==
  [patchFile : BOOLEAN, maxAttempts : Nat \ {0}, skipRepro : BOOLEAN,
   requireRepro : BOOLEAN, requireHuman : BOOLEAN, approval : ApprovalModes]

ASSUME RepairRunAssumption ==
  /\ Invocations # {} /\ Invocations \subseteq InvocationType
  /\ MaxPatchAttempts \in Nat
  /\ HasReproTest \in BOOLEAN /\ HasCheck \in BOOLEAN
  /\ MaxRuns \in Nat /\ MaxCrashes \in Nat

-----------------------------------------------------------------------------
\* Strategies are numbered by their rung on _STRATEGY_LADDER:
\* 1 minimal, 2 test_first, 3 refactor, 4 rollback.
Strategies == 1..4
Minimal == 1

Statuses == {"new", "reproduced", "patched", "passed", "failed"}
Results == {"none", "no_repro", "repro_passed", "exhausted", "agent_error",
            "invalid_diff", "no_git", "denied", "apply_failed",
            "checks_failed", "rollback_failed", "validated"}
Attempt == [strategy : Strategies, succeeded : BOOLEAN]
Ticket == [status : Statuses, result : Results, memo : Seq(Attempt)]
NewTicket == [status |-> "new", result |-> "none", memo |-> <<>>]

\* A patch is named by the run and the agent call it came from.
Patch == Nat \X Nat
NoPatch == <<0, 0>>

Verdicts == {"none", "pass", "fail"}
NothingSeen == [targeted |-> "none", regression |-> "none", check |-> "none"]

\* The locals of one run.
RunType ==
  [opts : Invocations, base : Seq(Patch), reproduced : BOOLEAN,
   plan : SUBSET Strategies, strategy : Strategies, tries : Nat, calls : Nat,
   applies : Nat, dirty : BOOLEAN, patch : Patch,
   seen : [targeted : Verdicts, regression : Verdicts, check : Verdicts]]
Fresh(o, t) ==
  [opts |-> o, base |-> t, reproduced |-> FALSE, plan |-> {},
   strategy |-> Minimal, tries |-> 0, calls |-> 0, applies |-> 0,
   dirty |-> FALSE, patch |-> NoPatch, seen |-> NothingSeen]

Labels == {"idle", "gate", "before", "plan", "strategy", "agent", "git", "approve",
           "artifact", "apply", "validate", "reverse", "save",
           "report_pass", "report_fail"}

VARIABLES
  disk, torn,         \* the ticket file; nothing that loads is left of it
  artifacts,          \* logs/applied_<tag>.diff : tag -> patch
  tree,               \* patches this tool left in the working tree, in order
  head,               \* how many of them the operator has committed
  userDirty,          \* the operator has uncommitted edits of their own
  pc, after,          \* program counter; where the current save continues
  ticket, run,        \* the ticket in memory and the other locals
  accepted,           \* history: the patch of the last accepted repair
  runs, crashes       \* bounded counters

stateFiles == <<disk, torn, artifacts>>
workspace == <<tree, head, userDirty>>
counters == <<accepted, runs, crashes>>
vars == <<stateFiles, workspace, pc, after, ticket, run, counters>>

-----------------------------------------------------------------------------
\* StrategyMemo.exhausted_strategies: what has failed at least once.
Exhausted(memo) == {memo[i].strategy : i \in {j \in DOMAIN memo : ~memo[j].succeeded}}

\* Mutant: the first n rungs, spent or not.
SpentToo(memo, n) == {s \in Strategies : s <= n /\ memo = memo}

\* _strategy_attempts: the first n rungs that are not exhausted.
StrategyAttempts(memo, n) ==
  LET unspent == Strategies \ Exhausted(memo)
  IN  {s \in unspent : Cardinality({t \in unspent : t <= s}) <= n}

\* _max_invalid_diff_attempts for an agent mode.
MaxInvalidDiffAttempts ==
  IF MaxPatchAttempts < 1 THEN 1 ELSE IF MaxPatchAttempts > 3 THEN 3 ELSE MaxPatchAttempts

\* Mutant: the tool's own patches are not counted.
DirtyByEdits == userDirty

\* get_workspace_status().is_dirty; .automaxfix/ itself is not counted.
Dirty == userDirty \/ Len(tree) > head

\* Approval for a patch, given what the workspace looked like at the git gate.
\* evaluate_approval for "yes" and "gate"; the callback ignores dirtiness.
ApprovalAnswers(o, dirty) ==
  CASE o.approval = "yes"    -> {TRUE}
    [] o.approval = "auto"   -> {TRUE}
    [] o.approval = "prompt" -> BOOLEAN
    [] o.approval = "gate"   -> {~dirty /\ ~o.requireHuman}

\* Mutant: the tag names the strategy only.
TagByStrategy == <<1, run.strategy>>

\* strategy_tag: the file name of the patch artifact.
Tag == <<IF run.opts.patchFile THEN 1 ELSE Len(ticket.memo) + 1, run.strategy>>

\* The conjunction that decides `passed`.
Passed(o, reproduced, seen) ==
  /\ o.skipRepro \/ reproduced
  /\ seen.targeted # "fail"
  /\ seen.regression = "pass"
  /\ seen.check # "fail"

\* Mutant: only the last attempt is remembered.
RecordedLast(succeeded) == <<[strategy |-> run.strategy, succeeded |-> succeeded]>>

\* _record_strategy_attempt, only when the memo is persisted.
Recorded(succeeded) ==
  IF run.opts.patchFile THEN ticket.memo
  ELSE Append(ticket.memo, [strategy |-> run.strategy, succeeded |-> succeeded])

\* Mutants: a failure is reported in place of the rollback; the save never ends.
SaveThenReport(l) ==
  pc' = "save" /\ after' = IF l = "reverse" THEN "report_fail" ELSE l
SaveAgain(l) == pc' = "save" /\ after' = IF l = "plan" THEN "save" ELSE l

\* save_ticket, then go on at label l.
SaveThen(l) == pc' = "save" /\ after' = l

\* Mutant: the report is written without a save.
StopUnsaved(status, result) ==
  /\ ticket' = [ticket EXCEPT !.status = status, !.result = result]
  /\ pc' = "report_fail" /\ after' = "report_fail"

\* Set status and result, save, write a FAIL report, return.
Stop(status, result) ==
  /\ ticket' = [ticket EXCEPT !.status = status, !.result = result]
  /\ SaveThen("report_fail")

\* The process ends: its locals are gone.
Exit ==
  /\ pc' = "idle" /\ after' = "idle"
  /\ ticket' = NewTicket
  /\ run' = Fresh(run.opts, <<>>)

-----------------------------------------------------------------------------
Init ==
  /\ disk = NewTicket /\ torn = FALSE
  /\ artifacts = [t \in {} |-> NoPatch]
  /\ tree = <<>> /\ head = 0 /\ userDirty = FALSE
  /\ pc = "idle" /\ after = "idle"
  /\ ticket = NewTicket
  /\ run \in {Fresh(o, <<>>) : o \in Invocations}
  /\ accepted = NoPatch /\ runs = 0 /\ crashes = 0

\* load_ticket and the head of _run_command_with_config.
Start(o) ==
  /\ pc = "idle" /\ runs < MaxRuns /\ ~torn
  /\ pc' = "gate"
  /\ ticket' = disk
  /\ run' = Fresh(o, tree)
  /\ runs' = runs + 1
  /\ UNCHANGED <<stateFiles, workspace, after, accepted, crashes>>

\* A ticket file cut short does not parse: load_ticket raises, nothing is done.
RefuseTorn ==
  /\ pc = "idle" /\ runs < MaxRuns /\ torn
  /\ runs' = runs + 1
  /\ UNCHANGED <<stateFiles, workspace, pc, after, ticket, run, accepted, crashes>>

GateApplies == run.opts.requireRepro /\ ~run.opts.skipRepro

SkipGate ==
  /\ pc = "gate" /\ ~GateApplies
  /\ pc' = "plan"
  /\ UNCHANGED <<stateFiles, workspace, after, ticket, run, counters>>

\* The reproduction test is not named or not there: the status is left alone.
ReproMissing ==
  /\ pc = "gate" /\ GateApplies
  /\ Stop(ticket.status, "no_repro")
  /\ UNCHANGED <<stateFiles, workspace, run, counters>>

ReproExists ==
  /\ pc = "gate" /\ GateApplies /\ HasReproTest
  /\ pc' = "before"
  /\ UNCHANGED <<stateFiles, workspace, after, ticket, run, counters>>

\* targeted_before: run_targeted_test on the tree as it is.
ReproPasses ==
  /\ pc = "before"
  /\ Stop("failed", "repro_passed")
  /\ UNCHANGED <<stateFiles, workspace, run, counters>>

Reproduce ==
  /\ pc = "before"
  /\ ticket' = [ticket EXCEPT !.status = "reproduced"]
  /\ run' = [run EXCEPT !.reproduced = TRUE]
  /\ SaveThen("plan")
  /\ UNCHANGED <<stateFiles, workspace, counters>>

MakePlan ==
  /\ pc = "plan"
  /\ LET plan == IF run.opts.patchFile THEN {Minimal}
                 ELSE StrategyAttempts(ticket.memo, run.opts.maxAttempts)
     IN  IF plan = {} THEN Stop("failed", "exhausted") /\ UNCHANGED run
         ELSE /\ run' = [run EXCEPT !.plan = plan]
              /\ pc' = "strategy" /\ UNCHANGED <<after, ticket>>
  /\ UNCHANGED <<stateFiles, workspace, counters>>

\* The head of the strategy loop: the lowest rung left, with fresh locals.
NextStrategy ==
  /\ pc = "strategy"
  /\ \E s \in run.plan :
       /\ \A t \in run.plan : s <= t
       /\ run' = [run EXCEPT !.plan = @ \ {s}, !.strategy = s, !.tries = 0,
                             !.seen = NothingSeen]
  /\ pc' = "agent"
  /\ UNCHANGED <<stateFiles, workspace, after, ticket, counters>>

\* AgentRunError: the agent failed, or the patch file is not there.
AgentFails ==
  /\ pc = "agent"
  /\ Stop("failed", "agent_error")
  /\ UNCHANGED <<stateFiles, workspace, run, counters>>

\* subprocess.TimeoutExpired from the agent is caught nowhere: the run ends
\* with neither a save nor a report.
AgentTimeout ==
  /\ pc = "agent" /\ ~run.opts.patchFile
  /\ Exit
  /\ UNCHANGED <<stateFiles, workspace, counters>>

\* A diff that passes validate_patch_text.
ValidDiff ==
  /\ pc = "agent"
  /\ run' = [run EXCEPT !.calls = @ + 1, !.patch = <<runs, run.calls + 1>>]
  /\ pc' = "git"
  /\ UNCHANGED <<stateFiles, workspace, after, ticket, counters>>

\* Mutants: one retry too many; retries that are not counted.
RetryOnceMore ==
  /\ pc = "agent" /\ ~run.opts.patchFile
  /\ run.tries < MaxInvalidDiffAttempts
  /\ run' = [run EXCEPT !.calls = @ + 1, !.tries = @ + 1]
  /\ UNCHANGED <<stateFiles, workspace, pc, after, ticket, counters>>
RetryForever ==
  /\ pc = "agent" /\ ~run.opts.patchFile
  /\ run' = [run EXCEPT !.tries = 1 - @]
  /\ UNCHANGED <<stateFiles, workspace, pc, after, ticket, counters>>

\* A malformed answer, asked for again while tries are left.
RetryDiff ==
  /\ pc = "agent" /\ ~run.opts.patchFile
  /\ run.tries + 1 < MaxInvalidDiffAttempts
  /\ run' = [run EXCEPT !.calls = @ + 1, !.tries = @ + 1]
  /\ UNCHANGED <<stateFiles, workspace, pc, after, ticket, counters>>

\* A diff that breaks the policy, or the last malformed one.
InvalidDiff ==
  /\ pc = "agent"
  /\ run' = [run EXCEPT !.calls = @ + 1]
  /\ Stop("failed", "invalid_diff")
  /\ UNCHANGED <<stateFiles, workspace, counters>>

NotARepository ==
  /\ pc = "git"
  /\ Stop("failed", "no_git")
  /\ UNCHANGED <<stateFiles, workspace, run, counters>>

ReadWorkspace ==
  /\ pc = "git"
  /\ run' = [run EXCEPT !.dirty = Dirty]
  /\ pc' = "approve"
  /\ UNCHANGED <<stateFiles, workspace, after, ticket, counters>>

Approve ==
  /\ pc = "approve"
  /\ \E ok \in ApprovalAnswers(run.opts, run.dirty) :
       IF ok THEN pc' = "artifact" /\ UNCHANGED <<after, ticket>>
       ELSE Stop("failed", "denied")
  /\ UNCHANGED <<stateFiles, workspace, run, counters>>

\* Mutant: no artifact before the apply.
WriteNoArtifact ==
  /\ pc = "artifact" /\ pc' = "apply"
  /\ UNCHANGED <<stateFiles, workspace, after, ticket, run, counters>>

\* create_pre_patch_backup and write_patch_artifact, both before the apply.
WriteArtifact ==
  /\ pc = "artifact"
  /\ artifacts' = [t \in DOMAIN artifacts \cup {Tag} |->
                     IF t = Tag THEN run.patch ELSE artifacts[t]]
  /\ pc' = "apply"
  /\ UNCHANGED <<disk, torn, workspace, after, ticket, run, counters>>

ApplyFails ==
  /\ pc = "apply"
  /\ Stop("failed", "apply_failed")
  /\ UNCHANGED <<stateFiles, workspace, run, counters>>

\* The status "patched" is in memory only: the next save overwrites it.
ApplyPatch ==
  /\ pc = "apply"
  /\ tree' = Append(tree, run.patch)
  /\ ticket' = [ticket EXCEPT !.status = "patched"]
  /\ run' = [run EXCEPT !.applies = @ + 1]
  /\ pc' = "validate"
  /\ UNCHANGED <<stateFiles, head, userDirty, after, counters>>

\* Targeted test, regression suite and originating check, as far as they run.
Outcomes ==
  [targeted : IF HasReproTest /\ ~run.opts.skipRepro THEN {"pass", "fail"} ELSE {"none"},
   regression : {"pass", "fail"},
   check : IF HasCheck THEN {"pass", "fail"} ELSE {"none"}]

Accept ==
  /\ pc = "validate"
  /\ \E seen \in Outcomes :
       /\ Passed(run.opts, run.reproduced, seen)
       /\ run' = [run EXCEPT !.seen = seen]
  /\ ticket' = [status |-> "passed", result |-> "validated", memo |-> Recorded(TRUE)]
  /\ accepted' = run.patch
  /\ SaveThen("report_pass")
  /\ UNCHANGED <<stateFiles, workspace, runs, crashes>>

\* The failure is saved first, and the patch reversed after that.
Reject ==
  /\ pc = "validate"
  /\ \E seen \in Outcomes :
       /\ ~Passed(run.opts, run.reproduced, seen)
       /\ run' = [run EXCEPT !.seen = seen]
  /\ ticket' = [status |-> "failed", result |-> "checks_failed", memo |-> Recorded(FALSE)]
  /\ SaveThen("reverse")
  /\ UNCHANGED <<stateFiles, workspace, counters>>

RollbackFails ==
  /\ pc = "reverse"
  /\ Stop("failed", "rollback_failed")
  /\ UNCHANGED <<stateFiles, workspace, run, counters>>

\* Mutant: rollback by checkout, of everything that is not committed.
RollbackByCheckout ==
  /\ pc = "reverse"
  /\ tree' = SubSeq(tree, 1, head)
  /\ IF run.plan = {} THEN Stop("failed", "checks_failed")
     ELSE pc' = "strategy" /\ UNCHANGED <<after, ticket>>
  /\ UNCHANGED <<stateFiles, head, userDirty, run, counters>>

\* git apply -R succeeds: on to the next rung, or save once more and report.
Rollback ==
  /\ pc = "reverse"
  /\ tree' = SubSeq(tree, 1, Len(tree) - 1)
  /\ IF run.plan = {} \/ run.opts.patchFile
     THEN Stop("failed", "checks_failed")
     ELSE pc' = "strategy" /\ UNCHANGED <<after, ticket>>
  /\ UNCHANGED <<stateFiles, head, userDirty, run, counters>>

Save ==
  /\ pc = "save"
  /\ disk' = ticket
  /\ pc' = after
  /\ UNCHANGED <<torn, artifacts, workspace, after, ticket, run, counters>>

Report ==
  /\ pc \in {"report_pass", "report_fail"}
  /\ Exit
  /\ UNCHANGED <<stateFiles, workspace, counters>>

-----------------------------------------------------------------------------
\* Killed, or an exception nothing catches (a refused test command, a failing
\* `git diff`): the process ends between two steps.
Crash ==
  /\ pc # "idle" /\ crashes < MaxCrashes
  /\ crashes' = crashes + 1
  /\ Exit
  /\ UNCHANGED <<stateFiles, workspace, accepted, runs>>

\* write_json truncates the only copy before it writes: killed in between, the
\* ticket is gone with every attempt on it, and what is left does not parse.
TearSave ==
  /\ pc = "save" /\ crashes < MaxCrashes
  /\ disk' = NewTicket /\ torn' = TRUE
  /\ crashes' = crashes + 1
  /\ Exit
  /\ UNCHANGED <<artifacts, workspace, accepted, runs>>

\* The operator edits files while a run is in progress or between runs.
OperatorEdit ==
  /\ ~userDirty
  /\ userDirty' = TRUE
  /\ UNCHANGED <<stateFiles, tree, head, pc, after, ticket, run, counters>>

OperatorCommit ==
  /\ pc = "idle" /\ Dirty
  /\ head' = Len(tree) /\ userDirty' = FALSE
  /\ UNCHANGED <<stateFiles, tree, pc, after, ticket, run, counters>>

-----------------------------------------------------------------------------
\* Steps the program takes by itself: pure code, file writes, git, and the
\* agent, whose subprocess has an enforced timeout.
OwnStep ==
  \/ SkipGate \/ ReproMissing \/ ReproExists \/ MakePlan \/ NextStrategy
  \/ AgentFails \/ AgentTimeout \/ ValidDiff \/ RetryDiff \/ InvalidDiff
  \/ NotARepository \/ ReadWorkspace
  \/ (run.opts.approval # "prompt" /\ Approve)
  \/ WriteArtifact \/ ApplyFails \/ ApplyPatch
  \/ RollbackFails \/ Rollback \/ Save \/ Report

\* Steps that wait, without a timeout, for a test command or for the user.
Waiting ==
  \/ ReproPasses \/ Reproduce \/ Accept \/ Reject
  \/ (run.opts.approval = "prompt" /\ Approve)

Environment ==
  \/ \E o \in Invocations : Start(o)
  \/ RefuseTorn \/ Crash \/ TearSave \/ OperatorEdit \/ OperatorCommit

Next == OwnStep \/ Waiting \/ Environment

Spec == Init /\ [][Next]_vars

FairSpec == Spec /\ WF_vars(OwnStep)

-----------------------------------------------------------------------------
TypeOK ==
  /\ disk \in Ticket /\ torn \in BOOLEAN
  /\ DOMAIN artifacts \subseteq (Nat \X Strategies)
  /\ \A t \in DOMAIN artifacts : artifacts[t] \in Patch
  /\ tree \in Seq(Patch) /\ head \in Nat /\ userDirty \in BOOLEAN
  /\ pc \in Labels /\ after \in {"idle", "plan", "reverse", "report_pass", "report_fail"}
  /\ ticket \in Ticket /\ run \in RunType
  /\ accepted \in Patch /\ runs \in Nat /\ crashes \in Nat

\* The run's own patch is in the working tree.
OnTrial ==
  \/ pc \in {"validate", "reverse", "report_pass"}
  \/ pc = "save" /\ after \in {"reverse", "report_pass"}
  \/ /\ ticket.result = "rollback_failed"
     /\ pc = "report_fail" \/ (pc = "save" /\ after = "report_fail")

\* A run that reports FAIL has put the tree back as it found it, unless the
\* report says that the rollback failed; a run that reports PASS leaves
\* exactly its one patch on top (cli.py:1210-1377).
NoResidue ==
  /\ pc = "report_fail" /\ ticket.result # "rollback_failed" => tree = run.base
  /\ pc = "report_pass" => tree = Append(run.base, run.patch)

\* The same at every point of a run: the tree is the one the run began with,
\* plus its patch exactly while that patch is on trial.
TreeInv ==
  pc # "idle" => tree = IF OnTrial THEN Append(run.base, run.patch) ELSE run.base

\* A ticket is saved as passed only with an accepted patch, and no later run,
\* failed or killed, takes that patch out of the tree: not by its rollback
\* either, which comes after its own failure is saved (cli.py:1227-1247, 1302-1305).
AcceptedPatchStays ==
  /\ disk.status = "passed" => accepted # NoPatch
  /\ accepted # NoPatch => \E i \in DOMAIN tree : tree[i] = accepted

\* A patch is reversed only when one of the signals it was tried on is red:
\* "Patch applied but one or more post-patch checks failed." (cli.py:312).
RollbackHasReason ==
  pc = "reverse" =>
    \/ run.seen.targeted = "fail" \/ run.seen.regression = "fail" \/ run.seen.check = "fail"

\* When the report is written the ticket file says the same (cli.py:1247, 1302,
\* 1312, 1349: every report follows the save of the ticket it is about).
ReportedTicketIsSaved ==
  pc \in {"report_pass", "report_fail"} => disk = ticket /\ ~torn

\* Wherever a run dies while its patch is in the tree, an artifact to reverse
\* that patch with is on disk (cli.py:1142-1150).
TrialPatchIsRecoverable ==
  OnTrial => \E t \in DOMAIN artifacts : artifacts[t] = run.patch

\* Without --yes and outside watch mode no patch is stacked on a patch that an
\* earlier run, killed or accepted, left uncommitted (approval.py:18-23).
NoStackingWithoutConsent ==
  pc = "apply" /\ run.opts.approval = "gate" => Len(run.base) <= head

\* An agent is asked at most max_attempts times the bound on invalid diffs,
\* and no more patches are tried than max_attempts (cli.py:213-216, 250-254, 356).
CallBudget ==
  /\ run.calls <= run.opts.maxAttempts * MaxInvalidDiffAttempts
  /\ run.applies <= run.opts.maxAttempts

\* No agent call, in this run or in a later one, spends a strategy that the
\* saved ticket records as failed (models.py:325-326, cli.py:250-254).
NoSpentStrategyIsRetried ==
  [][run'.calls > run.calls /\ ~run.opts.patchFile
       => run.strategy \notin Exhausted(disk.memo)]_vars

\* The attempts on file are appended to, by one at a time, through retries, runs
\* and crashes between two steps (cli.py:266-274, 1247, 1302).  Only a kill inside
\* a save loses them: the file was truncated first (utils.py:48-52), and no later
\* run works on what is left of it.
MemoGrowsUnlessTorn ==
  [][/\ \/ disk'.memo = disk.memo
        \/ \E a \in Attempt : disk'.memo = Append(disk.memo, a)
        \/ pc = "save" /\ ~torn /\ torn'
     /\ torn => torn' /\ pc = "idle" /\ pc' = "idle"]_vars

\* The artifact of an attempt that the ticket file records is never written
\* over by a later agent run, whatever died in between (cli.py:1131-1150).
RecordedArtifactsAreKept ==
  [][~run.opts.patchFile =>
       \A t \in DOMAIN artifacts :
         t[1] <= Len(disk.memo) => artifacts'[t] = artifacts[t]]_vars

\* The steps that may lie ahead of a run at label l: eleven for every rung of the
\* plan that is left, of which at most three ask the agent, and four rungs at most
\* before there is a plan.
StepsFrom(l) ==
  LET stage == [strategy |-> 2, reverse |-> 3, validate |-> 5, apply |-> 6, artifact |-> 7,
                approve |-> 8, git |-> 9,
                agent |-> 9 + MaxInvalidDiffAttempts - run.tries]
      outside == [idle |-> 0, report_pass |-> 1, report_fail |-> 1,
                  plan |-> 47, before |-> 49, gate |-> 50]
  IN  IF l \in DOMAIN stage THEN stage[l] + 11 * Cardinality(run.plan) ELSE outside[l]
StepsLeft == IF pc = "save" THEN StepsFrom(after) + 1 ELSE StepsFrom(pc)

\* Whatever agent, git, tests and user answer, every step of a run brings it
\* nearer to its end: no run takes more than 50 of them, through retries, rungs,
\* rollbacks and repeated saves (cli.py:213-216, 339-393, 911-1377).
RunMovesOn ==
  [][pc # "idle" /\ userDirty' = userDirty => StepsLeft' < StepsLeft]_vars

\* A run ends, unless it waits forever for a test command or for the user's
\* answer in watch mode: those have no timeout (test_runner.py:16-23).
RunEndsOrWaits ==
  \/ []<>(pc = "idle")
  \/ <>[](pc = "before") \/ <>[](pc = "validate") \/ <>[](pc = "approve")

-----------------------------------------------------------------------------
\* The phase of the contract a run is in: a patch is on trial until the
\* verdict on it is on disk.
Phase ==
  IF pc = "idle" THEN "closed"
  ELSE IF ~OnTrial THEN "open"
  ELSE IF pc = "validate" \/ (pc = "save" /\ after # "report_fail") THEN "trial"
  ELSE IF pc = "report_pass" THEN "accepted"
  ELSE "rejected"

Contract == INSTANCE RepairContract
  WITH Patches <- Patch, status <- IF torn THEN "lost" ELSE disk.status,
       tree <- tree, phase <- Phase

\* A run keeps the contract: one patch on trial at a time, kept only with the
\* status "passed" saved, taken back only after "failed" is saved (cli.py:911-1377).
ImplementsContract == Contract!CSpec
=============================================================================
