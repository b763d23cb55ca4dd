# AutoMaxFix: a verification project

AutoMaxFix (`src/automaxfix`) is a command-line tool that turns a failing test or
check into a ticket, asks a coding agent for a diff, tries the diff on the working
tree, and keeps it or takes it back.  This directory holds TLA+ models of that
program, TLC configurations that check them on small instances, and TLAPS proofs of
the main guarantees for all values of the constants.

`PROJECT.json` lists the parts, the runs, the hazards each property is for, the lines
of source each definition models, and for every property a variant of one definition
that a plausible bug would produce and that breaks the property.

## 1. The system

| part | source | state | operations |
|---|---|---|---|
| repair run | `cli.py:746-1377` | the ticket in memory, the plan of strategies, the verdicts; on disk the ticket file, `logs/applied_*.diff`, reports; the working tree | load, reproduce, plan, ask the agent, gate on git and approval, write the artifact, apply, validate, save, reverse, report |
| strategy memo and ladder | `models.py:276-326`, `cli.py:56-61, 250-274` | attempts saved in the ticket | plan the rungs not yet spent, record an attempt |
| ticket store | `ticket.py`, `utils.py:48-56` | one JSON file per ticket | next id, create, save, load, list |
| outcome monitor | `monitor.py`, `cli.py:632-672` | none of its own | verify passed tickets, file regressions |
| checks | `checks.py`, `cli.py:315-324, 504-576` | a copy of the check in each ticket | run all checks, file a ticket for each failure, run the copy again at the repair |
| configuration | `config.py`, `models.py:13-259` | one YAML file at one of two places | load, write the default, read it from and write it as a payload |
| CI action | `.github/actions/automaxfix-action` | a rewritten configuration file | load, set, render, run |
| watch loop | `watcher.py`, `cli.py:1404-1453` | stop flag, SIGINT handler, summary | poll, scan, run a ticket, approval callback, sleep |
| workspace | `workspace.py` | git working tree | status, apply, reverse, artifact, backup |
| approval | `approval.py` | none | decide from flags and dirtiness |
| agent and test runners | `agent_runner.py`, `test_runner.py` | none | run a subprocess, with and without a timeout |
| patch policy | `patch_parser.py`, `safety.py` | none | parse and judge a diff, refuse commands |
| graceful shutdown | `reliability.py:16-47` | callbacks, a lock, a flag | register, install, handle a signal |
| metrics, reports, checksums | `metrics.py`, `reporter.py`, `reliability.py` | files | read, summarise, write |
| text | `scanners/`, `sanitize.py`, `prompt_templates.py`, `reproducer.py`, `observability.py` | none | parse and format |

**How they interact.** Every command is a process of its own; nothing locks.  Commands
share the tickets directory, and runs share the working tree, the artifacts and the
reports with each other and with the operator.  `watch` calls the run in its own process
through callbacks, and the run calls back for approval.  `monitor` reads what runs have
saved and files new tickets.  What `check` finds travels through the ticket file to the
`run` that repairs it, and every command reads the configuration file anew.

**What is hard.**

* A run has a dozen effects that outlive it, and may be killed between any two: what
  the ticket says, what the tree holds and what the artifact can reverse must agree
  well enough for the next run and for the operator.
* The failure is saved *before* the patch is reversed, the reversal may fail, and the
  next strategy goes on from there.
* Later runs rely on what earlier ones left: spent strategies, artifacts with the same
  name, patches that nobody has committed.
* Two runs at a time interleave all of that in one tree, and each saves the ticket it
  loaded at its start.
* SIGINT only raises a flag, read at two places of the loop; the agent's timeout is an
  exception nobody catches; test commands and the prompt have no timeout at all.
* Ids are read off the directory and the file is written later, by commands that may
  run at the same time; the monitor works from a snapshot.
* A check is matched by its name, copied, redacted, saved and loaded before it judges
  the repair; whether a patch needs approval depends on a section, a key, a blank value,
  the CI mode and the environment.
* A signal handler that takes a lock runs on top of code that may hold it.

**What makes each part correct.**

* Run: a report of failure means the tree is as it was; an accepted patch is never lost
  to a later run; while a patch is on trial it can be reversed from disk; what is
  reported is what is saved; nothing is stacked on uncommitted work without consent.
* Memo: attempts are only added, until a kill inside a save loses the ticket; no rung
  that the file has as failed is spent again; the number of agent calls, and of steps in
  all, is bounded.
* Parallel runs: none takes out the patch of another; a ticket saved as passed has its
  patch; attempts are lost only where two runs of one ticket overlap, or where a run is
  killed inside its save.
* Ticket store and monitor: filing a ticket changes no other ticket; a regression that
  lasts is filed.
* Checks: every failure gets a ticket; an accepted ticket's check is green.
* Configuration: no patch is applied unasked unless the configuration says so; the
  payload that `to_dict` makes is read back as the same settings.
* Watch: a stop bounds what is still done; one consent per patch; the counters of the
  summary add up however the loop is left.
* Policy: a diff is refused exactly when one of its sections breaks the rules for the
  file that the section's lines name last, or its text holds what is refused anywhere;
  and the agent is asked again exactly when its answer is no diff.
* Shutdown: callbacks run one at a time and all of them before the process ends; a
  signal does end it.

## 2. Modules

| module | models | kind |
|---|---|---|
| `RepairContract` | what a run promises about status, tree and phase | abstract specification |
| `RepairRun` | `_run_command_with_config` and its helpers, over successive runs of one ticket | detailed specification, refines `RepairContract` |
| `RepairRunMC` | the ways of starting a run | instance |
| `RepairRunProofs` | typing, inductive invariant, safety theorems; `RepairRun` implements `RepairContract` | proofs |
| `RepairHistoryProofs` | memo, spent strategies, artifacts, consent, call and step budget over successive runs | proofs |
| `ParallelRuns` | several runs of several tickets at once in one repository | specification |
| `ParallelRunsMC`, `ParallelRunsProofs` | symmetry; typing and all its properties | instance, proofs |
| `WatchLoop` | `watch_loop` and the closures of `_watch_command`, composed with `RepairContract` | specification |
| `WatchLoopProofs` | all its safety and action properties | proofs |
| `TicketStore` | concurrent `bug`/`scan`, `check`, `monitor` and `run` on the tickets directory | specification |
| `TicketStoreMC`, `TicketStoreProofs` | symmetry; all its properties | instance, proofs |
| `Configuration` | `Config.from_dict`, `to_dict`, which file is read, what the CI action renders | functions |
| `CheckLife` | `check`, `init`, `run` and the CI action over a configuration that changes, composed with `Configuration` | specification |
| `CheckLifeMC`, `CheckLifeProofs` | configuration files and answers; typing and all its properties | instance, proofs |
| `GracefulShutdown` | the shutdown handler, its lock and two threads | specification |
| `GracefulShutdownProofs` | typing, exclusion, completeness | proofs |
| `PatchPolicy` | `validate_patch_text`, its parser and the path rules | specification of an algorithm, against a reference |
| `PatchPolicyMC`, `PatchPolicyProofs` | a repository, its policy and the diffs; typing and all its properties | instance, proofs |

### RepairRun

A run is a process with a program counter `pc`.  A label stands for a point between
two effects that outlive the process, so `Crash` may fall between any two:

| labels | code |
|---|---|
| `gate`, `before` | reproduction gate and targeted test before the patch, `cli.py:774-851` |
| `plan`, `strategy` | `_strategy_attempts` and the head of the loop, 870-924 |
| `agent` | `load_patch_from_file` or `_run_strategy_agent_loop`, 926-1037 |
| `git`, `approve` | workspace gate and approval, 1041-1128 |
| `artifact`, `apply` | backup, artifact, `git apply`, 1130-1197 |
| `validate` | targeted test, regression suite, check, verdict, 1199-1302 |
| `reverse` | `git apply -R`, 1304-1377 |
| `save` | `save_ticket`; `after` is where the code goes on |
| `report_pass`, `report_fail` | `_write_report` and the return |

`disk` and `torn` are the ticket file, `artifacts` maps the tag of
`logs/applied_<tag>.diff` to the patch in it, `tree` is the sequence of patches the
tool has left in the working tree (`head` of them committed), `userDirty` says that
the operator has edits of their own.  `ticket` and `run` are the locals.  A patch is
named by the run and the call it came from, so two patches are never confused.
`accepted` is a history variable.  What the agent, git, the tests and the checks answer
is a nondeterministic choice.  `TearSave` is a kill inside `write_json`, which truncates
the only copy of the ticket before it writes it: the ticket is gone with every attempt
on it (`disk'` is an empty ticket, `torn'` is TRUE), and what is left makes the next run
raise (`RefuseTorn`).

### RepairContract

Three variables: the saved status, the tree, and a phase (`closed`, `open`, `trial`,
`accepted`, `rejected`).  One patch is on trial at a time; it is kept only with the
status `passed`, refused only with the status `failed`, and only a refused patch is
taken back, last one first.  A run may end early in any phase.  It may also die while it
writes (`Lose`): the status is then `lost`, the tree stays as it is, and no run begins
on that ticket.  `RepairRun!Phase` is the refinement mapping: a patch counts as on trial
until the verdict on it *is on disk*.

### ParallelRuns

The same run once more, for any number of processes and tickets, with what matters
between processes only: `files`, `artifacts`, `reports` and `tree` are shared, `job[p]`
is the ticket that process `p` loaded, its plan and its patch.  The stages at which a
run may fail before the apply are one action (`Stop`), and the runs are approved agent
runs.  A save is two steps, `Truncate` and `Write`, and other processes may do anything
in between: load the file and raise (`RefuseTorn`), truncate it again, write it.  `torn`
are the tickets whose file does not load, `mixed` the processes whose file somebody has
written since they truncated it, so that their own text may leave a tail of the other
behind.  A kill between the two steps leaves the ticket torn, without any overlap.  The
tree is a *set*: two patches that apply do so independently of order, and a rollback
that no longer fits is `RollbackFails`.  Reports carry the second they were written in;
`now` is the clock as the last of them has it, and nothing else reads it.  `kept`,
`stranded` and `overlapped` are history: patches accepted, patches left behind by a
failed rollback or a kill, tickets two runs have been at work on at once.

### WatchLoop

`pc` follows `watch_loop`; the `finally` block is `cleanup`.  A run of a ticket is not
modelled a second time: its steps are those of `RepairContract` (`Contract!Try`,
`Contract!Keep`, ...), constrained by what the watch gives it: two attempts, no
reproduction, the approval callback, and the watched command as regression suite.  So
what is proved of the run is what the watch relies on.  `suite` is what the test
command says of the tree as it stands; a patch, a rollback or an edit may change it.
After SIGINT a test command may also fail because the terminal's signal reached it
too.  `kept`, `tries` and `atStop` are history variables.

### TicketStore

`files` maps an id to a ticket, whether it parses, and who opened it last.  A command
reads the next id (`PickId`), truncates the file (`Open`) and writes it (`Close`) in
three steps; another command may do anything in between.  When two commands write the
same file at once the result may not parse.  `Silent` are the checks that exit 0
whatever they print, so that only their pattern tells: this is the difference between
a ticket with a check definition and one with only a command.  `Drift` breaks and
repairs signals; `Remove` is the operator deleting a ticket file.

### Configuration and CheckLife

`Configuration` has no variables.  A YAML mapping is a function on the keys it has, so
that "absent" and "null" are different things, as they are for `dict.get`; scalars that
the code passes to `bool()` are `"true"`, `"false"` or `"null"`.  `FromDict` and `ToDict`
are `Config.from_dict` and `to_dict` key by key, `Loads` says when they raise, `Rendered`
is the file that the CI action writes: an empty list is rendered as a key without a
value, and a check as a string, which `from_dict` drops.

`CheckLife` uses them for the files at the two places `load_config` looks at (`files`),
the environment of the commands (`env`) and a `world` that says how each command ends
and which patterns its output matches.  `check` goes through its checks one at a time
(`RunNext`) and then files one ticket for each failure (`FileNext`), so the world may
change in between; a ticket holds the check that `checks_by_name` found, as it is after
redaction (`Carried`), and, as history, the check that failed (`origin`).  `Run` and
`ActionRun` read the configuration once and reach `approve`; a `Patch` changes the world,
and `Accept` needs the ticket's copy to be green.  Between commands the operator writes
configuration files (`Edit`).

### GracefulShutdown

The handler of `reliability.py` as Python runs it: on the main thread, between any two
of its steps, also inside another handler.  `frames` is the stack of handlers under way,
`at` says where each thread is in `register_shutdown_callback`, `lock` who holds the
lock, `install` how far `install_graceful_shutdown` has come.  No command of the tool
installs the handler; the model is of a program that does, with a worker thread that
registers callbacks of its own.

### PatchPolicy

`validate_patch_text` as it runs: the checks on the whole text, one step per line of
`parse_unified_diff`, one step per change judged, with the `continue`s as separate
actions (`RefusePath`, `RefuseReproduction`, `RefuseDeletion`, `Judge`).  A diff is
chosen by what it does (`sections`) and rendered as git renders it (`lines`); the code
sees only the lines, the properties compare its verdict with the sections.  A section's
hunk is any sequence of lines as the parser sees them (`HunkLine`).  A line added that
begins with `++ ` is one of them: its raw form is that of the line naming the new file,
and the parser, which does not count the lines of a hunk, takes it for that.  `Names(s)`
says which file a section is about once its lines are read that way: its own, or the one
that the last such line names.  The properties judge and report a section as an edit of
that file.  Lines with a refused text in them (`rename to `, ...) are there too.  Paths are
sequences of parts; `..` is resolved, prefixes are matched on the resolved path, and
test names on the path as written, as in the code.  The three answers are what
`RepairRun` chooses from: valid (`ValidDiff`), retryable (`RetryDiff`), other
(`InvalidDiff`).

### Variants

Definitions whose comment begins with "Mutant" are not part of the models.  Each has
the parameters of the definition that follows it and contains one plausible bug (a
forgotten guard, an off-by-one, a swapped order, a missing reset); with the variant in
place of the definition, the property named beside it in `PROJECT.json` is violated,
so the property does depend on that code.

## 3. Runs

| run | instance | shows |
|---|---|---|
| `RunMixed` | two runs of one ticket, each an agent run over all four rungs, a CI run, a patch-file run or a watch run; two tries per rung; one crash, between two steps or inside a save; edits and commits | tree, ticket file, artifacts and reports agree (`TreeInv`, `AcceptedPatchStays`, `ReportedTicketIsSaved`, `TrialPatchIsRecoverable`), nothing is stacked without consent (`NoStackingWithoutConsent`), the memo and what hangs on it (`MemoGrowsUnlessTorn`, `NoSpentStrategyIsRetried`, `RecordedArtifactsAreKept`, `CallBudget`), every step counts (`RunMovesOn`), `ImplementsContract`, `RunEndsOrWaits` |
| `ParallelPair` | three runs of two tickets in two processes, two rungs each, one kill, between two steps or inside a save, all within one second | `TreeIsShared`, `PassedTicketHasItsPatch`, `PassedTicketCanBeReverted`, `AttemptsAreLostToOverlapOrTear`, `ReportsOfOthersSurvive` |
| `WatchBoth` | two polls, up to two failures each, two strategies per run, with and without auto-approval, all signals and exceptions | `SummaryAddsUp`, `StopBoundsWork`, `ConsentPerPatch`, `AcceptedRepairPolls`, `StopEndsOrWaits` |
| `StoreRace` | two commands at a time, three in all, two signals (one silent), three ids | `OldTicketsAreLeftAlone`, `NoRegressionMissed` |
| `CheckLife` | five configuration files, all values of the two environment flags, four worlds, five edits, drifts or commands, two tickets | `EveryFailureIsFiled`, `AcceptedCheckIsGreen`, `UnapprovedPatchIsConfigured` |
| `Shutdown` | two callbacks, three signals, two threads | `CallbacksAreNotReentered`, `ExitIsAfterAllCallbacks`, `SignalEndsProcessOrBlocks` |
| `PolicyDiffs` | all diffs of up to two sections over thirteen paths, some with hunk lines that look like headers or hold refused texts, five texts without a diff, ten configurations | `VerdictIsThePolicy`, `OnlyMalformedIsRetried`, `SummaryIsTheDiff` |

Every run checks `TypeOK` as well.  Five more runs end with a counterexample: section 4.

**Bounds.**  `MaxRuns`, `MaxCrashes`, `MaxPolls`, `MaxTickets`, `MaxCommands`, `MaxIds`,
`MaxTime`, `MaxEdits`, `MaxCallbacks` and `MaxSignals` are bounds of the models, not of
the code.  Two runs are enough for anything one run leaves to the next (a patch in the
tree, a spent rung, an artifact's name), and one crash for anything a crash leaves
behind; the theorems of section 5 hold for any number of both.  Three runs in two
processes give two that overlap and one that comes after or between them.  The clock
matters to nothing but the names of reports; it stands still in `ParallelPair`, since
two runs that end within one second are the case in which names can meet (the theorem is
of any clock).  Two polls cover "one more poll after the stop" and "the poll after an
accepted repair".  Three commands cover two that take the same id and a monitor after
them.  Five steps of `CheckLife` cover a file written, a `check`, the file changed, a
drift, and the `run`; the five files are a section against a top-level key, two checks
with one name in CI mode, a check that must match with a blank key, a check that does
not compile, and path lists that the CI action blanks out.  Three signals are the fewest
with a second handler on top of the first and a third on top of that or after it.  Two
sections are the fewest in which one can be judged by the flags or the path of
another.  `MaxPatchAttempts = 2` tells the last try from the others.

In `StoreRace` and `ParallelPair` processes are interchangeable (and in `ParallelPair`
tickets), and only safety is checked there, so permuting them is sound.  Deadlock is not
checked because each system may stop: the bounds are used up, and a watch, a process or
a parse that has ended does not begin again.

**Fairness.**  `RepairRun` and `WatchLoop` assume weak fairness of `OwnStep`: pure code,
writing files, calling git, and the agent, which `run_cmd` gives an enforced timeout.
Waiting for a test command, for the checks that follow it or for the user's answer is
not in `OwnStep`: `test_runner.py` and `_run_test_command` set no timeout, and the prompt
waits for ever.  The liveness properties therefore say "ends, or waits for ever at one
of these places".  `GracefulShutdown` assumes weak fairness of the handler's own code and
of a registration that holds the lock; callbacks are taken to return.  No fairness is
assumed of the environment.

## 4. Where code and documentation disagree

Each of these has a run that TLC ends with a counterexample.

* `FindGreenRollback` (bug): with `require_reproduction_test: false` and no
  `--no-repro`, no targeted test is run before the patch, but `passed` asks for one.
  Every patch is reversed with all signals green, and the report says that checks
  failed.
* `FindSignalLost` (bug): `create_regression_ticket` copies the verification command
  and not the check definition.  A run on the regression does not run the check again,
  and accepts a patch while the signal the ticket is about still fails.
* `FindOtherCheck` (bug): the copy of a check in a ticket goes through redaction, which
  rewrites a pattern that looks like a credential.  The repair is judged by the
  rewritten one, not by "the exact check that caught the failure".
* `FindAgentTimeout`: the runbook expects the watch to survive an agent that times out;
  `subprocess.TimeoutExpired` is caught by nobody and ends it.
* `FindFilesBound`: under the configuration that the README shows, a top-level
  `max_files_changed` beside a `patch:` section, the top-level value is ignored.

Seen while modelling, without a run of their own:

* The README says that the workspace must be clean before apply (`README.md:218`); with
  `--yes` and in watch mode it need not be.
* A `--patch-file` run does not extend the memo, so each such run of a ticket writes the
  same artifact, against `README.md:254-260`; `RecordedArtifactsAreKept` is stated of
  agent runs for that reason.
* The runbook relies on the shutdown handler (`docs/runbooks/watch-mode-hang.md:48-50`),
  which nothing installs; SIGTERM may leave the patch of an unfinished trial in the tree.
* Where the shutdown handler is installed, a second signal during the callbacks, or one
  during a registration, waits for a lock that its own thread holds (`SelfBlocked`).
* A section with an added line that begins with `++ ` is judged and reported under the
  name on that line (`patch_parser.py:52-54`): the verdict is the policy's on that name.
  `VerdictIsThePolicy` and `SummaryIsTheDiff` say so (`Names`).  The refused texts are
  looked for anywhere in the diff, so a line of source or prose that quotes one has the
  whole diff refused (`patch_parser.py:110-116`).
* `write_json` writes tickets in place (`utils.py:48-52`): a run killed inside a save
  loses the ticket, and two saves at once may leave a file that does not load.
* The README's `subprocess_timeout_seconds` is read by no code.

## 5. Proofs

TLAPS checks the theorems for all values of the constants that satisfy the named
assumptions of each module; TLC evaluates the assumptions in every run.

**`RepairRunProofs`** assumes only `RepairRunAssumption`: the invocations are a non-empty
set of option records with at least one attempt each, and the other constants are
natural numbers or Booleans.  Neither the number of runs, crashes, strategies in a plan
nor the invocations are bounded.

1. `Typing`: `TypeOK` is inductive by itself, one step per action.
2. `IInv == SavedInv /\ TreeInv /\ ArtifactInv /\ AcceptedInv` is inductive relative to
   `TypeOK`.
   * `SavedInv` relates the ticket in memory to the file at each save: what will be
     saved there, and that reports and rollbacks come after their save.
   * `TreeInv`: the tree is the base of the run, plus its patch exactly while that is on
     trial.  It needs to know that `reverse` is reached only with the patch on top.
   * `ArtifactInv`: from `apply` on, an artifact holds the patch of the run.
   * `AcceptedInv`: an accepted patch lies in the *base* of every later run, below
     anything a rollback may take off.  `AcceptedPatchStays` alone is not inductive: it
     says nothing of where in the tree the patch is.
3. The safety theorems follow: `TreeIsAccountedFor`, `RunLeavesNoResidue` (the same
   result read at the reports: `NoResidue`), `AcceptedPatchIsKept`,
   `TrialIsRecoverable`, `ReportsAreSaved`.
4. Under `TypeOK` and `IInv` every step of the run is, through `Phase`, a step of the
   contract or a stutter (`RunImplementsContract`).

**`RepairHistoryProofs`** adds what successive runs remember.  `MemoInv`: the memo in
memory of a run is the one on file, but for the attempt being saved; a kill inside a save
ends the run as it loses the file, and no run begins on a torn one.  `PlanInv`: neither
the plan nor the strategy at work is spent.  `ConsentInv`: what an approval without `--yes` rests
on still holds at the apply, because nobody but a run appends to the tree and nobody
commits during one.  `BudgetInv`: the calls made and the rungs left stay within
`max_attempts` times the bound on tries; it rests on a lemma that a plan has at most
`max_attempts` rungs, by its highest one, and on the arithmetic of one rung.  They give
`NoPatchIsStacked`, `MemoGrows`, `ArtifactsAreKept`, `SpentStaysSpent` and
`CallsAreBounded`.  `RunsMoveOn` is what can be proved of termination: `StepsLeft` weighs
the rungs left in the plan, the tries left at this rung and the label, every step of a
run lowers it, and it is never above 50 (the number of steps of the longest run: four
rungs of eleven steps, six around them).  So a run ends after at most 50 steps unless it
stops taking any; that it does take them is the fairness of `RunEndsOrWaits`.

**`ParallelRunsProofs`**, for any number of processes, tickets, runs, kills and seconds.
`TreeIsShared` is not inductive: that a rollback takes out nothing else needs `OwnerInv`,
which says that running processes have runs of their own and that no patch among those
that stay was made by a run that may still take one back.  `PassedInv` follows a
"passed" in memory and on file to an accepted patch; `MemoInv` and `ArtifactInv` say for
tickets without overlap that the memo of the one run goes on from the file, or is what a
save under way is putting there, so that its tags are beyond those already used; that a
torn ticket is either being written or has no run at work on it gives
`AttemptsSurvive`; `ReportInv` that a report says what its name says.

**`WatchLoopProofs`**: `TurnInv` (a run that is about to try a patch has a strategy left)
completes the types; `StopInv` counts what is still ahead of the next look at the flag,
label by label; `CountInv` relates the counters inside a poll; `KeptInv` says that a kept
patch leaves the suite green until somebody edits.

**`TicketStoreProofs`**: `TypeInv` adds to the types that tickets filed by `check` carry
their check and that the signals a command has seen broken all the time are broken now;
`LocalInv` says that a picked id is above all ids seen (`Fresh`), and that whatever a
monitor has verified and must file is to be filed, in its hands, or filed (`Covered`).
That the next id is new needs the highest element of a set of ids, which the proof takes
from the well-foundedness of the naturals.

**`CheckLifeProofs`**: `ConfigIsReadBack` is about `Configuration` alone: reading what
`to_dict` gives leads back to the same settings (it says nothing of the file that the CI
action renders from it, which drops what `Rendered` drops).  `ConsentInv` says which configuration a run
goes on with, and gives `PatchesAreConfigured`.  `LoadedInv` (settings in force and
tickets come from checks that were loaded) and `FiledInv` (one ticket for each failure
so far, no two the same) give `FailuresAreFiled`; with `AcceptedInv` they give
`AcceptedIsGreen`, where a check that passes by `run_check` is compared with what its
expectation means.  `Typing` rests on
`SettledInv`, that whatever has been read, from a file or from what the CI action wrote,
are settings of the right types, and on `LoadedInv` for the checks.
`CheckLifeAssumption` and `ChecksAssumption` say that redaction is an idempotent function
on texts and knows those of the configuration files, that `max_files_changed` is an
integer in each of them (`int()` raises otherwise and nothing is loaded), and that every
command ends somehow.

**`GracefulShutdownProofs`**: `LockInv` says who is inside the lock; `CalledInv` that
every callback due to a handler has been called or is left to it, and that an outer
handler knows no more callbacks than the inner one that ends the process.

**`PatchPolicyProofs`**, for diffs of any number of sections, any paths and any policy
that `PatchPolicyAssumption` allows.  The code never sees the sections, only the lines,
so the proof has to say what has been read of which section.

1. The text: `SetInduction` gets an induction over the sections from the well-foundedness
   of the naturals.  With it `Layout` says where in the flattened text the lines of each
   section are; `PreambleLines`, `HunkLines` and `SectionLines` what they tell.
2. `ReadInv`: after each line the changes parsed are those of the sections whose header
   has been read, all but the last one complete, the last with the flags and the names
   of the lines read so far (`Reads`, `NamedBy`).
3. `TargetIsNamed`: once a section is read, the file its change is judged by is one of
   `Names`.  `PermittedIsFaultFree`: whether that change has a fault is the policy's word
   on the section for that file.
4. `VerdictInv`: the errors so far are those of the text, and of the faults of the changes
   judged so far.  `SummaryInv`: the lists hold the targets of the changes judged so far,
   in order.
5. At the end all lines are read and all changes judged: `VerdictHolds`, `RetryHolds`,
   `SummaryHolds`.

Only model-checked are the three liveness properties `RunEndsOrWaits`, `StopEndsOrWaits`
and `SignalEndsProcessOrBlocks`: liveness under fairness and `ENABLED` are beyond the
prover.  Every invariant and action property of the runs that pass is a theorem.

## 6. Not modelled

* Scanners: text parsing with regular expressions; how many failures one finds is an
  input of `Scan`.  Prompts, reproduction hints and log lines: text only.  The hosted
  model provider is used by no command.
* Sanitizer: that every text of a saved ticket goes through it is modelled, as an
  idempotent function on texts; the regular expressions are not.
* Metrics: one pass over the archive that counts fields; it writes nothing and has
  nothing to interleave with.
* Checksums: one that does not match is, like a torn file, a ticket that does not load.
* `reproduce`, `report`, `status`, `metrics` and `backup` read or write single files.

What the modelled parts leave out:

* `git apply` is all or nothing; the pre-patch backup is written and not tracked.
* The text of results, reports, prompts and summaries; `patch_summary`.
* An agent that edits the tree directly instead of answering with a diff is, for the
  model, the operator editing.  The operator commits only between runs.
* `HasReproTest` is fixed for a behaviour; the test file is not removed by others during
  a run other than through `ReproMissing`.
* In `TicketStore`: the intermediate saves of a run, `--since-days`, ids of several days,
  and the removal of a file some command has open.
* A kill inside the write of an artifact or a report: both are taken as whole.
* In `ParallelRuns`: approval and patch-file runs, which are in `RepairRun`; patches of two runs that touch the same lines show only as an apply
  or a rollback that fails.
* In `Configuration`: the YAML text, values of a wrong type, lists with repetitions, the
  `--config` option by hand.  In `CheckLife`: severities, suspected files, the stages of
  a run that `RepairRun` has; installing and the outputs of the CI workflow.
* In `PatchPolicy`: symbolic links; which words are dangerous and which names are tests
  (classes of their own), and dangerous texts that lie across several added lines; where
  a line ends is what `splitlines` makes of the text; the commands' own validation.

## 7. Plan

Done, in the order of the plan: the run with its contract and proofs; the watch loop,
the ticket store and the patch policy; then parallel runs, configuration, the life of a
check, the shutdown handler; then the proofs about all of them.

Left: `--since-days` and ids of several days in `TicketStore`; the pre-patch backup
beside the artifact.
