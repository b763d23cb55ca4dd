---------------------------- MODULE RepairRunMC ----------------------------
(* Small instances of RepairRun for TLC: the ways of starting a run. *)
EXTENDS RepairRun

Invocation(file, n, skip, require, human, mode) ==
  [patchFile |-> file, maxAttempts |-> n, skipRepro |-> skip,
   requireRepro |-> require, requireHuman |-> human, approval |-> mode]

\* `run --yes --max-attempts 4` with an agent: all four strategies.
AgentRun == Invocation(FALSE, 4, FALSE, TRUE, TRUE, "yes")
\* `run` in CI mode: no reproduction, no human approval required.
CIRun == Invocation(FALSE, 1, TRUE, TRUE, FALSE, "gate")
\* `run --patch-file F --yes`.
FileRun == Invocation(TRUE, 1, FALSE, TRUE, TRUE, "yes")
\* The run that watch mode starts.
WatchRun == Invocation(FALSE, 2, TRUE, TRUE, TRUE, "prompt")
\* `run --yes` under require_reproduction_test: false.
NoReproConfigRun == Invocation(FALSE, 1, FALSE, FALSE, TRUE, "yes")

Mixed == {AgentRun, CIRun, FileRun, WatchRun}
Lenient == {NoReproConfigRun}
============================================================================
