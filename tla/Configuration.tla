---------------------------- MODULE Configuration ----------------------------
(***************************************************************************)
(* How a configuration file becomes the settings of a run                  *)
(* (automaxfix/config.py, Config.from_dict and to_dict of models.py), and  *)
(* how the CI action rewrites it (.github/actions/automaxfix-action).      *)
(* A YAML mapping is a function on the keys it has; a section that is not  *)
(* a mapping is read as if it were not there, so it is left out of the     *)
(* payload.  A scalar that is read with bool() is "true", "false" or       *)
(* "null" (a key with nothing after it); the other values are their own, and *)
(* lists have no repetitions.                                              *)
(***************************************************************************)
EXTENDS Integers, Sequences

CONSTANT Regexes   \* the texts that compile as a pattern

Null == "null"
Flags == {"unset", "on", "off"}    \* an environment variable, as _env_flag reads it
Env == [ci : Flags, auto : Flags]

Has(m, k) == k \in DOMAIN m
Get(m, k, default) == IF Has(m, k) THEN m[k] ELSE default
NoKeys == [k \in {} |-> k]
Section(p, k) == Get(p, k, NoKeys)

\* bool(): only what is written as true is true.
Bool(scalar) == scalar = "true"
Scalar(b) == IF b THEN "true" ELSE "false"

\* An environment flag, when it is set, wins over the file.
EnvOr(flag, b) == IF flag = "unset" THEN b ELSE flag = "on"

AtLeastOne(n) == IF n < 1 THEN 1 ELSE n

-----------------------------------------------------------------------------
\* AgentConfig, PatchConfig, ApprovalConfig and WatchConfig.from_dict.
AgentFrom(m) ==
  [mode |-> Get(m, "mode", "manual_patch_file"), command |-> Get(m, "command", Null),
   timeout |-> Get(m, "timeout_seconds", 900)]

PatchFrom(m) ==
  [max_patch_attempts |-> Get(m, "max_patch_attempts", 3),
   max_files_changed |-> Get(m, "max_files_changed", 8),
   allow_new_tests |-> Bool(Get(m, "allow_new_tests", "true")),
   allow_new_source_files |-> Bool(Get(m, "allow_new_source_files", "false")),
   block_test_edits |-> Bool(Get(m, "block_test_edits", "true"))]

ApprovalFrom(m, default) ==
  [require_human_approval |-> Bool(Get(m, "require_human_approval", Scalar(default)))]

AllRunners == <<"pytest", "jest", "vitest", "mocha", "go", "cargo">>

\* A value that is not a list, null for one.
NoList == <<Null>>

WatchFrom(m, env) ==
  [enabled |-> Bool(Get(m, "enabled", "true")),
   default_interval |-> AtLeastOne(Get(m, "default_interval", 30)),
   allowed_runners |-> IF Get(m, "allowed_runners", AllRunners) = NoList THEN AllRunners
                       ELSE Get(m, "allowed_runners", AllRunners),
   auto_approve_in_watch |-> EnvOr(env.auto, Bool(Get(m, "auto_approve_in_watch", "false")))]

CiMode(p, env) == EnvOr(env.ci, Bool(Get(p, "ci_mode", "false")))

\* A patch section replaces the top-level key, whether it has that key or not.
PatchPart(p) ==
  IF Has(p, "patch") THEN p["patch"]
  ELSE [k \in {"max_files_changed"} |-> Get(p, "max_files_changed", 8)]

\* Mutant: the top-level key wins over the section.
ApprovalTop(p) ==
  IF Has(p, "require_human_approval")
  THEN [k \in {"require_human_approval"} |-> p["require_human_approval"]]
  ELSE Section(p, "approval")

\* The same for approval, with no default where neither says anything.
ApprovalPart(p) ==
  IF Has(p, "approval") THEN p["approval"]
  ELSE IF Has(p, "require_human_approval")
  THEN [k \in {"require_human_approval"} |-> p["require_human_approval"]]
  ELSE NoKeys

ChecksOf(p) == Get(p, "checks", <<>>)

\* Config.from_dict
FromDict(p, env) ==
  [allowed_paths |-> Get(p, "allowed_paths", <<".">>),
   blocked_paths |-> Get(p, "blocked_paths", <<".git", ".venv", "node_modules", "__pycache__">>),
   ci_mode |-> CiMode(p, env),
   require_reproduction_test |-> Bool(Get(p, "require_reproduction_test", "true")),
   agent |-> AgentFrom(Section(p, "agent")),
   patch |-> PatchFrom(PatchPart(p)),
   approval |-> ApprovalFrom(ApprovalPart(p), ~CiMode(p, env)),
   watch_mode |-> WatchFrom(Section(p, "watch_mode"), env),
   checks |-> ChecksOf(p)]

\* Config.to_dict, as the payload that a file with these values would give.
ToDict(c) ==
  [allowed_paths |-> c.allowed_paths, blocked_paths |-> c.blocked_paths,
   ci_mode |-> Scalar(c.ci_mode),
   require_reproduction_test |-> Scalar(c.require_reproduction_test),
   agent |-> [mode |-> c.agent.mode, command |-> c.agent.command,
              timeout_seconds |-> c.agent.timeout],
   patch |-> [max_patch_attempts |-> c.patch.max_patch_attempts,
              max_files_changed |-> c.patch.max_files_changed,
              allow_new_tests |-> Scalar(c.patch.allow_new_tests),
              allow_new_source_files |-> Scalar(c.patch.allow_new_source_files),
              block_test_edits |-> Scalar(c.patch.block_test_edits)],
   approval |-> [require_human_approval |-> Scalar(c.approval.require_human_approval)],
   watch_mode |-> [enabled |-> Scalar(c.watch_mode.enabled),
                   default_interval |-> c.watch_mode.default_interval,
                   allowed_runners |-> c.watch_mode.allowed_runners,
                   auto_approve_in_watch |-> Scalar(c.watch_mode.auto_approve_in_watch)],
   checks |-> c.checks]

-----------------------------------------------------------------------------
\* The file load_config takes without --config: .automaxfix/config.yml, else
\* automaxfix.yml.  `files` is a function on those that exist.
Resolved(files) ==
  IF Has(files, "dot") THEN files["dot"] ELSE Section(files, "top")

\* CheckDefinition.__post_init__: what a check must have.
ValidCheck(c) ==
  /\ c.name # "" /\ c.command # ""
  /\ c.expect \in {"exit_zero", "matches", "not_matches"}
  /\ c.expect # "exit_zero" => c.pattern # ""
  /\ c.pattern \in Regexes \cup {""}

\* Path lists that are null raise a TypeError, checks that break their rules a
\* ValueError: either way the command ends before it does anything.
Loads(p) ==
  /\ \A k \in {"allowed_paths", "blocked_paths"} \cap DOMAIN p : p[k] # NoList
  /\ \A i \in DOMAIN ChecksOf(p) : ValidCheck(ChecksOf(p)[i])

\* What `automaxfix init` writes: every value of it is the default.
DefaultPayload == [ToDict(FromDict(NoKeys, [ci |-> "unset", auto |-> "unset"]))
                     EXCEPT !.checks = <<>>]

\* The CI action: the settings it changes, and the file it renders.  An empty
\* list is rendered as nothing, a check as a string, which from_dict drops.
ActionConfig(c, agent, approval) ==
  [c EXCEPT !.ci_mode = TRUE, !.agent.mode = agent,
            !.approval.require_human_approval = approval]

OrNull(list) == IF list = <<>> THEN NoList ELSE list

Rendered(c) ==
  [ToDict(c) EXCEPT !.allowed_paths = OrNull(@), !.blocked_paths = OrNull(@),
                    !.watch_mode.allowed_runners = OrNull(@),
                    !.checks = <<>>]
=============================================================================
