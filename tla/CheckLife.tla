----------------------------- MODULE CheckLife -----------------------------
(***************************************************************************)
(* The life of a configured check (automaxfix/checks.py, _check_command    *)
(* and _run_ticket_check of cli.py): `check` runs every check of the       *)
(* configuration and files a ticket for each one that fails, the ticket    *)
(* carries a copy of the check through the ticket file, and `run` repairs  *)
(* the ticket and runs that copy again.  Between the commands the operator *)
(* edits the configuration and the watched system drifts; `run` is also    *)
(* started by the CI action, with the configuration it has rewritten.      *)
(***************************************************************************)
EXTENDS Configuration

CONSTANTS
  Payloads,     \* the configuration files the operator may write
  Worlds,       \* how the watched system may answer
  Redacted,     \* text -> the same text after sanitize_text
  MaxTickets,   \* bound: tickets filed
  MaxEdits      \* bound: edits of the operator, drifts and commands begun

Check_ == [name : STRING, command : STRING, expect : STRING, pattern : STRING]
Ends == {"zero", "nonzero", "timeout"}

ASSUME CheckLifeAssumption ==
  /\ MaxTickets \in Nat /\ MaxEdits \in Nat /\ Worlds # {}
  /\ DOMAIN Redacted \subseteq STRING
  /\ \A t \in DOMAIN Redacted : Redacted[t] \in DOMAIN Redacted /\ Redacted[Redacted[t]] = Redacted[t]

\* Checks are lists of mappings, every command of theirs ends somehow, and every
\* text of theirs can be redacted.  A bound that is no number does not load.
ASSUME ChecksAssumption ==
  \A p \in Payloads :
    /\ ChecksOf(p) \in Seq(Check_)
    /\ \A i \in DOMAIN ChecksOf(p) :
         LET c == ChecksOf(p)[i]
         IN  /\ \A w \in Worlds : w[c.command].ends \in Ends
             /\ {c.name, c.command, c.pattern} \subseteq DOMAIN Redacted
    /\ \A m \in {p, Section(p, "patch")} :
         Has(m, "max_files_changed") => m["max_files_changed"] \in Int

VARIABLES
  files,      \* where a configuration file is -> its payload
  env,        \* the environment variables of every command
  world,      \* command -> how it ends, and the patterns its output matches
  tickets,    \* the check each ticket carries, and the one it was filed for
  pc,
  config,     \* the settings of the command under way
  next,       \* `check`: the position it has got to
  failures,   \* `check`: positions of the checks that failed
  filed,      \* `check`: the tickets it has filed
  job,        \* `run`: its ticket, its options and what the tree was before
  steps       \* bounded counter

check_ == <<next, failures, filed>>
vars == <<files, env, world, tickets, pc, config, check_, job, steps>>

Labels == {"idle", "checking", "filing", "filed", "approve", "validate", "accepted"}

-----------------------------------------------------------------------------
\* Mutant: a check that does not end is no failure.
FailsIfEnded(c, w) ==
  /\ w[c.command].ends # "timeout"
  /\ IF c.expect = "exit_zero" THEN w[c.command].ends # "zero"
     ELSE (c.pattern \in w[c.command].shows) = (c.expect = "matches")

\* run_check: whether it returns a failure.
Fails(c, w) ==
  \/ w[c.command].ends = "timeout"
  \/ c.expect = "exit_zero" /\ w[c.command].ends # "zero"
  \/ c.expect = "matches" /\ c.pattern \in w[c.command].shows
  \/ c.expect = "not_matches" /\ c.pattern \notin w[c.command].shows

\* check.to_dict() in the ticket, sanitized on its way to the file and back.
Carried(c) ==
  [c EXCEPT !.name = Redacted[@], !.command = Redacted[@], !.pattern = Redacted[@]]

\* _run_ticket_check: no error and no failure.
RecheckPasses(c, w) == ValidCheck(c) /\ ~Fails(c, w)

\* checks_by_name: the last check of that name.
Named(checks, name) ==
  CHOOSE c \in {checks[i] : i \in DOMAIN checks} :
    \E i \in DOMAIN checks :
      /\ checks[i] = c /\ c.name = name
      /\ \A j \in DOMAIN checks : checks[j].name = name => j <= i

Idle == [ticket |-> 0, payload |-> NoKeys, yes |-> FALSE, action |-> FALSE,
         approval |-> FALSE, before |-> CHOOSE w \in Worlds : TRUE]
Defaults(e) == FromDict(NoKeys, e)

Init ==
  /\ files = [l \in {} |-> NoKeys]
  /\ env \in Env /\ world \in Worlds
  /\ tickets = <<>> /\ pc = "idle" /\ config = Defaults(env)
  /\ next = 1 /\ failures = <<>> /\ filed = <<>>
  /\ job = Idle /\ steps = 0

Count == steps < MaxEdits /\ steps' = steps + 1

-----------------------------------------------------------------------------
\* The operator writes or removes a configuration file.
Edit(l, p) ==
  /\ Count
  /\ files' = [k \in DOMAIN files \cup {l} |-> IF k = l THEN p ELSE files[k]]
  /\ UNCHANGED <<env, world, tickets, pc, config, check_, job>>

\* _init_command
InitCommand(force) ==
  /\ pc = "idle" /\ Count
  /\ force \/ ~Has(files, "dot")
  /\ files' = [k \in DOMAIN files \cup {"dot"} |-> IF k = "dot" THEN DefaultPayload ELSE files[k]]
  /\ UNCHANGED <<env, world, tickets, pc, config, check_, job>>

\* The watched system changes by itself.
Drift(w) ==
  /\ Count /\ pc \in {"idle", "checking", "filing"}
  /\ world' = w
  /\ UNCHANGED <<files, env, tickets, pc, config, check_, job>>

-----------------------------------------------------------------------------
\* _check_command
Check ==
  /\ pc = "idle" /\ Count
  /\ LET p == Resolved(files)
     IN  Loads(p) /\ config' = FromDict(p, env) /\ FromDict(p, env).checks # <<>>
  /\ pc' = "checking" /\ next' = 1 /\ failures' = <<>> /\ filed' = <<>>
  /\ UNCHANGED <<files, env, world, tickets, job>>

\* Mutant: positions counted from zero.
RunNextFromZero ==
  /\ pc = "checking" /\ next <= Len(config.checks)
  /\ failures' = IF Fails(config.checks[next], world) THEN Append(failures, next - 1) ELSE failures
  /\ next' = next + 1
  /\ UNCHANGED <<files, env, world, tickets, pc, config, filed, job, steps>>

\* run_checks: the next check.
RunNext ==
  /\ pc = "checking" /\ next <= Len(config.checks)
  /\ failures' = IF Fails(config.checks[next], world) THEN Append(failures, next) ELSE failures
  /\ next' = next + 1
  /\ UNCHANGED <<files, env, world, tickets, pc, config, filed, job, steps>>

ChecksDone ==
  /\ pc = "checking" /\ next > Len(config.checks)
  /\ pc' = "filing" /\ next' = 1
  /\ UNCHANGED <<files, env, world, tickets, config, failures, filed, job, steps>>

\* Mutant: one ticket for each name.
FileNextName ==
  /\ pc = "filing" /\ next <= Len(failures) /\ Len(tickets) < MaxTickets
  /\ LET name == config.checks[failures[next]].name
         check == Named(config.checks, name)
     IN  IF \E i \in 1..(next - 1) : config.checks[failures[i]].name = name
         THEN UNCHANGED <<tickets, filed>>
         ELSE /\ tickets' = Append(tickets, [check |-> Carried(check), origin |-> check, alone |-> TRUE])
              /\ filed' = Append(filed, Len(tickets) + 1)
  /\ next' = next + 1
  /\ UNCHANGED <<files, env, world, pc, config, failures, job, steps>>

\* create_ticket_from_failures for one failure, with the check of its name.
FileNext ==
  /\ pc = "filing" /\ next <= Len(failures) /\ Len(tickets) < MaxTickets
  /\ LET origin == config.checks[failures[next]]
     IN  tickets' = Append(tickets,
           [check |-> Carried(Named(config.checks, origin.name)), origin |-> origin,
            alone |-> \A i \in DOMAIN config.checks :
                        config.checks[i].name = origin.name => config.checks[i] = origin])
  /\ filed' = Append(filed, Len(tickets) + 1)
  /\ next' = next + 1
  /\ UNCHANGED <<files, env, world, pc, config, failures, job, steps>>

FilingDone ==
  /\ pc = "filing" /\ next > Len(failures)
  /\ pc' = "filed"
  /\ UNCHANGED <<files, env, world, tickets, config, check_, job, steps>>

EndCheck ==
  /\ pc = "filed"
  /\ pc' = "idle" /\ config' = Defaults(env) /\ next' = 1 /\ failures' = <<>> /\ filed' = <<>>
  /\ UNCHANGED <<files, env, world, tickets, job, steps>>

-----------------------------------------------------------------------------
\* _run_command: the configuration is read once, at the start of the run.
Run(t, yes) ==
  /\ pc = "idle" /\ Count
  /\ LET p == Resolved(files)
     IN  /\ Loads(p) /\ config' = FromDict(p, env)
         /\ job' = [Idle EXCEPT !.ticket = t, !.payload = p, !.yes = yes]
  /\ pc' = "approve"
  /\ UNCHANGED <<files, env, world, tickets, check_>>

\* The CI action: load, set, render, and `run --config` in CI mode, with --yes
\* exactly when no approval is required.
ActionRun(t, approval) ==
  /\ pc = "idle" /\ Count
  /\ LET p == Resolved(files)
         rendered == Rendered(ActionConfig(FromDict(p, env), "codex_cli", approval))
     IN  /\ Loads(p) /\ Loads(rendered)
         /\ config' = FromDict(rendered, [env EXCEPT !.ci = "on"])
         /\ job' = [Idle EXCEPT !.ticket = t, !.payload = p, !.yes = ~approval,
                                !.action = TRUE, !.approval = approval]
  /\ pc' = "approve"
  /\ UNCHANGED <<files, env, world, tickets, check_>>

EndRun == pc' = "idle" /\ config' = Defaults(env) /\ job' = Idle

\* Up to the approval a run may fail in many ways (RepairRun has them).
RunStops ==
  /\ pc = "approve" /\ EndRun
  /\ UNCHANGED <<files, env, world, tickets, check_, steps>>

\* evaluate_approval, and a patch that changes how the commands answer.
Patch(dirty, w) ==
  /\ pc = "approve"
  /\ job.yes \/ (~dirty /\ ~config.approval.require_human_approval)
  /\ world' = w /\ job' = [job EXCEPT !.before = world]
  /\ pc' = "validate"
  /\ UNCHANGED <<files, env, tickets, config, check_, steps>>

\* The targeted test and the regression suite are green, and the ticket's check too.
Accept ==
  /\ pc = "validate" /\ RecheckPasses(tickets[job.ticket].check, world)
  /\ pc' = "accepted"
  /\ UNCHANGED <<files, env, world, tickets, config, check_, job, steps>>

\* One of them is not: the patch is reversed.
Reject ==
  /\ pc = "validate" /\ EndRun
  /\ world' = job.before
  /\ UNCHANGED <<files, env, tickets, check_, steps>>

EndAccepted ==
  /\ pc = "accepted" /\ EndRun
  /\ UNCHANGED <<files, env, world, tickets, check_, steps>>

Next ==
  \/ \E l \in {"dot", "top"}, p \in Payloads : Edit(l, p)
  \/ \E force \in BOOLEAN : InitCommand(force)
  \/ \E w \in Worlds : Drift(w)
  \/ Check \/ RunNext \/ ChecksDone \/ FileNext \/ FilingDone \/ EndCheck
  \/ \E t \in DOMAIN tickets : \E b \in BOOLEAN : Run(t, b) \/ ActionRun(t, b)
  \/ RunStops \/ (\E dirty \in BOOLEAN, w \in Worlds : Patch(dirty, w))
  \/ Accept \/ Reject \/ EndAccepted

Spec == Init /\ [][Next]_vars
-----------------------------------------------------------------------------
TypeOK ==
  /\ DOMAIN files \subseteq {"dot", "top"} /\ env \in Env /\ world \in Worlds
  /\ \A i \in DOMAIN tickets :
       tickets[i].check \in Check_ /\ ValidCheck(tickets[i].origin) /\ tickets[i].alone \in BOOLEAN
  /\ pc \in Labels
  /\ config.approval.require_human_approval \in BOOLEAN /\ config.patch.max_files_changed \in Int
  /\ next \in Nat /\ \A i \in DOMAIN failures : failures[i] \in DOMAIN config.checks
  /\ \A i \in DOMAIN filed : filed[i] \in DOMAIN tickets
  /\ job.ticket \in 0..Len(tickets) /\ job.before \in Worlds /\ steps \in Nat

\* What the expectations mean to who writes them (README.md:97-107).
Green(c, w) ==
  /\ w[c.command].ends \in {"zero", "nonzero"}
  /\ CASE c.expect = "exit_zero"   -> w[c.command].ends = "zero"
       [] c.expect = "matches"     -> c.pattern \notin w[c.command].shows
       [] c.expect = "not_matches" -> c.pattern \in w[c.command].shows

\* When `check` is done there is a ticket for each check that failed, and one
\* only, also for two checks of the same name; the ticket of a check whose name
\* is its own carries the command of that check (cli.py:516-534).
EveryFailureIsFiled ==
  pc = "filed" =>
    /\ Len(filed) = Len(failures)
    /\ \A i, j \in DOMAIN filed : filed[i] = filed[j] => i = j
    /\ \A i \in DOMAIN filed :
         LET c == config.checks[failures[i]]
         IN  (\A j \in DOMAIN config.checks : config.checks[j].name = c.name => config.checks[j] = c)
               => tickets[filed[i]].check.command = Redacted[c.command]

\* A ticket is accepted only when the check it was filed for is green again on
\* the patched system, through the copies that the ticket file and the two
\* commands make of it; two checks of one name and a check that redaction
\* changes are the exceptions (cli.py:315-324, 517, 1207-1225; ticket.py:33).
AcceptedCheckIsGreen ==
  pc = "accepted" =>
    LET t == tickets[job.ticket]
    IN  t.alone /\ Carried(t.origin) = t.origin => Green(t.origin, world)

\* No patch is applied without --yes unless the configuration in force when the
\* run began is one of CI mode, or says somewhere that approval is not required;
\* never against an approval section that requires it, nor by a CI action that
\* was asked for approval (models.py:212-215, 235-246; docs/ci-integration.md:138-140).
UnapprovedPatchIsConfigured ==
  pc = "validate" /\ ~job.yes =>
    LET p == job.payload
        section == Section(p, "approval")
    IN  /\ ~job.action
        /\ \/ env.ci = "on" \/ (env.ci = "unset" /\ Get(p, "ci_mode", "false") = "true")
           \/ Get(p, "require_human_approval", "true") # "true"
           \/ Get(section, "require_human_approval", "true") # "true"
        /\ Get(section, "require_human_approval", "false") # "true"

\* "a proposed fix is validated by re-running the exact check that caught the
\* failure" (README.md:113-114).
ExactCheckIsGreen == pc = "accepted" => Green(tickets[job.ticket].origin, world)

\* The bound that the configuration file gives is the one in force:
\* `max_files_changed` above a `patch:` section, as in README.md:165-172.
FilesBoundIsKept ==
  pc = "validate" /\ Has(job.payload, "max_files_changed")
    => \/ config.patch.max_files_changed = job.payload.max_files_changed
       \/ Has(Section(job.payload, "patch"), "max_files_changed")
=============================================================================
