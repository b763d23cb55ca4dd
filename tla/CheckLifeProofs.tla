-------------------------- MODULE CheckLifeProofs --------------------------
(***************************************************************************)
(* Proofs about Configuration and CheckLife: what is read back from a      *)
(* written configuration, that no patch is applied unasked unless the      *)
(* configuration says so, that every failure a check reports is filed, and *)
(* that an accepted ticket's check is green, for every set of              *)
(* configuration files.                                                    *)
(***************************************************************************)
EXTENDS CheckLife, SequenceTheorems, WellFoundedInduction, TLAPS

-----------------------------------------------------------------------------
\* A Boolean survives to_dict and from_dict.
LEMMA ScalarIsRead ==
  ASSUME NEW b \in BOOLEAN
  PROVE  Bool(Scalar(b)) = b
BY DEF Bool, Scalar

\* What bool() and an environment flag give is a Boolean, and a flag that has
\* been applied once changes nothing when it is applied again.
LEMMA FlagIsApplied ==
  ASSUME NEW flag \in Flags, NEW b \in BOOLEAN
  PROVE  /\ EnvOr(flag, b) \in BOOLEAN
         /\ EnvOr(flag, EnvOr(flag, b)) = EnvOr(flag, b)
BY DEF EnvOr, Flags

LEMMA BoolIsBoolean ==
  ASSUME NEW s
  PROVE  Bool(s) \in BOOLEAN
BY DEF Bool

LEMMA RunnersAreAList == AllRunners # NoList
<1>1. Len(AllRunners) = 6 /\ Len(NoList) = 1
  BY DEF AllRunners, NoList
<1>. QED  BY <1>1

\* The sections of a configuration, read back one by one.
LEMMA AgentIsReadBack ==
  ASSUME NEW m
  PROVE  LET a == AgentFrom(m)
         IN  AgentFrom([mode |-> a.mode, command |-> a.command, timeout_seconds |-> a.timeout]) = a
BY DEF AgentFrom, Get, Has

LEMMA PatchIsReadBack ==
  ASSUME NEW m
  PROVE  LET c == PatchFrom(m)
         IN  PatchFrom([max_patch_attempts |-> c.max_patch_attempts,
                        max_files_changed |-> c.max_files_changed,
                        allow_new_tests |-> Scalar(c.allow_new_tests),
                        allow_new_source_files |-> Scalar(c.allow_new_source_files),
                        block_test_edits |-> Scalar(c.block_test_edits)]) = c
BY ScalarIsRead, BoolIsBoolean DEF PatchFrom, Get, Has

LEMMA ApprovalIsReadBack ==
  ASSUME NEW m, NEW d, NEW e
  PROVE  ApprovalFrom([require_human_approval |->
                         Scalar(ApprovalFrom(m, d).require_human_approval)], e)
           = ApprovalFrom(m, d)
BY ScalarIsRead, BoolIsBoolean DEF ApprovalFrom, Get, Has

LEMMA WatchIsReadBack ==
  ASSUME NEW m, NEW env_ \in Env
  PROVE  LET c == WatchFrom(m, env_)
         IN  WatchFrom([enabled |-> Scalar(c.enabled), default_interval |-> c.default_interval,
                        allowed_runners |-> c.allowed_runners,
                        auto_approve_in_watch |-> Scalar(c.auto_approve_in_watch)], env_) = c
<1>. DEFINE c == WatchFrom(m, env_)
            w == [enabled |-> Scalar(c.enabled), default_interval |-> c.default_interval,
                  allowed_runners |-> c.allowed_runners,
                  auto_approve_in_watch |-> Scalar(c.auto_approve_in_watch)]
<1>0. env_.auto \in Flags
  BY DEF Env
<1>1. c.enabled \in BOOLEAN /\ c.auto_approve_in_watch \in BOOLEAN
  BY <1>0, BoolIsBoolean, FlagIsApplied DEF WatchFrom
<1>2. c.allowed_runners # NoList
  BY RunnersAreAList DEF WatchFrom
<1>3. AtLeastOne(c.default_interval) = c.default_interval
  BY DEF WatchFrom, AtLeastOne
<1>4. EnvOr(env_.auto, c.auto_approve_in_watch) = c.auto_approve_in_watch
  BY <1>0, BoolIsBoolean, FlagIsApplied DEF WatchFrom
<1>5. WatchFrom(w, env_) = [enabled |-> c.enabled, default_interval |-> c.default_interval,
                            allowed_runners |-> c.allowed_runners,
                            auto_approve_in_watch |-> c.auto_approve_in_watch]
  <2>. HIDE DEF c
  <2>. QED  BY <1>1, <1>2, <1>3, <1>4, ScalarIsRead DEF WatchFrom, Get, Has
<1>. QED  BY <1>5 DEF WatchFrom

-----------------------------------------------------------------------------
\* A configuration that is written out with to_dict and read back under the
\* same environment is the same configuration, whatever file it came from
\* (models.py:176-259).
THEOREM ConfigIsReadBack ==
  ASSUME NEW p, NEW e \in Env
  PROVE  FromDict(ToDict(FromDict(p, e)), e) = FromDict(p, e)
<1>. DEFINE c == FromDict(p, e)
            q == ToDict(c)
<1>0. e.ci \in Flags
  BY DEF Env
<1>1. c.ci_mode \in BOOLEAN /\ EnvOr(e.ci, c.ci_mode) = c.ci_mode
  BY <1>0, BoolIsBoolean, FlagIsApplied DEF FromDict, CiMode
<1>2. c.require_reproduction_test \in BOOLEAN
  BY BoolIsBoolean DEF FromDict
<1>3. /\ q.ci_mode = Scalar(c.ci_mode) /\ q.checks = c.checks
      /\ q.require_reproduction_test = Scalar(c.require_reproduction_test)
      /\ q.allowed_paths = c.allowed_paths /\ q.blocked_paths = c.blocked_paths
      /\ {"ci_mode", "checks", "require_reproduction_test", "allowed_paths", "blocked_paths",
          "agent", "patch", "approval", "watch_mode"} = DOMAIN q
  BY DEF ToDict
<1>4. CiMode(q, e) = c.ci_mode
  BY <1>1, <1>3, ScalarIsRead DEF CiMode, Get, Has
<1>5. AgentFrom(Section(q, "agent")) = c.agent
  <2>1. Section(q, "agent") = [mode |-> c.agent.mode, command |-> c.agent.command,
                               timeout_seconds |-> c.agent.timeout]
    BY <1>3 DEF ToDict, Section, Get, Has
  <2>2. c.agent = AgentFrom(Section(p, "agent"))
    BY DEF FromDict
  <2>. QED  BY <2>1, <2>2, AgentIsReadBack
<1>6. PatchFrom(PatchPart(q)) = c.patch
  <2>1. PatchPart(q) = [max_patch_attempts |-> c.patch.max_patch_attempts,
                        max_files_changed |-> c.patch.max_files_changed,
                        allow_new_tests |-> Scalar(c.patch.allow_new_tests),
                        allow_new_source_files |-> Scalar(c.patch.allow_new_source_files),
                        block_test_edits |-> Scalar(c.patch.block_test_edits)]
    BY <1>3 DEF ToDict, PatchPart, Has
  <2>2. c.patch = PatchFrom(PatchPart(p))
    BY DEF FromDict
  <2>. QED  BY <2>1, <2>2, PatchIsReadBack
<1>7. ApprovalFrom(ApprovalPart(q), ~CiMode(q, e)) = c.approval
  <2>1. ApprovalPart(q) = [require_human_approval |-> Scalar(c.approval.require_human_approval)]
    BY <1>3 DEF ToDict, ApprovalPart, Has
  <2>2. c.approval = ApprovalFrom(ApprovalPart(p), ~CiMode(p, e))
    BY DEF FromDict
  <2>. QED  BY <2>1, <2>2, ApprovalIsReadBack
<1>8. WatchFrom(Section(q, "watch_mode"), e) = c.watch_mode
  <2>1. Section(q, "watch_mode")
          = [enabled |-> Scalar(c.watch_mode.enabled),
             default_interval |-> c.watch_mode.default_interval,
             allowed_runners |-> c.watch_mode.allowed_runners,
             auto_approve_in_watch |-> Scalar(c.watch_mode.auto_approve_in_watch)]
    BY <1>3 DEF ToDict, Section, Get, Has
  <2>2. c.watch_mode = WatchFrom(Section(p, "watch_mode"), e)
    BY DEF FromDict
  <2>. QED  BY <2>1, <2>2, WatchIsReadBack
<1>9. /\ Get(q, "allowed_paths", <<".">>) = c.allowed_paths
      /\ Get(q, "blocked_paths", <<".git", ".venv", "node_modules", "__pycache__">>) = c.blocked_paths
      /\ ChecksOf(q) = c.checks
      /\ Bool(Get(q, "require_reproduction_test", "true")) = c.require_reproduction_test
  BY <1>2, <1>3, ScalarIsRead DEF ChecksOf, Get, Has
<1>10. FromDict(q, e) =
         [allowed_paths |-> c.allowed_paths, blocked_paths |-> c.blocked_paths,
          ci_mode |-> c.ci_mode, require_reproduction_test |-> c.require_reproduction_test,
          agent |-> c.agent, patch |-> c.patch, approval |-> c.approval,
          watch_mode |-> c.watch_mode, checks |-> c.checks]
  <2>. HIDE DEF c, q
  <2>. QED  BY <1>4, <1>5, <1>6, <1>7, <1>8, <1>9 DEF FromDict
<1>11. c = [allowed_paths |-> c.allowed_paths, blocked_paths |-> c.blocked_paths,
            ci_mode |-> c.ci_mode, require_reproduction_test |-> c.require_reproduction_test,
            agent |-> c.agent, patch |-> c.patch, approval |-> c.approval,
            watch_mode |-> c.watch_mode, checks |-> c.checks]
  BY DEF FromDict
<1>. QED  BY <1>10, <1>11

-----------------------------------------------------------------------------
\* What the CI action writes is read back with the approval it was asked for.
LEMMA ActionIsReadBack ==
  ASSUME NEW p, NEW e, NEW f, NEW agent, NEW approval \in BOOLEAN
  PROVE  FromDict(Rendered(ActionConfig(FromDict(p, e), agent, approval)), f)
           .approval.require_human_approval = approval
<1>. DEFINE a == ActionConfig(FromDict(p, e), agent, approval)
            q == Rendered(a)
<1>1. a.approval.require_human_approval = approval
  BY DEF ActionConfig, FromDict, ApprovalFrom
<1>2. "approval" \in DOMAIN q /\ q.approval = [require_human_approval |-> Scalar(approval)]
  <2>. HIDE DEF a
  <2>. QED  BY <1>1 DEF Rendered, ToDict
<1>3. ApprovalPart(q) = [require_human_approval |-> Scalar(approval)]
  BY <1>2 DEF ApprovalPart, Has
<1>4. ApprovalFrom(ApprovalPart(q), ~CiMode(q, f)).require_human_approval = approval
  BY <1>3, ScalarIsRead DEF ApprovalFrom, Get, Has
<1>. QED  BY <1>4 DEF FromDict

\* Where a configuration does not require approval, the file or the CI mode
\* says so, and no approval section requires it.
LEMMA UnrequiredIsConfigured ==
  ASSUME NEW p, NEW e \in Env, ~FromDict(p, e).approval.require_human_approval
  PROVE  LET section == Section(p, "approval")
         IN  /\ \/ e.ci = "on" \/ (e.ci = "unset" /\ Get(p, "ci_mode", "false") = "true")
                \/ Get(p, "require_human_approval", "true") # "true"
                \/ Get(section, "require_human_approval", "true") # "true"
             /\ Get(section, "require_human_approval", "false") # "true"
<1>1. Get(ApprovalPart(p), "require_human_approval", Scalar(~CiMode(p, e))) # "true"
  BY DEF FromDict, ApprovalFrom, Bool
<1>2. CiMode(p, e) \in BOOLEAN
  BY BoolIsBoolean, FlagIsApplied DEF CiMode, Env
<1>3. CiMode(p, e) => \/ e.ci = "on"
                      \/ e.ci = "unset" /\ Get(p, "ci_mode", "false") = "true"
  BY DEF CiMode, EnvOr, Bool, Env, Flags
<1>4. CASE Has(p, "approval") /\ Has(p["approval"], "require_human_approval")
  <2>1. Get(p["approval"], "require_human_approval", "false") # "true"
    BY <1>1, <1>4 DEF ApprovalPart, Get
  <2>. QED  BY <1>4, <2>1 DEF Section, Get
<1>5. CASE Has(p, "approval") /\ ~Has(p["approval"], "require_human_approval")
  <2>1. CiMode(p, e)
    BY <1>1, <1>2, <1>5 DEF ApprovalPart, Get, Scalar
  <2>. QED  BY <1>3, <1>5, <2>1 DEF Section, Get
<1>6. CASE ~Has(p, "approval") /\ Has(p, "require_human_approval")
  BY <1>1, <1>6 DEF ApprovalPart, Section, NoKeys, Get, Has
<1>7. CASE ~Has(p, "approval") /\ ~Has(p, "require_human_approval")
  <2>1. CiMode(p, e)
    BY <1>1, <1>2, <1>7 DEF ApprovalPart, NoKeys, Get, Has, Scalar
  <2>. QED  BY <1>3, <1>7, <2>1 DEF Section, NoKeys, Get, Has
<1>. QED  BY <1>4, <1>5, <1>6, <1>7

-----------------------------------------------------------------------------
\* A run goes on with the configuration that was in force when it began; one
\* that the CI action began asks for approval exactly when the action was told
\* to; and a patch is on trial only with --yes or without the need for it.
ConsentInv ==
  /\ env \in Env
  /\ DOMAIN job = {"ticket", "payload", "yes", "action", "approval", "before"}
  /\ pc \in {"approve", "validate"} =>
       /\ job.action \in BOOLEAN
       /\ ~job.action => config = FromDict(job.payload, env)
       /\ job.action => /\ job.approval \in BOOLEAN /\ job.yes = ~job.approval
                        /\ config.approval.require_human_approval = job.approval
  /\ pc = "validate" => job.yes \/ ~config.approval.require_human_approval

LEMMA IdleHasItsKeys ==
  DOMAIN Idle = {"ticket", "payload", "yes", "action", "approval", "before"}
BY DEF Idle

LEMMA ConsentInvInit == Init => ConsentInv
BY IdleHasItsKeys DEF Init, ConsentInv

LEMMA ConsentInvStep ==
  ConsentInv /\ [Next]_vars => ConsentInv'
<1>. SUFFICES ASSUME ConsentInv, [Next]_vars
              PROVE  ConsentInv'
  OBVIOUS
<1>. USE DEF ConsentInv
<1>1. ASSUME NEW l \in {"dot", "top"}, NEW p \in Payloads, Edit(l, p)
      PROVE  ConsentInv'
  BY <1>1 DEF Edit
<1>2. ASSUME NEW force \in BOOLEAN, InitCommand(force)
      PROVE  ConsentInv'
  BY <1>2 DEF InitCommand
<1>3. ASSUME NEW w \in Worlds, Drift(w)
      PROVE  ConsentInv'
  BY <1>3 DEF Drift
<1>4. CASE Check
  BY <1>4 DEF Check
<1>5. CASE RunNext
  BY <1>5 DEF RunNext
<1>6. CASE ChecksDone
  BY <1>6 DEF ChecksDone
<1>7. CASE FileNext
  BY <1>7 DEF FileNext
<1>8. CASE FilingDone
  BY <1>8 DEF FilingDone
<1>9. CASE EndCheck
  BY <1>9 DEF EndCheck
<1>10. ASSUME NEW t \in DOMAIN tickets, NEW b \in BOOLEAN, Run(t, b)
       PROVE  ConsentInv'
  <2>. DEFINE p == Resolved(files)
              j == [Idle EXCEPT !.ticket = t, !.payload = p, !.yes = b]
  <2>1. /\ pc' = "approve" /\ env' = env
        /\ config' = FromDict(p, env) /\ job' = j
    BY <1>10 DEF Run
  <2>2. DOMAIN j = DOMAIN Idle /\ j.payload = p /\ j.action = FALSE
    BY DEF Idle
  <2>. QED  BY <2>1, <2>2, IdleHasItsKeys
<1>11. ASSUME NEW t \in DOMAIN tickets, NEW b \in BOOLEAN, ActionRun(t, b)
       PROVE  ConsentInv'
  <2>. DEFINE p == Resolved(files)
              j == [Idle EXCEPT !.ticket = t, !.payload = p, !.yes = ~b,
                                !.action = TRUE, !.approval = b]
  <2>1. /\ pc' = "approve" /\ env' = env /\ job' = j
        /\ config' = FromDict(Rendered(ActionConfig(FromDict(p, env), "codex_cli", b)),
                              [env EXCEPT !.ci = "on"])
    BY <1>11 DEF ActionRun
  <2>2. config'.approval.require_human_approval = b
    BY <2>1, ActionIsReadBack
  <2>3. DOMAIN j = DOMAIN Idle /\ j.action = TRUE /\ j.approval = b /\ j.yes = ~b
    BY DEF Idle
  <2>. QED  BY <2>1, <2>2, <2>3, IdleHasItsKeys
<1>12. CASE RunStops
  BY <1>12, IdleHasItsKeys DEF RunStops, EndRun
<1>13. ASSUME NEW dirty \in BOOLEAN, NEW w \in Worlds, Patch(dirty, w)
       PROVE  ConsentInv'
  <2>1. /\ pc = "approve" /\ pc' = "validate" /\ env' = env /\ config' = config
        /\ job' = [job EXCEPT !.before = world]
        /\ job.yes \/ ~config.approval.require_human_approval
    BY <1>13 DEF Patch
  <2>2. /\ DOMAIN job' = DOMAIN job /\ job'.action = job.action /\ job'.payload = job.payload
        /\ job'.approval = job.approval /\ job'.yes = job.yes
    BY <2>1
  <2>. QED  BY <2>1, <2>2
<1>14. CASE Accept
  BY <1>14 DEF Accept
<1>15. CASE Reject
  BY <1>15, IdleHasItsKeys DEF Reject, EndRun
<1>16. CASE EndAccepted
  BY <1>16, IdleHasItsKeys DEF EndAccepted, EndRun
<1>17. CASE UNCHANGED vars
  BY <1>17 DEF vars
<1>. QED
  BY <1>1, <1>2, <1>3, <1>4, <1>5, <1>6, <1>7, <1>8, <1>9, <1>10, <1>11, <1>12, <1>13,
     <1>14, <1>15, <1>16, <1>17 DEF Next

LEMMA ConsentInvHolds == Spec => []ConsentInv
BY ConsentInvInit, ConsentInvStep, PTL DEF Spec

\* UnapprovedPatchIsConfigured, for every set of configuration files, every
\* watched system and every number of commands.
THEOREM PatchesAreConfigured == Spec => []UnapprovedPatchIsConfigured
<1>1. ConsentInv => UnapprovedPatchIsConfigured
  <2>. SUFFICES ASSUME ConsentInv, pc = "validate", ~job.yes
                PROVE  UnapprovedPatchIsConfigured
    BY DEF UnapprovedPatchIsConfigured
  <2>1. ~config.approval.require_human_approval
    BY DEF ConsentInv
  <2>2. ~job.action
    BY <2>1 DEF ConsentInv
  <2>3. config = FromDict(job.payload, env) /\ env \in Env
    BY <2>2 DEF ConsentInv
  <2>. QED
    BY <2>1, <2>2, <2>3, UnrequiredIsConfigured DEF UnapprovedPatchIsConfigured
<1>. QED  BY <1>1, ConsentInvHolds, PTL

-----------------------------------------------------------------------------
\* A non-empty set of positions has a last one.
LEMMA LastPosition ==
  ASSUME NEW n \in Nat, NEW S, S \subseteq 1..n, S # {}
  PROVE  \E i \in S : \A j \in S : j <= i
<1>. DEFINE Bounds == {b \in Nat : \A j \in S : j <= b}
<1>1. Bounds \subseteq Nat /\ n \in Bounds
  OBVIOUS
<1>2. IsWellFoundedOn(OpToRel(<, Nat), Nat)
  BY NatLessThanWellFounded
<1>3. PICK b \in Bounds : \A c \in Bounds : ~(<<c, b>> \in OpToRel(<, Nat))
  BY <1>1, <1>2, WFMin
<1>4. \A c \in Bounds : ~(c < b)
  BY <1>3 DEF OpToRel
<1>5. b \in S
  <2>. SUFFICES ASSUME b \notin S
                PROVE  FALSE
    OBVIOUS
  <2>1. PICK k \in S : TRUE
    OBVIOUS
  <2>2. b \in Nat /\ \A j \in S : j \in Nat /\ j >= 1 /\ j <= b /\ j # b
    OBVIOUS
  <2>3. b - 1 \in Nat /\ b - 1 < b
    BY <2>1, <2>2
  <2>4. \A j \in S : j <= b - 1
    BY <2>2
  <2>5. b - 1 \in Bounds
    BY <2>3, <2>4
  <2>. QED  BY <2>3, <2>5, <1>4
<1>. QED  BY <1>5, <1>3

\* checks_by_name finds a check of the name, the only one where it is alone.
LEMMA NamedIsThere ==
  ASSUME NEW checks \in Seq(Check_), NEW i \in DOMAIN checks
  PROVE  LET named == Named(checks, checks[i].name)
         IN  /\ named \in Check_ /\ named.name = checks[i].name
             /\ \E j \in DOMAIN checks : checks[j] = named
<1>. DEFINE name == checks[i].name
            S == {j \in DOMAIN checks : checks[j].name = name}
            Is(c) == \E j \in DOMAIN checks :
                       /\ checks[j] = c /\ c.name = name
                       /\ \A k \in DOMAIN checks : checks[k].name = name => k <= j
<1>1. DOMAIN checks = 1..Len(checks) /\ Len(checks) \in Nat
  OBVIOUS
<1>2. PICK last \in S : \A j \in S : j <= last
  <2>1. S \subseteq 1..Len(checks) /\ i \in S
    BY <1>1
  <2>. HIDE DEF S
  <2>. QED  BY <1>1, <2>1, LastPosition
<1>3. Is(checks[last]) /\ checks[last] \in {checks[j] : j \in DOMAIN checks}
  BY <1>2
<1>4. Named(checks, name) = CHOOSE c \in {checks[j] : j \in DOMAIN checks} : Is(c)
  BY DEF Named
<1>5. Is(Named(checks, name))
  <2>. HIDE DEF Is
  <2>. QED  BY <1>3, <1>4
<1>. QED  BY <1>5

-----------------------------------------------------------------------------
\* A check that has been loaded: whole, valid, its texts can be redacted, and its
\* command ends somehow.
Judged(c) ==
  /\ c \in Check_ /\ ValidCheck(c) /\ {c.name, c.command, c.pattern} \subseteq DOMAIN Redacted
  /\ \A w \in Worlds : w[c.command].ends \in Ends
Judgeable(checks) == checks \in Seq(Check_) /\ \A i \in DOMAIN checks : Judged(checks[i])

Ticket_ == [check : Check_, origin : {c \in Check_ : Judged(c)}, alone : BOOLEAN]

\* Files are the operator's or the default one; the settings in force have
\* checks that were loaded; tickets carry the copy of a check, which is the
\* one they were filed for where no other check has its name.
LoadedInv ==
  /\ \A l \in DOMAIN files : files[l] \in Payloads \cup {DefaultPayload}
  /\ world \in Worlds /\ job.before \in Worlds /\ DOMAIN job = DOMAIN Idle
  /\ Judgeable(config.checks)
  /\ tickets \in Seq(Ticket_)
  /\ \A t \in DOMAIN tickets :
       tickets[t].alone => tickets[t].check = Carried(tickets[t].origin)

LEMMA NoChecksAreJudgeable == Judgeable(<<>>)
BY DEF Judgeable

LEMMA LoadedIsJudgeable ==
  ASSUME NEW p, NEW e, Loads(p), p \in Payloads \cup {DefaultPayload, NoKeys}
  PROVE  Judgeable(FromDict(p, e).checks)
<1>1. FromDict(p, e).checks = ChecksOf(p)
  BY DEF FromDict
<1>2. CASE p \in Payloads
  <2>1. ChecksOf(p) \in Seq(Check_)
    BY <1>2, ChecksAssumption
  <2>2. \A i \in DOMAIN ChecksOf(p) : ChecksOf(p)[i] \in Check_
    BY <2>1
  <2>3. \A i \in DOMAIN ChecksOf(p) : ValidCheck(ChecksOf(p)[i])
    BY DEF Loads
  <2>4. \A i \in DOMAIN ChecksOf(p) : \A w \in Worlds : w[ChecksOf(p)[i].command].ends \in Ends
    BY <1>2, ChecksAssumption
  <2>5. \A i \in DOMAIN ChecksOf(p) :
          {ChecksOf(p)[i].name, ChecksOf(p)[i].command, ChecksOf(p)[i].pattern}
            \subseteq DOMAIN Redacted
    BY <1>2, ChecksAssumption
  <2>. QED  BY <1>1, <2>1, <2>2, <2>3, <2>4, <2>5 DEF Judgeable, Judged
<1>3. CASE p = DefaultPayload
  <2>1. ChecksOf(p) = <<>>
    BY <1>3 DEF DefaultPayload, ChecksOf, ToDict, Get, Has
  <2>. QED  BY <1>1, <2>1, NoChecksAreJudgeable
<1>4. CASE p = NoKeys
  <2>1. ChecksOf(p) = <<>>
    BY <1>4 DEF NoKeys, ChecksOf, Get, Has
  <2>. QED  BY <1>1, <2>1, NoChecksAreJudgeable
<1>. QED  BY <1>2, <1>3, <1>4

LEMMA DefaultsAreJudgeable ==
  ASSUME NEW e
  PROVE  Judgeable(Defaults(e).checks)
<1>1. Defaults(e).checks = <<>>
  BY DEF Defaults, FromDict, ChecksOf, NoKeys, Get, Has
<1>. QED  BY <1>1, NoChecksAreJudgeable

LEMMA RenderedIsJudgeable ==
  ASSUME NEW c, NEW e
  PROVE  Judgeable(FromDict(Rendered(c), e).checks)
<1>1. ChecksOf(Rendered(c)) = <<>>
  BY DEF Rendered, ToDict, ChecksOf, Get, Has
<1>2. FromDict(Rendered(c), e).checks = <<>>
  BY <1>1 DEF FromDict
<1>. QED  BY <1>2, NoChecksAreJudgeable

LEMMA ResolvedIsKnown ==
  ASSUME LoadedInv
  PROVE  Resolved(files) \in Payloads \cup {DefaultPayload, NoKeys}
BY DEF LoadedInv, Resolved, Section, Get, Has

LEMMA IdleIsTyped == Idle.before \in Worlds
BY CheckLifeAssumption DEF Idle

LEMMA LoadedInvInit == Init => LoadedInv
BY IdleIsTyped, DefaultsAreJudgeable DEF Init, LoadedInv, Ticket_

\* Redaction leaves a check a check.
LEMMA CarriedIsACheck ==
  ASSUME NEW c, Judged(c)
  PROVE  Carried(c) \in Check_
<1>1. c \in Check_ /\ {c.name, c.command, c.pattern} \subseteq DOMAIN Redacted
  BY DEF Judged
<1>2. \A t \in DOMAIN Redacted : Redacted[t] \in STRING
  BY CheckLifeAssumption
<1>. QED  BY <1>1, <1>2 DEF Carried, Check_

\* What FileNext appends for the failure of the i-th check.
Alone(checks, c) == \A j \in DOMAIN checks : checks[j].name = c.name => checks[j] = c

TicketFor(checks, i) ==
  [check |-> Carried(Named(checks, checks[i].name)), origin |-> checks[i],
   alone |-> Alone(checks, checks[i])]

LEMMA FiledTicket ==
  ASSUME NEW checks, Judgeable(checks), NEW i \in DOMAIN checks
  PROVE  LET t == TicketFor(checks, i)
         IN  t \in Ticket_ /\ (t.alone => t.check = Carried(t.origin))
<1>1. checks \in Seq(Check_) /\ Judged(checks[i]) /\ checks[i] \in Check_
  BY DEF Judgeable, Judged
<1>2. /\ Judged(Named(checks, checks[i].name))
      /\ Alone(checks, checks[i]) => Named(checks, checks[i].name) = checks[i]
  BY <1>1, NamedIsThere DEF Alone, Judgeable
<1>3. Alone(checks, checks[i]) \in BOOLEAN
  BY DEF Alone
<1>4. Carried(Named(checks, checks[i].name)) \in Check_
  BY <1>2, CarriedIsACheck
<1>. QED  BY <1>1, <1>2, <1>3, <1>4 DEF Ticket_, TicketFor

\* The positions that `check` works on, and the tickets it has filed for them:
\* one for each failure up to where it has got, no two the same.
FiledInv ==
  /\ next \in Nat /\ next >= 1
  /\ failures \in Seq(Nat) /\ \A i \in DOMAIN failures : failures[i] \in DOMAIN config.checks
  /\ filed \in Seq(Nat) /\ \A i \in DOMAIN filed : filed[i] \in DOMAIN tickets
  /\ pc \notin {"checking", "filing", "filed"} => failures = <<>>
  /\ pc \notin {"filing", "filed"} => filed = <<>>
  /\ Len(filed) <= Len(failures)
  /\ pc = "filing" => Len(filed) = next - 1
  /\ pc = "filed" => Len(filed) = Len(failures)
  /\ \A i, j \in DOMAIN filed : filed[i] = filed[j] => i = j
  /\ \A i \in DOMAIN filed :
       LET c == config.checks[failures[i]]
       IN  tickets[filed[i]].origin = c /\ (Alone(config.checks, c) => tickets[filed[i]].alone)

LEMMA FiledInvInit == Init => FiledInv
BY DEF Init, FiledInv

LEMMA LoadedInvStep ==
  LoadedInv /\ FiledInv /\ [Next]_vars => LoadedInv'
<1>. SUFFICES ASSUME LoadedInv, FiledInv, [Next]_vars
              PROVE  LoadedInv'
  OBVIOUS
<1>0. Idle.before \in Worlds /\ Judgeable(Defaults(env).checks)
  BY IdleIsTyped, DefaultsAreJudgeable
<1>. USE DEF LoadedInv
<1>1. ASSUME NEW l \in {"dot", "top"}, NEW p \in Payloads, Edit(l, p)
      PROVE  LoadedInv'
  BY <1>1 DEF Edit
<1>2. ASSUME NEW force \in BOOLEAN, InitCommand(force)
      PROVE  LoadedInv'
  BY <1>2 DEF InitCommand
<1>3. ASSUME NEW w \in Worlds, Drift(w)
      PROVE  LoadedInv'
  BY <1>3 DEF Drift
<1>4. CASE Check
  <2>1. Judgeable(config'.checks)
    BY <1>4, ResolvedIsKnown, LoadedIsJudgeable DEF Check
  <2>. QED  BY <1>4, <2>1 DEF Check
<1>5. CASE RunNext
  BY <1>5 DEF RunNext
<1>6. CASE ChecksDone
  BY <1>6 DEF ChecksDone
<1>7. CASE FileNext
  <2>. DEFINE ticket == TicketFor(config.checks, failures[next])
  <2>1. failures[next] \in DOMAIN config.checks
    BY <1>7 DEF FileNext, FiledInv
  <2>2. tickets' = Append(tickets, ticket)
    BY <1>7 DEF FileNext, TicketFor, Alone
  <2>3. ticket \in Ticket_ /\ (ticket.alone => ticket.check = Carried(ticket.origin))
    BY <2>1, FiledTicket
  <2>. HIDE DEF ticket
  <2>4. tickets' \in Seq(Ticket_)
    BY <2>2, <2>3
  <2>5. \A t \in DOMAIN tickets' : tickets'[t].alone => tickets'[t].check = Carried(tickets'[t].origin)
    BY <2>2, <2>3
  <2>. QED  BY <1>7, <2>4, <2>5 DEF FileNext
<1>8. CASE FilingDone
  BY <1>8 DEF FilingDone
<1>9. CASE EndCheck
  BY <1>0, <1>9 DEF EndCheck
<1>10. ASSUME NEW t \in DOMAIN tickets, NEW b \in BOOLEAN, Run(t, b)
       PROVE  LoadedInv'
  <2>1. Judgeable(config'.checks)
    BY <1>10, ResolvedIsKnown, LoadedIsJudgeable DEF Run
  <2>2. job'.before \in Worlds /\ DOMAIN job' = DOMAIN Idle
    BY <1>0, <1>10 DEF Run, Idle
  <2>. QED  BY <1>10, <2>1, <2>2 DEF Run
<1>11. ASSUME NEW t \in DOMAIN tickets, NEW b \in BOOLEAN, ActionRun(t, b)
       PROVE  LoadedInv'
  <2>1. Judgeable(config'.checks)
    BY <1>11, RenderedIsJudgeable DEF ActionRun
  <2>2. job'.before \in Worlds /\ DOMAIN job' = DOMAIN Idle
    BY <1>0, <1>11 DEF ActionRun, Idle
  <2>. QED  BY <1>11, <2>1, <2>2 DEF ActionRun
<1>12. CASE RunStops
  BY <1>0, <1>12 DEF RunStops, EndRun
<1>13. ASSUME NEW dirty \in BOOLEAN, NEW w \in Worlds, Patch(dirty, w)
       PROVE  LoadedInv'
  <2>1. job'.before = world /\ DOMAIN job' = DOMAIN job
    <3>1. "before" \in DOMAIN job
      BY DEF Idle
    <3>. QED  BY <1>13, <3>1 DEF Patch
  <2>. QED  BY <1>13, <2>1 DEF Patch
<1>14. CASE Accept
  BY <1>14 DEF Accept
<1>15. CASE Reject
  BY <1>0, <1>15 DEF Reject, EndRun
<1>16. CASE EndAccepted
  BY <1>0, <1>16 DEF EndAccepted, EndRun
<1>17. CASE UNCHANGED vars
  BY <1>17 DEF vars
<1>. QED
  BY <1>1, <1>2, <1>3, <1>4, <1>5, <1>6, <1>7, <1>8, <1>9, <1>10, <1>11, <1>12, <1>13,
     <1>14, <1>15, <1>16, <1>17 DEF Next

LEMMA FiledInvStep ==
  LoadedInv /\ FiledInv /\ [Next]_vars => FiledInv'
<1>. SUFFICES ASSUME LoadedInv, FiledInv, [Next]_vars
              PROVE  FiledInv'
  OBVIOUS
<1>. USE DEF FiledInv
<1>1. ASSUME NEW l \in {"dot", "top"}, NEW p \in Payloads, Edit(l, p)
      PROVE  FiledInv'
  BY <1>1 DEF Edit, check_
<1>2. ASSUME NEW force \in BOOLEAN, InitCommand(force)
      PROVE  FiledInv'
  BY <1>2 DEF InitCommand, check_
<1>3. ASSUME NEW w \in Worlds, Drift(w)
      PROVE  FiledInv'
  BY <1>3 DEF Drift, check_
<1>4. CASE Check
  BY <1>4 DEF Check
<1>5. CASE RunNext
  <2>1. next \in DOMAIN config.checks
    BY <1>5 DEF RunNext, LoadedInv, Judgeable
  <2>2. failures' = Append(failures, next) \/ failures' = failures
    BY <1>5 DEF RunNext
  <2>3. pc = "checking" /\ filed = <<>> /\ filed' = filed
    BY <1>5 DEF RunNext
  <2>. QED  BY <1>5, <2>1, <2>2, <2>3 DEF RunNext
<1>6. CASE ChecksDone
  BY <1>6 DEF ChecksDone
<1>7. CASE FileNext
  <2>. DEFINE ticket == TicketFor(config.checks, failures[next])
  <2>1. /\ pc = "filing" /\ next <= Len(failures) /\ Len(filed) = next - 1
        /\ tickets' = Append(tickets, ticket) /\ filed' = Append(filed, Len(tickets) + 1)
        /\ next' = next + 1 /\ UNCHANGED <<pc, config, failures>>
    BY <1>7 DEF FileNext, TicketFor, Alone
  <2>2. tickets \in Seq(Ticket_) /\ Len(tickets) \in Nat /\ DOMAIN tickets = 1..Len(tickets)
    BY DEF LoadedInv
  <2>3. /\ Len(tickets') = Len(tickets) + 1 /\ DOMAIN tickets' = 1..(Len(tickets) + 1)
        /\ tickets'[Len(tickets) + 1] = ticket
        /\ \A t \in DOMAIN tickets : tickets'[t] = tickets[t]
    <3>. HIDE DEF ticket
    <3>. QED  BY <2>1, <2>2, AppendProperties
  <2>4. /\ filed' \in Seq(Nat) /\ Len(filed') = next /\ DOMAIN filed' = 1..next
        /\ filed'[next] = Len(tickets) + 1
        /\ \A i \in DOMAIN filed : filed'[i] = filed[i]
        /\ DOMAIN filed = 1..(next - 1)
    BY <2>1, <2>2
  <2>5. \A i \in DOMAIN filed' : i = next \/ i \in DOMAIN filed
    BY <2>4
  <2>6. \A i \in DOMAIN filed : filed[i] \in Nat /\ filed[i] <= Len(tickets) /\ filed[i] \in 1..Len(tickets)
    BY <2>2
  <2>7. \A i \in DOMAIN filed' : filed'[i] \in DOMAIN tickets'
    <3>. SUFFICES ASSUME NEW i \in DOMAIN filed'
                  PROVE  filed'[i] \in 1..(Len(tickets) + 1)
      BY <2>3
    <3>1. CASE i = next
      BY <2>2, <2>4, <3>1
    <3>2. CASE i \in DOMAIN filed
      BY <2>2, <2>4, <2>6, <3>2
    <3>. QED  BY <2>5, <3>1, <3>2
  <2>9. \A i, j \in DOMAIN filed' : filed'[i] = filed'[j] => i = j
    <3>. SUFFICES ASSUME NEW i \in DOMAIN filed', NEW j \in DOMAIN filed', filed'[i] = filed'[j]
                  PROVE  i = j
      OBVIOUS
    <3>0. \A k \in DOMAIN filed : filed'[k] # filed'[next]
      BY <2>2, <2>4, <2>6
    <3>1. CASE i = next /\ j \in DOMAIN filed
      BY <3>0, <3>1
    <3>2. CASE j = next /\ i \in DOMAIN filed
      BY <3>0, <3>2
    <3>3. CASE i \in DOMAIN filed /\ j \in DOMAIN filed
      BY <2>4, <3>3
    <3>. QED  BY <2>5, <3>1, <3>2, <3>3
  <2>8. ASSUME NEW i \in DOMAIN filed'
        PROVE  LET c == config.checks[failures[i]]
               IN  /\ tickets'[filed'[i]].origin = c
                   /\ Alone(config.checks, c) => tickets'[filed'[i]].alone
    <3>1. CASE i = next
      BY <2>3, <2>4, <3>1 DEF TicketFor
    <3>2. CASE i \in DOMAIN filed
      <4>1. tickets'[filed'[i]] = tickets[filed[i]]
        BY <2>3, <2>4, <3>2
      <4>. QED  BY <3>2, <4>1
    <3>. QED  BY <2>5, <3>1, <3>2
  <2>10. /\ next' \in Nat /\ next' >= 1 /\ Len(filed') <= Len(failures)
         /\ Len(filed') = next' - 1 /\ pc' = "filing"
    BY <2>1, <2>4
  <2>. HIDE DEF ticket
  <2>. QED  BY <2>1, <2>4, <2>7, <2>8, <2>9, <2>10 DEF Alone
<1>8. CASE FilingDone
  BY <1>8 DEF FilingDone, check_
<1>9. CASE EndCheck
  BY <1>9 DEF EndCheck
<1>10. ASSUME NEW t \in DOMAIN tickets, NEW b \in BOOLEAN, Run(t, b) \/ ActionRun(t, b)
       PROVE  FiledInv'
  <2>1. pc = "idle" /\ pc' = "approve" /\ UNCHANGED <<tickets, next, failures, filed>>
    BY <1>10 DEF Run, ActionRun, check_
  <2>. QED  BY <2>1
<1>11. CASE RunStops \/ Reject \/ EndAccepted
  <2>1. /\ pc \in {"approve", "validate", "accepted"} /\ pc' = "idle"
        /\ UNCHANGED <<tickets, next, failures, filed>>
    BY <1>11 DEF RunStops, Reject, EndAccepted, EndRun, check_
  <2>. QED  BY <2>1
<1>12. ASSUME NEW dirty \in BOOLEAN, NEW w \in Worlds, Patch(dirty, w)
       PROVE  FiledInv'
  BY <1>12 DEF Patch, check_
<1>13. CASE Accept
  BY <1>13 DEF Accept, check_
<1>14. CASE UNCHANGED vars
  BY <1>14 DEF vars, check_
<1>. QED
  BY <1>1, <1>2, <1>3, <1>4, <1>5, <1>6, <1>7, <1>8, <1>9, <1>10, <1>11, <1>12, <1>13,
     <1>14 DEF Next

LEMMA FilingHolds == Spec => [](LoadedInv /\ FiledInv)
<1>1. Init => LoadedInv /\ FiledInv
  BY LoadedInvInit, FiledInvInit
<1>2. LoadedInv /\ FiledInv /\ [Next]_vars => LoadedInv' /\ FiledInv'
  BY LoadedInvStep, FiledInvStep
<1>. QED  BY <1>1, <1>2, PTL DEF Spec

\* EveryFailureIsFiled, for every list of checks, also with the same name twice.
THEOREM FailuresAreFiled == Spec => []EveryFailureIsFiled
<1>1. LoadedInv /\ FiledInv => EveryFailureIsFiled
  <2>. SUFFICES ASSUME LoadedInv, FiledInv, pc = "filed"
                PROVE  EveryFailureIsFiled
    BY DEF EveryFailureIsFiled
  <2>1. Len(filed) = Len(failures) /\ \A i, j \in DOMAIN filed : filed[i] = filed[j] => i = j
    BY DEF FiledInv
  <2>2. ASSUME NEW i \in DOMAIN filed, Alone(config.checks, config.checks[failures[i]])
        PROVE  tickets[filed[i]].check.command = Redacted[config.checks[failures[i]].command]
    <3>. DEFINE c == config.checks[failures[i]]
                t == tickets[filed[i]]
    <3>1. t.origin = c /\ t.alone /\ filed[i] \in DOMAIN tickets
      BY <2>2 DEF FiledInv
    <3>2. t.check = Carried(c)
      BY <3>1 DEF LoadedInv
    <3>3. t \in Ticket_
      BY <3>1 DEF LoadedInv
    <3>4. c \in Check_
      BY <3>1, <3>3 DEF Ticket_
    <3>5. Carried(c).command = Redacted[c.command]
      BY <3>4 DEF Carried, Check_
    <3>. QED  BY <3>2, <3>5
  <2>. QED  BY <2>1, <2>2 DEF EveryFailureIsFiled, Alone
<1>. QED  BY <1>1, FilingHolds, PTL

-----------------------------------------------------------------------------
\* A run is about a ticket that is there, and it has accepted only what passed.
AcceptedInv ==
  /\ pc \in {"approve", "validate", "accepted"} => job.ticket \in DOMAIN tickets
  /\ pc = "accepted" => RecheckPasses(tickets[job.ticket].check, world)

LEMMA AcceptedInvInit == Init => AcceptedInv
BY DEF Init, AcceptedInv

LEMMA AcceptedInvStep ==
  LoadedInv /\ AcceptedInv /\ [Next]_vars => AcceptedInv'
<1>. SUFFICES ASSUME LoadedInv, AcceptedInv, [Next]_vars
              PROVE  AcceptedInv'
  OBVIOUS
<1>. USE DEF AcceptedInv
<1>1. ASSUME NEW l \in {"dot", "top"}, NEW p \in Payloads, Edit(l, p)
      PROVE  AcceptedInv'
  BY <1>1 DEF Edit
<1>2. ASSUME NEW force \in BOOLEAN, InitCommand(force)
      PROVE  AcceptedInv'
  BY <1>2 DEF InitCommand
<1>3. ASSUME NEW w \in Worlds, Drift(w)
      PROVE  AcceptedInv'
  BY <1>3 DEF Drift
<1>4. CASE Check \/ RunNext \/ ChecksDone \/ FileNext \/ FilingDone \/ EndCheck
  <2>1. pc' \notin {"approve", "validate", "accepted"}
    BY <1>4 DEF Check, RunNext, ChecksDone, FileNext, FilingDone, EndCheck
  <2>. QED  BY <2>1
<1>5. ASSUME NEW t \in DOMAIN tickets, NEW b \in BOOLEAN, Run(t, b) \/ ActionRun(t, b)
      PROVE  AcceptedInv'
  <2>1. pc' = "approve" /\ tickets' = tickets
    BY <1>5 DEF Run, ActionRun
  <2>2. job'.ticket = t
    BY <1>5 DEF Run, ActionRun, Idle
  <2>. QED  BY <2>1, <2>2
<1>6. CASE RunStops \/ Reject \/ EndAccepted
  BY <1>6 DEF RunStops, Reject, EndAccepted, EndRun
<1>7. ASSUME NEW dirty \in BOOLEAN, NEW w \in Worlds, Patch(dirty, w)
      PROVE  AcceptedInv'
  <2>1. pc = "approve" /\ pc' = "validate" /\ tickets' = tickets
    BY <1>7 DEF Patch
  <2>2. job'.ticket = job.ticket
    BY <1>7 DEF Patch, LoadedInv, Idle
  <2>. QED  BY <2>1, <2>2
<1>8. CASE Accept
  BY <1>8 DEF Accept
<1>9. CASE UNCHANGED vars
  BY <1>9 DEF vars
<1>. QED
  BY <1>1, <1>2, <1>3, <1>4, <1>5, <1>6, <1>7, <1>8, <1>9 DEF Next

\* A check that passes when it is run again is green, whatever it expects.
LEMMA PassingIsGreen ==
  ASSUME NEW c, Judged(c), NEW w \in Worlds, RecheckPasses(c, w)
  PROVE  Green(c, w)
<1>1. w[c.command].ends \in {"zero", "nonzero"}
  BY DEF Judged, RecheckPasses, Fails, Ends
<1>2. c.expect \in {"exit_zero", "matches", "not_matches"}
  BY DEF Judged, ValidCheck
<1>3. CASE c.expect = "exit_zero"
  <2>1. w[c.command].ends = "zero"
    BY <1>3 DEF RecheckPasses, Fails
  <2>. QED  BY <1>1, <1>3, <2>1 DEF Green
<1>4. CASE c.expect = "matches"
  <2>1. c.pattern \notin w[c.command].shows
    BY <1>4 DEF RecheckPasses, Fails
  <2>. QED  BY <1>1, <1>4, <2>1 DEF Green
<1>5. CASE c.expect = "not_matches"
  <2>1. c.pattern \in w[c.command].shows
    BY <1>5 DEF RecheckPasses, Fails
  <2>. QED  BY <1>1, <1>5, <2>1 DEF Green
<1>. QED  BY <1>2, <1>3, <1>4, <1>5

\* AcceptedCheckIsGreen, for every list of checks and every watched system.
THEOREM AcceptedIsGreen == Spec => []AcceptedCheckIsGreen
<1>1. LoadedInv /\ AcceptedInv => AcceptedCheckIsGreen
  <2>. SUFFICES ASSUME LoadedInv, AcceptedInv, pc = "accepted", tickets[job.ticket].alone,
                       Carried(tickets[job.ticket].origin) = tickets[job.ticket].origin
                PROVE  Green(tickets[job.ticket].origin, world)
    BY DEF AcceptedCheckIsGreen
  <2>. DEFINE t == tickets[job.ticket]
  <2>1. job.ticket \in DOMAIN tickets /\ RecheckPasses(t.check, world)
    BY DEF AcceptedInv
  <2>2. t.check = t.origin
    BY <2>1 DEF LoadedInv
  <2>3. t \in Ticket_ /\ world \in Worlds
    BY <2>1 DEF LoadedInv
  <2>4. Judged(t.origin)
    BY <2>3 DEF Ticket_
  <2>. QED  BY <2>1, <2>2, <2>3, <2>4, PassingIsGreen
<1>2. Init => AcceptedInv
  BY AcceptedInvInit
<1>3. LoadedInv /\ AcceptedInv /\ [Next]_vars => AcceptedInv'
  BY AcceptedInvStep
<1>. QED  BY <1>1, <1>2, <1>3, FilingHolds, PTL DEF Spec

-----------------------------------------------------------------------------
\* The settings a run decides by, and the ticket it is about.
Settled(c) ==
  c.approval.require_human_approval \in BOOLEAN /\ c.patch.max_files_changed \in Int

SettledInv ==
  /\ DOMAIN files \subseteq {"dot", "top"} /\ pc \in Labels /\ steps \in Nat
  /\ Settled(config)
  /\ job.ticket \in 0..Len(tickets)

LEMMA ReadIsSettled ==
  ASSUME NEW p, NEW e, NEW f, NEW agent, NEW approval \in BOOLEAN,
         p \in Payloads \cup {DefaultPayload, NoKeys}
  PROVE  /\ Settled(FromDict(p, e))
         /\ Settled(FromDict(Rendered(ActionConfig(FromDict(p, e), agent, approval)), f))
<1>. DEFINE c == FromDict(p, e)
            q == Rendered(ActionConfig(c, agent, approval))
<1>1. c.patch = PatchFrom(PatchPart(p)) /\ c.approval.require_human_approval \in BOOLEAN
  BY BoolIsBoolean DEF FromDict, ApprovalFrom
<1>2. c.patch.max_files_changed \in Int
  <2>1. CASE p \in Payloads
    <3>1. \A m \in {p, Section(p, "patch")} :
            Has(m, "max_files_changed") => m["max_files_changed"] \in Int
      BY <2>1, ChecksAssumption
    <3>2. Get(PatchPart(p), "max_files_changed", 8) \in Int
      BY <3>1 DEF PatchPart, Section, Get, Has
    <3>. QED  BY <1>1, <3>2 DEF PatchFrom
  <2>2. CASE p = NoKeys
    <3>1. Get(PatchPart(p), "max_files_changed", 8) = 8
      BY <2>2 DEF PatchPart, NoKeys, Get, Has
    <3>. QED  BY <1>1, <3>1 DEF PatchFrom
  <2>3. CASE p = DefaultPayload
    <3>. DEFINE d == FromDict(NoKeys, [ci |-> "unset", auto |-> "unset"])
    <3>1. Get(PatchPart(NoKeys), "max_files_changed", 8) = 8
      BY DEF PatchPart, NoKeys, Get, Has
    <3>2. d.patch.max_files_changed = 8
      BY <3>1 DEF FromDict, PatchFrom
    <3>. HIDE DEF d
    <3>3. Get(PatchPart(p), "max_files_changed", 8) = d.patch.max_files_changed
      BY <2>3 DEF DefaultPayload, d, ToDict, PatchPart, Get, Has
    <3>. QED  BY <1>1, <3>2, <3>3 DEF PatchFrom
  <2>. QED  BY <2>1, <2>2, <2>3
<1>3. FromDict(q, f).approval.require_human_approval = approval
  BY ActionIsReadBack
<1>4. FromDict(q, f).patch.max_files_changed = c.patch.max_files_changed
  <2>. DEFINE a == ActionConfig(c, agent, approval)
  <2>1. a.patch = c.patch
    BY DEF ActionConfig, FromDict
  <2>2. Get(PatchPart(Rendered(a)), "max_files_changed", 8) = a.patch.max_files_changed
    <3>. HIDE DEF a
    <3>. QED  BY DEF Rendered, ToDict, PatchPart, Get, Has
  <2>3. FromDict(q, f).patch.max_files_changed = Get(PatchPart(q), "max_files_changed", 8)
    BY DEF FromDict, PatchFrom
  <2>. QED  BY <2>1, <2>2, <2>3
<1>. QED  BY <1>1, <1>2, <1>3, <1>4 DEF Settled

LEMMA DefaultsAreSettled == ASSUME NEW e PROVE Settled(Defaults(e))
BY ReadIsSettled DEF Defaults

LEMMA SettledInvInit == Init => SettledInv
<1>1. Idle.ticket = 0
  BY DEF Idle
<1>. QED  BY <1>1, DefaultsAreSettled DEF Init, SettledInv, Labels

LEMMA SettledInvStep ==
  LoadedInv /\ SettledInv /\ [Next]_vars => SettledInv'
<1>. SUFFICES ASSUME LoadedInv, SettledInv, [Next]_vars
              PROVE  SettledInv'
  OBVIOUS
<1>. USE DEF SettledInv
<1>1. Idle.ticket = 0 /\ Settled(Defaults(env)) /\ Len(tickets) \in Nat
  BY DefaultsAreSettled DEF Idle, LoadedInv
<1>2. ASSUME NEW l \in {"dot", "top"}, NEW p \in Payloads, Edit(l, p)
      PROVE  SettledInv'
  BY <1>2 DEF Edit, Count
<1>3. ASSUME NEW force \in BOOLEAN, InitCommand(force)
      PROVE  SettledInv'
  BY <1>3 DEF InitCommand, Count
<1>4. ASSUME NEW w \in Worlds, Drift(w)
      PROVE  SettledInv'
  BY <1>4 DEF Drift, Count
<1>5. CASE Check
  <2>1. Settled(config')
    BY <1>5, ResolvedIsKnown, ReadIsSettled DEF Check
  <2>. QED  BY <1>5, <2>1 DEF Check, Count, Labels
<1>6. CASE RunNext \/ ChecksDone \/ FilingDone
  BY <1>6 DEF RunNext, ChecksDone, FilingDone, check_, Labels
<1>7. CASE FileNext
  <2>1. UNCHANGED <<files, pc, config, job, steps>>
    BY <1>7 DEF FileNext
  <2>2. Len(tickets') = Len(tickets) + 1
    BY <1>7 DEF FileNext, LoadedInv
  <2>. QED  BY <1>1, <2>1, <2>2
<1>8. CASE EndCheck
  BY <1>1, <1>8 DEF EndCheck, Labels
<1>9. ASSUME NEW t \in DOMAIN tickets, NEW b \in BOOLEAN, Run(t, b)
      PROVE  SettledInv'
  <2>1. Settled(config')
    BY <1>9, ResolvedIsKnown, ReadIsSettled DEF Run
  <2>2. job'.ticket = t /\ t \in 0..Len(tickets)
    BY <1>9 DEF Run, Idle, LoadedInv
  <2>. QED  BY <1>9, <2>1, <2>2 DEF Run, Count, Labels
<1>10. ASSUME NEW t \in DOMAIN tickets, NEW b \in BOOLEAN, ActionRun(t, b)
       PROVE  SettledInv'
  <2>1. Settled(config')
    BY <1>10, ResolvedIsKnown, ReadIsSettled DEF ActionRun
  <2>2. job'.ticket = t /\ t \in 0..Len(tickets)
    BY <1>10 DEF ActionRun, Idle, LoadedInv
  <2>. QED  BY <1>10, <2>1, <2>2 DEF ActionRun, Count, Labels
<1>11. CASE RunStops \/ Reject \/ EndAccepted
  <2>1. /\ pc' = "idle" /\ config' = Defaults(env) /\ job' = Idle
        /\ UNCHANGED <<files, tickets, steps>>
    BY <1>11 DEF RunStops, Reject, EndAccepted, EndRun
  <2>. QED  BY <1>1, <2>1 DEF Labels
<1>12. ASSUME NEW dirty \in BOOLEAN, NEW w \in Worlds, Patch(dirty, w)
       PROVE  SettledInv'
  <2>1. pc' = "validate" /\ UNCHANGED <<files, tickets, config, steps>>
    BY <1>12 DEF Patch
  <2>2. job'.ticket = job.ticket
    BY <1>12 DEF Patch, LoadedInv, Idle
  <2>. QED  BY <2>1, <2>2 DEF Labels
<1>13. CASE Accept
  BY <1>13 DEF Accept, Labels
<1>14. CASE UNCHANGED vars
  BY <1>14 DEF vars
<1>. QED
  BY <1>2, <1>3, <1>4, <1>5, <1>6, <1>7, <1>8, <1>9, <1>10, <1>11, <1>12, <1>13, <1>14
     DEF Next

\* Whatever the files say, the settings of a command are of their types, so that
\* approval is asked or not and the bound on files can be compared; and a run is
\* about a ticket that has been filed (models.py:76-83, 176-259).
THEOREM Typing == Spec => []TypeOK
<1>1. ConsentInv /\ LoadedInv /\ FiledInv /\ SettledInv => TypeOK
  <2>. SUFFICES ASSUME ConsentInv, LoadedInv, FiledInv, SettledInv
                PROVE  TypeOK
    OBVIOUS
  <2>1. \A i \in DOMAIN tickets :
          /\ tickets[i].check \in Check_ /\ ValidCheck(tickets[i].origin)
          /\ tickets[i].alone \in BOOLEAN
    <3>. SUFFICES ASSUME NEW i \in DOMAIN tickets
                  PROVE  /\ tickets[i].check \in Check_ /\ ValidCheck(tickets[i].origin)
                         /\ tickets[i].alone \in BOOLEAN
      OBVIOUS
    <3>1. tickets[i] \in Ticket_
      BY DEF LoadedInv
    <3>2. /\ tickets[i].check \in Check_ /\ Judged(tickets[i].origin)
          /\ tickets[i].alone \in BOOLEAN
      BY <3>1 DEF Ticket_
    <3>. QED  BY <3>2 DEF Judged
  <2>. QED  BY <2>1 DEF ConsentInv, LoadedInv, FiledInv, SettledInv, Settled, TypeOK
<1>2. Init => SettledInv
  BY SettledInvInit
<1>3. LoadedInv /\ SettledInv /\ [Next]_vars => SettledInv'
  BY SettledInvStep
<1>. QED  BY <1>1, <1>2, <1>3, ConsentInvHolds, FilingHolds, PTL DEF Spec
=============================================================================
