----------------------------- MODULE PatchPolicy -----------------------------
(***************************************************************************)
(* What an agent's answer must be for a run to try it (automaxfix/         *)
(* patch_parser.py, validate_patch_text, and the path rules of safety.py): *)
(* the text is parsed line by line, each change it names is judged, and    *)
(* the verdict says whether the run goes on, asks again or gives up        *)
(* (ValidDiff, RetryDiff and InvalidDiff of RepairRun).  A diff is chosen  *)
(* by what it does to which file and rendered as git renders it, so that   *)
(* what the loop makes of the lines is compared with what they mean.  The  *)
(* loop keeps no count of a hunk's lines: an added line that begins with   *)
(* "++ " is read as the line that names the new file, and a removed one    *)
(* that begins with "-- " as the line that names the old.                  *)
(***************************************************************************)
EXTENDS Naturals, SequencesExt

CONSTANTS
  Configs,            \* config.patch: the values that matter here
  AllowedPaths,       \* config.allowed_paths
  BlockedPaths,       \* config.blocked_paths
  Existing,           \* files of the repository
  ReproductionTest,   \* ticket.reproduction_test, <<>> for none
  Sections,           \* what one section of a diff does to which file
  Malformed,          \* texts with no section in them, as lines
  MaxSections         \* bound: sections of a diff

\* A path is the sequence of its parts, relative to the repository.
Parts == {"src", "gen", "tests", "secrets", ".env", "cfg", "a", "b", "test_a", ".."}
Paths == Seq(Parts)
NoPath == <<>>

ConfigType ==
  [maxFiles : Nat, unified : BOOLEAN, newTests : BOOLEAN, newSource : BOOLEAN,
   blockTests : BOOLEAN]

\* A line of a text is of a kind, and may name a file; the header of a section
\* does.  A bad header is one that the pattern for headers does not match, and
\* prose says nothing.
Kinds == {"diff-git", "new-file", "deleted-file", "---", "+++", "+", "+danger",
          "binary", "mode", "rename", "bad-header", "prose"}
LineType ==
  {line \in [kind : Kinds, path : Paths] : line.kind = "diff-git" => line.path # NoPath}

\* A line of a hunk, as the parser sees it: "+++" is an added "++ <path>", "---" a
\* removed "-- <path>", prose a context line or another removed one.  A line of
\* any sort that holds a refused text is of the kind of that text.
HunkKinds == {"---", "+++", "+", "+danger", "binary", "mode", "rename", "prose"}
HunkLine == {line \in LineType : line.kind \in HunkKinds}

SectionType ==
  [path : Paths \ {NoPath},
   op : {"edit", "create", "touch", "delete", "binary", "mode", "rename"},
   hunk : Seq(HunkLine)]

ASSUME PatchPolicyAssumption ==
  /\ Configs \subseteq ConfigType /\ Sections \subseteq SectionType
  /\ \A text \in Malformed :
       text \in Seq(LineType) /\ \A i \in DOMAIN text : text[i].kind # "diff-git"
  /\ AllowedPaths \subseteq Paths /\ BlockedPaths \subseteq Paths
  /\ Existing \subseteq Paths /\ ReproductionTest \in Paths
  /\ MaxSections \in Nat

-----------------------------------------------------------------------------
\* The lines of a diff.
Line(kind, path) == [kind |-> kind, path |-> path]
Header(p) == Line("diff-git", p)

\* Texts that are refused wherever they stand.
Markers == {"binary", "mode", "rename"}

\* git's rendering of a section: what happens to which file, then its hunks.
Preamble(s) ==
  CASE s.op = "edit"   -> <<Line("---", s.path), Line("+++", s.path)>>
    [] s.op = "create" -> <<Line("new-file", NoPath), Line("---", NoPath), Line("+++", s.path)>>
    [] s.op = "touch"  -> <<Line("new-file", NoPath)>>
    [] s.op = "delete" -> <<Line("deleted-file", NoPath), Line("---", s.path), Line("+++", NoPath)>>
    [] OTHER           -> <<Line(s.op, NoPath)>>

Rendered(s) == <<Header(s.path)>> \o (Preamble(s) \o s.hunk)

-----------------------------------------------------------------------------
\* Path.resolve: ".." takes a part away; above the repository it is outside.
Outside == <<"..">>
Step(p, part) ==
  IF p = Outside THEN p
  ELSE IF part # ".." THEN Append(p, part)
  ELSE IF p = <<>> THEN Outside
  ELSE Front(p)
Resolve(p) == FoldLeft(Step, <<>>, p)

\* _is_sensitive_path: some names anywhere, others as the file's own name.
Sensitive(p) == (\E i \in DOMAIN p : p[i] = "secrets") \/ Last(p) = ".env"

\* _path_matches_prefix
MatchesPrefix(p, prefixes) == \E prefix \in prefixes : IsPrefix(prefix, p)

\* _is_test_path: by a directory or by the name, of the path as it is written.
IsTest(p) == (\E i \in DOMAIN p : p[i] = "tests") \/ Last(p) = "test_a"

\* Mutant: blocked_paths are not looked at where an allowed path matches.
PathErrorsAllowedFirst(p) ==
  IF Resolve(p) = Outside THEN {"outside"}
  ELSE IF \/ Sensitive(Resolve(p))
          \/ ~MatchesPrefix(Resolve(p), AllowedPaths)
  THEN {"editing"} ELSE {}

\* validate_edit_path, the reason it raises.
PathErrors(p) ==
  IF Resolve(p) = Outside THEN {"outside"}
  ELSE IF \/ Sensitive(Resolve(p))
          \/ MatchesPrefix(Resolve(p), BlockedPaths)
          \/ ~MatchesPrefix(Resolve(p), AllowedPaths)
  THEN {"editing"} ELSE {}

IsReproduction(p) == ReproductionTest # <<>> /\ Resolve(p) = Resolve(ReproductionTest)

-----------------------------------------------------------------------------
VARIABLES
  config,
  sections,   \* history: what the diff does
  lines,      \* its text, as lines
  pc, at,     \* phase, and the next line or change
  changes,    \* parse_unified_diff
  errors,     \* kinds of the messages so far
  retry,      \* retryable_invalid_diff
  files, created, deleted   \* of the result

result == <<errors, retry, files, created, deleted>>
vars == <<config, sections, lines, pc, at, changes, result>>

Change(p) == [path |-> p, old |-> p, new |-> p, isNew |-> FALSE, isDeleted |-> FALSE,
              danger |-> FALSE]

Either(p, q) == IF p # NoPath THEN p ELSE q

\* Mutant: a deletion has no path.
EffectNoFallback(line, c) ==
  CASE line.kind = "new-file"     -> [c EXCEPT !.isNew = TRUE]
    [] line.kind = "deleted-file" -> [c EXCEPT !.isDeleted = TRUE]
    [] line.kind = "---"          -> [c EXCEPT !.old = line.path]
    [] line.kind = "+++"          -> [c EXCEPT !.new = line.path, !.path = line.path]
    [] line.kind = "+danger"      -> [c EXCEPT !.danger = TRUE]
    [] OTHER                      -> c

\* What a line says of the change it belongs to.
Effect(line, c) ==
  CASE line.kind = "new-file"     -> [c EXCEPT !.isNew = TRUE]
    [] line.kind = "deleted-file" -> [c EXCEPT !.isDeleted = TRUE]
    [] line.kind = "---"          -> [c EXCEPT !.old = line.path]
    [] line.kind = "+++"          -> [c EXCEPT !.new = line.path,
                                               !.path = Either(line.path, Either(c.old, c.path))]
    [] line.kind = "+danger"      -> [c EXCEPT !.danger = TRUE]
    [] OTHER                      -> c

Target(c) == Either(c.new, Either(c.old, c.path))

TextHas(kinds) == \E i \in DOMAIN lines : lines[i].kind \in kinds

\* Mutant: any answer without a change is asked for again.
FinalNone == {}

\* Errors after which the agent is not asked again.
Final == {"editing", "new-test", "new-source", "deleted", "missing", "reproduction",
          "test-edit", "danger"} \cup Markers

-----------------------------------------------------------------------------
Init ==
  /\ config \in Configs
  /\ \/ \E s \in SeqOf(Sections, MaxSections) \ {<<>>} :
          sections = s /\ lines = FlattenSeq([i \in DOMAIN s |-> Rendered(s[i])])
     \/ sections = <<>> /\ lines \in Malformed
  /\ pc = "text" /\ at = 1
  /\ changes = <<>> /\ errors = {} /\ retry = FALSE
  /\ files = <<>> /\ created = <<>> /\ deleted = <<>>

\* The checks on the text as a whole.
CheckText ==
  /\ pc = "text" /\ pc' = "parse"
  /\ LET bare == config.unified /\ ~TextHas({"diff-git", "bad-header"})
     IN  /\ errors' = {m \in Markers : TextHas({m})}
                        \cup (IF bare THEN {"not-unified"} ELSE {})
         /\ retry' = bare
  /\ UNCHANGED <<config, sections, lines, at, changes, files, created, deleted>>

ParseLine ==
  /\ pc = "parse" /\ at <= Len(lines)
  /\ LET line == lines[at]
     IN  changes' = IF line.kind = "diff-git" THEN Append(changes, Change(line.path))
                    ELSE IF changes = <<>> THEN changes
                    ELSE [changes EXCEPT ![Len(changes)] = Effect(line, @)]
  /\ at' = at + 1
  /\ UNCHANGED <<config, sections, lines, pc, result>>

\* Nothing parsed, or too much.
CheckCount ==
  /\ pc = "parse" /\ at > Len(lines)
  /\ pc' = "judge" /\ at' = 1
  /\ errors' = errors \cup (IF changes = <<>> THEN {"empty"} ELSE {})
                      \cup (IF Len(changes) > config.maxFiles THEN {"too-many"} ELSE {})
  /\ retry' = (retry \/ changes = <<>>)
  /\ UNCHANGED <<config, sections, lines, changes, files, created, deleted>>

Judging == pc = "judge" /\ at <= Len(changes) /\ at' = at + 1
judged == Target(changes[at])

RefusePath ==
  /\ Judging /\ PathErrors(judged) # {}
  /\ errors' = errors \cup PathErrors(judged)
  /\ UNCHANGED <<config, sections, lines, pc, changes, retry, files, created, deleted>>

RefuseReproduction ==
  /\ Judging /\ PathErrors(judged) = {} /\ IsReproduction(judged)
  /\ errors' = errors \cup {"reproduction"}
  /\ UNCHANGED <<config, sections, lines, pc, changes, retry, files, created, deleted>>

Editable == PathErrors(judged) = {} /\ ~IsReproduction(judged)

RefuseDeletion ==
  /\ Judging /\ Editable /\ changes[at].isDeleted
  /\ files' = Append(files, judged) /\ deleted' = Append(deleted, judged)
  /\ errors' = errors \cup {"deleted"}
  /\ UNCHANGED <<config, sections, lines, pc, changes, retry, created>>

\* What is wrong with a change of this file: its creation, or its edit.
ContentErrors(c, p) ==
  (IF c.danger THEN {"danger"} ELSE {}) \cup
  (IF c.isNew
   THEN IF IsTest(p)
        THEN IF config.newTests THEN {} ELSE {"new-test"}
        ELSE IF config.newSource THEN {} ELSE {"new-source"}
   ELSE IF Resolve(p) \notin Existing THEN {"missing"}
   ELSE IF config.blockTests /\ IsTest(p) THEN {"test-edit"} ELSE {})

\* Mutant: a created file is listed only when it is a test.
JudgeListsTests ==
  /\ Judging /\ Editable /\ ~changes[at].isDeleted
  /\ files' = Append(files, judged)
  /\ created' = IF changes[at].isNew /\ IsTest(judged) THEN Append(created, judged) ELSE created
  /\ errors' = errors \cup ContentErrors(changes[at], judged)
  /\ UNCHANGED <<config, sections, lines, pc, changes, retry, deleted>>

Judge ==
  /\ Judging /\ Editable /\ ~changes[at].isDeleted
  /\ files' = Append(files, judged)
  /\ created' = IF changes[at].isNew THEN Append(created, judged) ELSE created
  /\ errors' = errors \cup ContentErrors(changes[at], judged)
  /\ UNCHANGED <<config, sections, lines, pc, changes, retry, deleted>>

Conclude ==
  /\ pc = "judge" /\ at > Len(changes)
  /\ pc' = "done"
  /\ retry' = (retry /\ errors \cap Final = {})
  /\ UNCHANGED <<config, sections, lines, at, changes, errors, files, created, deleted>>

Next ==
  \/ CheckText \/ ParseLine \/ CheckCount
  \/ RefusePath \/ RefuseReproduction \/ RefuseDeletion \/ Judge
  \/ Conclude

Spec == Init /\ [][Next]_vars

-----------------------------------------------------------------------------
ChangeType ==
  [path : Paths \ {NoPath}, old : Paths, new : Paths, isNew : BOOLEAN,
   isDeleted : BOOLEAN, danger : BOOLEAN]

TypeOK ==
  /\ config \in Configs /\ sections \in Seq(Sections) /\ lines \in Seq(LineType)
  /\ pc \in {"text", "parse", "judge", "done"} /\ at \in Nat \ {0}
  /\ changes \in Seq(ChangeType)
  /\ retry \in BOOLEAN
  /\ errors \subseteq Final \cup {"not-unified", "empty", "too-many", "outside"}
  /\ files \in Seq(Paths) /\ created \in Seq(Paths) /\ deleted \in Seq(Paths)

\* What the policy says of a file, and of what a section does if that is its file.
PathIsOpen(p) ==
  /\ Resolve(p) # Outside /\ ~Sensitive(Resolve(p)) /\ ~IsReproduction(p)
  /\ \E allowed \in AllowedPaths : IsPrefix(allowed, Resolve(p))
  /\ \A blocked \in BlockedPaths : ~IsPrefix(blocked, Resolve(p))

IsPermitted(s, p) ==
  /\ PathIsOpen(p)
  /\ \/ s.op = "edit" /\ Resolve(p) \in Existing /\ (IsTest(p) => ~config.blockTests)
     \/ /\ s.op \in {"create", "touch"}
        /\ IF IsTest(p) THEN config.newTests ELSE config.newSource
  /\ \A i \in DOMAIN s.hunk : s.hunk[i].kind # "+danger"

\* The files that the names in a section leave it to be: its own, or the one that
\* the last of its added lines to look like a header names.  If that line names
\* none, any file it has named before may do.
NamesAFile(s, i) == s.hunk[i].kind = "+++"
NamesItLast(s, i) ==
  NamesAFile(s, i) /\ \A j \in DOMAIN s.hunk : j > i => ~NamesAFile(s, j)
HeaderNames(s) ==
  {s.path} \cup ({s.hunk[i].path : i \in {j \in DOMAIN s.hunk : s.hunk[j].kind \in {"---", "+++"}}}
                   \ {NoPath})

Names(s) ==
  {p \in HeaderNames(s) :
     /\ (\A i \in DOMAIN s.hunk : ~NamesAFile(s, i)) => p = s.path
     /\ \A i \in DOMAIN s.hunk :
          NamesItLast(s, i) /\ s.hunk[i].path # NoPath => p = s.hunk[i].path}

Fits == Len(sections) \in 1..config.maxFiles /\ ~TextHas(Markers)

\* A diff is valid exactly when it fits and the policy permits each of its
\* sections, in whatever order they come: no section is judged by a path or a flag
\* of another (patch_parser.py:29-61, 106-130, 132-179).  A section is judged as an
\* edit of its own file, unless a line it adds begins with "++ ": then of the file
\* the last such line names (patch_parser.py:52-54); and a refused text is refused
\* in the middle of an added line too (patch_parser.py:110-116).
VerdictIsThePolicy ==
  pc = "done" =>
    /\ errors = {} =>
         Fits /\ \A i \in DOMAIN sections : \E p \in Names(sections[i]) :
                   IsPermitted(sections[i], p)
    /\ Fits /\ (\A i \in DOMAIN sections : \A p \in Names(sections[i]) :
                  IsPermitted(sections[i], p))
         => errors = {}

\* The agent is asked again exactly when its answer held no diff at all; a diff
\* that breaks the policy ends the run (patch_parser.py:181-196, cli.py:356-393).
OnlyMalformedIsRetried ==
  pc = "done" => (retry <=> sections = <<>> /\ ~TextHas(Markers))

\* A list holds the chosen ones of all the paths, in their order.
ListsInOrder(list, all, chosen) ==
  \E place \in [DOMAIN list -> chosen] :
    /\ \A i, j \in DOMAIN list : i < j => place[i] < place[j]
    /\ \A k \in chosen : \E i \in DOMAIN list : place[i] = k
    /\ \A i \in DOMAIN list : list[i] = all[place[i]]

\* What the run reports and asks approval for is one file for each section of the
\* diff, in their order, under a name that section gives it; the created ones are
\* those that do not edit, and none is deleted (patch_parser.py:52-54, 152-161,
\* cli.py:1078-1087).
SummaryIsTheDiff ==
  pc = "done" /\ errors = {} =>
    /\ DOMAIN files = DOMAIN sections
    /\ \A i \in DOMAIN sections : files[i] \in Names(sections[i])
    /\ ListsInOrder(created, files, {i \in DOMAIN sections : sections[i].op # "edit"})
    /\ deleted = <<>>
=============================================================================
