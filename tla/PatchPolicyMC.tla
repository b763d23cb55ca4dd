---------------------------- MODULE PatchPolicyMC ----------------------------
(* A small repository, its policy, and the diffs an agent may answer with. *)
EXTENDS PatchPolicy

SrcA == <<"src", "a">>
SrcB == <<"src", "b">>
Repro == <<"tests", "test_a">>
Allowed == {<<"src">>, <<"tests">>}
Blocked == {<<"src", "gen">>}
Files == {SrcA, <<"src", "gen", "a">>, <<"src", "secrets", "a">>, <<"src", "test_a">>,
          <<"tests", "a">>, Repro, <<"cfg">>, <<"src", ".env">>}

SomePaths == Files \cup {SrcB, <<"tests", "b">>, <<"..", "a">>, <<"src", "..", "cfg">>,
                     <<"src", "gen", "..", "a">>}

Section(p, op, hunk) == [path |-> p, op |-> op, hunk |-> hunk]
Plain == <<Line("+", NoPath)>>
Danger == <<Line("+danger", NoPath), Line("+", NoPath)>>
Removes(p) == Line("---", p)
Adds(p) == Line("+++", p)

\* Sections whose hunks hold lines that look like something else.
Lookalikes ==
  {Section(SrcA, "edit", <<Removes(<<"b">>), Line("+", NoPath)>>),
   Section(<<"cfg">>, "edit", <<Adds(SrcA)>>),
   Section(SrcA, "edit", <<Adds(<<"cfg">>)>>),
   Section(SrcA, "edit", <<Adds(SrcB), Adds(SrcA)>>),
   Section(SrcA, "edit", <<Removes(<<"cfg">>), Adds(NoPath)>>),
   Section(SrcA, "edit", <<Removes(NoPath), Adds(NoPath)>>),
   Section(SrcB, "create", <<Adds(<<"tests", "b">>), Line("prose", NoPath)>>),
   Section(SrcA, "delete", <<Removes(<<"tests", "a">>)>>),
   Section(SrcA, "edit", <<Line("rename", NoPath)>>)}

SomeSections ==
  {Section(p, op, Plain) : p \in SomePaths, op \in {"edit", "create"}}
    \cup {Section(p, "delete", <<>>) : p \in {SrcA, SrcB, Repro}}
    \cup {Section(SrcA, op, <<>>) : op \in {"binary", "mode", "rename"}}
    \cup {Section(SrcB, "touch", <<>>), Section(SrcA, "edit", Danger)}
    \cup Lookalikes

NoDiffs ==
  {<<>>, <<Line("prose", NoPath)>>, <<Line("bad-header", NoPath), Line("+", NoPath)>>,
   <<Line("---", SrcA), Line("+++", SrcA), Line("+", NoPath)>>,
   <<Line("prose", NoPath), Line("rename", NoPath)>>}

SomeConfigs ==
  [maxFiles : {1, 8}, unified : {TRUE}, newTests : BOOLEAN, newSource : BOOLEAN,
   blockTests : {TRUE}]
    \cup [maxFiles : {8}, unified : BOOLEAN, newTests : {TRUE}, newSource : {TRUE},
          blockTests : {FALSE}]
==============================================================================
