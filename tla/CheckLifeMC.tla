---------------------------- MODULE CheckLifeMC ----------------------------
(* Small instances of CheckLife: five configuration files, two commands. *)
EXTENDS CheckLife

Make(name, command, expect, pattern) ==
  [name |-> name, command |-> command, expect |-> expect, pattern |-> pattern]

Exits == Make("exits", "c1", "exit_zero", "")
Leak == Make("leak", "c2", "matches", "error")
Marker == Make("marker", "c2", "not_matches", "error")
Twin == Make("leak", "c1", "not_matches", "error")
KeyLeak == Make("key", "c2", "matches", "key")        \* e.g. API_KEY=\S+
Broken == Make("broken", "c1", "matches", "(key")     \* does not compile

TwoChecks == [checks |-> <<Exits, Leak>>, approval |-> [require_human_approval |-> "true"],
              require_human_approval |-> "false"]
SameName == [checks |-> <<Leak, Twin>>, ci_mode |-> "true"]
MarkerOnly == [checks |-> <<Marker>>, require_human_approval |-> Null]
BrokenCheck == [checks |-> <<Exits, Broken>>]
NoPaths == [checks |-> <<Exits>>, allowed_paths |-> <<>>,
            approval |-> [require_human_approval |-> "false"]]
SomePayloads == {TwoChecks, SameName, MarkerOnly, BrokenCheck, NoPaths}

\* The configuration of README.md:162-178, with another bound.
ReadmePayload ==
  [max_files_changed |-> 4, patch |-> [max_patch_attempts |-> 3], checks |-> <<Exits>>]
ReadmeOnly == {ReadmePayload}
KeyOnly == {[checks |-> <<KeyLeak>>]}

Answer(ends, shows) == [ends |-> ends, shows |-> shows]
World(one, two) == [c \in {"c1", "c2"} |-> IF c = "c1" THEN one ELSE two]
SomeWorlds ==
  {World(Answer("zero", {"error"}), Answer("zero", {})),
   World(Answer("nonzero", {}), Answer("zero", {"error", "key"})),
   World(Answer("timeout", {}), Answer("nonzero", {})),
   World(Answer("zero", {}), Answer("timeout", {"error"}))}

\* sanitize_text on the texts above: a pattern that looks like a credential.
Sanitized == [t \in {"", "c1", "c2", "error", "key", "(key", "masked", "exits", "leak", "marker", "broken"} |->
                IF t = "key" THEN "masked" ELSE t]
Patterns == {"error", "key", "masked"}
=============================================================================
