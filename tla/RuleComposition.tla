--------------------------- MODULE RuleComposition ---------------------------
(***************************************************************************)
(* The command line (cmd/deplens/main.go), and the rules that result from  *)
(* a base, its extensions and exclusions (internal/analyze/compose.go,     *)
(* exclusions.go, presets.go).                                             *)
(***************************************************************************)
EXTENDS RuleDocuments

CONSTANT CoveragePresets   \* the detectors that a preset covers

-----------------------------------------------------------------------------
(* The command line: arguments as pairs of a flag and its value; what is   *)
(* no flag has the flag "path".                                            *)

Argument(flag, value) == [flag |-> flag, value |-> value]
Repeatable == {"extend-rules", "exclude-preset", "disable-rule", "disable-check"}
Flags == Repeatable \cup {"json", "show-without-dependencies", "generate",
                          "overwrite-generated", "ignore", "rules"}

\* Flags end where the first path stands.
FirstPath(args) == Least({i \in DOMAIN args : args[i].flag = "path"})
Parsed(args) == IF FirstPath(args) = None THEN args ELSE SubSeq(args, 1, FirstPath(args) - 1)
Paths(args) == Len(args) - Len(Parsed(args))

Values(args, flag) ==
  LET given == Chosen(args, {i \in DOMAIN Parsed(args) : args[i].flag = flag})
  IN  [i \in DOMAIN given |-> given[i].value]
\* Of a flag that is no list, the last occurrence counts.
Value(args, flag, default) ==
  LET values == Values(args, flag) IN IF values = <<>> THEN default ELSE values[Len(values)]

DefaultIgnoreDirs ==
  {<<".git">>, <<"node_modules">>, <<".venv">>, <<"venv">>, <<"vendor">>,
   <<".tox">>, <<".mypy_cache">>, <<".pytest_cache">>}
ParseIgnoreList(value) ==
  {TrimSpace(Split(value, ",")[i]) : i \in DOMAIN Split(value, ",")} \ {<<>>}
IgnoreDirs(args) ==
  LET ignore == Value(args, "ignore", <<>>)
  IN  IF ignore = <<>> THEN DefaultIgnoreDirs ELSE ParseIgnoreList(ignore)

\* flag.Parse stops at the first flag it does not know; help is such a flag.
Unknown(args) == {i \in DOMAIN Parsed(args) : args[i].flag \notin Flags}
Verdict(args) ==
  CASE Unknown(args) # {} -> IF args[Min(Unknown(args))].flag = "help" THEN "help" ELSE "error"
    [] Value(args, "generate", "none") \notin Formats \cup {"none"} -> "error"
    [] Value(args, "overwrite-generated", FALSE) /\ Value(args, "generate", "none") = "none" -> "error"
    [] Paths(args) > 1 -> "error"
    [] OTHER -> "run"

\* parseArgs; base is the path of the rules if none are given.
ParseArgs(args, base) ==
  [verdict |-> Verdict(args),
   base |-> Value(args, "rules", base), extensions |-> Values(args, "extend-rules"),
   presets |-> Range(Values(args, "exclude-preset")), rules |-> Range(Values(args, "disable-rule")),
   checks |-> Range(Values(args, "disable-check")),
   format |-> Value(args, "generate", "none"), ignored |-> IgnoreDirs(args)]

-----------------------------------------------------------------------------
(* Composition: rules as a record of the detectors and the checks so far.  *)

IDs(definitions) == {definitions[i].id : i \in DOMAIN definitions}
Disjoint(rules, extension) ==
  /\ IDs(rules.detectors) \cap IDs(extension.detectors) = {}
  /\ IDs(rules.checks) \cap IDs(extension.checks) = {}

\* Mutant: extensions come before what they extend.
Prepend(rules, extension) ==
  [rules EXCEPT !.detectors = extension.detectors \o @, !.checks = ByID(@ \o extension.checks)]
Extend(rules, extension) ==
  [rules EXCEPT !.detectors = @ \o extension.detectors, !.checks = ByID(@ \o extension.checks)]

PresetExclusions(presets, detectors) == IDs(detectors) \cap UNION {CoveragePresets[p] : p \in presets}

\* What is excluded must be known, but for members of a preset.
Known(rules, config) == /\ config.presets \subseteq DOMAIN CoveragePresets
                        /\ config.rules \subseteq IDs(rules.detectors)
                        /\ config.checks \subseteq IDs(rules.checks)
WithID(definitions, ids) == {i \in DOMAIN definitions : definitions[i].id \in ids}
Without(definitions, ids) == Chosen(definitions, DOMAIN definitions \ WithID(definitions, ids))
Exclude(rules, config) ==
  LET removed == config.rules \cup PresetExclusions(config.presets, rules.detectors)
  IN  [detectors |-> Without(rules.detectors, removed),
       checks |-> Without(rules.checks, config.checks),
       disabled |-> Chosen(rules.detectors, WithID(rules.detectors, removed))]
=============================================================================
