----------------------------- MODULE YamlQueries -----------------------------
(***************************************************************************)
(* The analyzers of rules that query YAML, JSON and XML                    *)
(* (internal/analyze/yaml.go, json.go, xml.go):                            *)
(* strings at a path, a path that exists, paths of which any declares      *)
(* something, and groups of Python requirements selected with jq.          *)
(***************************************************************************)
EXTENDS Documents, AnalyzerResults, PythonRequirements

Values(nodes) == [i \in DOMAIN nodes |-> nodes[i].value]

AnalyzeYAMLQuery(path, root) ==
  LET strings == Selection(Values(Query(root, path)),
                           LAMBDA value : value.kind = "text" /\ value.text # <<>>)
  IN  IF strings = <<>> THEN NotRecognized ELSE Complete(strings, <<>>)
AnalyzeYAMLExists(path, root) ==
  IF Query(root, path) = <<>> THEN NotRecognized ELSE Identified
AnalyzeYAMLExistsAny(paths, root) ==
  Presence(\E i \in DOMAIN paths : HasNonEmptyValue(Query(root, paths[i])))

\* encoding/json reads null into any of the types that are tried.
JSONDeclares(value) ==
  CASE value.kind \in {"text", "list", "mapping", "null"} -> Declares(value)
    [] OTHER -> value.kind # "false"
AnalyzeJSON(keys, root) ==
  IF root.kind \notin {"mapping", "null"} THEN AnalyzerError
  ELSE Presence(\E i \in DOMAIN keys : Has(root, keys[i]) /\ JSONDeclares(root.fields[keys[i]]))

\* jq (external), for the paths groups are selected with.  A step is a key,
\* or every item; what cannot be stepped into is an error.
Step(key, index) == [key |-> key, index |-> index]
Each == Step("", 0)
NodeAt(root, path) ==
  LET Into(found, step) ==
        LET value == found.value IN
        CASE found.ok /\ step.index = 0 /\ Has(value, step.key) ->
               [ok |-> TRUE, value |-> value.fields[step.key]]
          [] found.ok /\ value.kind = "list" /\ step.index \in DOMAIN value.items ->
               [ok |-> TRUE, value |-> value.items[step.index]]
          [] OTHER -> [ok |-> FALSE, value |-> Scalar("null")]
  IN  FoldLeft(Into, [ok |-> TRUE, value |-> root], path)
JqOk(value, step) ==
  IF step = Each THEN value.kind \in {"list", "mapping"}
                 ELSE value.kind \in {"mapping", "null"}
JqChildren(value, step) ==
  CASE step # Each -> <<step>>
    [] value.kind = "list" -> [i \in DOMAIN value.items |-> Step("", i)]
    [] OTHER -> [i \in DOMAIN Keys(value) |-> Step(Keys(value)[i], 0)]
\* All paths that a step leads to from some paths, or not ok.
Beyond(root, paths, step) ==
  FlattenSeq([i \in DOMAIN paths |->
    LET next == JqChildren(NodeAt(root, paths[i]).value, step)
    IN  [j \in DOMAIN next |-> Append(paths[i], next[j])]])
JqPath(root, query) ==
  LET Follow(found, step) ==
        IF found.ok /\ \A i \in DOMAIN found.paths : JqOk(NodeAt(root, found.paths[i]).value, step)
          THEN [found EXCEPT !.paths = Beyond(root, @, step)]
          ELSE [ok |-> FALSE, paths |-> <<>>]
  IN  FoldLeft(Follow, [ok |-> TRUE, paths |-> << <<>> >>], query)
\* A query is a list of paths, as jq's comma makes it.
Gathered(found) == [ok |-> \A i \in DOMAIN found : found[i].ok,
                    paths |-> FlattenSeq([i \in DOMAIN found |-> found[i].paths])]
JqPaths(root, query) == Gathered([i \in DOMAIN query |-> JqPath(root, query[i])])
ValuesAt(root, found) ==
  [ok |-> found.ok, values |-> [i \in DOMAIN found.paths |-> NodeAt(root, found.paths[i]).value]]
JqValues(root, query) == ValuesAt(root, JqPaths(root, query))

\* One selected group, or not ok: any surprise in it fails the whole file.
\* rules: [query, name, dependencies], with name <<>> for its key.
NamesOf(rules, node, path) ==
  IF rules.name # <<>> THEN JqValues(node, rules.name)
  ELSE [ok |-> TRUE, values |-> <<IF path # <<>> /\ Last(path).index = 0
                                    THEN Text(<<Last(path).key>>) ELSE Scalar("null")>>]
NameReadable(names) ==
  names.ok /\ Len(names.values) = 1 /\ names.values[1].kind \in {"text", "null"}
NothingAt(values) == values = <<>> \/ (Len(values) = 1 /\ values[1].kind = "null")
RequirementsOnly(values) ==
  /\ Len(values) = 1 /\ values[1].kind = "list"
  /\ \A i \in DOMAIN values[1].items : /\ values[1].items[i].kind = "text"
                                       /\ IsRequirement(values[1].items[i].text)
Filled(name, path, items) ==
  Group(name, path, IF items = <<>> THEN "empty" ELSE "ready",
        [i \in DOMAIN items |-> items[i].text])
NamedGroup(names, found, path) ==
  [ok |-> /\ NameReadable(names) /\ found.ok
          /\ NothingAt(found.values) \/ RequirementsOnly(found.values),
   group |-> IF NothingAt(found.values) THEN Group(names.values[1].text, path, "missing", <<>>)
             ELSE Filled(names.values[1].text, path, found.values[1].items)]
GroupAt(rules, node, path) ==
  IF node.ok THEN NamedGroup(NamesOf(rules, node.value, path),
                             JqValues(node.value, rules.dependencies), path)
             ELSE [ok |-> FALSE, group |-> Group(<<>>, path, "missing", <<>>)]

\* Mutant: a group that surprises is left out.
LenientGroups(selected, found) ==
  LET good == Selection(found, LAMBDA g : g.ok)
      groups == [i \in DOMAIN good |-> good[i].group]
  IN  Complete(DependenciesIn(groups), groups)
GroupsResult(selected, found) ==
  LET groups == [i \in DOMAIN found |-> found[i].group]
  IN  CASE ~ selected.ok \/ ~ IsInjective(selected.paths) \/ \E i \in DOMAIN found : ~ found[i].ok ->
             AnalyzerError
        [] selected.ok /\ selected.paths = <<>> -> NotRecognized
        [] OTHER -> Complete(DependenciesIn(groups), groups)
GroupsOn(rules, root, selected) ==
  GroupsResult(selected, [i \in DOMAIN selected.paths |->
    GroupAt(rules, NodeAt(root, selected.paths[i]), selected.paths[i])])
AnalyzeYAMLGroups(rules, root) == GroupsOn(rules, root, JqPaths(root, rules.query))

-----------------------------------------------------------------------------
(* XML: a file is the sequence of its tags, and does not parse from some   *)
(* tag on, or does to the end; the decoder refuses an end tag that has no  *)
(* start.                                                                  *)

Open(name) == [kind |-> "start", name |-> name]
Close == [kind |-> "end", name |-> ""]
Broken == [kind |-> "broken", name |-> ""]

Reading == [stack |-> <<>>, answer |-> "reading"]
ReadTag(state, tag, queries) ==
  LET stack == CASE tag.kind = "start" -> Append(state.stack, tag.name)
                 [] tag.kind = "end" /\ state.stack # <<>> -> Front(state.stack)
                 [] OTHER -> state.stack
  IN  CASE state.answer # "reading" -> state
        [] tag.kind = "broken" \/ (tag.kind = "end" /\ state.stack = <<>>) ->
             [state EXCEPT !.answer = "error"]
        [] tag.kind = "start" /\ Contains(queries, stack) ->
             [stack |-> stack, answer |-> "present"]
        [] OTHER -> [state EXCEPT !.stack = stack]
\* What follows the first match is not read; a tag that stays open is an error.
AnalyzeXML(queries, tags) ==
  LET end == FoldLeft(LAMBDA state, tag : ReadTag(state, tag, queries), Reading, tags)
  IN  IF end.answer = "error" \/ (end.answer = "reading" /\ end.stack # <<>>) THEN AnalyzerError
      ELSE Presence(end.answer = "present")
=============================================================================
