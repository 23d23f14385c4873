----------------------------- MODULE TomlQueries -----------------------------
(***************************************************************************)
(* The TOML query analyzer (internal/analyze/toml.go): the strings and     *)
(* tables its queries find, or whether any of its keys is present; and the *)
(* Python detector for pyproject.toml (python_pyproject.go): what it       *)
(* declares itself, and what setuptools reads from other files of the      *)
(* repository.                                                             *)
(***************************************************************************)
EXTENDS Documents, AnalyzerResults, PythonRequirements

Declared(key, value, group) == [key |-> key, value |-> value, group |-> group]

\* Tables only: an expanded segment never matches.
EvalTOMLTableQuery(root, query) ==
  LET Tables(nodes, segment) ==
        IF segment.expand THEN <<>>
        ELSE Selection(FlattenSeq([i \in DOMAIN nodes |-> Reached(nodes[i], segment)]),
                       LAMBDA node : node.value.kind = "mapping")
  IN  FoldLeft(Tables, Start(root), query)

IsPoetryDependencyQuery(query) ==
  LET Named(i, key) == query[i].key = key
  IN  /\ Len(query) \in {3, 5}
      /\ Named(1, "tool") /\ Named(2, "poetry")
      /\ Len(query) = 5 => Named(3, "group")
      /\ Named(Len(query), "dependencies")
AllowsTOMLDependencyTables(query) == query # <<>> /\ ~ Last(query).expand

\* Pipfile's packages come before its dev-packages, and both before the rest.
TOMLDependencyKeyOrder ==
  LET Of(keys) == Selection(Alphabet, LAMBDA key : key \in keys)
      named == {"packages", "dev-packages"}
  IN  Selection(<<"packages", "dev-packages">>, LAMBDA key : \E i \in DOMAIN Alphabet : Alphabet[i] = key)
      \o Selection(Alphabet, LAMBDA key : key \notin named)

\* A date, or anything that holds one, cannot be written back.
Within(value) ==
  CASE value.kind = "list" -> value.items
    [] value.kind = "mapping" ->
         [i \in DOMAIN Keys(value) |-> value.fields[Keys(value)[i]]]
    [] OTHER -> <<>>
Serializes(value) ==
  LET parts == Preorder(<<value>>, Within)
  IN  \A i \in DOMAIN parts : parts[i].kind # "date"

\* Mutant: the interpreter counts as a dependency.
EveryEntry(value, skipPython, group) ==
  LET keys == Selection(TOMLDependencyKeyOrder, LAMBDA key : key \in DOMAIN value.fields)
  IN  [i \in DOMAIN keys |-> Declared(keys[i], value.fields[keys[i]], group)]
SerializeTOMLDependencyTable(value, skipPython, group) ==
  LET keys == Selection(TOMLDependencyKeyOrder,
                        LAMBDA key : /\ key \in DOMAIN value.fields
                                     /\ ~ (skipPython /\ key = "python")
                                     /\ Serializes(value.fields[key]))
  IN  [i \in DOMAIN keys |-> Declared(keys[i], value.fields[keys[i]], group)]

ExtractTOMLDependencies(nodes, query) ==
  LET Found(node) ==
        CASE node.value.kind = "text" /\ node.value.text # <<>> ->
               <<Declared("", node.value, node.group)>>
          [] node.value.kind = "mapping" /\ AllowsTOMLDependencyTables(query) ->
               SerializeTOMLDependencyTable(node.value, IsPoetryDependencyQuery(query), node.group)
          [] OTHER -> <<>>
  IN  FlattenSeq([i \in DOMAIN nodes |-> Found(nodes[i])])
ExtractTOMLTableDependencies(nodes, excludeKeys) ==
  LET Of(key) == Selection(nodes, LAMBDA node : node.key = key /\ key \notin excludeKeys)
      order == TOMLDependencyKeyOrder
      filtered == FlattenSeq([i \in DOMAIN order |-> Of(order[i])])
  IN  FlattenSeq([i \in DOMAIN filtered |->
                    SerializeTOMLDependencyTable(filtered[i].value, FALSE, filtered[i].group)])

\* rules: [queries, tableQueries, existsAny, tableExistsAny, excludeKeys].
TOMLDependencies(rules, root) ==
  FlattenSeq([i \in DOMAIN rules.queries |->
                ExtractTOMLDependencies(Query(root, rules.queries[i]), rules.queries[i])])
  \o FlattenSeq([i \in DOMAIN rules.tableQueries |->
       ExtractTOMLTableDependencies(EvalTOMLTableQuery(root, rules.tableQueries[i]),
                                    rules.excludeKeys)])
AnalyzeTOML(rules, root) ==
  LET dependencies == TOMLDependencies(rules, root)
  IN  CASE dependencies # <<>> -> Complete(dependencies, <<>>)
        [] dependencies = <<>> /\ rules.existsAny # <<>> ->
             Presence(\E i \in DOMAIN rules.existsAny :
                        HasNonEmptyValue(Query(root, rules.existsAny[i])))
        [] dependencies = <<>> /\ rules.existsAny = <<>> /\ rules.tableExistsAny # <<>> ->
             Presence(\E i \in DOMAIN rules.tableExistsAny :
                        HasNonEmptyValue(EvalTOMLTableQuery(root, rules.tableExistsAny[i])))
        [] OTHER -> NotRecognized
AnalyzeTOMLFile(rules, file) ==
  OfFile(file, LAMBDA root : AnalyzeTOML(rules, root))

-----------------------------------------------------------------------------
(* pyproject.toml.                                                         *)

EveryItem == Segment("", TRUE, TRUE)
StaticRules == [queries |-> << <<Key("build-system"), Items("requires")>>,
                               <<Key("project"), Items("dependencies")>>,
                               <<Key("project"), Key("optional-dependencies"), EveryItem>>,
                               <<Key("dependency-groups"), EveryItem>>,
                               <<Key("tool"), Key("poetry"), Key("dependencies")>>,
                               <<Key("tool"), Key("poetry"), Key("group"), EveryKey,
                                 Key("dependencies")>> >>,
                tableQueries |-> <<>>, existsAny |-> <<>>, tableExistsAny |-> <<>>,
                excludeKeys |-> {}]

Read(dependencies, messages) == [dependencies |-> dependencies, messages |-> messages]
Both(a, b) == Read(a.dependencies \o b.dependencies, a.messages + b.messages)
All(reads) == FoldLeft(Both, Read(<<>>, 0), reads)

\* A path that is blank, absolute, outside of the scan root or no regular file
\* is not in files, a function from paths to their lines without comments.
\* Mutant: a file that is not there lists nothing.
NothingThere(file, files) ==
  IF file \notin DOMAIN files THEN Read(<<>>, 0)
  ELSE Read(Selection(NotEmpty(files[file]), IsRequirement), 0)
ReadFile(file, files) ==
  IF file \notin DOMAIN files THEN Read(<<>>, 1)
  ELSE LET lines == NotEmpty(files[file])
           valid == Selection(lines, IsRequirement)
       IN  Read(valid, Len(lines) - Len(valid))
ReadSetuptoolsDependencyFiles(directive, group, files) ==
  LET value == ValueAt(directive, <<"file">>)
      names == IF value.kind = "text" THEN <<value>> ELSE value.items
      InGroup(read) == [read EXCEPT !.dependencies =
                           [i \in DOMAIN @ |-> Declared("", Text(@[i]), group)]]
  IN  IF \/ directive.kind # "mapping" \/ DOMAIN directive.fields # {"file"}
         \/ names = <<>> \/ \E i \in DOMAIN names : names[i].kind # "text"
        THEN Read(<<>>, 1)
        ELSE All([i \in DOMAIN names |-> InGroup(ReadFile(names[i].text, files))])

DynamicField(root, field, files) ==
  LET directive == ValueAt(root, <<"tool", "setuptools", "dynamic", field>>)
      twice == Read(<<>>, IF ValueAt(root, <<"project", field>>).kind = "null" THEN 0 ELSE 1)
      group == <<"project", field>>
      Extra(name) == ReadSetuptoolsDependencyFiles(directive.fields[name],
                                                   Append(group, name), files)
  IN  Both(twice,
        CASE field = "dependencies" -> ReadSetuptoolsDependencyFiles(directive, group, files)
          [] field # "dependencies" /\ directive.kind = "mapping" ->
               All([i \in DOMAIN Keys(directive) |-> Extra(Keys(directive)[i])])
          [] OTHER -> Read(<<>>, 1))

\* What the static rules find, with the fields that are called dynamic; dynamic
\* is the list that names them.
DynamicFields(dynamic) ==
  LET named == {i \in DOMAIN dynamic.items : dynamic.items[i].kind = "text"}
  IN  Selection(<<"dependencies", "optional-dependencies">>,
                LAMBDA f : \E i \in named : dynamic.items[i].text = <<f>>)
Nameless(dynamic) == Cardinality({i \in DOMAIN dynamic.items : dynamic.items[i].kind # "text"})
WithRead(result, read) ==
  PythonExtractionResult(result.dependencies \o read.dependencies, read.messages)
WithFields(result, fields, nameless, root, files) ==
  IF fields = <<>> /\ nameless = 0 THEN result
  ELSE WithRead(result, Both(Read(<<>>, nameless),
                             All([i \in DOMAIN fields |-> DynamicField(root, fields[i], files)])))
WithDynamic(result, dynamic, root, files) ==
  CASE dynamic.kind = "null" -> result
    [] dynamic.kind = "list" ->
         WithFields(result, DynamicFields(dynamic), Nameless(dynamic), root, files)
    [] OTHER -> PythonExtractionResult(result.dependencies, 1)

\* file: [parses, root].
AnalyzePyproject(file, files) ==
  IF ~ file.parses \/ file.root.kind # "mapping" THEN AnalyzerError
  ELSE WithDynamic(AnalyzeTOML(StaticRules, file.root),
                   ValueAt(file.root, <<"project", "dynamic">>), file.root, files)
=============================================================================
