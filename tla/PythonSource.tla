---------------------------- MODULE PythonSource ----------------------------
(***************************************************************************)
(* The detectors of default_rules.yaml for Python programs                 *)
(* (internal/analyze/python.go): Glue jobs of CDK programs, and the        *)
(* dependencies of setup.py.  A program is a text of PythonText.           *)
(***************************************************************************)
EXTENDS AnalyzerResults, PythonRequirements, PythonText

Lines(source) == Split(source, NL)

\* A line is taken apart at its blanks, so that a name with a comma behind it,
\* or a parenthesis in front of it, is not that name.
NoName == ""
\* Mutant: a comma is no part of the name in front of it.
FieldWithoutComma(line, at) == Word(line, at)
Field(line, at) == IF Word(line, at + 1) = "," THEN NoName ELSE Word(line, at)

\* Names under which the file has the module and the function or class.  Only
\* the first name of an import is looked at.
Imports(source, module, parent, leaf, function) ==
  LET lines == {StripPythonLineComment(Lines(source)[i]) : i \in DOMAIN Lines(source)}
      Alias(line, at) == IF Word(line, at + 1) = "as" THEN Field(line, at + 2)
                                                    ELSE Field(line, at)
      whole == {l \in lines : Len(l) > 1 /\ l[1] = "import" /\ Field(l, 2) = module}
      from == {l \in lines : Len(l) > 3 /\ l[1] = "from" /\ l[3] = "import"}
  IN  [namespaces |-> {Alias(l, 2) : l \in whole} \cup
         {Alias(l, 4) : l \in {m \in from : parent # "" /\ m[2] = parent /\ Field(m, 4) = leaf}},
       named |-> {Alias(l, 4) : l \in {m \in from : m[2] = module /\ Field(m, 4) = function}}]

\* Every place that reads like a call, in comments and strings too, with no
\* blank before the parenthesis.  The name of the class may be an attribute of
\* something else but not the end of another name; that of a module may be.
PythonConstructorCallStarts(source, imports, function) ==
  Ascending(
    {i \in DOMAIN source :
       /\ source[i] = "("
       /\ \/ Word(source, i - 1) \in imports.named /\ Word(source, i - 2) # Glued
          \/ /\ Word(source, i - 1) = function /\ Word(source, i - 2) = "."
             /\ Word(source, i - 3) \in imports.namespaces})

Inside(source, start, end) ==
  [ok |-> end # None, text |-> Between(source, start, end), end |-> end]
PythonCallArguments(source, start) ==
  Inside(source, start, PythonMatchingDelimiter(source, start, "(", ")"))

\* What stands before a mark; the value behind the mark of the first of some
\* parts.  Expressions that are not there are empty.
KeyOf(part, mark) == TrimSpace(SubSeq(part, 1, TopLevelIndex(part, mark) - 1))
ValueBehind(parts, mark) ==
  IF parts = <<>> THEN <<>>
  ELSE TrimSpace(After(Head(parts), TopLevelIndex(Head(parts), mark)))
PythonKeywordArgumentValue(args, name) ==
  ValueBehind(Selection(SplitTopLevel(args, ","), LAMBDA part : KeyOf(part, "=") = <<name>>), "=")
PythonPositionalArgumentValue(args, index) ==
  LET positional == Selection(SplitTopLevel(args, ","),
                              LAMBDA part : TopLevelIndex(part, "=") = None)
  IN  IF index \in DOMAIN positional THEN positional[index] ELSE <<>>

-----------------------------------------------------------------------------
(* Names.  The last assignment before the place decides that has an        *)
(* expression; the name it leads to is looked up before the same place.    *)

IsIdentifier(text) ==
  Len(text) = 1 /\ text[1] \notin Brackets \cup {",", ":", "=", ".", "#", Quote, NL}
AssignedAt(source, i) == SkipPythonWhitespace(source, i + 2)
Assignments(source, name, before) ==
  {i \in 1 .. (before - 3) : /\ Word(source, i - 1) = NL
                             /\ source[i] = name /\ source[i + 1] = "="
                             /\ AssignedAt(source, i) < before
                             /\ PythonExpressionAt(source, AssignedAt(source, i)) # <<>>}
LastAssigned(source, places) ==
  IF places = {} THEN <<>> ELSE PythonExpressionAt(source, AssignedAt(source, Max(places)))
FindPythonAssignment(source, name, before) ==
  LastAssigned(source, Assignments(source, name, before))

\* A string and a dictionary are no names: what a name leads to in the end, or
\* after as many steps as there may be assignments.
Followed(source, expr, before) ==
  LET steps == Cardinality({i \in DOMAIN source : source[i] = "="})
      follow[n \in 0 .. steps] ==
        IF n = 0 THEN expr
        ELSE LET last == follow[n - 1]
             IN  IF IsIdentifier(last) THEN FindPythonAssignment(source, last[1], before) ELSE last
  IN  follow[steps]
\* Names that are assigned to each other are followed until the stack is full.
Endless(source, expr, before) == IsIdentifier(Followed(source, expr, before))

ResolvePythonStringValue(source, expr, before) ==
  UnquotePythonString(Followed(source, expr, before))
Dictionary(expr) ==
  IF expr = <<>> \/ Head(expr) # "{" THEN [ok |-> FALSE, text |-> <<>>]
  ELSE LET end == PythonMatchingDelimiter(expr, 1, "{", "}")
       IN  [ok |-> end # None, text |-> SubSeq(expr, 1, end)]
ResolvePythonObjectValue(source, expr, before) == Dictionary(Followed(source, expr, before))

\* The first entry whose key can be read and is the one wanted; the keys up to
\* it are resolved.
DictEntries(dict) == SplitTopLevel(Between(dict, 1, Len(dict)), ",")
HasKey(source, part, key, before) ==
  ResolvePythonStringValue(source, KeyOf(part, ":"), before) = [ok |-> TRUE, text |-> <<key>>]
PythonDictValue(source, dict, key, before) ==
  ValueBehind(Selection(DictEntries(dict), LAMBDA part : HasKey(source, part, key, before)), ":")
KeysResolved(source, parts, key, before) ==
  {KeyOf(parts[i], ":") : i \in {j \in DOMAIN parts :
                                   \A k \in 1 .. (j - 1) : ~ HasKey(source, parts[k], key, before)}}

-----------------------------------------------------------------------------
(* Glue jobs.                                                              *)

\* Mutant: the dependencies that can be read make the group.
Piecewise(requirements) == [invalid |-> FALSE, kept |-> Selection(requirements, IsRequirement)]
Checked(requirements) ==
  [invalid |-> \E i \in DOMAIN requirements : ~ IsRequirement(requirements[i]),
   kept |-> Selection(requirements, IsRequirement)]

\* A job with invalid dependencies is reported as such and, if any others are
\* left, is a group as well.
GlueGroup(name, start, declared, requirements) ==
  (IF requirements.invalid THEN <<NotReadable>> ELSE <<>>) \o
  (IF declared # <<>> /\ requirements.kept = <<>> THEN <<>>
   ELSE <<Grouped(Group(name, start, IF declared = <<>> THEN "empty" ELSE "ready",
                        requirements.kept))>>)
ExtractGlueModules(value, name, start) ==
  IF ~ value.ok THEN <<NotReadable>>
  ELSE GlueGroup(name, start, SplitExtractedValue(value.text),
                 Checked(SplitExtractedValue(value.text)))

\* The modules of a job in Python; expressions that are not there are empty.
GlueJob(source, name, start, end, language, modules) ==
  CASE language = <<>> \/ modules = <<>> -> <<Skipped>>
    [] OTHER ->
         LET spoken == ResolvePythonStringValue(source, language, end) IN
         CASE ~ spoken.ok -> <<NotReadable>>
           [] spoken.ok /\ spoken.text # <<"python">> -> <<Skipped>>
           [] OTHER -> ExtractGlueModules(ResolvePythonStringValue(source, modules, end), name, start)
GlueArguments(source, name, start, end, object) ==
  IF ~ object.ok THEN <<NotReadable>>
  ELSE GlueJob(source, name, start, end, PythonDictValue(source, object.text, "--language", end),
               PythonDictValue(source, object.text, "--modules", end))
GlueCall(source, start, args, keyword) ==
  CASE ~ args.ok -> <<NotReadable>>
    [] args.ok /\ keyword = <<>> -> <<Skipped>>
    [] OTHER ->
         GlueArguments(source,
           ResolvePythonStringValue(source, PythonPositionalArgumentValue(args.text, 2), start).text,
           start, args.end, ResolvePythonObjectValue(source, keyword, start))
GlueConstruct(source, start) ==
  LET args == PythonCallArguments(source, start)
  IN  GlueCall(source, start, args, PythonKeywordArgumentValue(args.text, "default_arguments"))

GlueCalls(source) ==
  PythonConstructorCallStarts(
    source, Imports(source, "aws_cdk.aws_glue", "aws_cdk", "aws_glue", "CfnJob"), "CfnJob")
GlueConstructs(source) ==
  LET starts == GlueCalls(source) IN [i \in DOMAIN starts |-> GlueConstruct(source, starts[i])]
AnalyzePythonConstructs(source) == JobsResult(FlattenSeq(GlueConstructs(source)))

\* A job whose name, arguments, language or modules, or a key looked at on the
\* way to them, is endless: the recursion takes the process down.
KeyOverflows(source, parts, key, end) ==
  \E k \in KeysResolved(source, parts, key, end) : Endless(source, k, end)
JobOverflows(source, parts, end, language, modules) ==
  \/ KeyOverflows(source, parts, "--modules", end)
  \/ /\ modules # <<>>
     /\ \/ KeyOverflows(source, parts, "--language", end) \/ Endless(source, language, end)
        \/ /\ ResolvePythonStringValue(source, language, end).text = <<"python">>
           /\ Endless(source, modules, end)
ArgumentsOverflow(source, end, object) ==
  object.ok /\ JobOverflows(source, DictEntries(object.text), end,
                            PythonDictValue(source, object.text, "--language", end),
                            PythonDictValue(source, object.text, "--modules", end))
CallOverflows(source, start, args, keyword) ==
  /\ args.ok /\ keyword # <<>>
  /\ \/ Endless(source, PythonPositionalArgumentValue(args.text, 2), start)
     \/ Endless(source, keyword, start)
     \/ ArgumentsOverflow(source, args.end, ResolvePythonObjectValue(source, keyword, start))
ConstructOverflows(source, start, args) ==
  CallOverflows(source, start, args, PythonKeywordArgumentValue(args.text, "default_arguments"))
Overflows(source) ==
  \E start \in ToSet(GlueCalls(source)) :
    ConstructOverflows(source, start, PythonCallArguments(source, start))

-----------------------------------------------------------------------------
(* setup.py: the first call with one of the two keywords.                  *)

Listed(items, complete) == [items |-> items, complete |-> complete]
Unread == Listed(<<>>, FALSE)
Enclosed(expr, open, close) ==
  expr # <<>> /\ Head(expr) = open /\ PythonMatchingDelimiter(expr, 1, open, close) = Len(expr)
Literals(read) ==
  Listed(FlattenSeq([i \in DOMAIN read |-> IF read[i].ok THEN <<read[i].text>> ELSE <<>>]),
         \A i \in DOMAIN read : read[i].ok)
StringLiterals(parts) ==
  Literals([i \in DOMAIN parts |-> PythonDependencyStringLiteral(parts[i])])
PythonStringListLiteral(expr) ==
  IF Enclosed(expr, "[", "]") THEN StringLiterals(SplitTopLevel(Between(expr, 1, Len(expr)), ","))
                              ELSE Unread
\* An entry is read only if its key is a string.
EntryList(part) ==
  IF PythonDependencyStringLiteral(KeyOf(part, ":")).ok
    THEN PythonStringListLiteral(ValueBehind(<<part>>, ":")) ELSE Unread
Together(lists) == Listed(FlattenSeq([i \in DOMAIN lists |-> lists[i].items]),
                          \A i \in DOMAIN lists : lists[i].complete)
EntryLists(parts) == Together([i \in DOMAIN parts |-> EntryList(parts[i])])
PythonDictStringListsLiteral(expr) ==
  IF Enclosed(expr, "{", "}") THEN EntryLists(SplitTopLevel(Between(expr, 1, Len(expr)), ","))
                              ELSE Unread

\* Mutant: what comes with **kwargs is forgotten.
NoKwargs(parts) == FALSE
HasKwargs(parts) == \E i \in DOMAIN parts : Head(parts[i]) = "**"

\* The values of the two keywords, empty when the call does not have them.
SetupCall(args) == [args |-> args,
                    install |-> PythonKeywordArgumentValue(args, "install_requires"),
                    extras |-> PythonKeywordArgumentValue(args, "extras_require")]
SetupDependencies(kwargs, install, extras) ==
  PythonExtractionResult(Distinct(install.items \o extras.items),
    Cardinality({x \in {"kwargs", "install", "extras"} :
                   \/ x = "kwargs" /\ kwargs
                   \/ x = "install" /\ ~ install.complete
                   \/ x = "extras" /\ ~ extras.complete}))
SetupResult(call) ==
  SetupDependencies(HasKwargs(SplitTopLevel(call.args, ",")),
    IF call.install = <<>> THEN Listed(<<>>, TRUE) ELSE PythonStringListLiteral(call.install),
    IF call.extras = <<>> THEN Listed(<<>>, TRUE) ELSE PythonDictStringListsLiteral(call.extras))
FirstSetup(calls) == IF calls = <<>> THEN NotRecognized ELSE SetupResult(Head(calls))

\* Calls that are not closed are passed over.
SetupCalls(arguments) ==
  LET closed == Selection(arguments, LAMBDA a : a.ok)
  IN  Selection([i \in DOMAIN closed |-> SetupCall(StripPythonCallComments(closed[i].text))],
                LAMBDA call : call.install # <<>> \/ call.extras # <<>>)
AnalyzePythonCall(source) ==
  LET starts == PythonConstructorCallStarts(source, Imports(source, "setuptools", "", "setuptools", "setup"), "setup")
  IN  FirstSetup(SetupCalls([i \in DOMAIN starts |-> PythonCallArguments(source, starts[i])]))
=============================================================================
