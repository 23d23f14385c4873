------------------------ MODULE TypeScriptConstructs ------------------------
(***************************************************************************)
(* Glue jobs of CDK programs in TypeScript (internal/analyze/              *)
(* typescript.go), for the detector of default_rules.yaml.  A program is   *)
(* the sequence of its imports, declarations and constructor calls, in the *)
(* order of the text; scopes and assignments are not looked at by the code *)
(* either.                                                                 *)
(***************************************************************************)
EXTENDS AnalyzerResults, PythonRequirements

\* quote: strconv.Unquote takes what stands between " marks and refuses more
\* than one character between ' marks.
String(quote, text) == [kind |-> "string", quote |-> quote, text |-> text]
Object(pairs) == [kind |-> "object", pairs |-> pairs]
Pair(key, value) == [key |-> key, value |-> value]
Identifier(name) == [kind |-> "identifier", name |-> name]
Computed == [kind |-> "computed"]

Absent == [kind |-> "absent"]
StringLiteralValue(node) ==
  IF node.kind = "string" /\ node.quote = "double" THEN node ELSE Absent

-----------------------------------------------------------------------------
(* Names.                                                                  *)

\* An import of the module: a name for the whole of it, or for the class.
\* Mutant: the name that the class is given is not looked at.
NamedAsDeclared(program) ==
  {program[i].name : i \in {j \in DOMAIN program : program[j].kind = "import"}}
ImportedFrom(program) ==
  {i \in DOMAIN program : /\ program[i].kind = "import"
                          /\ program[i].module.text = <<"aws-glue">>
                          /\ StringLiteralValue(program[i].module) # Absent}
Namespaces(program) == {program[i].local : i \in
                          {j \in ImportedFrom(program) : program[j].name = "*"}}
Named(program) == {program[i].local : i \in
                     {j \in ImportedFrom(program) : program[j].name = "CfnJob"}}

\* A class is Identifier(c), or a property of what is imported as ns.
Member(ns, property) == [kind |-> "member", ns |-> ns, property |-> property]
MatchesConstructor(program, class) ==
  CASE class.kind = "identifier" -> class.name \in Named(program)
    [] class.kind = "member" -> class.property = "CfnJob" /\ class.ns \in Namespaces(program)
    [] OTHER -> FALSE

\* A node, and the part of the program that it stands in.
Found(node, at) == [node |-> node, at |-> at]
\* The last declaration of the kind that is wanted before the use.
\* Mutant: the first one.
FirstDeclared(S) == CHOOSE i \in S : \A j \in S : i <= j
LastDeclared(S) == CHOOSE i \in S : \A j \in S : j <= i
ResolveValueNode(program, at, node, expectedKind) ==
  LET declared == {i \in 1 .. (at - 1) : /\ program[i].kind = "declarator"
                                         /\ program[i].name = node.name
                                         /\ program[i].value.kind = expectedKind}
  IN  CASE node.kind = expectedKind -> Found(node, at)
        [] node.kind = "identifier" /\ declared # {} ->
             Found(program[LastDeclared(declared)].value, LastDeclared(declared))
        [] OTHER -> Found(Absent, at)
ResolveStringValue(program, at, node) ==
  StringLiteralValue(ResolveValueNode(program, at, node, "string").node)

ObjectPropertyValue(object, key) ==
  LET hits == {i \in DOMAIN object.pairs : object.pairs[i].key = key}
  IN  IF hits = {} THEN Absent ELSE object.pairs[FirstDeclared(hits)].value

-----------------------------------------------------------------------------
(* One constructor call, with its arguments scope, identifier and          *)
(* properties, as far as they are there.                                   *)

ExtractModules(program, properties, arguments, name, at) ==
  LET declared == ObjectPropertyValue(arguments, "modules")
      value == ResolveStringValue(program, properties.at, declared)
      requirements == SplitExtractedValue(value.text)
  IN  CASE declared = Absent -> Grouped(Group(name, at, "missing", <<>>))
        [] value = Absent -> NotReadable
        [] requirements = <<>> -> Grouped(Group(name, at, "empty", <<>>))
        [] \E i \in DOMAIN requirements : ~ IsRequirement(requirements[i]) -> NotReadable
        [] OTHER -> Grouped(Group(name, at, "ready", requirements))

MatchNewExpression(program, at) ==
  LET call == program[at]
      id == IF Len(call.args) > 1 THEN ResolveStringValue(program, at, call.args[2]) ELSE Absent
      name == IF id = Absent THEN <<>> ELSE id.text
      properties == ResolveValueNode(program, at, call.args[3], "object")
      arguments == ObjectPropertyValue(properties.node, "defaultArguments")
      declared == ObjectPropertyValue(arguments, "language")
      language == ResolveStringValue(program, properties.at, declared)
  IN  CASE ~ MatchesConstructor(program, call.class) -> Skipped
        [] Len(call.args) < 3 -> NotReadable
        [] properties.node = Absent -> NotReadable
        [] arguments = Absent -> Skipped
        [] arguments.kind # "object" -> NotReadable
        [] declared = Absent -> Skipped
        [] language = Absent -> NotReadable
        [] language.text # <<"python">> -> Skipped
        [] OTHER -> ExtractModules(program, properties, arguments, name, at)

NewExpressions(program) ==
  LET calls == Ascending({i \in DOMAIN program : program[i].kind = "new"})
  IN  [i \in DOMAIN calls |-> MatchNewExpression(program, calls[i])]
AnalyzeTypeScript(program) == JobsResult(NewExpressions(program))
=============================================================================
