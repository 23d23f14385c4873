---------------------------- MODULE RuleDocuments ----------------------------
(***************************************************************************)
(* Which rule documents are accepted (internal/analyze/rules.go), with the *)
(* configurations of analyzers (parser_factory.go and the constructors in  *)
(* yaml.go, toml.go, json.go, xml.go, html.go, ini.go, terraform.go,       *)
(* typescript.go, python.go and banner.go).                                *)
(*                                                                         *)
(* A text is a sequence of tokens and <<>> the empty one.  A configuration *)
(* is a function of the fields that are given.                             *)
(***************************************************************************)
EXTENDS Texts

CONSTANTS PlainAnalyzers,  \* types of analyzers without configuration
          Alphabetical,    \* the identifiers in the order of strings.Compare
          Groups           \* of the regular expressions that compile: capture groups

Compiles(regex) == regex \in DOMAIN Groups

\* The k-th of a set of numbers, and what stands at some positions of a list,
\* in order.
Nth(S, k) == CHOOSE i \in S : Cardinality({j \in S : j <= i}) = k
Chosen(s, positions) == [k \in 1 .. Cardinality(positions) |-> s[Nth(positions, k)]]

\* A field that is not given has the empty value of its type.
Get(config, field) == IF field \in DOMAIN config THEN config[field] ELSE <<>>
Given(config, field) == Get(config, field) # <<>>
Flag(config, field) == field \in DOMAIN config /\ config[field]
Every(config, field, Valid(_)) == \A i \in DOMAIN Get(config, field) : Valid(config[field][i])

\* Mutant: fields that nobody knows are passed over.
Lax(config, fields) == TRUE
\* decodeStrict: no field but these.
Strict(config, fields) == DOMAIN config \subseteq fields

ConditionOn(name, c) == /\ Strict(c, {name, "equals", "present"}) /\ Given(c, name)
                        /\ "equals" \in DOMAIN c \/ Flag(c, "present")

-----------------------------------------------------------------------------
(* Queries.                                                                *)

\* The parts between the points, and a part without the brackets at its end.
Path(raw) == Split(raw, ".")
Expands(part) == part # <<>> /\ part[Len(part)] = "[]"
KeyOf(part) == IF Expands(part) THEN SubSeq(part, 1, Len(part) - 1) ELSE part
NoneOf(text, tokens) == \A i \in DOMAIN text : text[i] \notin tokens

ParseYAMLPath(raw) ==
  \A i \in DOMAIN Path(raw) :
    KeyOf(Path(raw)[i]) # <<>> /\ NoneOf(KeyOf(Path(raw)[i]), {"[]", "[", "]"})
CompileTOMLQuery(raw) ==
  /\ raw # <<>>
  /\ \A i \in DOMAIN Path(raw) :
       LET key == KeyOf(Path(raw)[i])
       IN  key # <<>> /\ (key = <<"*">> \/ NoneOf(key, {"[]", "[", "]", "*"}))
ParseXMLPath(raw) ==
  \A i \in DOMAIN Path(raw) : Path(raw)[i] # <<>> /\ NoneOf(Path(raw)[i], {"[]", "[", "]", "*"})

\* gojq refuses what it cannot parse.
JqCompiles(query) == NoneOf(query, {"|"})
NewYAMLGroupsParser(groups) ==
  /\ Strict(groups, {"query", "name-query", "dependencies-query"})
  /\ \A q \in {"query", "name-query", "dependencies-query"} :
       Given(groups, q) /\ JqCompiles(groups[q])

NewYAMLQueryParser(config) ==
  LET modes == {f \in {"query", "exists", "exists-any"} : Given(config, f)} \cup
               ({"groups"} \cap DOMAIN config)
  IN  /\ Strict(config, {"query", "exists", "exists-any", "groups"})
      /\ Cardinality(modes) = 1
      /\ "groups" \in modes => NewYAMLGroupsParser(config["groups"])
      /\ \A f \in modes \cap {"query", "exists"} : ParseYAMLPath(config[f])
      /\ Every(config, "exists-any", ParseYAMLPath)

TOMLLists == {"queries", "table-queries", "exists-any", "table-exists-any"}
NewTOMLQueryParser(config) ==
  /\ Strict(config, TOMLLists \cup {"exclude-keys"})
  /\ \E f \in TOMLLists : Given(config, f)
  /\ \A f \in TOMLLists : Every(config, f, CompileTOMLQuery)
  /\ Every(config, "exclude-keys", LAMBDA key : key # <<>>)

NewJSONMatcher(config) == /\ Strict(config, {"exists-any"}) /\ Given(config, "exists-any")
                          /\ Every(config, "exists-any", LAMBDA key : key # <<>>)
NewXMLMatcher(config) == /\ Strict(config, {"exists-any"}) /\ Given(config, "exists-any")
                         /\ Every(config, "exists-any", ParseXMLPath)
NewHTMLMatcher(config) == Strict(config, {"external_scripts"}) /\ Flag(config, "external_scripts")

NewINIQueryParser(config) ==
  /\ Strict(config, {"queries"}) /\ Given(config, "queries")
  /\ Every(config, "queries", LAMBDA q :
       /\ Strict(q, {"section", "key"}) /\ Given(q, "section") /\ Given(q, "key")
       /\ q["key"] = <<"*">> \/ NoneOf(q["key"], {"*"}))

NewTerraformResourceParser(config) ==
  /\ Strict(config, {"resource_type", "conditions"})
  /\ Given(config, "resource_type") /\ Given(config, "conditions")
  /\ Every(config, "conditions", LAMBDA c : ConditionOn("path", c))

\* The name and the version of a banner are its first two groups.
NewBannerRegexParser(config) ==
  /\ Strict(config, {"pattern"}) /\ Given(config, "pattern")
  /\ Compiles(config["pattern"]) /\ Groups[config["pattern"]] >= 2

-----------------------------------------------------------------------------
(* Constructs and calls in source code.                                    *)

Construct(config, required) ==
  /\ Strict(config, {"module", "construct", "within", "conditions", "extract"} \cup required)
  /\ Given(config, "module") /\ Given(config, "construct") /\ Given(config, "conditions")
  /\ Every(config, "within", LAMBDA segment : segment # <<>>)
  /\ Every(config, "conditions", LAMBDA c : ConditionOn("key", c))
  /\ "extract" \in DOMAIN config =>
       LET extract == config["extract"]
       IN  /\ Strict(extract, {"key", "split"})
           /\ Given(extract, "key") /\ Get(extract, "split") = <<"comma">>

NewTypeScriptMatcher(config) ==
  /\ Strict(config, {"cdk_construct"}) /\ "cdk_construct" \in DOMAIN config
  /\ Construct(config["cdk_construct"], {"props_argument_index"})
  /\ "props_argument_index" \in DOMAIN config["cdk_construct"]
  /\ config["cdk_construct"]["props_argument_index"] >= 0

NewPythonCallMatcher(call) ==
  /\ Strict(call, {"module", "function", "conditions", "extract"})
  /\ Given(call, "module") /\ Given(call, "function")
  /\ LET conditions == Get(call, "conditions") IN
       /\ Strict(conditions, {"all_of", "any_of"})
       /\ Given(conditions, "all_of") \/ Given(conditions, "any_of")
       /\ \A list \in {"all_of", "any_of"} :
            Every(conditions, list, LAMBDA c : ConditionOn("keyword", c))
  /\ Every(call, "extract", LAMBDA e :
       /\ Strict(e, {"keyword", "literal"}) /\ Given(e, "keyword")
       /\ Get(e, "literal") \in {<<"string_list">>, <<"dict_string_lists">>})

NewPythonMatcher(config) ==
  /\ Strict(config, {"cdk_construct", "call"}) /\ Cardinality(DOMAIN config) = 1
  /\ "call" \in DOMAIN config => NewPythonCallMatcher(config["call"])
  /\ "cdk_construct" \in DOMAIN config =>
       /\ Construct(config["cdk_construct"], {"keyword_argument"})
       /\ Given(config["cdk_construct"], "keyword_argument")

-----------------------------------------------------------------------------
(* Definitions of detectors and of checks.                                 *)

\* The mapping under "analyzer" or "evaluator": its types, for the field may
\* wrongly be given twice, and its other fields.
Typed(node) == node.mapping /\ Len(node.types) <= 1
TypeIn(node) == IF node.types = <<>> THEN <<>> ELSE node.types[1]

CompileSourceAnalyzer(node) ==
  LET type == TypeIn(node)
      config == node.config
  IN  \/ type \in PlainAnalyzers /\ Strict(config, {})
      \/ type = <<"yaml">> /\ NewYAMLQueryParser(config)
      \/ type = <<"toml">> /\ NewTOMLQueryParser(config)
      \/ type = <<"json">> /\ NewJSONMatcher(config)
      \/ type = <<"xml">> /\ NewXMLMatcher(config)
      \/ type = <<"html">> /\ NewHTMLMatcher(config)
      \/ type = <<"ini">> /\ NewINIQueryParser(config)
      \/ type = <<"terraform">> /\ NewTerraformResourceParser(config)
      \/ type = <<"banner-regex">> /\ NewBannerRegexParser(config)
      \/ type = <<"typescript">> /\ NewTypeScriptMatcher(config)
      \/ type = <<"python">> /\ NewPythonMatcher(config)

\* decodeDefinition, with the decoding of the node within.
Decodes(definition, node) ==
  definition.typed /\ ~ definition.extra /\ (node # <<>> => Typed(node[1]))

TrimSpace(text) ==
  LET solid == {i \in DOMAIN text : text[i] # " "}
  IN  IF solid = {} THEN <<>> ELSE SubSeq(text, Min(solid), Max(solid))
ValidID(id) == TrimSpace(id) # <<>> /\ TrimSpace(id) = id
Unique(definitions) ==
  \A i, j \in DOMAIN definitions : definitions[i].id = definitions[j].id => i = j

SourceForms ==
  {"manifest", "requirements", "lockfile", "constraint-file", "checksum-file", "version-catalog",
   "workspace-definition", "build-definition", "automation-definition", "deployment-definition",
   "tool-config", "source-code", "markup", "vendored-file", "other"}
SourceRoles == {"declaration", "constraint", "resolution", "integrity",
                "configuration", "workspace", "usage", "inventory"}
ParseSourceRoles(roles) ==
  /\ roles # <<>>
  /\ \A i \in DOMAIN roles : roles[i] \in SourceRoles /\ \A j \in 1 .. (i - 1) : roles[j] # roles[i]

\* path.Match refuses a class that is not closed.
Malformed(segment) ==
  \E i \in DOMAIN segment : segment[i] = "[" /\ \A j \in i .. Len(segment) : segment[j] # "]"
ValidatePathGlob(pattern) ==
  \A i \in DOMAIN Split(pattern, "/") :
    LET segment == Split(pattern, "/")[i]
    IN  /\ segment # <<>> /\ ~ Malformed(segment)
        /\ segment # <<"**">> => NoneOf(segment, {"**"})

Formats == {"python-requirements", "maven-pom"}
ValidRule(rule) ==
  /\ Decodes(rule, rule.analyzer)
  /\ ValidID(rule.id)
  /\ rule.regex # <<>> \/ rule.glob # <<>>
  /\ rule.form \in SourceForms /\ ParseSourceRoles(rule.roles)
  /\ rule.generate \in Formats \cup {"none"}
  /\ rule.regex # <<>> => Compiles(rule.regex)
  /\ rule.glob # <<>> => ValidatePathGlob(rule.glob)
  /\ rule.analyzer # <<>> => CompileSourceAnalyzer(rule.analyzer[1])

LockfileEvaluators ==
  {<<t>> : t \in {"npm-lockfile-missing", "pnpm-lockfile-missing", "yarn-lockfile-missing",
     "javascript-conflicting-lockfiles", "uv-lockfile-missing", "cargo-application-lockfile-missing",
     "go-sum-missing", "composer-application-lockfile-missing", "gemfile-application-lockfile-missing"}}
OwnersEvaluator == <<"dependency-source-codeowners">>
CompileCodeownersEvaluatorConfig(config) ==
  Strict(config, {"platform"}) /\ Get(config, "platform") \in {<<>>, <<"auto">>, <<"github">>, <<"gitlab">>}
Severities == {"info", "low", "medium", "high", "critical"}
ValidCheck(check) ==
  /\ Decodes(check, check.evaluator)
  /\ ValidID(check.id)
  /\ TrimSpace(check.summary) # <<>> /\ TrimSpace(check.remediation) # <<>>
  /\ check.severity \in Severities
  /\ check.evaluator # <<>>
  /\ LET evaluator == check.evaluator[1] IN
       \/ TypeIn(evaluator) \in LockfileEvaluators /\ Strict(evaluator.config, {})
       \/ TypeIn(evaluator) = OwnersEvaluator /\ CompileCodeownersEvaluatorConfig(evaluator.config)

-----------------------------------------------------------------------------
(* Documents.                                                              *)

Detector(rule) ==
  [id |-> rule.id, regex |-> rule.regex, glob |-> rule.glob, generate |-> rule.generate,
   analyzer |-> IF rule.analyzer = <<>> THEN <<>> ELSE TypeIn(rule.analyzer[1])]
Check(check) == [id |-> check.id, evaluator |-> TypeIn(check.evaluator[1])]
Position(id) == CHOOSE i \in DOMAIN Alphabetical : Alphabetical[i] = id
\* The checks, no two of which have the same identifier, in the order of these.
ByID(checks) ==
  LET ids == {checks[i].id : i \in DOMAIN checks}
      sorted == Chosen(Alphabetical, {p \in DOMAIN Alphabetical : Alphabetical[p] \in ids})
  IN  [k \in DOMAIN sorted |-> CHOOSE c \in Range(checks) : c.id = sorted[k]]

\* What follows the document in its file counts for extensions only.
WellFormed(document, extension) ==
  /\ document.parses
  /\ extension => document.rest = "nothing"
  /\ document.rules # <<>> \/ (extension /\ document.checks # <<>>)
Invalid == [ok |-> FALSE, detectors |-> <<>>, checks |-> <<>>]

LoadRulesDocument(document, extension) ==
  IF /\ WellFormed(document, extension) /\ Unique(document.rules) /\ Unique(document.checks)
     /\ \A i \in DOMAIN document.rules : ValidRule(document.rules[i])
     /\ \A i \in DOMAIN document.checks : ValidCheck(document.checks[i])
    THEN [ok |-> TRUE, checks |-> ByID([i \in DOMAIN document.checks |-> Check(document.checks[i])]),
          detectors |-> [i \in DOMAIN document.rules |-> Detector(document.rules[i])]]
    ELSE Invalid
=============================================================================
