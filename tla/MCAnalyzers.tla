----------------------------- MODULE MCAnalyzers -----------------------------
(***************************************************************************)
(* Small sources of every family, written from what they declare: each     *)
(* job, list or installation in several of the forms its language has.     *)
(***************************************************************************)
EXTENDS Analyzers

MCAlphabet ==
  <<"", "build-dependencies", "compat", "dependencies", "dependency",
    "dependency_overrides", "deps", "description", "dev", "dev-dependencies",
    "dev-packages", "dev_dependencies", "dynamic", "extra", "extras", "file",
    "git", "hosted", "image", "imports", "k", "m", "name", "optional-dependencies",
    "package", "packages", "path", "php", "poetry", "project", "python",
    "require", "require-dev", "scopes", "sdk", "services", "setuptools", "source",
    "target", "targets", "test", "tool", "url", "uuid", "version", "weakdeps",
    "workspace">>
MCVersions == {"1", "2"}

\* Requirements as texts of tokens, and lists of them joined by commas.
A == <<"a">>
B == <<"b", ">=1">>
C == <<"c", "[", "x", ",", "y", "]", ">=1", ",", ">=1", ";", "(", "v", "in", "v", "or", "v", "<", "v", ")">>
D == <<"d", "[", "x", "]">>
Bad == <<"@">>
Stray == <<"e", ";", "v", "<", "v", "v">>
Simple == {<<A>>, <<B, A>>, <<A, Bad>>, <<D>>}
Lists == Simple \cup {<<A, C>>, <<C, B>>, <<A, Stray>>}
RECURSIVE Joined(_)
Joined(list) == CASE list = <<>> -> <<>>
                  [] Len(list) = 1 -> list[1]
                  [] OTHER -> list[1] \o <<",">> \o Joined(Tail(list))
Good(list) == \A i \in DOMAIN list : list[i] \notin {Bad, Stray}
Job(python, known, modules) == [python |-> python, known |-> known, modules |-> modules]
One(S) == {<<x>> : x \in S}
Pairs(S, T) == {<<x, y>> : x \in S, y \in T}
Exported(file, jobs) == [file |-> file, jobs |-> jobs, generate |-> Python]

-----------------------------------------------------------------------------
(* Jobs in Terraform: [block, job].                                        *)

Key(language) == Terraform!Literal(<<language>>)
Language(l) == CASE l = "none" -> <<>>
                 [] l = "dynamic" -> <<Terraform!Item(Key("language"), Terraform!Dynamic)>>
                 [] OTHER -> <<Terraform!Item(Key("language"), Terraform!Literal(<<l>>))>>
Installer(on) == IF on THEN <<Terraform!Item(Key("installer"), Terraform!Literal(<<"--only-binary">>))>> ELSE <<>>
Block(labels, fixed, default) ==
  [type |-> "resource", labels |-> labels, name |-> <<"job">>,
   nonOverridable |-> fixed, default |-> default]
Speaks(l) == CASE l \in {"none", "python"} -> "yes" [] l = "dynamic" -> "unknown" [] OTHER -> "no"
TfJob(labels, l, modules, place, installer) ==
  LET value == IF modules = <<Bad, Bad>> THEN Terraform!Dynamic ELSE Terraform!Literal(Joined(modules))
      items == Language(l) \o Installer(installer) \o <<Terraform!Item(Key("modules"), value)>>
      other == Terraform!ObjectOf(<<Terraform!Item(Key("modules"), Terraform!Literal(A))>> \o items)
  IN  [block |-> CASE place = "default" -> Block(labels, Terraform!Missing, Terraform!ObjectOf(items))
                   [] place = "fixed" -> Block(labels, Terraform!ObjectOf(items), Terraform!Missing)
                   [] place = "both" -> Block(labels, Terraform!ObjectOf(items), other),
       job |-> Job(IF labels = "aws_glue_job" THEN Speaks(l) ELSE "no",
                   Good(modules) /\ ~ installer, modules)]
TfJobs == {TfJob(labels, l, modules, place, FALSE) :
             labels \in {"aws_glue_job", "aws_s3_bucket"}, l \in {"none", "scala", "dynamic"},
             modules \in Lists \cup {<<>>, <<Bad, Bad>>}, place \in {"default", "both"}} \cup
          {TfJob("aws_glue_job", "python", modules, "fixed", installer) :
             modules \in Lists, installer \in BOOLEAN}
TfFile(jobs) ==
  Exported([parses |-> TRUE, blocks |-> [i \in DOMAIN jobs |-> jobs[i].block]],
           [i \in DOMAIN jobs |-> jobs[i].job])
MCTerraformFiles ==
  {TfFile(jobs) : jobs \in One(TfJobs) \cup
     Pairs(TfJobs, {TfJob("aws_glue_job", "none", <<A>>, "default", FALSE),
                    TfJob("aws_glue_job", "none", <<B, A>>, "both", FALSE),
                    TfJob("aws_glue_job", "scala", <<D>>, "default", FALSE)})} \cup
  {\* A key that cannot be evaluated may be any.
   TfFile(<<[block |-> Block("aws_glue_job", Terraform!Missing,
                              Terraform!ObjectOf(Language("python") \o <<Terraform!Item(Key("modules"), Terraform!Literal(A)),
                                Terraform!Item(Terraform!Dynamic, Terraform!Literal(D))>>)),
             job |-> Job("unknown", FALSE, <<>>)]>>),
   Exported([parses |-> FALSE, blocks |-> <<>>], <<Job("unknown", FALSE, <<>>)>>)}

-----------------------------------------------------------------------------
(* Jobs in TypeScript, with double quotation marks or with single ones.    *)

Import(quote, form) ==
  [kind |-> "import", module |-> TypeScript!String(quote, <<"aws-glue">>),
   name |-> IF form = "*" THEN "*" ELSE "CfnJob", local |-> form]
Class(form) == IF form = "*" THEN TypeScript!Member("*", "CfnJob") ELSE TypeScript!Identifier(form)
Const(name, value) == [kind |-> "declarator", name |-> name, value |-> value]
TsJob(quote, form, l, modules, style) ==
  LET value == IF modules = <<Bad, Bad>> THEN TypeScript!Computed ELSE TypeScript!String(quote, Joined(modules))
      language == IF l = "dynamic" THEN TypeScript!Computed ELSE TypeScript!String(quote, <<l>>)
      Map(v) == TypeScript!Object(<<TypeScript!Pair("language", language), TypeScript!Pair("modules", v)>>)
      Properties(args) == TypeScript!Object(<<TypeScript!Pair("defaultArguments", args)>>)
      New(props) == <<[kind |-> "new", class |-> Class(form),
                       args |-> <<TypeScript!Identifier("this"), TypeScript!String(quote, <<"job">>), props>>]>>
      args == TypeScript!Identifier("args")
  IN  [text |-> CASE style = "inline" -> New(Properties(Map(value)))
                  [] style = "declared" ->
                       <<Const("m", IF value.kind = "string" THEN TypeScript!String(quote, A) ELSE value),
                         Const("m", value),
                         Const("props", Properties(Map(TypeScript!Identifier("m")))),
                         Const("m", TypeScript!String(quote, D))>> \o New(TypeScript!Identifier("props"))
                  [] style = "nested" ->
                       <<Const("args", Map(value))>> \o New(Properties(TypeScript!Identifier("args")))
                  [] style = "twice" ->
                       <<Const("props", Properties(Map(TypeScript!String(quote, A)))),
                         Const("props", Properties(Map(value)))>> \o New(TypeScript!Identifier("props")),
       \* Arguments that are given by name are not looked for.
       job |-> Job(IF style = "nested" THEN "unknown" ELSE Speaks(l), Good(modules), modules)]
TsFile(quote, form, jobs) ==
  Exported(<<Import(quote, form)>> \o jobs[1].text \o (IF Len(jobs) > 1 THEN jobs[2].text ELSE <<>>),
           [i \in DOMAIN jobs |-> jobs[i].job])
TsJobs(quote, form) ==
  {TsJob(quote, form, l, modules, style) : l \in {"python", "scala", "dynamic"},
     modules \in Simple \cup {<<>>, <<Bad, Bad>>}, style \in {"inline", "declared", "twice", "nested"}}
TsFiles(quote) ==
  UNION {{TsFile(quote, form, jobs) :
            jobs \in One(TsJobs(quote, form)) \cup
              Pairs(TsJobs(quote, form), {TsJob(quote, form, "python", <<B, A>>, "declared")})} :
         form \in {"*", "CfnJob", "Alias"}}
MCTypeScriptFiles == TsFiles("double")

-----------------------------------------------------------------------------
(* Jobs in Python, and setup.py.                                           *)

PyNL == "nl"
Quoted(text) == <<"'">> \o text \o <<"'">>
ImportLine(form) ==
  CASE form = "glue" -> <<"import", "aws_cdk.aws_glue", "as", "glue", PyNL>>
    [] form = "aws_glue" -> <<"from", "aws_cdk", "import", "aws_glue", "#", "note", PyNL>>
    [] form = "Job" -> <<"from", "aws_cdk.aws_glue", "import", "CfnJob", "as", "Job", PyNL>>
Callee(form) == IF form = "Job" THEN <<"Job">> ELSE <<form, ".", "CfnJob">>
Dict(l, value) ==
  <<"{">> \o Quoted(<<"--language">>) \o <<":">> \o (IF l = "dynamic" THEN <<"lang", "(", ")">> ELSE Quoted(<<l>>))
  \o <<",", PyNL>> \o Quoted(<<"--modules">>) \o <<":">> \o value \o <<"}">>
\* A note stands in front of the keyword; what is after stands behind its value.
PyCall(callee, note, args, after) ==
  callee \o <<"(", "self", ",", PyNL>> \o Quoted(<<"job">>) \o <<",">> \o note
  \o <<"default_arguments", "=">> \o args \o after \o <<")", PyNL>>
PyJob(form, l, modules, style) ==
  LET value == IF modules = <<Bad, Bad>> THEN <<"load", "(", ")">> ELSE Quoted(Joined(modules))
      Call(note, args, after) == PyCall(Callee(form), note, args, after)
  IN  [text |-> CASE style = "inline" -> Call(<<PyNL>>, Dict(l, value), <<"#", "that", "'", "s", "all", PyNL>>)
                  [] style = "declared" ->
                       <<"#", "arguments", PyNL, "MODULES", "=">> \o Quoted(A) \o <<PyNL, "MODULES", "=">> \o value
                       \o <<PyNL, "ARGS", "=">> \o Dict(l, <<"MODULES">>)
                       \o <<PyNL>> \o Call(<<>>, <<"ARGS">>, <<",">>),
       job |-> Job(Speaks(l), Good(modules), modules)]
PyFile(form, jobs) ==
  Exported(ImportLine(form) \o jobs[1].text \o (IF Len(jobs) > 1 THEN jobs[2].text ELSE <<>>),
           [i \in DOMAIN jobs |-> jobs[i].job])
PyJobs(form, styles) ==
  {PyJob(form, l, modules, style) : l \in {"python", "scala", "dynamic"},
     modules \in {<<>>, <<A>>, <<B, A>>, <<A, Bad>>, <<Bad, Bad>>}, style \in styles}
MCPythonFiles ==
  UNION {{PyFile(form, jobs) :
            jobs \in One(PyJobs(form, {"inline", "declared"})) \cup
              Pairs({PyJob(form, l, <<B, A>>, "declared") : l \in {"python", "scala"}},
                    {PyJob(form, "python", m, "inline") : m \in {<<A>>, <<A, Bad>>}})} :
         form \in {"glue", "aws_glue", "Job"}} \cup
  {\* The class of another module, and a job that has no modules of its own.
   Exported(ImportLine("Job") \o <<PythonPrograms!Glued>> \o PyJob("Job", "python", <<A>>, "inline").text, <<>>),
   Exported(ImportLine("glue") \o PyCall(Callee("glue"), <<>>, <<"{">> \o Quoted(<<"--language">>) \o <<":", "LANGUAGE", "}">>, <<>>), <<>>)}

\* setup.py: [readable, declared], and the text of a value that says so.
Setup(file, readable, declared) ==
  [file |-> file, readable |-> readable, declared |-> declared, generate |-> NoFormat]
ListOf(texts) == <<"[">> \o Joined([i \in DOMAIN texts |-> Quoted(texts[i])]) \o <<"]">>
Value(form) ==
  CASE form = "list" -> <<"install_requires", "=">> \o ListOf(<<A, D>>)
    [] form = "commented" ->
         <<"#", "all", "(", PyNL, "install_requires", "=", "[">> \o Quoted(A)
         \o <<",", "#", "and", "]", PyNL>> \o Quoted(D) \o <<"]">>
    [] form = "called" -> <<"install_requires", "=", "read", "(", ")">>
    [] form = "partly" -> <<"install_requires", "=", "[">> \o Quoted(A) \o <<",", "MORE", "]">>
ExtraValue(form) ==
  CASE form = "none" -> <<>>
    [] form = "dict" -> <<",", "extras_require", "=", "{">> \o Quoted(<<"dev">>) \o <<":">>
                        \o ListOf(<<B, A>>) \o <<"}">>
    [] form = "named" -> <<",", "extras_require", "=", "EXTRAS">>
    [] form = "kwargs" -> <<",", "**", "more">>
SetupCall(form, extra) ==
  Setup(<<"from", "setuptools", "import", "setup", PyNL, "setup", "(">> \o Value(form)
        \o ExtraValue(extra) \o <<")", PyNL>>,
        form \in {"list", "commented"} /\ extra \in {"none", "dict"},
        (CASE form \in {"list", "commented"} -> {A, D} [] form = "partly" -> {A} [] OTHER -> {})
        \cup (IF extra = "dict" THEN {A, B} ELSE {}))
MCSetupFiles == {SetupCall(form, extra) : form \in {"list", "commented", "called", "partly"},
                                          extra \in {"none", "dict", "named", "kwargs"}}

-----------------------------------------------------------------------------
(* Databricks bundles: [library, and what it declares for each format].    *)

Said(known, declared) == [known |-> known, declared |-> declared]
Lib(library, python, maven) == [library |-> library, says |-> (Python :> python @@ Maven :> maven)]
Nothing == Said(TRUE, <<>>)
Libraries ==
  {Lib(Bundles!Library(Bundles!PyPI(A, FALSE), FALSE, Bundles!Absent, FALSE), Said(TRUE, <<A>>), Nothing),
   Lib(Bundles!Library(Bundles!PyPI(B, TRUE), FALSE, Bundles!Absent, FALSE), Said(FALSE, <<>>), Nothing),
   Lib(Bundles!Library(Bundles!PyPI(Bad, FALSE), FALSE, Bundles!Absent, FALSE), Said(FALSE, <<>>), Nothing),
   Lib(Bundles!Library(Bundles!Absent, TRUE, Bundles!Absent, FALSE), Said(FALSE, <<>>), Nothing),
   Lib(Bundles!Library(Bundles!Absent, FALSE, Bundles!Coordinates(<<"g", "a", "1">>, FALSE, Bundles!Absent), FALSE),
       Nothing, Said(TRUE, <<<<"g", "a", "1">>>>)),
   Lib(Bundles!Library(Bundles!Absent, FALSE,
                       Bundles!Coordinates(<<"g", "a", "1">>, FALSE, Bundles!List(<<<<"x", "">>>>)), FALSE),
       Nothing, Said(FALSE, <<>>)),
   Lib(Bundles!Library(Bundles!Absent, FALSE, Bundles!Coordinates(<<"g", "${x}", "1">>, FALSE, Bundles!Absent), FALSE),
       Nothing, Said(FALSE, <<>>)),
   Lib(Bundles!Library(Bundles!PyPI(A, FALSE), FALSE, Bundles!Absent, TRUE), Said(TRUE, <<A>>), Said(FALSE, <<>>))}
BrokenLibrary == Lib(Bundles!Malformed, Nothing, Nothing)
AllSay(libs, f) == [known |-> \A i \in DOMAIN libs : libs[i].says[f].known,
                    declared |-> FlattenSeq([i \in DOMAIN libs |-> libs[i].says[f].declared])]
BundleTask(key, libs) ==
  [task |-> Bundles!Task(key, Bundles!List([i \in DOMAIN libs |-> libs[i].library])),
   says |-> [f \in Formats |-> AllSay(libs, f)]]
NoLibraries == [task |-> Bundles!Task("t", Bundles!Absent), says |-> [f \in Formats |-> Nothing]]
Bundle(tasks, targetTasks, sound) ==
  LET Jobs(list) == Bundles!Job("j", Bundles!List([i \in DOMAIN list |-> list[i].task]))
      base == Bundles!Scope("base", Bundles!List(<<Jobs(tasks)>>))
      targets == IF targetTasks = <<>> THEN Bundles!Absent
                 ELSE Bundles!List(<<Bundles!Scope("prod", Bundles!List(<<Jobs(targetTasks)>>))>>)
  IN  [file |-> [parses |-> TRUE, looksLikeBundle |-> TRUE, root |-> base, targets |-> targets],
       tasks |-> [i \in DOMAIN (tasks \o targetTasks) |-> (tasks \o targetTasks)[i].says],
       sound |-> sound, generate |-> Python]
SomeTasks == {BundleTask("t", libs) : libs \in One(Libraries) \cup Pairs(Libraries, Libraries)}
MCBundleFiles ==
  {Bundle(<<t>>, <<>>, TRUE) : t \in SomeTasks \cup {NoLibraries, BundleTask("t", <<>>)}} \cup
  {Bundle(<<BundleTask("t", <<l>>)>>, <<BundleTask("u", <<m>>)>>, TRUE) : l, m \in Libraries} \cup
  {Bundle(<<BundleTask(key, <<l>>)>>, <<BundleTask("u", <<BrokenLibrary>>)>>, FALSE) :
     l \in Libraries, key \in {"", "t"}}

\* Each task of these is read as it is declared; evaluated by the
\* runs that read other sources, where bundles are not.
ASSUME BundleReadAssumption ==
  BundleFiles = {} => \A source \in MCBundleFiles : BundleRead(source)

-----------------------------------------------------------------------------
(* Lists of dependencies in TOML, YAML and JSON.                           *)

Tx(t) == Toml!Text(t)
Map(fields) == Toml!Mapping(fields)
Lst(items) == Toml!List(items)
Null == Toml!Scalar("null")
Source(file, rules, readable, declared) ==
  [file |-> file, rules |-> rules, readable |-> readable, declared |-> declared,
   generate |-> NoFormat]
Doc(root) == [parses |-> TRUE, root |-> root]

\* Pipfile: every table but some.
Pipfile == [queries |-> <<>>, tableQueries |-> <<<<Toml!EveryKey>>>>, existsAny |-> <<>>,
            tableExistsAny |-> <<>>, excludeKeys |-> {"source"}]
\* Poetry's tables, and a list; a list of tables does not hold names.
Poetry == [queries |-> <<<<Toml!Key("tool"), Toml!Key("poetry"), Toml!Key("dependencies")>>,
                         <<Toml!Key("project"), Toml!Items("dependencies")>>>>,
           tableQueries |-> <<>>, existsAny |-> <<>>,
           tableExistsAny |-> <<>>, excludeKeys |-> {}]
Wanted1 == Tx(<<"*">>)
Wanted2 == Map("version" :> Tx(<<">=1">>) @@ "extra" :> Lst(<<Tx(<<"x">>)>>))
Tables1 == {"k" :> v : v \in {Wanted1, Wanted2}} \cup
           {"k" :> Wanted1 @@ "python" :> Wanted1, "python" :> Wanted2,
            "m" :> Wanted2 @@ "k" :> Wanted1 @@ "version" :> Toml!Scalar("number")}
Entries(fields, group, skipped) ==
  {Toml!Declared(key, fields[key], group) : key \in DOMAIN fields \ skipped}
MCTomlFiles ==
  {Source(Doc(Map("packages" :> Map(t) @@ "source" :> Map(u) @@ "dev-packages" :> Map(u))), Pipfile, TRUE,
          Entries(t, <<"packages">>, {}) \cup Entries(u, <<"dev-packages">>, {})) :
     t, u \in Tables1} \cup
  {Source(Doc(Map("tool" :> Map("poetry" :> Map("dependencies" :> Map(t))) @@
                  "project" :> Map("dependencies" :> Lst(list)))), Poetry, TRUE,
          Entries(t, <<"tool", "poetry", "dependencies">>, {"python"}) \cup
          {Toml!Declared("", list[i], <<"project", "dependencies">>) : i \in DOMAIN list}) :
     t \in Tables1, list \in {<<>>, <<Tx(A)>>, <<Tx(B), Tx(A)>>}}

\* Groups of a YAML file, under a list or a mapping of jobs.
YamlRules == [query |-> <<<<Yaml!Step("dependencies", 0), Yaml!Each>>>>,
              name |-> <<<<Yaml!Step("k", 0)>>>>,
              dependencies |-> <<<<Yaml!Step("packages", 0)>>>>]
YamlEntry(value) == Map("k" :> Tx(<<"n">>) @@ "packages" :> value)
YamlValues == {Null, Lst(<<>>), Lst(<<Tx(A)>>), Lst(<<Tx(B), Tx(C)>>)}
DeclaredBy(values) == UNION {{values[i].items[j].text : j \in DOMAIN values[i].items} : i \in DOMAIN values}
YamlRoots(values) ==
  {Map("dependencies" :> Lst([i \in DOMAIN values |-> YamlEntry(values[i])])),
   Map("dependencies" :> Map(IF Len(values) = 1 THEN "m" :> YamlEntry(values[1])
                             ELSE "m" :> YamlEntry(values[1]) @@ "k" :> YamlEntry(values[2])))}
YamlGood == One(YamlValues) \cup Pairs(YamlValues, YamlValues)
YamlBad == Pairs(YamlValues, {Tx(A), Lst(<<Tx(Bad)>>), Lst(<<Tx(A), Null>>)})
MCYamlFiles ==
  UNION {{Source(Doc(root), YamlRules, TRUE, DeclaredBy(values)) : root \in YamlRoots(values)} : values \in YamlGood} \cup
  UNION {{Source(Doc(root), YamlRules, FALSE, DeclaredBy(values)) : root \in YamlRoots(values)} : values \in YamlBad}

\* Strings at a path.
YamlAt(value, path) == [file |-> Doc(value), path |-> path, readable |-> TRUE, generate |-> NoFormat,
                        declared |-> {t \in {Tx(A), Tx(B)} : Contains(value.fields["k"].items, t)}]
MCYamlLists == {YamlAt(Map("k" :> Lst(items)), <<Yaml!Items("k")>>) :
                  items \in {<<>>, <<Tx(A)>>, <<Tx(B), Tx(A)>>, <<Map("m" :> Tx(A))>>}}

\* The presence of a key, in each syntax; false is nothing in JSON only.
Leaves == {Null, Tx(<<>>), Tx(A), Lst(<<>>), Lst(<<Null>>), Map(<<>>), Map("k" :> Null),
           Toml!Scalar("number"), Toml!Scalar("true"), Toml!Scalar("false")}
Empties(syntax) == CASE syntax = "json" -> {Null, Tx(<<>>), Lst(<<>>), Map(<<>>), Toml!Scalar("false")}
                     [] syntax \in {"yaml", "toml"} -> {Null, Tx(<<>>), Lst(<<>>), Map(<<>>)}
                     [] syntax = "toml-table" -> Leaves \ {Map("k" :> Null)}
                     [] OTHER -> {}
Roots(leaf) == {Map("k" :> leaf), Map("k" :> leaf @@ "m" :> Tx(A)), Map("m" :> leaf)}
Asked(syntax, path, file, declares) ==
  [syntax |-> syntax, path |-> path, file |-> file, broken |-> FALSE, declares |-> declares,
   generate |-> NoFormat]
Broken(asked) == [asked EXCEPT !.file.parses = FALSE, !.broken = TRUE]
KeyFiles(syntax) ==
  UNION {{Asked(syntax, <<"k">>, Doc(root), "k" \in DOMAIN root.fields /\ leaf \notin Empties(syntax)) :
            root \in Roots(leaf)} :
         leaf \in IF syntax = "toml" THEN Leaves \ {Null} ELSE Leaves}
Tags(names) == [i \in DOMAIN names |-> Yaml!Open(names[i])] \o [i \in DOMAIN names |-> Yaml!Close]
XmlFile(tags, declares) == Asked("xml", <<"project", "k">>, tags, declares)
MCXmlFiles ==
  {XmlFile(Tags(<<"project", "k">>), TRUE), XmlFile(Tags(<<"k">>), FALSE),
   XmlFile(Tags(<<"project", "m", "k">>), FALSE), XmlFile(Tags(<<"project", "k", "m">>), TRUE),
   XmlFile(<<Yaml!Open("project")>> \o Tags(<<"m">>) \o Tags(<<"k">>) \o <<Yaml!Close>>, TRUE),
   \* What follows the match is not read any more.
   XmlFile(<<Yaml!Open("project"), Yaml!Open("k"), Yaml!Broken>>, TRUE)} \cup
  {[XmlFile(tags, FALSE) EXCEPT !.broken = TRUE] :
     tags \in {<<Yaml!Open("project"), Yaml!Broken>>, <<Yaml!Open("project")>>, <<Yaml!Close>>}}
MCPresenceFiles ==
  KeyFiles("json") \cup KeyFiles("yaml") \cup KeyFiles("yaml-exists") \cup KeyFiles("toml") \cup
  KeyFiles("toml-table") \cup
  {Broken(Asked(syntax, <<"k">>, Doc(Null), FALSE)) : syntax \in {"json", "yaml", "yaml-exists", "toml"}}

-----------------------------------------------------------------------------
(* pyproject.toml, with what setuptools reads from other files.            *)

ReqFile == <<"req">>
FileOf(lines) == (ReqFile :> lines)
Static(fields) == Map("project" :> Map(fields))
Dependency(text, group) == Toml!Declared("", Tx(text), group)
Project(fields, directives, files, readable, declared) ==
  [file |-> Doc(Map("project" :> Map(fields) @@
                    "tool" :> Map("setuptools" :> Map("dynamic" :> Map(directives))))),
   files |-> files, readable |-> readable, declared |-> declared, generate |-> NoFormat]
InProject == <<"project", "dependencies">>
InExtra == <<"project", "optional-dependencies", "dev">>
DynamicKey(keys) == "dynamic" :> Lst([i \in DOMAIN keys |-> Tx(<<keys[i]>>)])
\* A directive: [value, whether it can be read, texts it leads to], given the
\* lines of the one file that is there.
Directive(value, readable, texts) == [value |-> value, readable |-> readable, texts |-> texts]
Named(name) == Map("file" :> name)
Directives(lines) ==
  LET listed == SelectSeq(lines, LAMBDA line : line \notin {<<>>, Bad})
      fine == Bad \notin {lines[i] : i \in DOMAIN lines}
  IN  {Directive(Named(Tx(ReqFile)), fine, listed),
       Directive(Named(Lst(<<Tx(ReqFile), Tx(ReqFile)>>)), fine, listed),
       Directive(Named(Lst(<<Tx(ReqFile), Tx(<<"k">>)>>)), FALSE, listed),
       Directive(Named(Lst(<<Tx(ReqFile), Null>>)), FALSE, <<>>),
       Directive(Map("file" :> Tx(ReqFile) @@ "k" :> Tx(A)), FALSE, <<>>),
       Directive(Tx(ReqFile), FALSE, <<>>)}
Dependencies(texts, group) == {Dependency(texts[i], group) : i \in DOMAIN texts}
LinesOf == {<<A, B>>, <<<<>>, A>>, <<A, Bad>>, <<>>}
MCPyprojectFiles ==
  UNION {
    {Project(DynamicKey(<<"dependencies">>), "dependencies" :> d.value, FileOf(lines), d.readable,
             Dependencies(d.texts, InProject)) : d \in Directives(lines)} \cup
    {Project(DynamicKey(<<"version", "optional-dependencies">>) @@ "dependencies" :> Lst(<<Tx(D)>>),
             "optional-dependencies" :> Map("dev" :> d.value), FileOf(lines), d.readable,
             Dependencies(d.texts, InExtra) \cup {Dependency(D, InProject)}) : d \in Directives(lines)} \cup
    {Project(DynamicKey(<<"dependencies", "optional-dependencies">>),
             "dependencies" :> d.value @@ "optional-dependencies" :> Map("dev" :> e.value),
             FileOf(lines), d.readable /\ e.readable,
             Dependencies(d.texts, InProject) \cup Dependencies(e.texts, InExtra)) :
       d, e \in Directives(lines)} \cup
    {\* Declared twice, and something that is no name.
     Project(DynamicKey(<<"dependencies">>) @@ "dependencies" :> Lst(<<Tx(D)>>),
             "dependencies" :> Named(Tx(ReqFile)), FileOf(lines), FALSE,
             Dependencies(SelectSeq(lines, LAMBDA line : line \notin {<<>>, Bad}), InProject) \cup
               {Dependency(D, InProject)}),
     Project("dynamic" :> Lst(<<Null>>), <<>>, FileOf(lines), FALSE, {}),
     Project("dynamic" :> Tx(A), <<>>, FileOf(lines), FALSE, {}),
     Project("dependencies" :> Lst(<<Tx(A)>>), <<>>, FileOf(lines), TRUE, {Dependency(A, InProject)})} :
    lines \in LinesOf}

-----------------------------------------------------------------------------
(* Lockfiles of installations.  What is installed: [alias, name, version,  *)
(* group, inside], with the packages installed inside of it.               *)

React == <<"react">>
Scoped == <<"@", "s", "/", "b">>
Installed(alias, name, version, group, inside) ==
  [alias |-> alias, name |-> name, version |-> <<version>>, group |-> <<group>>, inside |-> inside]
Inner(name, version) == Installed(name, name, version, "none", <<>>)
Installations(aliases) ==
  {<<Installed(alias, React, v, group, inside), Installed(Scoped, Scoped, "1", "devDependencies", <<>>)>> :
     alias \in aliases, v \in MCVersions, group \in {"dependencies", "optionalDependencies"},
     inside \in {<<>>, <<Inner(Scoped, "2")>>, <<Inner(<<"c">>, "1"), Inner(React, "1")>>}} \cup
  {<<>>, <<Installed(Scoped, Scoped, "2", "devDependencies", <<Inner(Scoped, "1")>>)>>}
Aliases == {React, <<"alias">>, <<"@", "s", "/", "alias">>}

Everything(top) == {top[i] : i \in DOMAIN top} \cup
                   UNION {{top[i].inside[j] : j \in DOMAIN top[i].inside} : i \in DOMAIN top}
Tree(top) == {<<p.name, p.version>> : p \in Everything(top)}
Lock(file, top, grouped) ==
  [file |-> file, tree |-> Tree(top), readable |-> TRUE, generate |-> NoFormat,
   asked |-> IF grouped THEN {<<top[i].name, top[i].group>> : i \in DOMAIN top} ELSE {}]
Collected(top, Write(_, _)) ==
  FlattenSeq([i \in DOMAIN top |->
    <<Write(top[i], <<>>)>> \o [j \in DOMAIN top[i].inside |-> Write(top[i].inside[j], top[i].alias)]])

\* package-lock.json in version 1, 2 and 3.
Nested(p) == [name |-> p.alias, version |-> p.version, readable |-> TRUE,
              inside |-> [j \in DOMAIN p.inside |->
                            [name |-> p.inside[j].alias, version |-> p.inside[j].version,
                             readable |-> TRUE, inside |-> <<>>]]]
Place(p, above) ==
  [path |-> (IF above = <<>> THEN <<>> ELSE <<Locks!InNodeModules>> \o above \o <<"/">>)
            \o <<Locks!InNodeModules>> \o p.alias,
   name |-> IF p.alias = p.name THEN <<>> ELSE p.name, version |-> p.version]
GroupNames == {"dependencies", "devDependencies", "optionalDependencies"}
AskedFor(top, Entry(_)) ==
  [g \in GroupNames |-> LET in == SelectSeq(top, LAMBDA p : p.group = <<g>>)
                        IN  [i \in DOMAIN in |-> Entry(in[i])]]
NpmFile(version, top) ==
  [parses |-> TRUE, version |-> version, dependencies |-> [i \in DOMAIN top |-> Nested(top[i])],
   packages |-> Collected(top, Place), root |-> AskedFor(top, LAMBDA p : p.alias)]
NotInstalled(top) == [i \in DOMAIN top |-> [top[i] EXCEPT !.version = <<>>, !.inside = <<>>]]
\* A file that does not parse.
Unparsed(lock) == [lock EXCEPT !.file.parses = FALSE, !.readable = FALSE, !.tree = {}, !.asked = {}]
MCNpmLocks ==
  {Unparsed(Lock(NpmFile(3, top), top, FALSE)) : top \in Installations({React})} \cup
  {Lock(NpmFile(1, top), top, FALSE) : top \in Installations({React})} \cup
  {Lock(NpmFile(v, top), top, TRUE) : v \in {2, 3}, top \in Installations(Aliases)} \cup
  {Lock([NpmFile(3, top) EXCEPT !.packages = <<>>], NotInstalled(top), TRUE) : top \in Installations({React})}

\* yarn.lock: one entry for each name and version, with its selectors.
Selectors(p) == <<p.alias \o <<"@", "^1">>, p.alias \o <<"@", "*">>>>
Line(kind, selectors, version) == [kind |-> kind, selectors |-> selectors, version |-> version]
Entry(p, above) == <<Line("selectors", Selectors(p), <<>>), Line("version", <<>>, p.version),
                     Line("other", <<>>, <<>>), Line("blank", <<>>, <<>>)>>
ModernEntry(p, above) ==
  [selectors |-> Selectors(p), resolution |-> p.name \o <<"@", "npm", ":">> \o p.version, version |-> p.version]
YarnFile(header, top) ==
  [header |-> header, parses |-> TRUE, entries |-> Collected(top, ModernEntry),
   lines |-> <<Line("comment", <<>>, <<>>)>> \o FlattenSeq(Collected(top, Entry))]
MCYarnLocks ==
  {Unparsed(Lock(YarnFile("modern", top), top, FALSE)) : top \in Installations({React})} \cup
  {Lock(YarnFile("classic", top), top, FALSE) : top \in Installations({React})} \cup
  {Lock(YarnFile("modern", top), top, FALSE) : top \in Installations(Aliases)}

\* pnpm-lock.yaml in three versions, with and without peers in the versions.
Peers(major, on) == IF ~ on THEN <<>>
                    ELSE IF major = 5 THEN <<"_", "p", "@", "2">> ELSE <<"(", "p", "@", "2", ")">>
Slash(major) == IF major = 9 THEN <<>> ELSE <<"/">>
Mark(major) == IF major = 5 THEN <<"/">> ELSE <<"@">>
StoreKey(major, p, on) == Slash(major) \o p.name \o Mark(major) \o p.version \o Peers(major, on)
PnpmFile(major, top, on) ==
  [parses |-> TRUE, major |-> major,
   importer |-> AskedFor(top, LAMBDA p :
     [name |-> p.alias, specifier |-> IF p.alias = p.name THEN <<"^1">>
                                      ELSE <<"npm", ":">> \o p.name \o <<"@", "^1">>,
      version |-> IF p.alias = p.name THEN p.version \o Peers(major, on) ELSE StoreKey(major, p, on)]),
   packages |-> Collected(top, LAMBDA p, above : StoreKey(major, p, on))]
MCPnpmLocks ==
  {Unparsed(Lock(PnpmFile(9, top, FALSE), top, FALSE)) : top \in Installations({React})} \cup
  {Lock(PnpmFile(major, top, on), top, TRUE) :
     major \in {5, 6, 9}, top \in Installations(Aliases), on \in BOOLEAN}

\* Lockfiles of one list of packages.  Something in it comes from another
\* source; the project itself may be in it.
LockOf(kind, file, tree, asked) ==
  [kind |-> kind, file |-> file, tree |-> tree, asked |-> asked, readable |-> TRUE, generate |-> NoFormat]
Flat(top) == Collected(top, LAMBDA p, above : p)
SourcedEntry(name, version, source, self) ==
  [name |-> name, version |-> version, source |-> source, self |-> self]
ListLock(top, source, project) ==
  LET flat == Flat(top)
  IN  [parses |-> TRUE, version |-> TRUE, metadata |-> TRUE,
       packages |-> project \o [i \in DOMAIN flat |->
         SourcedEntry(flat[i].name, flat[i].version,
                      IF flat[i].name = React THEN source ELSE "registry", FALSE)]]
Itself(sources) == {<<>>} \cup {<<SourcedEntry(<<"k">>, <<"1">>, source, TRUE)>> : source \in sources}
ListLocks ==
  {LockOf("cargo", ListLock(top, "registry", <<>>), Tree(top), {}) : top \in Installations({React})} \cup
  {LockOf("poetry", ListLock(top, source, project), Tree(top), {}) :
     top \in Installations({React}), source \in {"registry", "directory"},
     project \in Itself({"directory"})} \cup
  {LockOf("uv", ListLock(top, source, project), Tree(top), {}) :
     top \in Installations({React}), source \in {"registry", "editable"},
     project \in Itself({"editable", "workspace", "virtual"})}

\* Lockfiles of two groups, in each of which a package is installed once.
OnceEach(top) == \A i, j \in DOMAIN Flat(top) : Flat(top)[i].name = Flat(top)[j].name => i = j
InGroup(top, runtime, Version(_)) ==
  LET in == SelectSeq(Flat(top), LAMBDA p : (p.group # <<"devDependencies">>) = runtime)
  IN  [i \in DOMAIN in |-> [name |-> in[i].name, version |-> Version(in[i].version)]]
AskedIn(top, runtime, development) ==
  {<<p.name, IF p.group = <<"devDependencies">> THEN <<development>> ELSE <<runtime>>>> : p \in Everything(top)}
GroupLocks ==
  {LockOf("pipenv", [parses |-> TRUE, present |-> TRUE,
                     default |-> InGroup(top, TRUE, LAMBDA v : <<"==">> \o v),
                     develop |-> InGroup(top, FALSE, LAMBDA v : <<"==">> \o v)],
          Tree(top), AskedIn(top, "default", "develop")) :
     top \in {t \in Installations({React}) : OnceEach(t)}} \cup
  {LockOf("composer", [parses |-> TRUE, present |-> TRUE, packages |-> InGroup(top, TRUE, LAMBDA v : v),
                       packagesDev |-> InGroup(top, FALSE, LAMBDA v : v)],
          Tree(top), AskedIn(top, "packages", "packages-dev")) :
     top \in {t \in Installations({React}) : OnceEach(t)}}

\* Conan: two packages in a graph, or in lists of references.
Ids == {"1", "2"}
NameOf(id) == IF id = "1" THEN React ELSE <<"c">>
Reference(id) == NameOf(id) \o <<"/", "1", "@", "user", "/", "channel", "#", "r", "%", "2">>
NoReference == <<"c", "/", "#", "r">>
\* bad: the second reference cannot be read.
ConanFile(requires, builds, inBuild, bad) ==
  LET ids == IF bad THEN {"1"} ELSE Ids
      Direct(id) == id \in requires \cup builds
      ForBuild(id) == id \in inBuild \cup builds
  IN  [LockOf("conan",
         [parses |-> TRUE, version |-> "0.4", graph |-> TRUE,
          root |-> [requires |-> requires, build_requires |-> builds],
          nodes |-> <<[id |-> "0", ref |-> <<>>, build |-> FALSE],
                      [id |-> "1", ref |-> Reference("1"), build |-> "1" \in inBuild],
                      [id |-> "2", ref |-> IF bad THEN NoReference ELSE Reference("2"),
                       build |-> "2" \in inBuild]>>],
         {<<NameOf(id), <<"1">>>> : id \in ids},
         {<<NameOf(id), IF Direct(id) THEN "direct" ELSE "transitive",
            IF ForBuild(id) THEN "build" ELSE "runtime">> : id \in ids}) EXCEPT !.readable = ~ bad]
ConanLists(group, other, bad) ==
  LET refs == <<Reference("1")>> \o IF bad THEN <<NoReference>> ELSE <<>>
      fields == group :> refs @@ other :> <<Reference("2")>> @@ [g \in DOMAIN Locks!ConanScope |-> <<>>]
  IN  [LockOf("conan", fields @@ [parses |-> TRUE, version |-> "0.5"],
              {<<NameOf(id), <<"1">>>> : id \in Ids}, {}) EXCEPT !.readable = ~ bad]

\* pubspec.lock: what an entry says of where the package is from.
Descriptions(source) ==
  CASE source = "hosted" -> {Tx(<<"k">>), Map("name" :> Tx(<<"k">>) @@ "url" :> Tx(<<"u">>))}
    [] source = "git" -> {Map("url" :> Tx(<<"u">>))}
    [] source = "path" -> {Tx(<<"p">>), Map("path" :> Tx(<<"p">>))}
    [] source = "sdk" -> {Tx(<<"dart">>)}
PubspecEntry(source, description, dependency) ==
  Map("source" :> Tx(<<source>>) @@ "version" :> Tx(<<"1">>) @@ "description" :> description
      @@ IF dependency = <<>> THEN <<>> ELSE "dependency" :> Tx(dependency))
GoodEntries(dependency) ==
  UNION {{PubspecEntry(source, description, dependency) : description \in Descriptions(source)} :
           source \in {"hosted", "git", "path", "sdk"}}
BadEntries == {PubspecEntry("hosted", Map("url" :> Tx(<<"u">>)), <<>>), PubspecEntry("git", Tx(<<"u">>), <<>>),
               PubspecEntry("other", Null, <<>>), Map("source" :> Tx(<<"hosted">>)), Tx(<<"1">>), Null}
PubspecLock(entries, tree, asked, readable) ==
  [LockOf("dart", Doc(Map("packages" :> Map(entries))), tree, asked) EXCEPT !.readable = readable]
AsksFor == [direct |-> <<"direct main">>, dev |-> <<"direct dev">>, other |-> <<"transitive">>, none |-> <<>>]
Stance == [direct |-> <<"direct", "runtime">>, dev |-> <<"direct", "development">>,
           other |-> <<"transitive", "runtime">>, none |-> <<"inconclusive", "runtime">>]
StandsAs(name, how) == <<name, Stance[how][1], Stance[how][2]>>
\* packages.lock.json: a package for two frameworks, and what else is there.
NugetEntry(framework, name, type, resolved) ==
  [framework |-> framework, name |-> name, type |-> type, resolved |-> resolved]
NugetTypes == {"Direct", "Transitive", "CentralTransitive"}
NugetLock(version, type, other, resolved) ==
  [LockOf("nuget",
     [parses |-> TRUE, version |-> version,
      packages |-> <<NugetEntry("net8", <<"k">>, type, <<"1">>), NugetEntry("net8", <<"p">>, "Project", <<>>),
                     NugetEntry("net9", <<"k">>, other, resolved)>>],
     {<<<<"k">>, v>> : v \in {<<"1">>, resolved} \ {<<>>}},
     {<<<<"k">>, IF type = "Direct" THEN "direct" ELSE "transitive", "runtime">>})
   EXCEPT !.readable = resolved # <<>>]
NugetLocks == {NugetLock(version, type, other, resolved) :
                 version \in {"1", "2"}, type, other \in NugetTypes, resolved \in {<<>>, <<"1">>, <<"2">>}}

MCPackageLockfiles ==
  {Unparsed(lock) : lock \in ListLocks \cup NugetLocks \cup GroupLocks} \cup
  ListLocks \cup NugetLocks \cup GroupLocks \cup
  {ConanFile(requires, builds, inBuild, bad) :
     requires, builds, inBuild \in SUBSET Ids, bad \in BOOLEAN} \cup
  {ConanLists(group, other, bad) : group \in {"requires", "build_requires"},
     other \in {"python_requires", "config_requires"}, bad \in BOOLEAN} \cup
  UNION {{PubspecLock("k" :> e @@ "m" :> f, {<<<<"k">>, <<"1">>>>, <<<<"m">>, <<"1">>>>},
                      {StandsAs(<<"k">>, how), StandsAs(<<"m">>, "dev")}, TRUE) :
            e \in GoodEntries(AsksFor[how]), f \in GoodEntries(AsksFor["dev"])} : how \in DOMAIN AsksFor} \cup
  {PubspecLock("k" :> e @@ "m" :> f, {<<<<"k">>, <<"1">>>>}, {StandsAs(<<"k">>, "none")}, FALSE) :
     e \in GoodEntries(<<>>), f \in BadEntries}

-----------------------------------------------------------------------------
(* Manifests.                                                              *)

Spec1(name, text, specifier) == [name |-> name, text |-> text, specifier |-> specifier]
Specifiers == {<<"^1">>, <<"npm:", "b", "@", "^1">>, <<"npm:", "@", "s", "/", "b">>, <<"file:", "k">>,
               <<"workspace:", "*">>, <<"github:", "k">>, <<"https:", "k">>}
Means(specifier) == CASE specifier = <<"npm:", "b", "@", "^1">> -> <<"b">>
                      [] specifier = <<"npm:", "@", "s", "/", "b">> -> Scoped
                      [] OTHER -> React
Wrong == {Spec1(<<>>, TRUE, <<"^1">>), Spec1(Scoped, FALSE, <<>>)}
OneGroup(group, entries) == (group :> [object |-> TRUE, entries |-> entries])
Package1(groups, readable, declared) ==
  [file |-> [parses |-> TRUE, groups |-> groups, optionalPeers |-> {React}],
   readable |-> readable, declared |-> declared, generate |-> NoFormat]
NodeGroups == {"dependencies", "devDependencies", "peerDependencies", "optionalDependencies"}
MCNodeManifests ==
  {Package1(OneGroup(g, <<Spec1(React, TRUE, s)>>), TRUE, {<<Means(s), g>>}) : g \in NodeGroups, s \in Specifiers} \cup
  {Package1(OneGroup(g, <<Spec1(React, TRUE, s)>>) @@ OneGroup(h, <<Spec1(React, TRUE, t), w>>), FALSE,
            {<<Means(s), g>>, <<Means(t), h>>}) :
     g \in {"dependencies"}, h \in NodeGroups \ {"dependencies"}, s, t \in Specifiers, w \in Wrong} \cup
  {Package1("dependencies" :> [object |-> FALSE, entries |-> <<>>], FALSE, {}), Package1(<<>>, TRUE, {})}

\* Cargo.toml: what a table says of a crate, and the name that it means.
Crates == {[value |-> Tx(<<"^1">>), name |-> <<"k">>, whole |-> TRUE],
           [value |-> Map("version" :> Tx(<<"^1">>) @@ "package" :> Tx(<<"m">>)), name |-> <<"m">>, whole |-> TRUE],
           [value |-> Map("workspace" :> Toml!Scalar("true")), name |-> <<"k">>, whole |-> TRUE],
           [value |-> Map("package" :> Tx(<<"m">>)), name |-> <<"m">>, whole |-> FALSE],
           [value |-> Lst(<<>>), name |-> <<>>, whole |-> FALSE]}
CargoTables == {<<"dependencies">>, <<"dev-dependencies">>, <<"build-dependencies">>,
                <<"target", "k", "dependencies">>, <<"target", "m", "dev-dependencies">>,
                <<"workspace", "dependencies">>}
RECURSIVE At(_, _)
At(path, value) == IF path = <<>> THEN value ELSE Map(Head(path) :> At(Tail(path), value))
Crate(path, crate) == At(path, Map("k" :> crate.value))
Says(path, crate) == IF crate.name = <<>> THEN {} ELSE {<<crate.name, path>>}
Manifest(root, readable, declared) ==
  [file |-> Doc(root), readable |-> readable, declared |-> declared, generate |-> NoFormat]
MCCargoManifests ==
  {Manifest(Crate(path, c), c.whole, Says(path, c)) : path \in CargoTables, c \in Crates} \cup
  {Manifest(Map(Crate(path, c).fields @@ Crate(other, d).fields), c.whole /\ d.whole,
            Says(path, c) \cup Says(other, d)) :
     path \in {<<"dependencies">>, <<"dev-dependencies">>}, c, d \in Crates,
     other \in {<<"build-dependencies">>, <<"target", "k", "dependencies">>, <<"workspace", "dependencies">>}} \cup
  {Manifest(Map(<<>>), TRUE, {})}

\* Manifests with two groups.  A form of an entry: its key and value, whether
\* it can be read, and the name it declares, if any.
Form(key, value, readable, name) == [key |-> key, value |-> value, readable |-> readable, name |-> name]
Plainly(value) == Form("k", value, TRUE, <<"k">>)
NotAtAll(value) == Form("k", value, FALSE, <<>>)
GroupAs(group, scope) == [group |-> group, scope |-> scope]
SaidIn(group, form) == IF form.name = <<>> THEN {} ELSE {<<form.name, group.group, group.scope>>}
PackageManifest(kind, root, readable, declared) ==
  [kind |-> kind, file |-> Doc(root), readable |-> readable, declared |-> declared, generate |-> NoFormat]
InGroups(kind, base, groups, forms) ==
  {PackageManifest(kind,
     Map(base @@ gh[1].group :> Map(e.key :> e.value) @@ gh[2].group :> Map(f.key :> f.value)),
     e.readable /\ f.readable, SaidIn(gh[1], e) \cup SaidIn(gh[2], f)) :
     gh \in {p \in groups \X groups : p[1] # p[2]}, e, f \in forms} \cup
  {PackageManifest(kind, Map(base @@ g.group :> Lst(<<>>)), FALSE, {}) : g \in groups} \cup
  {PackageManifest(kind, Map(base), TRUE, {})}
DartForms ==
  {Plainly(v) : v \in {Tx(<<"^1">>), Map("sdk" :> Tx(<<"dart">>)), Map("path" :> Tx(<<"p">>)),
                       Map("git" :> Tx(<<"u">>) @@ "version" :> Tx(<<"^1">>)),
                       Map("git" :> Map("url" :> Tx(<<"u">>))), Map("hosted" :> Tx(<<"u">>))}} \cup
  {Form("k", Map("hosted" :> Map("name" :> Tx(<<"m">>) @@ "url" :> Tx(<<"u">>))), TRUE, <<"m">>),
   Form("", Tx(<<"^1">>), FALSE, <<>>)} \cup
  {NotAtAll(v) : v \in {Null, Tx(<<>>), Toml!MixedMapping, Map("version" :> Tx(<<"^1">>)),
                        Map("git" :> Map("path" :> Tx(<<"p">>))), Map("sdk" :> Tx(<<>>))}}
FortranForms ==
  {Plainly(v) : v \in {Tx(<<"*">>), Map("version" :> Tx(<<"1">>)), Map("path" :> Tx(<<"p">>)),
                       Map("git" :> Tx(<<"u">>) @@ "version" :> Tx(<<"1">>))}} \cup
  {NotAtAll(v) : v \in {Tx(<<>>), Lst(<<>>), Map(<<>>), Map("git" :> Tx(<<>>) @@ "version" :> Tx(<<"1">>))}}
ComposerForms ==
  {Plainly(v) : v \in {Tx(<<"^1">>), Tx(<<>>), Null}} \cup
  {Form("php", Tx(<<"^1">>), TRUE, <<>>), Form("", Tx(<<"^1">>), FALSE, <<>>), NotAtAll(Lst(<<>>))}

\* Julia: the constraints and the target of tests stand in other tables.
JuliaGroups == {GroupAs("deps", "runtime"), GroupAs("weakdeps", "optional"), GroupAs("extras", "runtime")}
JuliaForms == {Plainly(Tx(<<"uuid">>)), NotAtAll(Tx(<<>>)), NotAtAll(Lst(<<>>))}
Constraints == {"compat" :> Map("k" :> Tx(<<"1">>)), "compat" :> Map("m" :> Lst(<<>>)), "compat" :> Lst(<<>>)}
InTests(d) == IF d[2] = "extras" THEN <<d[1], d[2], "test">> ELSE d
JuliaFiles ==
  UNION {LET fine == base = "compat" :> Map("k" :> Tx(<<"1">>))
             plain == InGroups("julia", base, JuliaGroups, JuliaForms)
             Also(m, tests) == Map(m.file.root.fields @@ "targets" :> Map("test" :> Lst(tests)))
         IN  {[m EXCEPT !.readable = @ /\ fine] : m \in plain} \cup
             {[m EXCEPT !.readable = @ /\ fine, !.file.root = Also(m, <<Null, Tx(<<"k">>)>>),
                        !.declared = {InTests(d) : d \in @}] : m \in plain} :
           base \in Constraints}

\* Imports of Deno and of the web.
Targets ==
  {Form("k", Tx(target), TRUE, <<"k">>) : target \in {<<"https:", "u">>, <<"./", "p">>, <<"file:", "p">>, <<"other">>}} \cup
  {Form("k", Tx(target), TRUE, <<"m">>) :
     target \in {<<"npm:", "m">>, <<"npm:", "/", "m", "@", "^1", "/", "p">>, <<"jsr:", "m", "/", "p">>}} \cup
  {Form("k", Tx(<<"npm:">> \o Scoped \o end), TRUE, Scoped) : end \in {<<>>, <<"@", "^1">>, <<"/", "p">>}} \cup
  {NotAtAll(v) : v \in {Tx(<<>>), Lst(<<>>)}}
Nameless == {Tx(<<"npm:">>), Tx(<<"jsr:", "@", "/", "m">>)}
Imports(form) == Map(form.key :> form.value)
Imported(form, group) == SaidIn(GroupAs(group, "runtime"), form)
ImportFiles ==
  {PackageManifest("deno", Map("imports" :> Imports(f)), f.readable, Imported(f, "imports")) :
     f \in Targets \cup {NotAtAll(v) : v \in Nameless \cup {Null}}} \cup
  {PackageManifest("import-map",
     Map("imports" :> Imports(e) @@ "scopes" :> Map("m" :> Imports(f) @@ "path" :> Null)),
     e.readable /\ f.readable, Imported(e, "imports") \cup Imported(f, "scopes")) :
     e, f \in Targets \cup {Plainly(v) : v \in Nameless} \cup {Form("k", Null, TRUE, <<>>)}} \cup
  {PackageManifest("deno", Map("imports" :> Lst(<<>>)), FALSE, {}),
   PackageManifest("import-map", Map("scopes" :> Lst(<<>>)), FALSE, {}),
   PackageManifest("import-map", Map("scopes" :> Map("m" :> Lst(<<>>))), FALSE, {})}
MCPackageManifestFiles ==
  InGroups("dart", <<>>, {GroupAs("dependencies", "runtime"), GroupAs("dev_dependencies", "development"),
                          GroupAs("dependency_overrides", "runtime")}, DartForms) \cup
  InGroups("fortran", "package" :> Map("name" :> Tx(<<"p">>)),
           {GroupAs("dependencies", "runtime"), GroupAs("dev-dependencies", "test")}, FortranForms) \cup
  InGroups("composer", <<>>, {GroupAs("require", "runtime"), GroupAs("require-dev", "development")}, ComposerForms) \cup
  JuliaFiles \cup ImportFiles

-----------------------------------------------------------------------------
(* Builds.  A form of a value that may use the property p says what it is  *)
(* for every value of p, <<>> if p has none.                               *)

Build(kind, file, readable, declared) ==
  [kind |-> kind, file |-> file, readable |-> readable, declared |-> declared, generate |-> NoFormat]
PValues == {<<>>, <<"1">>, <<"2">>, <<"3">>}
FixedForm(text) == [text |-> text, as |-> [p \in PValues |-> text], ok |-> [p \in PValues |-> TRUE]]
WithP(suffix) ==
  [text |-> <<"$", "p">> \o suffix,
   as |-> [p \in PValues |-> (IF p = <<>> THEN <<"$", "p">> ELSE p) \o suffix],
   ok |-> [p \in PValues |-> p # <<>>]]
VersionForms == {FixedForm(<<>>), FixedForm(<<"1">>), FixedForm(<<"[", "1", ",", ")">>), WithP(<<>>), WithP(<<".x">>)}
Fns(name, value) == name :> value

\* pom.xml.
PomProperties ==
  {[properties |-> <<>>, p |-> <<>>], [properties |-> Fns("p", <<"1">>), p |-> <<"1">>],
   [properties |-> Fns("p", <<"$", "q">>) @@ Fns("q", <<"2">>), p |-> <<"2">>],
   [properties |-> Fns("p", <<"$", "p">>), p |-> <<>>], [properties |-> Fns("p", <<>>), p |-> <<>>]}
Overrides == {[properties |-> <<>>, p |-> [p \in PValues |-> p]],
              [properties |-> Fns("q", <<"3">>), p |-> [p \in PValues |-> IF p = <<"2">> THEN <<"3">> ELSE p]],
              [properties |-> Fns("p", <<"3">>), p |-> [p \in PValues |-> <<"3">>]]}
PomScopes == {<<"", FALSE, "runtime">>, <<"test", FALSE, "test">>, <<"import", FALSE, "build">>, <<"test", TRUE, "optional">>}
PomForm(artifact, version, scope) == [artifact |-> artifact, version |-> version, scope |-> scope]
PomForms == {PomForm(a, v, s) : a \in {FixedForm(<<"a">>), FixedForm(<<>>), WithP(<<>>)}, v \in VersionForms, s \in PomScopes}
PomEntry(f) == [groupId |-> <<"g">>, artifactId |-> f.artifact.text, version |-> f.version.text,
                scope |-> f.scope[1], optional |-> f.scope[2]]
PomRange(text) == IF text = <<>> \/ Head(text) = "[" THEN text ELSE <<"[">> \o text \o <<"]">>
PomReads(f, p) == f.artifact.text # <<>> /\ f.artifact.ok[p] /\ f.version.ok[p]
PomSays(f, p, group, relationship) ==
  IF f.artifact.text = <<>> THEN {}
  ELSE {<<<<"g", ":">> \o f.artifact.as[p],
          IF f.version.ok[p] THEN PomRange(f.version.as[p]) ELSE f.version.text,
          group, f.scope[3], relationship>>}
PomFields(properties, dependencies, management, profiles) ==
  [groupId |-> <<"g">>, artifactId |-> <<"own">>, version |-> <<"1">>,
   parent |-> [groupId |-> <<>>, version |-> <<"2">>], properties |-> properties,
   dependencies |-> dependencies, management |-> management, profiles |-> profiles]
Pom(properties, f, managed) ==
  Build("pom", Doc(PomFields(properties.properties, IF managed THEN <<>> ELSE <<PomEntry(f)>>,
                             IF managed THEN <<PomEntry(f)>> ELSE <<>>, <<>>)),
        PomReads(f, properties.p),
        IF managed THEN PomSays(f, properties.p, <<"dependencyManagement">>, "inconclusive")
        ELSE PomSays(f, properties.p, <<"dependencies">>, "direct"))
PomWithProfile(properties, overrides, id, f) ==
  LET p == overrides.p[properties.p]
      group == IF id = "" THEN <<"profiles[", "2">> ELSE <<"profiles", id>>
      none == [id |-> "", properties |-> <<>>, dependencies |-> <<>>, management |-> <<>>]
      own == [id |-> id, properties |-> overrides.properties, dependencies |-> <<PomEntry(f)>>,
              management |-> <<PomEntry(f)>>]
  IN  Build("pom", Doc(PomFields(properties.properties, <<PomEntry(f)>>, <<>>, <<none, own>>)),
            id # "" /\ PomReads(f, p) /\ PomReads(f, properties.p),
            PomSays(f, properties.p, <<"dependencies">>, "direct")
            \cup PomSays(f, p, Append(group, "dependencies"), "direct")
            \cup PomSays(f, p, Append(group, "dependencyManagement"), "inconclusive"))
PomOfProject(own, parents) ==
  LET means == IF own # <<>> THEN own ELSE parents
      raw == <<"$", "project.version">>
      f == PomForm(FixedForm(<<"a">>), FixedForm(raw), <<"", FALSE, "runtime">>)
  IN  Build("pom", Doc([PomFields(Fns("project.version", <<"7">>), <<PomEntry(f)>>, <<>>, <<>>)
                        EXCEPT !.version = own, !.parent.version = parents]),
            means # <<>>,
            {<<<<"g", ":", "a">>, IF means = <<>> THEN raw ELSE PomRange(means), <<"dependencies">>, "runtime", "direct">>})
Poms == {Pom(properties, f, managed) : properties \in PomProperties, f \in PomForms, managed \in BOOLEAN} \cup
        {PomWithProfile(properties, overrides, id, PomForm(FixedForm(<<"a">>), v, s)) :
           properties \in PomProperties, overrides \in Overrides, id \in {"", "k"}, v \in VersionForms, s \in PomScopes} \cup
        {PomOfProject(own, parents) : own, parents \in {<<>>, <<"1">>, <<"2">>}}

\* Projects of .NET.
Xml(name, attributes, text, children) ==
  [name |-> name, attributes |-> attributes, text |-> text, children |-> children]
XmlText(name, text) == Xml(name, <<>>, text, <<>>)
OnlyIf == Fns("Condition", <<"c">>)
Properties(attributes, list) == Xml("PropertyGroup", attributes, <<>>, list)
ProjectProperties ==
  {[nodes |-> nodes, p |-> <<>>] :
     nodes \in {<<>>, <<Properties(OnlyIf, <<XmlText("p", <<"1">>)>>)>>,
                 <<Properties(<<>>, <<Xml("p", OnlyIf, <<"1">>, <<>>)>>)>>,
                 <<Properties(<<>>, <<Xml("p", <<>>, <<"1">>, <<XmlText("k", <<>>)>>)>>)>>}} \cup
  {[nodes |-> <<Properties(<<>>, <<XmlText("p", <<"$", "q">>)>>), Properties(<<>>, <<XmlText("q", <<"2">>)>>)>>,
    p |-> <<"2">>],
   [nodes |-> <<Properties(<<>>, <<XmlText("p", <<"1">>), XmlText("p", <<"3">>)>>)>>, p |-> <<"3">>]}
ItemNames == {[attributes |-> Fns("Include", <<"a">>), update |-> FALSE, nameless |-> FALSE],
              [attributes |-> Fns("Update", <<"a">>), update |-> TRUE, nameless |-> FALSE],
              [attributes |-> Fns("Other", <<"a">>), update |-> FALSE, nameless |-> TRUE]}
ItemScopes == {<<<<>>, "runtime">>,
               <<<<XmlText("DevelopmentDependency", <<"true">>)>>, "development">>,
               <<<<XmlText("IncludeAssets", <<"build", ";", "analyzers">>)>>, "build">>,
               <<<<XmlText("IncludeAssets", <<"build", ";", "compile">>)>>, "runtime">>}
\* Where an item says its version: an attribute, a child, an override.
ItemVersions == {"Attribute", "Version", "VersionOverride"}
ProjectFile(kind, properties, naming, form, place, scope, nested) ==
  LET itemName == IF kind = "project" THEN "PackageReference" ELSE "PackageVersion"
      versioned == place # "VersionOverride" \/ kind = "project"
      item == Xml(itemName,
                  naming.attributes @@ IF place = "Attribute" THEN Fns("Version", form.text) ELSE <<>>, <<>>,
                  scope[1] \o IF place = "Attribute" THEN <<>> ELSE <<XmlText(place, form.text)>>)
      items == Xml("ItemGroup", <<>>, <<>>, <<XmlText("Compile", <<>>), item>>)
      inside == Xml("Choose", <<>>, <<>>, <<Xml("When", OnlyIf, <<>>, <<items>>)>>)
      version == IF versioned THEN form.as[properties.p] ELSE <<>>
      ok == ~ versioned \/ form.ok[properties.p]
  IN  Build(kind, Doc(Xml("Project", <<>>, <<>>, <<IF nested THEN inside ELSE items>> \o properties.nodes)),
            ok /\ ~ naming.nameless,
            IF naming.nameless THEN {}
            ELSE {<<<<"a">>, IF ok THEN version ELSE form.text, <<itemName>>, scope[2],
                    IF kind = "project" /\ ~ naming.update THEN "direct" ELSE "inconclusive">>})
ProjectFiles ==
  {ProjectFile(kind, properties, naming, form, place, <<<<>>, "runtime">>, nested) :
     kind \in {"project", "central"}, properties \in ProjectProperties, naming \in ItemNames,
     form \in VersionForms \ {FixedForm(<<>>)}, place \in ItemVersions, nested \in BOOLEAN} \cup
  {ProjectFile("project", properties, naming, WithP(<<>>), "Version", scope, FALSE) :
     properties \in ProjectProperties, naming \in ItemNames, scope \in ItemScopes}
ConfigFiles ==
  {Build("packages-config",
         Doc(Xml("packages", <<>>, <<>>,
           <<Xml("package", Fns("id", name) @@ Fns("version", version) @@ Fns("developmentDependency", <<dev>>), <<>>, <<>>),
             Xml("package", Fns("id", <<"b">>), <<>>, <<>>)>>)),
         name # <<>>,
         {<<<<"b">>, <<>>, <<"package">>, "runtime", "direct">>} \cup
         IF name = <<>> THEN {}
         ELSE {<<name, version, <<"package">>, IF dev = "true" THEN "development" ELSE "runtime", "direct">>}) :
     name \in {<<>>, <<"a">>}, version \in {<<>>, <<"1">>}, dev \in {"true", "false"}}

\* Dockerfiles: what FROM and COPY name, and the images meant.
Image(name, tag) == {<<name, tag>>}
AsNamed == <<"k", ":", "1">>
Bases == {[text |-> AsNamed, images |-> Image(<<"k">>, <<"1">>), ok |-> TRUE],
          [text |-> <<"$", "ARGUMENT">>, images |-> Image(<<"r", ":", "5", "/", "k">>, <<"2">>), ok |-> TRUE],
          [text |-> <<"r", ":", "5", "/", "m", "@", "d">>, images |-> Image(<<"r", ":", "5", "/", "m">>, <<>>), ok |-> TRUE],
          [text |-> <<"scratch">>, images |-> {}, ok |-> TRUE],
          [text |-> <<"$", "UNSET">>, images |-> {}, ok |-> FALSE]}
NoImages == {[text |-> text, images |-> {}, ok |-> FALSE] :
               text \in {<<"k", ":">>, <<"m", "@">>, <<":", "1">>, <<"$", "EMPTY">>}}
Stage1(text) == [text |-> text, images |-> {}, ok |-> TRUE]
Lasts == Bases \cup NoImages \cup {Stage1(<<"b">>)}
\* scratch cannot be copied from.
Copies == {b \in Bases : b.text # <<"scratch">>} \cup {Stage1(<<"b">>), Stage1(<<"0">>), [text |-> <<"k", ":">>, images |-> {}, ok |-> FALSE]}
Row(fields) == [fields |-> fields, continued |-> FALSE]
More(fields) == [fields |-> fields, continued |-> TRUE]
Arguments == <<Row(<<<<"ARG">>, <<"ARGUMENT", "=", "r", ":", "5", "/", "k", ":", "2">>>>),
               Row(<<<<"ARG">>, <<"EMPTY", "=">>>>), Row(<<<<"ARG">>, <<"UNSET">>>>)>>
Scoped2(images, group, scope) == {<<i[1], i[2], group, scope, "direct">> : i \in images}
Dockerfile(first, last, copied, split) ==
  LET from == first.images \cup last.images
      other == IF copied = <<>> THEN {} ELSE copied[1].images \ from
      opening == <<<<"FROM">>, <<"--platform=", "x">>, first.text>>
      lines ==
            Arguments
            \o (IF split THEN <<Row(<<<<"#">>>>), More(opening), Row(<<>>), Row(<<<<"AS">>, <<"b">>>>)>>
                ELSE <<Row(opening \o <<<<"AS">>, <<"b">>>>)>>)
            \o <<Row(<<<<"RUN">>, <<"x">>>>), Row(<<<<"FROM">>, last.text>>)>>
            \o (IF copied = <<>> THEN <<>>
                ELSE <<Row(<<<<"COPY">>, <<"--chown=", "x">>, <<"--from=">> \o copied[1].text, <<"k">>>>)>>)
  IN  Build("dockerfile", [lines |-> lines],
            first.ok /\ last.ok /\ \A i \in DOMAIN copied : copied[i].ok,
            Scoped2(last.images, <<"FROM">>, "runtime") \cup Scoped2(first.images \ last.images, <<"FROM">>, "build")
            \cup Scoped2(other, <<"COPY --from">>, "build"))
BrokenDockerfiles ==
  {Build("dockerfile", [lines |-> lines], FALSE, {}) :
     lines \in {<<More(<<<<"FROM">>, AsNamed>>)>>, <<Row(<<<<"FROM">>>>)>>, <<Row(<<<<"ARG">>>>)>>,
                 <<Row(<<<<"ARG">>, <<"=", "1">>>>), Row(<<<<"FROM">>, AsNamed>>)>>,
                 <<Row(<<<<"FROM">>, <<"--platform=", "x">>>>)>>}}
Dockerfiles ==
  {Dockerfile(first, last, copied, split) :
     first \in Bases, last \in Lasts, copied \in One(Copies) \cup {<<>>}, split \in BOOLEAN} \cup
  {Dockerfile(first, last, <<>>, FALSE) : first \in NoImages, last \in Lasts \ {Stage1(<<"b">>)}} \cup
  BrokenDockerfiles

\* Compose: services k and m.
ServiceForms ==
  {[value |-> Map("image" :> Tx(b.text)), images |-> b.images, ok |-> b.ok] : b \in Bases \ {b \in Bases : b.text[1] \in {"$", "scratch"}}} \cup
  {[value |-> v, images |-> {}, ok |-> FALSE] :
     v \in {Map("image" :> Tx(<<"$", "ARGUMENT">>)), Map("image" :> Tx(<<>>)), Map("image" :> Null), Map("image" :> Tx(<<"k", ":">>))}} \cup
  {[value |-> v, images |-> {}, ok |-> TRUE] : v \in {Map("path" :> Tx(<<"p">>)), Map(<<>>)}}
ComposeFile(e, f) ==
  Build("compose", Doc(Map("services" :> Map("k" :> e.value @@ "m" :> f.value))), e.ok /\ f.ok,
        Scoped2(e.images, <<"services", "k", "image">>, "runtime")
        \cup Scoped2(f.images, <<"services", "m", "image">>, "runtime"))
ComposeFiles ==
  {ComposeFile(e, f) : e, f \in ServiceForms} \cup
  {Build("compose", Doc(root), TRUE, {}) : root \in {Null, Map(<<>>)}} \cup
  {Build("compose", Doc(root), FALSE, {}) : root \in {Map("services" :> Lst(<<>>)), Lst(<<>>)}}
MCBuildManifests == Poms \cup ProjectFiles \cup ConfigFiles \cup Dockerfiles \cup ComposeFiles

-----------------------------------------------------------------------------
(***************************************************************************)
(* Sources that are misread, beside those above: each says what it         *)
(* declares and, in the field taken, what the code takes it for; the line  *)
(* of the code is named with each form.                                    *)
(***************************************************************************)
Misread(source, taken) == source @@ [taken |-> taken]
MisreadJobs(source, jobs) == Misread(source, [jobs |-> jobs])
MisreadList(source, readable, declared) ==
  Misread(source, [readable |-> readable, declared |-> declared])

-----------------------------------------------------------------------------
(* Jobs.                                                                   *)

\* A job that is not seen, with the import that names its class.
PyMisread(import, callee, jobs, taken) ==
  MisreadJobs(Exported(import \o PyCall(callee, <<>>, Dict("python", Quoted(A)), <<>>), jobs), taken)
AJob == Job("yes", TRUE, <<A>>)
DJob == Job("yes", TRUE, <<D>>)
\* python.go:547 and 563: an import of several names, or of one in parentheses.
SeveralNames ==
  {PyMisread(<<"from", "aws_cdk", "import", "aws_glue", ",", "aws_s3", PyNL>>, Callee("aws_glue"), <<AJob>>, <<>>),
   PyMisread(<<"from", "aws_cdk", "import", "aws_s3", ",", "aws_glue", PyNL>>, Callee("aws_glue"), <<AJob>>, <<>>),
   PyMisread(<<"import", "aws_cdk.aws_glue", ",", "os", PyNL>>, Callee("aws_cdk.aws_glue"), <<AJob>>, <<>>),
   PyMisread(<<"import", "os", ",", "aws_cdk.aws_glue", PyNL>>, Callee("aws_cdk.aws_glue"), <<AJob>>, <<>>),
   PyMisread(<<"from", "aws_cdk.aws_glue", "import", "(", "CfnJob", ")", PyNL>>, <<"CfnJob">>, <<AJob>>, <<>>),
   PyMisread(<<"from", "aws_cdk.aws_glue", "import", "CfnJob", "as", "Job", ",", "CfnTrigger", PyNL>>, <<"Job">>, <<AJob>>, <<>>)}
\* python.go:971: a comment behind an argument stays with the keyword.
MCCommented ==
  {MisreadJobs(Exported(ImportLine("glue")
                 \o PyCall(Callee("glue"), <<"#", "note", PyNL>>, Dict("python", Quoted(A)), <<>>), <<AJob>>), <<>>)}
\* python.go:591 and 607: a blank before the parenthesis, the end of another
\* name, and a comment.
OneLine(text) == SelectSeq(text, LAMBDA t : t # PyNL)
Spelled ==
  {PyMisread(ImportLine(form), Append(Callee(form), PythonPrograms!Blank), <<AJob>>, <<>>) : form \in {"glue", "Job"}} \cup
  {PyMisread(ImportLine("glue"), <<PythonPrograms!Glued>> \o Callee("glue"), <<>>, <<AJob>>)} \cup
  {MisreadJobs(Exported(ImportLine("glue") \o <<"#">>
                 \o OneLine(PyCall(Callee("glue"), <<>>, Dict("python", Quoted(A)), <<>>)), <<>>), <<AJob>>)}
\* python.go:879: what stands behind a string is cut off; python.go:854: the
\* scope of a name does not count; python.go:725: the first of two keys counts.
PyNamed(assignments, args, job, taken) ==
  MisreadJobs(Exported(ImportLine("glue") \o <<PyNL>> \o assignments
                       \o PyCall(Callee("glue"), <<>>, args, <<>>), <<job>>), <<taken>>)
Assign(name, value) == <<name, "=">> \o value \o <<PyNL>>
InNames == Dict("python", <<"MODULES">>)
Valued ==
  {PyNamed(Assign("MODULES", Quoted(A) \o <<"+", "MORE">>), InNames, Job("yes", FALSE, <<>>), AJob),
   PyNamed(Assign("MODULES", Quoted(A)) \o <<"def", "other", "(", ")", ":", PyNL>> \o Assign("MODULES", Quoted(D)),
           InNames, AJob, DJob),
   PyNamed(<<>>, <<"{">> \o Quoted(<<"--modules">>) \o <<":">> \o Quoted(D) \o <<",">> \o Tail(Dict("python", Quoted(A))),
           AJob, DJob)}
\* python.go:758: names that are assigned to each other are followed for ever.
Endlessly(callee, name, args, job) ==
  Exported(ImportLine("glue") \o <<PyNL>> \o Assign("X", <<"Y">>) \o Assign("Y", <<"X">>)
           \o callee \o <<"(", "self", ",">> \o name \o <<",", "default_arguments", "=">> \o args \o <<")", PyNL>>, <<job>>)
  @@ [overflows |-> TRUE]
Keyed(key) == <<"{">> \o key \o <<":">> \o Quoted(D) \o <<",">> \o Tail(Dict("python", Quoted(A)))
Endless ==
  {Endlessly(Callee("glue"), <<"X">>, Dict("python", Quoted(A)), AJob)} \cup
  {Endlessly(Callee("glue"), Quoted(<<"job">>), args, Job("unknown", FALSE, <<>>)) :
     args \in {<<"X">>, Dict("python", <<"X">>), Keyed(<<"X">>),
               <<"{">> \o Quoted(<<"--language">>) \o <<":", "X", ",">> \o Quoted(<<"--modules">>) \o <<":">> \o Quoted(A) \o <<"}">>}}
MCAllPython == MCPythonFiles \cup SeveralNames \cup MCCommented \cup Spelled \cup Valued \cup Endless

\* typescript.go:548: strings between single quotes; typescript.go:382: neither
\* the scope of a declaration nor a later assignment counts.
MCSingleQuoted ==
  {MisreadJobs(TsFile("single", "CfnJob", <<TsJob("single", "CfnJob", "python", <<A>>, "inline")>>), <<>>)}
TsNamed(Later(_), job, taken) ==
  LET Text(words) == TypeScript!String("double", words)
      arguments == TypeScript!Object(<<TypeScript!Pair("language", Text(<<"python">>)),
                                       TypeScript!Pair("modules", TypeScript!Identifier("m"))>>)
      properties == TypeScript!Object(<<TypeScript!Pair("defaultArguments", arguments)>>)
      new == [kind |-> "new", class |-> Class("CfnJob"),
              args |-> <<TypeScript!Identifier("this"), Text(<<"job">>), properties>>]
  IN  MisreadJobs(Exported(<<Import("double", "CfnJob"), Const("m", Text(A))>> \o <<Later(Text(D)), new>>, <<job>>), <<taken>>)
InAnotherFunction(value) == Const("m", value)
Reassigned(value) == [kind |-> "assignment", name |-> "m", value |-> value]
MCAllTypeScript == MCTypeScriptFiles \cup MCSingleQuoted \cup
                   {TsNamed(InAnotherFunction, AJob, DJob), TsNamed(Reassigned, DJob, AJob)}

\* terraform_glue_python.go:221: a later pair of an object may replace the one
\* that is found; if all keys that are asked for are found, it is not looked at.
Replaced(last, job) ==
  LET items == Language("python") \o <<Terraform!Item(Key("installer"), Terraform!Literal(<<>>)),
                                       Terraform!Item(Key("modules"), Terraform!Literal(A)), last>>
  IN  MisreadJobs(TfFile(<<[block |-> Block("aws_glue_job", Terraform!Missing, Terraform!ObjectOf(items)), job |-> job]>>), <<AJob>>)
MCAllTerraform ==
  MCTerraformFiles \cup
  {Replaced(Terraform!Item(Terraform!Dynamic, Terraform!Literal(D)), Job("unknown", FALSE, <<>>)),
   Replaced(Terraform!Item(Key("modules"), Terraform!Literal(D)), DJob)}

-----------------------------------------------------------------------------
(* Lists.                                                                  *)

\* python.go:569 and 607, as above.
SetupWith(import, callee) ==
  Setup(import \o <<PyNL>> \o callee \o <<"(">> \o Value("list") \o <<")", PyNL>>, TRUE, {A, D})
MCAllSetup ==
  MCSetupFiles \cup
  {MisreadList(SetupWith(<<"from", "setuptools", "import", "setup", ",", "find_packages">>, <<"setup">>), TRUE, {}),
   MisreadList(SetupWith(<<"from", "setuptools", "import", "setup">>, <<"setup", PythonPrograms!Blank>>), TRUE, {})}

\* toml.go:439: a date, and what holds one, is left out; toml.go:373: so is an
\* entry of a list that is no text.
Date == Toml!Scalar("date")
Dated(table) == Map("packages" :> Map(table))
MCAllToml ==
  MCTomlFiles \cup
  {MisreadList(Source(Doc(Dated("k" :> v @@ "m" :> Wanted1)), Pipfile, TRUE,
                      Entries("k" :> v @@ "m" :> Wanted1, <<"packages">>, {})),
               TRUE, Entries("m" :> Wanted1, <<"packages">>, {})) :
     v \in {Date, Map("version" :> Date), Map("extra" :> Lst(<<Tx(A), Date>>))}} \cup
  {MisreadList(Source(Doc(Map("project" :> Map("dependencies" :> Lst(<<Tx(A), Toml!Scalar("number")>>)))), Poetry,
                      FALSE, InProjectList), TRUE, InProjectList) :
     InProjectList \in {{Toml!Declared("", Tx(A), InProject)}}}
\* yaml.go:327: and in YAML.
MCAllYamlLists ==
  MCYamlLists \cup
  {MisreadList([YamlAt(Map("k" :> Lst(<<Null, Tx(A), Tx(<<>>)>>)), <<Yaml!Items("k")>>) EXCEPT !.readable = FALSE],
               TRUE, {Tx(A)})}
\* cargo_manifest.go:52: dependencies that are no table.
MCAllCargo == MCCargoManifests \cup {MisreadList(Manifest(At(path, Tx(A)), FALSE, {}), TRUE, {}) : path \in CargoTables}
\* pipfile_lock.go:121: an import without a name.
Unspecified(kind) ==
  MisreadList(PackageManifest(kind, Map("imports" :> Map("" :> Tx(<<"npm:", "k">>))), FALSE, {}), TRUE, {})
MCAllPackageManifests ==
  MCPackageManifestFiles \cup
  {Unspecified("deno"), Unspecified("import-map"),
   MisreadList(PackageManifest("import-map",
                 Map("scopes" :> Map("" :> Map("k" :> Tx(<<"npm:", "k">>)))), FALSE, {}), TRUE, {})}

\* dotnet.go:220: a property that is set on a condition has the value that it is
\* set to without one.
Conditioned ==
  [nodes |-> <<Properties(<<>>, <<XmlText("p", <<"2">>)>>), Properties(OnlyIf, <<XmlText("p", <<"3">>)>>)>>, p |-> <<>>]
ConditionedFile(kind, naming, p) ==
  ProjectFile(kind, [Conditioned EXCEPT !.p = p], naming, WithP(<<>>), "Attribute", <<<<>>, "runtime">>, FALSE)
MisreadProjects ==
  {MisreadList(ConditionedFile(kind, naming, <<>>), TRUE, ConditionedFile(kind, naming, <<"2">>).declared) :
     kind \in {"project", "central"}, naming \in {n \in ItemNames : ~ n.nameless}}
\* docker.go:145: scratch is an image to copy from; docker.go:107: the name of a
\* stage whose image is unreadable is not kept; docker.go:179: a comment between
\* lines that belong together is one of them.
ReadAs(declared, taken) == MisreadList(declared, taken.readable, taken.declared)
FromScratch(images) == <<[text |-> <<"scratch">>, images |-> images, ok |-> TRUE]>>
Commented(images) ==
  Build("dockerfile", [lines |-> <<More(<<<<"FROM">>>>), Row(<<<<"#">>>>), Row(<<AsNamed>>)>>],
        TRUE, Scoped2(images, <<"FROM">>, "runtime"))
MisreadDockerfiles ==
  {ReadAs(Dockerfile(first, last, FromScratch({}), FALSE),
          Dockerfile(first, last, FromScratch(Image(<<"scratch">>, <<>>)), FALSE)) :
     first \in Bases, last \in Lasts \ {Stage1(<<"b">>)}} \cup
  {ReadAs(Dockerfile(first, Stage1(<<"b">>), <<>>, FALSE),
          Dockerfile(first, [Stage1(<<"b">>) EXCEPT !.images = Image(<<"b">>, <<>>)], <<>>, FALSE)) :
     first \in NoImages} \cup
  {ReadAs(Commented(Image(<<"k">>, <<"1">>)), Commented(Image(<<"#">>, <<>>)))}
\* docker.go:304: a service that is no mapping.
MisreadServices == {MisreadList(Build("compose", Doc(Map("services" :> Map("k" :> Tx(<<"k">>)))), FALSE, {}), TRUE, {})}
MCAllBuilds == MCBuildManifests \cup MisreadProjects \cup MisreadDockerfiles \cup MisreadServices

-----------------------------------------------------------------------------
(* Lockfiles.                                                              *)

\* An entry that cannot be read is passed over.
PassedOver(lock) == Misread([lock EXCEPT !.readable = FALSE], lock)
\* What is installed is listed as something else.
ListedAs(lock, tree) == Misread(lock, [lock EXCEPT !.tree = tree])
Top == Installed(React, React, "1", "dependencies", <<>>)
Below == Installed(Scoped, Scoped, "1", "devDependencies", <<>>)
UnderAlias == Installed(<<"alias">>, React, "1", "dependencies", <<>>)
Blurred(name, version) == [Below EXCEPT !.alias = name, !.name = name, !.version = version]
\* With an entry that has no name or no version, of the one that is installed.
NoName == Blurred(<<>>, <<"1">>)
NoVersion == Blurred(Scoped, <<>>)
With(bad, Lock1(_)) == PassedOver([Lock1(<<Top, bad>>) EXCEPT !.tree = Tree(<<Top>>), !.asked = {}])

\* package_lock.go:86: an entry that is no object; and an alias of version 1.
MCAllNpm ==
  MCNpmLocks \cup
  {With(Below, LAMBDA top : Lock([NpmFile(1, top) EXCEPT !.dependencies[2].readable = FALSE], top, FALSE))} \cup
  {With(NoName, LAMBDA top : Lock(NpmFile(version, top), top, FALSE)) : version \in 1 .. 3} \cup
  {ListedAs(Lock(NpmFile(1, <<UnderAlias>>), <<UnderAlias>>, FALSE), {<<UnderAlias.alias, <<"1">>>>})}
\* yarn_lock.go:95 and 159: selectors without a name; an alias of version 1.
Unselected(header) ==
  With(NoName, LAMBDA top :
         Lock([YarnFile(header, top) EXCEPT !.lines[6].selectors = <<<<>>>>,
                                            !.entries[2] = [@ EXCEPT !.selectors = <<<<>>>>, !.resolution = <<>>]],
              top, FALSE))
MCAllYarn ==
  MCYarnLocks \cup {Unselected(header) : header \in {"classic", "modern"}} \cup
  {ListedAs(Lock(YarnFile("classic", <<UnderAlias>>), <<UnderAlias>>, FALSE), {<<UnderAlias.alias, <<"1">>>>})}
\* pnpm_lock.go:146: a key without a name or a version.
Unkeyed(major, key) ==
  With(NoName, LAMBDA top : Lock([PnpmFile(major, top, FALSE) EXCEPT !.packages[2] = key, !.importer["devDependencies"] = <<>>],
                                 top, FALSE))
MCAllPnpm == MCPnpmLocks \cup {Unkeyed(major, <<>>) : major \in {5, 6, 9}} \cup {Unkeyed(major, <<"/">>) : major \in {5, 6}}

\* The formats that are a list, and those with two groups.
ListFile(kind, top, source) == LockOf(kind, ListLock(top, source, <<>>), Tree(top), {})
GroupFile(kind, entries) ==
  LockOf(kind, [parses |-> TRUE, present |-> TRUE, default |-> entries, develop |-> <<>>,
                packages |-> entries, packagesDev |-> <<>>], {}, {})
\* poetry_lock.go:70 and uv_lock.go:58: the version of what is from git, or from a path.
MCAllPackageLockfiles ==
  MCPackageLockfiles \cup
  {With(bad, LAMBDA top : ListFile(kind, top, "registry")) :
     kind \in {"cargo", "poetry", "uv"}, bad \in {NoName, NoVersion}} \cup
  {With(NoName, LAMBDA top : GroupFile(kind, [i \in DOMAIN top |-> [name |-> top[i].name, version |-> top[i].version]])) :
     kind \in {"pipenv", "composer"}} \cup
  {ListedAs(ListFile("poetry", <<Top>>, "git"), {<<React, <<>>>>}),
   ListedAs(ListFile("uv", <<Top>>, "path"), {<<React, <<>>>>})}
=============================================================================
