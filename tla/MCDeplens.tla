------------------------------ MODULE MCDeplens ------------------------------
(***************************************************************************)
(* A root with an ignored name, a directory in it, one to ignore, and four *)
(* files: a pyproject.toml, a manifest, one below the directory and one    *)
(* below the ignored one.  Commands with documents written without a fault *)
(* or with one, each of which says so.                                     *)
(***************************************************************************)
EXTENDS Deplens

CONSTANTS root, dir, vendor, pyproject, manifest, inner, hidden, x, y, unreadable

MCNodes == {root, dir, vendor, pyproject, manifest, inner, hidden}
MCBelow == [n \in MCNodes |-> CASE n = root -> <<dir, manifest, pyproject, vendor>>
                                [] n = dir -> <<inner>>
                                [] n = vendor -> <<hidden>>
                                [] OTHER -> <<>>]
MCBaseName == [n \in MCNodes |-> CASE n \in {root, vendor} -> <<"vendor">>
                                   [] n = dir -> <<"dir">>
                                   [] OTHER -> <<"file">>]
MCContents == {x, y}

\* Entries of the tree, spelled out: Scan's constructors belong to an instance
\* that has the tree as a parameter.
File(content) == [type |-> "regular", content |-> content]
Folder(opens) == [type |-> "directory", opens |-> opens]
Symlink(target) == [type |-> "symlink", target |-> target]
Nothing == [type |-> "gone"]
Device == [type |-> "special"]

\* What manifest and pyproject may be; the rest is mostly fixed.
Kinds == {File(x), File(unreadable), Symlink(File(y)),
          Symlink(Nothing), Symlink(Folder(TRUE)), Device}
Tree(d, m, p) == [n \in MCNodes |->
                    CASE n \in {root, vendor} -> Folder(TRUE)
                      [] n = dir -> d
                      [] n = inner -> IF d.type = "directory" THEN File(y) ELSE Nothing
                      [] n = hidden -> File(x)
                      [] n = manifest -> m
                      [] n = pyproject -> File(p)]
\* The root is a link to a directory, or there is none.
LinkedRoot == [Tree(Folder(TRUE), File(x), x) EXCEPT ![root] = Symlink(Folder(TRUE))]
NoRoot(entry) == [n \in MCNodes |-> IF n = root THEN entry ELSE Nothing]
MCTrees == {Tree(d, m, p) : d \in {Folder(TRUE), Folder(FALSE), Nothing},
                            m \in Kinds, p \in {x, unreadable}}
           \cup {LinkedRoot, NoRoot(Nothing), NoRoot(File(x)), NoRoot(Symlink(Nothing))}
MCEntries == {Nothing, File(y), Device, Symlink(Device), Folder(TRUE)}

-----------------------------------------------------------------------------
(* Analyzers.                                                              *)

Offer(python, maven) ==
  [f \in Formats |-> IF f = "python-requirements" THEN python ELSE maven]
Behaves(onX, onY, offerX, offerY) ==
  [verdict |-> [c \in MCContents |-> IF c = x THEN onX ELSE onY],
   offers |-> [c \in MCContents |-> IF c = x THEN offerX ELSE offerY]]
NoOffer == Offer("nothing", "nothing")
MCPlainAnalyzers == {<<"picky">>, <<"strict">>, <<"leaves">>, <<"broken">>}
MCBehaviour ==
  [type \in MCPlainAnalyzers \cup
       {<<t>> : t \in {"yaml", "toml", "json", "xml", "html", "ini", "terraform",
                       "banner-regex", "typescript", "python"}} |->
     CASE type = <<"picky">> -> Behaves("other", "recognized", NoOffer, Offer("nothing", "blocked"))
       [] type = <<"strict">> -> Behaves("recognized", "error", Offer("files", "nothing"), NoOffer)
       [] type = <<"broken">> -> Behaves("invalid", "overflow", NoOffer, NoOffer)
       [] type = <<"yaml">> -> Behaves("recognized", "recognized", Offer("nothing", "files"), Offer("files", "files"))
       [] OTHER -> Behaves("other", "other", NoOffer, NoOffer)]

All == <<"all">>
Some == <<"some">>
Two == <<"two">>
MCGroups == [r \in {All, Some, Two} |-> IF r = Two THEN 2 ELSE 1]
MCRegexMatches == [r \in {All, Some, Two} |-> IF r = All THEN MCNodes ELSE {pyproject, manifest}]
Deep == <<"**", "/", "*">>
Here == <<"[", "f", "]", "*">>
MCGlobMatches == [g \in {Deep, Here} |-> IF g = Deep THEN MCNodes ELSE {manifest, inner}]

-----------------------------------------------------------------------------
(* Documents.                                                              *)

NoNode == <<>>
Node(type, config) == <<[mapping |-> TRUE, types |-> <<<<type>>>>, config |-> config]>>
Rule(id, regex, glob, node, generate) ==
  [id |-> id, regex |-> regex, glob |-> glob, analyzer |-> node, generate |-> generate,
   form |-> "manifest", roles |-> <<"declaration", "usage">>, typed |-> TRUE, extra |-> FALSE]
Checked(id, node) ==
  [id |-> id, summary |-> <<"s">>, remediation |-> <<" ", "r">>, severity |-> "low",
   evaluator |-> node, typed |-> TRUE, extra |-> FALSE]
\* sound: whether it can be a base, an extension, both or neither.
Document(sound, parsed, rest, defined, checks) ==
  [sound |-> sound, parses |-> parsed, rest |-> rest, rules |-> defined, checks |-> checks]
Both == {"base", "extension"}

Js == Rule(<<"js">>, All, <<>>, Node("picky", <<>>), "none")
Py == Rule(<<"py">>, Some, <<>>, Node("strict", <<>>), "python-requirements")
Rc == Rule(<<"js-yarnrc">>, <<>>, Here, NoNode, "none")
Uv == Checked(<<"uv">>, Node("uv-lockfile-missing", <<>>))
Owned == Checked(<<"js">>, Node("dependency-source-codeowners", [platform |-> <<"gitlab">>]))
Bundle == Rule(<<"b">>, Some, Deep, Node("yaml", [exists |-> <<"a">>]), "none")

MCAlphabetical == <<<<"b">>, <<"js">>, <<"js-yarnrc">>, <<"py">>, <<"uv">>, <<"z">>>>
MCCoveragePresets == [p \in {"snyk", "socket"} |-> IF p = "snyk" THEN {<<"py">>, <<"z">>} ELSE {<<"py">>, <<"b">>}]

\* The embedded document and some files, by their numbers.
Default == 1
Leaves == 2
Broken == 3
Policy == 4
Twice == 5
Company == 6
Empty == 7
Garbage == 8
Nowhere == 0
Named ==
  << Document(Both, TRUE, "nothing", <<Js, Py, Rc>>, <<Uv>>),
     Document({"base"}, TRUE, "more",
              <<[Py EXCEPT !.analyzer = Node("leaves", <<>>)], [Rc EXCEPT !.id = <<"z">>], Js>>, <<>>),
     Document(Both, TRUE, "nothing", <<Rule(<<"b">>, Some, <<>>, Node("broken", <<>>), "none"), Py>>, <<>>),
     Document({"extension"}, TRUE, "nothing", <<>>, <<Owned>>),
     Document({"base"}, TRUE, "broken", <<Bundle>>, <<Owned>>),
     Document(Both, TRUE, "nothing", <<Bundle, [Rc EXCEPT !.id = <<"z">>]>>,
              <<Owned, [Owned EXCEPT !.id = <<"b">>, !.evaluator = Node("go-sum-missing", <<>>)]>>),
     Document({}, TRUE, "nothing", <<>>, <<>>),
     Document({}, FALSE, "nothing", <<Py>>, <<>>) >>

-----------------------------------------------------------------------------
(* Configurations without a fault, and with one.                           *)

C(type, config, good) == [node |-> Node(type, config), good |-> good]
On(name, equals) == IF equals THEN (name :> <<"k">>) @@ ("equals" :> <<>>)
                              ELSE (name :> <<"k">>) @@ ("present" :> FALSE)
Cdk == [module |-> <<"m">>, construct |-> <<"c">>, conditions |-> <<On("key", TRUE)>>]
PyCdk(more) == [cdk_construct |-> more @@ [keyword_argument |-> <<"k">>] @@ Cdk]
TsCdk(more) == [cdk_construct |-> more @@ [props_argument_index |-> 0] @@ Cdk]
Call(more) == [call |-> more @@ [module |-> <<"m">>, function |-> <<"f">>,
                                 conditions |-> [any_of |-> <<On("keyword", TRUE)>>]]]
Jq == ("query" :> <<"q">>) @@ ("name-query" :> <<"n">>) @@ ("dependencies-query" :> <<"d">>)

Configurations ==
  << C("yaml", [query |-> <<"a", ".", "b", "[]">>], TRUE), C("yaml", [groups |-> Jq], TRUE),
     C("yaml", "exists-any" :> <<<<"a">>, <<"b", ".", "c">>>>, TRUE),
     C("yaml", <<>>, FALSE), C("yaml", [query |-> <<"a">>, exists |-> <<"a">>], FALSE),
     C("yaml", [query |-> <<"a">>, groups |-> Jq], FALSE),
     C("yaml", [query |-> <<"a", ".", ".", "b">>], FALSE), C("yaml", [query |-> <<"[]">>], FALSE),
     C("yaml", [exists |-> <<"a", "[]", "[]">>], FALSE), C("yaml", [exist |-> <<"a">>], FALSE),
     C("yaml", [groups |-> ("query" :> <<"|">>) @@ Jq], FALSE), C("yaml", [groups |-> [query |-> <<"q">>]], FALSE),
     C("toml", [queries |-> <<<<"a", ".", "*", ".", "b", "[]">>>>], TRUE),
     C("toml", ("exists-any" :> <<<<"a">>>>) @@ ("exclude-keys" :> <<<<"b">>>>), TRUE),
     C("toml", "exclude-keys" :> <<<<"b">>>>, FALSE), C("toml", "table-queries" :> <<<<"a", "*">>>>, FALSE),
     C("toml", [queries |-> <<<<"a">>, <<>>>>], FALSE),
     C("toml", ("exists-any" :> <<<<"a">>>>) @@ ("exclude-keys" :> <<<<>>>>), FALSE),
     C("json", "exists-any" :> <<<<"a">>, <<"a">>>>, TRUE), C("json", <<>>, FALSE),
     C("json", "exists-any" :> <<<<>>>>, FALSE),
     C("xml", "exists-any" :> <<<<"a", ".", "b">>>>, TRUE), C("xml", "exists-any" :> <<<<"a", ".">>>>, FALSE),
     C("xml", "exists-any" :> <<<<"a", "*">>>>, FALSE), C("xml", <<>>, FALSE),
     C("html", [external_scripts |-> TRUE], TRUE), C("html", [external_scripts |-> FALSE], FALSE),
     C("ini", [queries |-> <<[section |-> <<"s">>, key |-> <<"*">>]>>], TRUE),
     C("ini", [queries |-> <<[section |-> <<"s">>, key |-> <<"a", "*">>]>>], FALSE),
     C("ini", [queries |-> <<[key |-> <<"a">>]>>], FALSE), C("ini", <<>>, FALSE),
     C("terraform", [resource_type |-> <<"t">>, conditions |-> <<On("path", TRUE)>>], TRUE),
     C("terraform", [resource_type |-> <<"t">>], FALSE),
     C("terraform", [resource_type |-> <<"t">>, conditions |-> <<On("path", FALSE)>>], FALSE),
     C("terraform", [conditions |-> <<On("path", TRUE)>>], FALSE),
     C("banner-regex", [pattern |-> Two], TRUE), C("banner-regex", [pattern |-> All], FALSE),
     C("banner-regex", [pattern |-> <<"(">>], FALSE), C("banner-regex", <<>>, FALSE),
     C("typescript", TsCdk(<<>>), TRUE), C("typescript", TsCdk([props_argument_index |-> -1]), FALSE),
     C("typescript", [cdk_construct |-> Cdk], FALSE), C("typescript", TsCdk([conditions |-> <<>>]), FALSE),
     C("typescript", TsCdk([extract |-> [key |-> <<"k">>, split |-> <<"comma">>]]), TRUE),
     C("typescript", TsCdk([extract |-> [key |-> <<"k">>]]), FALSE), C("typescript", <<>>, FALSE),
     C("python", PyCdk([within |-> <<<<"w">>>>]), TRUE), C("python", PyCdk([within |-> <<<<>>>>]), FALSE),
     C("python", [cdk_construct |-> Cdk], FALSE), C("python", PyCdk([module |-> <<>>]), FALSE),
     C("python", PyCdk([conditions |-> <<On("path", TRUE)>>]), FALSE), C("python", <<>>, FALSE),
     C("python", Call(<<>>), TRUE), C("python", Call(<<>>) @@ PyCdk(<<>>), FALSE),
     C("python", Call([conditions |-> <<>>]), FALSE), C("python", Call([function |-> <<>>]), FALSE),
     C("python", Call([extract |-> <<[keyword |-> <<"k">>, literal |-> <<"string_list">>]>>]), TRUE),
     C("python", Call([extract |-> <<[keyword |-> <<"k">>, literal |-> <<"tuple">>]>>]), FALSE),
     C("strict", [query |-> <<"a">>], FALSE), C("lenient", <<>>, FALSE) >>

Typo == <<[mapping |-> TRUE, types |-> <<<<"strict">>, <<"strict">>>>, config |-> <<>>]>>
Faulty ==
  << [Py EXCEPT !.id = <<>>], [Py EXCEPT !.id = <<" ", "py">>], [Py EXCEPT !.id = <<"js">>],
     [Py EXCEPT !.regex = <<>>], [Py EXCEPT !.regex = <<"(">>], [Py EXCEPT !.form = "form"],
     [Py EXCEPT !.roles = <<>>], [Py EXCEPT !.roles = <<"usage", "usage">>], [Py EXCEPT !.roles = <<"role">>],
     [Py EXCEPT !.generate = "pom"], [Py EXCEPT !.typed = FALSE], [Py EXCEPT !.extra = TRUE],
     [Py EXCEPT !.glob = <<"a", "/", "/", "b">>], [Py EXCEPT !.glob = <<"a", "**">>],
     [Py EXCEPT !.glob = <<"[", "f">>], [Py EXCEPT !.analyzer = Typo],
     [Py EXCEPT !.analyzer = <<[mapping |-> FALSE, types |-> <<>>, config |-> <<>>]>>] >>
FaultyChecks ==
  << [Uv EXCEPT !.id = <<" ">>], [Uv EXCEPT !.id = <<"js">>], [Uv EXCEPT !.summary = <<" ">>],
     [Uv EXCEPT !.remediation = <<>>], [Uv EXCEPT !.severity = "fatal"], [Uv EXCEPT !.evaluator = NoNode],
     [Uv EXCEPT !.evaluator = Node("uv", <<>>)], [Uv EXCEPT !.extra = TRUE],
     [Uv EXCEPT !.evaluator = Node("uv-lockfile-missing", [platform |-> <<"auto">>])],
     [Uv EXCEPT !.evaluator = Node("dependency-source-codeowners", [platform |-> <<"svn">>])],
     [Uv EXCEPT !.evaluator = Node("dependency-source-codeowners", [file |-> <<"f">>])] >>

VariantsOf(configurations, faulty, faultyChecks) ==
  [i \in DOMAIN configurations |->
     Document(IF configurations[i].good THEN Both ELSE {}, TRUE, "nothing",
              <<Js, [Py EXCEPT !.analyzer = configurations[i].node]>>, <<>>)]
  \o [i \in DOMAIN faulty |-> Document({}, TRUE, "nothing", <<Js, faulty[i], Rc>>, <<Uv>>)]
  \o [i \in DOMAIN faultyChecks |-> Document({}, TRUE, "nothing", <<Js>>, <<Owned, faultyChecks[i]>>)]
Variants == VariantsOf(Configurations, Faulty, FaultyChecks)
MCDocuments == Named \o Variants
VariantNumbers == [i \in DOMAIN Variants |-> Len(Named) + i]

-----------------------------------------------------------------------------
(* Commands.                                                               *)

Python == Argument("generate", "python-requirements")
Maven == Argument("generate", "maven-pom")
Rules(path) == Argument("rules", path)
Extension(path) == Argument("extend-rules", path)
Overwrite == Argument("overwrite-generated", TRUE)
Json == Argument("json", TRUE)
Somewhere == Argument("path", "p")
Used ==
  << <<Json, Argument("overwrite-generated", FALSE)>>,
     <<Python, Argument("ignore", <<" ", "vendor", " ", ",", "dir">>), Argument("disable-check", <<"uv">>),
       Argument("disable-rule", <<"js">>), Somewhere>>,
     <<Rules(Broken), Rules(Leaves), Extension(Policy), Argument("ignore", <<",">>)>>,
     <<Extension(Policy), Rules(Broken), Argument("disable-rule", <<"py">>)>>,
     <<Argument("exclude-preset", "snyk"), Argument("disable-rule", <<"js">>), Extension(Company),
       Python, Overwrite, Argument("disable-rule", <<"js">>)>>,
     <<Rules(Company), Extension(Default), Maven, Argument("exclude-preset", "socket"), Argument("exclude-preset", "snyk"),
       Argument("disable-rule", <<"b">>)>>,
     <<Rules(Twice), Maven>> >>
\* Commands with a fault of their own, and commands with one in their rules.
Misused ==
  << <<Json, Argument("help", "")>>, <<Argument("typo", ""), Argument("help", "")>>,
     <<Argument("generate", "pom")>>, <<Overwrite>>, <<Somewhere, Json>>, <<Somewhere, Somewhere>> >>
Refused ==
  << <<Rules(Nowhere)>>, <<Extension(Nowhere), Python>>, <<Rules(Policy)>>, <<Rules(Empty)>>,
     <<Extension(Empty)>>, <<Rules(Garbage)>>, <<Extension(Leaves)>>, <<Extension(Twice)>>,
     <<Extension(Company), Extension(Company)>>, <<Extension(Broken)>>,
     <<Extension(Policy), Rules(Company)>>, <<Extension(Company), Extension(Policy)>>,
     <<Argument("exclude-preset", "trivy")>>, <<Argument("disable-rule", <<"uv">>)>>,
     <<Rules(Company), Argument("disable-rule", <<"js">>)>>, <<Argument("disable-check", <<"js">>)>> >>
WithVariants(variants) ==
  [i \in DOMAIN variants |-> <<Rules(variants[i]), Argument("disable-rule", <<"js">>),
                               Argument("disable-rule", <<"z">>)>>]
  \o [i \in DOMAIN variants |-> <<Rules(Company), Extension(variants[i]),
                                   Argument("exclude-preset", "trivy")>>]
MCCommands == Used \o Misused \o Refused \o WithVariants(VariantNumbers)

-----------------------------------------------------------------------------
MisusedNumbers == Len(Used) + 1 .. Len(Used) + Len(Misused)
Sound(documents, path, use) == path \in DOMAIN documents /\ use \in documents[path].sound
SoundBase == command \notin MisusedNumbers /\ Sound(Documents, Config.base, "base")
NoneTwice(config, n, field) ==
  Cardinality(DefinedIDs(config, n, field)) = Cardinality(PlacesIn(config, n, field))
SoundUpTo(config, n) ==
  /\ \A i \in 1 .. n : Sound(Documents, config.extensions[i], "extension")
  /\ \A field \in {"rules", "checks"} : NoneTwice(config, n, field)
KnownExclusions(config) == /\ config.rules \subseteq Defined("rules")
                           /\ config.checks \subseteq Defined("checks")
                           /\ config.presets \subseteq DOMAIN CoveragePresets
LoadedOf(config) == Max({n \in 0 .. Len(config.extensions) : SoundUpTo(config, n)})
Tells(config, sound, most) ==
  /\ composed # NoRules <=> sound
  /\ loaded = IF sound THEN most ELSE 0
  /\ outcome # "idle" <=> sound /\ most = Len(config.extensions) /\ KnownExclusions(config)

\* A fault in the arguments, in any document, between two documents or in an
\* exclusion ends the run before it looks at the tree, after the documents
\* before it and before those after it; and without a fault the scan begins.
FaultsStopEarly ==
  stage = "exited" => Tells(Config, SoundBase, LoadedOf(Config))
=============================================================================
