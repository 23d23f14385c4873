-------------------------- MODULE PackageManifests --------------------------
(***************************************************************************)
(* The readers of manifests that are one document with a few groups of     *)
(* dependencies: package.json, Cargo.toml, pubspec.yaml, fpm.toml,         *)
(* Project.toml of Julia, composer.json, deno.json and import maps         *)
(* (package_json.go, cargo_manifest.go, dart_pubspec.go, fortran_fpm.go,   *)
(* julia_project.go, composer_manifest.go, deno_json.go, importmap.go of   *)
(* internal/analyze).                                                      *)
(***************************************************************************)
EXTENDS Documents, Texts, AnalyzerResults

\* TrimSpace: blanks are no tokens here.
TextAt(value, key) == ValueAt(value, <<key>>).text
IsText(value, key) == ValueAt(value, <<key>>).kind = "text"

\* What an entry comes to: dependencies, and messages on what is not readable.
Unreadable == [list |-> <<>>, messages |-> 1]
Readable(dependency) == [list |-> <<dependency>>, messages |-> 0]
Ignored == [list |-> <<>>, messages |-> 0]
ResultOf(read) ==
  SemanticAnalyzerResult(FlattenSeq([i \in DOMAIN read |-> read[i].list]),
                         FoldLeft(LAMBDA n, r : n + r.messages, 0, read))

\* The entries of one group, if it is there.
Entries(value, Read(_, _)) ==
  CASE value.kind = "null" -> <<>>
    [] value.kind = "mapping" ->
         [i \in DOMAIN Keys(value) |-> Read(Keys(value)[i], value.fields[Keys(value)[i]])]
    [] OTHER -> <<Unreadable>>

Dependency(name, constraint, origin, group, scope) ==
  [name |-> name, constraint |-> constraint, origin |-> origin, group |-> group, scope |-> scope]

\* The first of these keys that counts, or none.
FirstCounting(keys, Counts(_)) ==
  LET counting == Selection(keys, Counts) IN IF counting = <<>> THEN "" ELSE Head(counting)

-----------------------------------------------------------------------------
(* package.json, a text being a sequence of tokens as in NodeLocks.        *)

PackageJSONGroups == <<"dependencies", "devDependencies", "peerDependencies",
                       "optionalDependencies">>
ScopeOf == [group \in {PackageJSONGroups[i] : i \in 1 .. 4} |->
              CASE group = "devDependencies" -> "development"
                [] group = "optionalDependencies" -> "optional"
                [] OTHER -> "runtime"]

\* "npm:target@range": the last "@" separates, unless it opens a scope.
ParseNPMAlias(text) ==
  LET marks == {i \in DOMAIN text : text[i] = "@"}
      at == IF marks \subseteq {1} THEN Len(text) + 1 ELSE Max(marks)
  IN  [name |-> SubSeq(text, 1, at - 1), constraint |-> SubSeq(text, at + 1, Len(text))]

\* The prefix of a specifier is its first token; a text without any of these
\* is a range, a tag or something that npm does not know.
Paths == {"file:", "link:", "./", "../", "/", "~/", "c:/"}
Gits == {"git:", "git+", "git@", "ssh:", "github:", "gitlab:", "bitbucket:", "owner/"}
Origin(specifier) ==
  LET prefix == IF specifier = <<>> THEN "" ELSE Head(specifier)
  IN  CASE prefix = "npm:" -> "registry"
        [] prefix = "workspace:" -> "workspace"
        [] prefix \in Paths -> "path"
        [] prefix \in Gits -> "git"
        [] prefix \in {"http:", "https:"} -> "url"
        [] specifier # <<>> /\ prefix \notin {"catalog:", "?"} /\ Len(specifier) = 1 -> "registry"
        [] OTHER -> ""

IsAlias(specifier) ==
  specifier # <<>> /\ Head(specifier) = "npm:" /\ ParseNPMAlias(Tail(specifier)).name # <<>>
\* Mutant: an alias passes for the package.
UnderItsAlias(name, specifier) == name
Target(name, specifier) ==
  IF IsAlias(specifier) THEN ParseNPMAlias(Tail(specifier)).name ELSE name
Constraint(specifier) ==
  CASE Origin(specifier) = "workspace" -> Tail(specifier)
    [] IsAlias(specifier) -> ParseNPMAlias(Tail(specifier)).constraint
    [] Origin(specifier) = "registry" /\ ~ IsAlias(specifier) -> specifier
    [] OTHER -> <<>>

\* file: [parses, groups, optionalPeers]; a group is [object, entries], its
\* entries [name, text, specifier] in the order of their names.
PackageJSONDependency(entry, group, optionalPeers) ==
  [name |-> Target(entry.name, entry.specifier), constraint |-> Constraint(entry.specifier),
   origin |-> Origin(entry.specifier), group |-> group,
   scope |-> IF group = "peerDependencies" /\ entry.name \in optionalPeers
               THEN "optional" ELSE ScopeOf[group]]
GroupDependencies(file, group) ==
  LET readable == Selection(file.groups[group].entries,
                            LAMBDA entry : entry.name # <<>> /\ entry.text)
  IN  [i \in DOMAIN readable |-> PackageJSONDependency(readable[i], group, file.optionalPeers)]
GroupMessages(group) ==
  IF ~ group.object THEN 1
  ELSE Cardinality({i \in DOMAIN group.entries : group.entries[i].name = <<>>})
       + Cardinality({i \in DOMAIN group.entries :
                        group.entries[i].name # <<>> /\ ~ group.entries[i].text})

AnalyzePackageJSON(file) ==
  LET present == Selection(PackageJSONGroups, LAMBDA group : group \in DOMAIN file.groups)
      objects == Selection(present, LAMBDA group : file.groups[group].object)
      messages == [i \in DOMAIN present |-> GroupMessages(file.groups[present[i]])]
  IN  IF ~ file.parses THEN AnalyzerError
      ELSE SemanticAnalyzerResult(
             FlattenSeq([i \in DOMAIN objects |-> GroupDependencies(file, objects[i])]),
             FoldLeft(LAMBDA a, b : a + b, 0, messages))

-----------------------------------------------------------------------------
(* Cargo.toml.                                                             *)

\* The tables that hold dependencies, with where they stand.
Table(group, scope, value) == [group |-> group, scope |-> scope, value |-> value]
Tables(root, prefix) ==
  LET of == << Table("dependencies", "runtime", ValueAt(root, <<"dependencies">>)),
               Table("dev-dependencies", "test", ValueAt(root, <<"dev-dependencies">>)),
               Table("build-dependencies", "build", ValueAt(root, <<"build-dependencies">>)) >>
      tables == Selection(of, LAMBDA t : t.value.kind = "mapping")
  IN  [i \in DOMAIN tables |-> [tables[i] EXCEPT !.group = Append(prefix, @)]]
\* Mutant: what only some platforms need is forgotten.
NoTargets(root) == Tables(root, <<>>)
CargoManifestGroups(root) ==
  LET targets == ValueAt(root, <<"target">>)
      names == IF targets.kind = "mapping" THEN Keys(targets) ELSE <<>>
      workspace == ValueAt(root, <<"workspace", "dependencies">>)
  IN  Tables(root, <<>>)
      \o FlattenSeq([i \in DOMAIN names |->
                       Tables(targets.fields[names[i]], <<"target", names[i]>>)])
      \o IF workspace.kind # "mapping" THEN <<>>
         ELSE <<Table(<<"workspace", "dependencies">>, "runtime", workspace)>>

\* A dependency, and whether something about it is missing.
CargoManifestDependency(name, value, table) ==
  LET From(origin, rename, constraint, scope) ==
        [name |-> IF rename # <<>> THEN rename ELSE <<name>>, constraint |-> constraint,
         origin |-> origin, group |-> table.group, scope |-> scope]
      origin == CASE TextAt(value, "git") # <<>> -> "git"
                  [] TextAt(value, "git") = <<>> /\ TextAt(value, "path") # <<>> -> "path"
                  [] /\ TextAt(value, "git") = <<>> /\ TextAt(value, "path") = <<>>
                     /\ ValueAt(value, <<"workspace">>).kind = "true" -> "workspace"
                  [] OTHER -> "registry"
      optional == ValueAt(value, <<"optional">>).kind = "true"
  IN  CASE name # "" /\ value.kind = "text" ->
             [list |-> <<From("registry", <<>>, value.text, table.scope)>>, messages |-> 0]
        [] name # "" /\ value.kind = "mapping" ->
             [list |-> <<From(origin, TextAt(value, "package"), TextAt(value, "version"),
                              IF optional THEN "optional" ELSE table.scope)>>,
              messages |-> IF origin = "registry" /\ TextAt(value, "version") = <<>> THEN 1 ELSE 0]
        [] OTHER -> [list |-> <<>>, messages |-> 1]

AnalyzeCargoManifest(file) ==
  LET tables == CargoManifestGroups(file.root)
      Of(table) == [i \in DOMAIN Keys(table.value) |->
                      CargoManifestDependency(Keys(table.value)[i],
                                              table.value.fields[Keys(table.value)[i]], table)]
  IN  IF ~ file.parses \/ file.root.kind # "mapping" THEN AnalyzerError
      ELSE ResultOf(FlattenSeq([i \in DOMAIN tables |-> Of(tables[i])]))

-----------------------------------------------------------------------------
(* pubspec.yaml and fpm.toml: an entry is a constraint, or a mapping that  *)
(* names a source, of which the first in the order of the code counts.     *)

Groups(root, groups, Read(_, _, _, _)) ==
  FlattenSeq([i \in DOMAIN groups |->
    Entries(ValueAt(root, <<groups[i].group>>),
            LAMBDA name, value : Read(name, value, groups[i].group, groups[i].scope))])
InScope(group, scope) == [group |-> group, scope |-> scope]

\* An entry that is a text or a mapping with a source.
SourceEntry(name, value, source, constraint) ==
  CASE name = "" \/ value.kind \notin {"text", "mapping"} -> Unreadable
    [] name # "" /\ value.kind = "text" -> IF value.text = <<>> THEN Unreadable ELSE constraint
    [] OTHER -> source

DartPubspecDependencyGroups ==
  <<InScope("dependencies", "runtime"), InScope("dev_dependencies", "development"),
    InScope("dependency_overrides", "runtime")>>
UrlOf(value) == IF value.kind = "text" THEN value.text ELSE TextAt(value, "url")
DartPubspecDependency(name, value, group, scope) ==
  LET source == FirstCounting(<<"sdk", "path", "git", "hosted">>,
                  LAMBDA key : IF key \in {"sdk", "path"} THEN IsText(value, key) ELSE Has(value, key))
      hosted == ValueAt(value, <<"hosted", "name">>).text
      origin == CASE source = "hosted" -> "registry" [] source \in {"git", "path"} -> source [] OTHER -> ""
      package == IF source = "hosted" /\ hosted # <<>> THEN hosted ELSE <<name>>
  IN  SourceEntry(name, value,
        IF source = "" \/ UrlOf(ValueAt(value, <<source>>)) = <<>> THEN Unreadable
        ELSE Readable(Dependency(package, <<>>, origin, group, scope)),
        Readable(Dependency(<<name>>, value.text, "registry", group, scope)))
AnalyzeDartPubspec(file) ==
  IF ~ file.parses \/ file.root.kind \notin {"mapping", "null"} THEN AnalyzerError
  ELSE ResultOf(Groups(file.root, DartPubspecDependencyGroups, DartPubspecDependency))

FortranFPMDependencyGroups ==
  <<InScope("dependencies", "runtime"), InScope("dev-dependencies", "test")>>
IsFortranFPMManifest(root) ==
  TextAt(root, "name") # <<>> \/ ValueAt(root, <<"package", "name">>).text # <<>>
FortranFPMDependency(name, value, group, scope) ==
  LET source == FirstCounting(<<"git", "path", "version">>, LAMBDA key : IsText(value, key))
      text == TextAt(value, source)
      version == IF source = "version" THEN text ELSE <<>>
      origin == IF source = "version" THEN "registry" ELSE source
  IN  SourceEntry(name, value,
        IF text = <<>> THEN Unreadable ELSE Readable(Dependency(<<name>>, version, origin, group, scope)),
        Readable(Dependency(<<name>>, value.text, "registry", group, scope)))
AnalyzeFortranFPM(file) ==
  CASE ~ file.parses -> AnalyzerError
    [] file.parses /\ ~ IsFortranFPMManifest(file.root) -> NotRecognized
    [] OTHER -> ResultOf(Groups(file.root, FortranFPMDependencyGroups, FortranFPMDependency))

-----------------------------------------------------------------------------
(* Project.toml of Julia: packages with their identifiers, constraints in  *)
(* a table of their own, and extras of which a target makes test packages. *)

JuliaProjectDependencyGroups ==
  <<InScope("deps", "runtime"), InScope("weakdeps", "optional"), InScope("extras", "runtime")>>
IsJuliaProject(root) ==
  \/ \E key \in {"deps", "weakdeps", "extras", "compat", "targets"} : Has(root, key)
  \/ TextAt(root, "name") # <<>> /\ TextAt(root, "uuid") # <<>>
JuliaProjectCompatibility(root) ==
  Entries(ValueAt(root, <<"compat">>),
          LAMBDA name, value : IF value.text = <<>> THEN Unreadable ELSE Ignored)
JuliaProjectTestExtras(root) ==
  LET test == ValueAt(root, <<"targets", "test">>)
  IN  {test.items[i].text : i \in {j \in DOMAIN test.items : test.items[j].kind = "text"}}
AnalyzeJuliaProject(file) ==
  LET InTest(name, group) == group = "extras" /\ <<name>> \in JuliaProjectTestExtras(file.root)
      JuliaProjectDependency(name, value, group, scope) ==
        IF name = "" \/ value.text = <<>> THEN Unreadable
        ELSE Readable(Dependency(<<name>>, ValueAt(file.root, <<"compat", name>>).text, "registry",
                                 group, IF InTest(name, group) THEN "test" ELSE scope))
  IN  CASE ~ file.parses -> AnalyzerError
        [] file.parses /\ ~ IsJuliaProject(file.root) -> NotRecognized
        [] OTHER -> ResultOf(JuliaProjectCompatibility(file.root)
                             \o Groups(file.root, JuliaProjectDependencyGroups, JuliaProjectDependency))

-----------------------------------------------------------------------------
(* composer.json, deno.json and import maps: JSON, in which null reads as  *)
(* an empty text, an empty object or nothing, depending on who asks.       *)

\* Of the names that begin with ext- or lib-, one of each.
ComposerPlatformPackages ==
  {"php", "php-64bit", "php-debug", "php-ipv6", "php-zts", "composer", "composer-plugin-api",
   "composer-runtime-api", "ext-json", "lib-curl"}
ComposerDependency(name, value, group, scope) ==
  CASE name \in ComposerPlatformPackages -> Ignored
    [] name \notin ComposerPlatformPackages \cup {""} /\ value.kind \in {"text", "null"} ->
         Readable(Dependency(<<name>>, value.text, "", group, scope))
    [] OTHER -> Unreadable
AnalyzeJSONManifest(file, read) ==
  IF ~ file.parses \/ file.root.kind \notin {"mapping", "null"} THEN AnalyzerError ELSE ResultOf(read)
AnalyzeComposerManifest(file) ==
  AnalyzeJSONManifest(file,
    Groups(file.root, <<InScope("require", "runtime"), InScope("require-dev", "development")>>,
           ComposerDependency))

\* "@scope/name@range/path", after one slash at most.
SplitDenoJSONPackageSpecifier(text) ==
  LET bare == TrimPrefix(text, "/")
      scoped == bare # <<>> /\ Head(bare) = "@"
      slash == FirstOf(bare, {"/"})
      end == Least({i \in DOMAIN bare : i > (IF scoped THEN slash ELSE 0) /\ bare[i] \in {"@", "/"}})
      range == After(bare, end)
  IN  IF scoped /\ slash <= 2 THEN [name |-> <<>>, range |-> <<>>]
      ELSE [name |-> Before(bare, end),
            range |-> IF end = None \/ bare[end] # "@" THEN <<>> ELSE Before(range, FirstOf(range, {"/"}))]
LocalTargets == {"file:", ".", "..", "./", "../", "/", "~/", "c:/"}
ImportDependency(name, target, group) ==
  LET prefix == Head(target)
      package == SplitDenoJSONPackageSpecifier(Tail(target))
  IN  CASE prefix \in {"npm:", "jsr:"} /\ package.name # <<>> ->
             Dependency(package.name, package.range, "registry", group, "runtime")
        [] prefix \in {"http:", "https:"} -> Dependency(<<name>>, <<>>, "url", group, "runtime")
        [] prefix \in LocalTargets -> Dependency(<<name>>, <<>>, "path", group, "runtime")
        [] OTHER -> Dependency(<<name>>, <<>>, "", group, "runtime")
\* sortedStringKeys leaves the empty name out.
DenoImport(name, value) ==
  LET target == value.text IN
  CASE name = "" -> Ignored
    [] name # "" /\ \/ target = <<>>
                    \/ /\ Head(target) \in {"npm:", "jsr:"}
                       /\ SplitDenoJSONPackageSpecifier(Tail(target)).name = <<>> -> Unreadable
    [] OTHER -> Readable(ImportDependency(name, target, "imports"))
AnalyzeDenoJSON(file) ==
  AnalyzeJSONManifest(file, Entries(ValueAt(file.root, <<"imports">>), DenoImport))

\* null takes a mapping back; a registry without a package is no error.
MappedImports(value, group) ==
  Entries(value, LAMBDA name, target :
    CASE name = "" \/ target.kind = "null" -> Ignored
      [] name # "" /\ target.kind # "null" /\ target.text = <<>> -> Unreadable
      [] OTHER -> Readable(ImportDependency(name, target.text, group)))
AnalyzeImportMap(file) ==
  LET scopes == ValueAt(file.root, <<"scopes">>)
      names == Selection(Keys(scopes), LAMBDA name : name # "")
  IN  AnalyzeJSONManifest(file,
        MappedImports(ValueAt(file.root, <<"imports">>), "imports")
        \o IF scopes.kind \notin {"mapping", "null"} THEN <<Unreadable>>
           ELSE FlattenSeq([i \in DOMAIN names |-> MappedImports(scopes.fields[names[i]], "scopes")]))
=============================================================================
