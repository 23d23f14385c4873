---------------------------- MODULE PackageLocks ----------------------------
(***************************************************************************)
(* The readers of the lockfiles of Cargo, Poetry, uv, Pipenv, Composer,    *)
(* Conan, Dart and NuGet (cargo_lock.go, poetry_lock.go, uv_lock.go,       *)
(* pipfile_lock.go, composer_lock.go, conan_lock.go, dart_pubspec_lock.go, *)
(* dotnet.go of internal/analyze).  Texts are as in NodeLocks.             *)
(***************************************************************************)
EXTENDS NodeLocks, Documents

\* A lockfile that is read to the end, or is not one.
ReadLock(file, marked, packages) ==
  CASE ~ file.parses -> AnalyzerError
    [] file.parses /\ ~ marked -> NotRecognized
    [] OTHER -> Listed(packages)
Packages(entries, Listable(_), Made(_)) ==
  LET listed == Selection(entries, Listable) IN [i \in DOMAIN listed |-> Made(listed[i])]
Resolved(entry) == Package(entry.name, entry.version, NoText)

\* file: [parses, version, packages]; an entry is [name, version].
AnalyzeCargoLock(file) ==
  ReadLock(file, file.version,
           Packages(file.packages, LAMBDA p : p.name # NoText /\ p.version # NoText, Resolved))

\* An entry is [name, version, source, self], self for a source that is "." or
\* "./"; a package from git is listed without its version.
IgnoredByPoetry(p) ==
  \/ p.name = NoText
  \/ p.source = "directory" /\ p.self
  \/ p.source # "git" /\ p.version = NoText
AnalyzePoetryLock(file) ==
  ReadLock(file, file.metadata \/ file.packages # <<>>,
    OnePerPackage(Packages(file.packages, LAMBDA p : ~ IgnoredByPoetry(p),
      LAMBDA p : IF p.source = "git" THEN Package(p.name, NoText, NoText) ELSE Resolved(p))))

\* A local path has no version of its own; members of a workspace are not listed.
IgnoredByUV(p) ==
  \/ p.name = NoText
  \/ p.source = "editable" /\ p.self
  \/ p.source \in {"workspace", "virtual"}
  \/ p.source # "path" /\ p.version = NoText
AnalyzeUVLock(file) ==
  ReadLock(file, file.version,
    Packages(file.packages, LAMBDA p : ~ IgnoredByUV(p),
      LAMBDA p : IF p.source = "path" THEN Package(p.name, NoText, NoText) ELSE Resolved(p)))

\* Lockfiles with two groups: [parses, present, default, develop] and
\* [parses, present, packages, packagesDev]; a version of Pipenv is pinned.
FromGroup(entries, group) ==
  Packages(entries, LAMBDA p : p.name # NoText,
           LAMBDA p : Package(p.name, p.version, <<group>>))
Pinned(packages) ==
  [i \in DOMAIN packages |-> [packages[i] EXCEPT !.version = TrimPrefix(@, "==")]]
AnalyzePipfileLock(file) ==
  ReadLock(file, file.present,
           Pinned(FromGroup(file.default, "default") \o FromGroup(file.develop, "develop")))
AnalyzeComposerLock(file) ==
  ReadLock(file, file.present,
           OnePerPackage(FromGroup(file.packages, "packages"))
           \o OnePerPackage(FromGroup(file.packagesDev, "packages-dev")))

-----------------------------------------------------------------------------
(* Lockfiles that say how a package is asked for, and of which an entry    *)
(* may be unreadable.                                                      *)

Standing(package, relationship, scope) ==
  [name |-> package.name, version |-> package.version, group |-> package.group,
   relationship |-> relationship, scope |-> scope]
\* read: for every entry a sequence of one, or of none if it is unreadable.
Semantic(read) ==
  SemanticAnalyzerResult(FlattenSeq(read), Cardinality({i \in DOMAIN read : read[i] = <<>>}))

\* "name/version@user/channel#revision%time".
ConanLockReference(text, group) ==
  LET name == Before(text, FirstOf(text, {"/"}))
      rest == After(text, FirstOf(text, {"/"}))
      version == Before(rest, FirstOf(rest, {"@", "#", ":", "%"}))
  IN  IF FirstOf(text, {"/"}) = None \/ name = NoText \/ version = NoText THEN <<>>
      ELSE <<Package(name, version, <<group>>)>>
Stands(package, relationship, scope) ==
  [i \in DOMAIN package |-> Standing(package[i], relationship, scope)]
ConanGroups == <<"requires", "build_requires", "python_requires", "config_requires">>
ConanScope == [group \in {ConanGroups[i] : i \in DOMAIN ConanGroups} |->
                 CASE group = "requires" -> "runtime" [] group = "build_requires" -> "build"
                   [] OTHER -> "development"]
ConanLockV05Dependencies(file) ==
  LET Of(group) == [i \in DOMAIN file[group] |->
                      Stands(ConanLockReference(file[group][i], group), "", ConanScope[group])]
  IN  FlattenSeq([i \in DOMAIN ConanGroups |-> Of(ConanGroups[i])])
\* A node is [id, ref, build]; the root, that has no reference, asks for some
\* of them, for itself or to build.
\* Mutant: what the root asks for only to build passes for what others ask for.
OnlyRuntime(root, node) == node.id \in root.requires
IsDirect(root, node) == node.id \in root.requires \cup root.build_requires
ConanLockV04Dependencies(root, nodes) ==
  LET named == Selection(nodes, LAMBDA node : node.ref # NoText)
      Of(node) == Stands(ConanLockReference(node.ref, "graph_lock.nodes"),
                         IF IsDirect(root, node) THEN "direct" ELSE "transitive",
                         IF node.build \/ node.id \in root.build_requires THEN "build" ELSE "runtime")
  IN  [i \in DOMAIN named |-> Of(named[i])]
AnalyzeConanLock(file) ==
  CASE ~ file.parses -> AnalyzerError
    [] file.parses /\ file.version = "0.5" -> Semantic(ConanLockV05Dependencies(file))
    [] file.parses /\ file.version = "0.4" /\ file.graph ->
         Semantic(ConanLockV04Dependencies(file.root, file.nodes))
    [] OTHER -> NotRecognized

\* packages.lock.json: [parses, version, packages], an entry for every package
\* of every framework, [framework, name, type, resolved].
DotnetLockRelationship(type) == IF type = "Direct" THEN "direct" ELSE "transitive"
DotnetLockEntry(entry) ==
  IF entry.resolved = NoText THEN <<>>
  ELSE <<Standing(Package(entry.name, entry.resolved, <<entry.framework>>),
                  DotnetLockRelationship(entry.type), "runtime")>>
AnalyzeDotnetPackagesLock(file) ==
  LET packages == Selection(file.packages, LAMBDA entry : entry.type # "Project") IN
  CASE ~ file.parses -> AnalyzerError
    [] file.parses /\ file.version \notin {"1", "2"} -> NotRecognized
    [] OTHER -> Semantic([i \in DOMAIN packages |-> DotnetLockEntry(packages[i])])

\* pubspec.lock: packages is a mapping of names to entries.
TextIn(value, key) == ValueAt(value, <<key>>).text
DescriptionReads(source, description) ==
  CASE source = "hosted" -> description.text # NoText \/ TextIn(description, "name") # NoText
    [] source = "git" -> TextIn(description, "url") # NoText
    [] source = "path" -> description.text # NoText \/ TextIn(description, "path") # NoText
    [] source = "sdk" -> description.text # NoText
    [] OTHER -> FALSE
PubspecStanding(dependency) ==
  CASE dependency = <<"direct main">> -> <<"direct", "runtime">>
    [] dependency = <<"direct dev">> -> <<"direct", "development">>
    [] dependency = <<"transitive">> -> <<"transitive", "runtime">>
    [] OTHER -> <<"inconclusive", "runtime">>
DartPubspecLockDependency(name, entry) ==
  LET source == TextIn(entry, "source")
      standing == PubspecStanding(TextIn(entry, "dependency"))
  IN  IF \/ name = "" \/ TextIn(entry, "version") = NoText \/ source = NoText
         \/ ~ DescriptionReads(Head(source), ValueAt(entry, <<"description">>)) THEN <<>>
      ELSE <<Standing(Package(<<name>>, TextIn(entry, "version"), <<"packages">>),
                      standing[1], standing[2])>>
AnalyzePubspecLock(file) ==
  LET packages == ValueAt(file.root, <<"packages">>)
      names == Keys(packages)
  IN  CASE \/ ~ file.parses \/ file.root.kind \notin {"mapping", "null"}
           \/ packages.kind \notin {"mapping", "null"} -> AnalyzerError
        [] file.parses /\ packages.kind = "null" -> NotRecognized
        [] OTHER -> Semantic([i \in DOMAIN names |->
                      DartPubspecLockDependency(names[i], packages.fields[names[i]])])
=============================================================================
