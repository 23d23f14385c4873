------------------------------ MODULE NodeLocks ------------------------------
(***************************************************************************)
(* The readers of the lockfiles of npm, Yarn and pnpm                      *)
(* (internal/analyze/package_lock.go, yarn_lock.go, pnpm_lock.go).         *)
(*                                                                         *)
(* A text is a sequence of tokens in which "@", "/", "(", "_" and ":"      *)
(* stand for themselves; a package's name is one token, or, with a scope,  *)
(* <<"@", scope, "/", name>>.  What a Go map holds is listed in the order  *)
(* of its sorted keys.                                                     *)
(***************************************************************************)
EXTENDS Documents, AnalyzerResults

CONSTANT Versions   \* the tokens semver.IsValid accepts

NoText == <<>>
Package(name, version, group) == [name |-> name, version |-> version, group |-> group]
Listed(packages) == Complete(packages, <<>>)

\* The first of every name and version.
OnePerPackage(packages) ==
  LET first == {i \in DOMAIN packages :
                  \A j \in 1 .. (i - 1) : \/ packages[j].name # packages[i].name
                                          \/ packages[j].version # packages[i].version}
  IN  AtPlaces(packages, first)

-----------------------------------------------------------------------------
(* package-lock.json: [version, parses, dependencies, packages].           *)

\* Version 1 nests what is installed: [name, version, readable, inside].
\* Mutant: what is installed inside another package is not looked at.
TopOnly(entry) == <<Package(entry.name, entry.version, NoText)>>
Visit(entry) ==
  LET visited == Preorder(<<entry>>, LAMBDA e : IF e.name = NoText THEN <<>> ELSE e.inside)
      named == Selection(visited, LAMBDA e : e.name # NoText)
  IN  [i \in DOMAIN named |-> Package(named[i].name, named[i].version, NoText)]
MatchPackageLockV1Dependencies(entries) ==
  LET readable == Selection(entries, LAMBDA entry : entry.readable)
  IN  Listed(OnePerPackage(FlattenSeq([i \in DOMAIN readable |-> Visit(readable[i])])))

\* Versions 2 and 3 list every place: [path, name, version], with a path of
\* tokens in which "node_modules/" is one.
InNodeModules == "node_modules/"
PackageNameFromNodeModulesPath(path) ==
  LET at == LastOf(path, InNodeModules)
      rest == After(path, at)
      scoped == rest # NoText /\ Head(rest) = "@"
      slashes == Ascending({i \in DOMAIN rest : rest[i] = "/"})
  IN  CASE at = None -> NoText
        [] at # None /\ scoped /\ slashes # <<>> ->
             Before(rest, IF Len(slashes) > 1 THEN slashes[2] ELSE None)
        [] OTHER -> Before(rest, FirstOf(rest, {"/"}))

\* root: for each group, the names it declares; the first group counts.
PackageGroups == <<"dependencies", "devDependencies", "optionalDependencies">>
RootSourceGroup(root, name) ==
  LET with == {i \in DOMAIN PackageGroups : \E j \in DOMAIN root[PackageGroups[i]] :
                                              root[PackageGroups[i]][j] = name}
  IN  IF with = {} THEN NoText ELSE <<PackageGroups[Min(with)]>>
\* The name in the entry is the package's own; the path has the alias.
MatchPackageLockV2V3(root, places) ==
  LET named == Selection(places, LAMBDA p : PackageNameFromNodeModulesPath(p.path) # NoText)
      Resolved(place) ==
        LET name == PackageNameFromNodeModulesPath(place.path)
        IN  Package(IF place.name # NoText THEN place.name ELSE name, place.version,
                    RootSourceGroup(root, name))
  IN  Listed([i \in DOMAIN named |-> Resolved(named[i])])
\* Nothing is installed yet.
MatchPackageLockV2V3FromRootOnly(root) ==
  LET Of(group) == [i \in DOMAIN root[group] |-> Package(root[group][i], NoText, <<group>>)]
  IN  Listed(OnePerPackage(FlattenSeq([i \in DOMAIN PackageGroups |-> Of(PackageGroups[i])])))

AnalyzePackageLock(file) ==
  CASE ~ file.parses -> AnalyzerError
    [] file.parses /\ file.version = 1 -> MatchPackageLockV1Dependencies(file.dependencies)
    [] file.parses /\ file.version \in {2, 3} ->
         IF file.packages = <<>> THEN MatchPackageLockV2V3FromRootOnly(file.root)
                                 ELSE MatchPackageLockV2V3(file.root, file.packages)
    [] OTHER -> NotRecognized

-----------------------------------------------------------------------------
(* yarn.lock.                                                              *)

YarnSelectorName(selector) ==
  LET start == IF selector # NoText /\ Head(selector) = "@" THEN 1 ELSE 0
  IN  Before(selector, Least({i \in DOMAIN selector : i > start /\ selector[i] = "@"}))

\* A line: [kind |-> "blank" | "comment" | "selectors" | "version" | "other",
\* selectors, version].  Selectors without a version are flushed.
Reading == [selectors |-> <<>>, packages |-> <<>>]
AddDependencies(state, version) ==
  LET named == Selection(state.selectors, LAMBDA selector : YarnSelectorName(selector) # NoText)
  IN  [selectors |-> <<>>,
       packages |-> state.packages \o
         [i \in DOMAIN named |-> Package(YarnSelectorName(named[i]), version, NoText)]]
ReadLine(state, line) ==
  CASE line.kind = "blank" -> AddDependencies(state, NoText)
    [] line.kind = "selectors" ->
         [AddDependencies(state, NoText) EXCEPT !.selectors = line.selectors]
    [] line.kind = "version" -> AddDependencies(state, line.version)
    [] OTHER -> state
ParseClassicYarnLockDependencies(lines) ==
  OnePerPackage(AddDependencies(FoldLeft(ReadLine, Reading, lines), NoText).packages)

\* An entry: [selectors, resolution, version], in the order of names and versions.
ModernYarnPackageName(entry) ==
  LET names == Selection([i \in DOMAIN entry.selectors |-> YarnSelectorName(entry.selectors[i])],
                         LAMBDA name : name # NoText)
  IN  CASE YarnSelectorName(entry.resolution) # NoText -> YarnSelectorName(entry.resolution)
        [] YarnSelectorName(entry.resolution) = NoText /\ names # <<>> -> Head(names)
        [] OTHER -> NoText
ParseModernYarnLockDependencies(entries) ==
  LET named == Selection(entries, LAMBDA entry : ModernYarnPackageName(entry) # NoText)
  IN  OnePerPackage([i \in DOMAIN named |->
                       Package(ModernYarnPackageName(named[i]), named[i].version, NoText)])

\* file: [header |-> "classic" | "modern" | "other", parses, lines, entries].
AnalyzeYarnLock(file) ==
  CASE file.header = "classic" -> Listed(ParseClassicYarnLockDependencies(file.lines))
    [] file.header = "modern" /\ ~ file.parses -> AnalyzerError
    [] file.header = "modern" /\ file.parses ->
         Listed(ParseModernYarnLockDependencies(file.entries))
    [] OTHER -> NotRecognized

-----------------------------------------------------------------------------
(* pnpm-lock.yaml: [parses, major, importer, packages].                    *)

PeerContext == {"(", "_"}
WithoutPeerContext(version) == Before(version, FirstOf(version, PeerContext))
IsVersion(version) == Len(version) = 1 /\ version[1] \in Versions

\* "/react/1.0.0" in version 5, "/react@1.0.0" in 6, "react@1.0.0" from 9.
\* Mutant: the slash of version 6 stays.
SlashStays(key, major) ==
  IF major = 5 THEN TrimPrefix(key, "/") ELSE key
WithoutSlash(key, major) == IF major \in {5, 6} THEN TrimPrefix(key, "/") ELSE key
PackageKeyNameVersion(key, major) ==
  LET bare == WithoutSlash(Before(key, FirstOf(key, {"("})), major)
      mark == LastOf(bare, IF major = 5 THEN "/" ELSE "@")
      at == IF major # 5 /\ mark = 1 THEN None ELSE mark
  IN  Package(Before(bare, at), WithoutPeerContext(After(bare, at)), NoText)

\* An alias names its package in front of the version.
LocatorNameVersion(text) ==
  LET bare == TrimPrefix(text, "/")
      start == IF bare # NoText /\ Head(bare) = "@" THEN FirstOf(bare, {"/"}) ELSE 0
      at == Least({i \in DOMAIN bare : i > start /\ bare[i] \in {"@", "/"}})
  IN  Package(Before(bare, at), WithoutPeerContext(After(bare, at)), NoText)
\* entry: [name, version, specifier].
ImporterDependency(entry, group) ==
  LET locator == LocatorNameVersion(entry.version)
      version == WithoutPeerContext(entry.version)
      \* "npm:b@1", the only way an entry of version 5 may hint at its package.
      target == LET rest == After(entry.specifier, 2) at == LastOf(rest, "@")
                IN  IF at <= 1 THEN rest ELSE Before(rest, at)
      alias == Len(entry.specifier) > 2 /\ SubSeq(entry.specifier, 1, 2) = <<"npm", ":">>
  IN  CASE entry.version = NoText -> Package(entry.name, NoText, <<group>>)
        [] entry.version # NoText /\ Head(entry.version) \in {"link", "file"} ->
             Package(entry.name, NoText, <<group>>)
        [] entry.version # NoText /\ IsVersion(version) ->
             Package(IF alias THEN target ELSE entry.name, version, <<group>>)
        [] /\ entry.version # NoText /\ ~ IsVersion(version)
           /\ \A i \in DOMAIN entry.version : entry.version[i] # ":"
           /\ IsVersion(locator.version) ->
             Package(IF locator.name # entry.name \/ ~ alias THEN locator.name ELSE target,
                     locator.version, <<group>>)
        [] OTHER -> Package(entry.name, entry.version, <<group>>)

ImporterDependencies(importer) ==
  LET Of(group) == [i \in DOMAIN importer[group] |-> ImporterDependency(importer[group][i], group)]
  IN  FlattenSeq([i \in DOMAIN PackageGroups |-> Of(PackageGroups[i])])
\* A package of the store is listed unless a direct dependency is it.
TransitiveFromPackages(direct, file) ==
  LET Same(p, q) == p.name = q.name /\ p.version = q.version
      all == [i \in DOMAIN file.packages |-> PackageKeyNameVersion(file.packages[i], file.major)]
  IN  Selection(OnePerPackage(all),
                LAMBDA p : p.name # NoText /\ \A i \in DOMAIN direct : ~ Same(direct[i], p))
AnalyzePNPMLock(file) ==
  LET direct == ImporterDependencies(file.importer)
  IN  CASE ~ file.parses -> AnalyzerError
        [] file.parses /\ file.major = 0 -> NotRecognized
        [] OTHER -> Listed(direct \o TransitiveFromPackages(direct, file))
=============================================================================
