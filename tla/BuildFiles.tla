------------------------------ MODULE BuildFiles ------------------------------
(***************************************************************************)
(* The readers of the files of builds: POMs of Maven, projects of .NET,    *)
(* Dockerfiles and Compose files (maven_pom.go, dotnet.go and docker.go of *)
(* internal/analyze).  In a text a reference to a property is two tokens,  *)
(* "$" and the name; attributes of a dependency and the final sort of a    *)
(* list are left out.                                                      *)
(***************************************************************************)
EXTENDS PackageManifests

NoText == <<>>
Declaration(name, version, group, scope, relationship) ==
  [name |-> name, version |-> version, group |-> group, scope |-> scope,
   relationship |-> relationship]

References(text) == {text[i + 1] : i \in {j \in DOMAIN text : text[j] = "$"}}
\* Every reference to a property that is there, replaced once.
Expand(text, properties) ==
  LET Refers(i) == i \in DOMAIN text /\ text[i] = "$" /\ text[i + 1] \in DOMAIN properties
  IN  FlattenSeq([i \in DOMAIN text |->
        CASE Refers(i) -> properties[text[i + 1]]
          [] Refers(i - 1) -> NoText
          [] OTHER -> <<text[i]>>])

\* Rounds of replacement: the text is resolved by a round that finds nothing to
\* replace, and by no later one than the sixteenth.  Properties without a value
\* are not there.
\* Mutant: one round is enough.
OneRound(value, properties) ==
  [ok |-> References(value) \subseteq DOMAIN properties, text |-> Expand(value, properties)]
ResolveMavenValue(value, properties) ==
  LET there == {p \in DOMAIN properties : properties[p] # NoText}
      Round(r, n) ==
        IF r.over THEN r
        ELSE [ok |-> References(r.text) = {},
              over |-> References(r.text) = {} \/ ~ References(r.text) \subseteq there,
              text |-> Expand(r.text, properties)]
      rounds == FoldLeft(Round, [ok |-> FALSE, over |-> FALSE, text |-> value],
                         [n \in 1 .. 16 |-> n])
  IN  [ok |-> rounds.ok, text |-> rounds.text]

\* The same rounds for another notation.
ResolveMSBuildValue(value, properties) == ResolveMavenValue(value, properties)

\* A version that does not resolve is reported as it stands.
Settled(resolved, raw) == IF resolved.ok THEN resolved.text ELSE raw
Unsettled(resolved) == IF resolved.ok THEN 0 ELSE 1

-----------------------------------------------------------------------------
(* pom.xml: [groupId, artifactId, version, parent, properties,             *)
(* dependencies, management, profiles]; a dependency is [groupId,          *)
(* artifactId, version, scope, optional], a profile [id, properties,       *)
(* dependencies, management], properties a function of their names.        *)

MavenPOMProperties(pom, overrides) ==
  LET Inherited(own, parents) == IF own # NoText THEN own ELSE parents
      groupId == Inherited(pom.groupId, pom.parent.groupId)
      version == Inherited(pom.version, pom.parent.version)
  IN  [key \in {"project.groupId", "pom.groupId"} |-> groupId]
      @@ [key \in {"project.artifactId", "pom.artifactId"} |-> pom.artifactId]
      @@ [key \in {"project.version", "pom.version"} |-> version]
      @@ overrides @@ pom.properties

NormalizeMavenManifestConstraint(version) ==
  IF version = NoText \/ Head(version) \in {"[", "("} THEN version ELSE <<"[">> \o version \o <<"]">>

MavenDependencyScope(d) ==
  CASE d.optional -> "optional"
    [] ~ d.optional /\ d.scope = "test" -> "test"
    [] ~ d.optional /\ d.scope \in {"provided", "system", "import"} -> "build"
    [] OTHER -> "runtime"

Coordinates(group, artifact) == group \o <<":">> \o artifact
MavenDependency(d, groupId, artifactId, version, group, relationship) ==
  LET named == groupId.ok /\ artifactId.ok
      name == IF named THEN Coordinates(groupId.text, artifactId.text)
              ELSE Coordinates(d.groupId, d.artifactId)
      constraint == IF version.ok THEN NormalizeMavenManifestConstraint(version.text) ELSE d.version
  IN  IF d.groupId = NoText \/ d.artifactId = NoText THEN Unreadable
      ELSE [list |-> <<Declaration(name, constraint, group, MavenDependencyScope(d), relationship)>>,
            messages |-> (IF named THEN 0 ELSE 1) + Unsettled(version)]
AppendMavenDependencies(values, group, relationship, properties) ==
  [i \in DOMAIN values |->
     MavenDependency(values[i], ResolveMavenValue(values[i].groupId, properties),
                     ResolveMavenValue(values[i].artifactId, properties),
                     ResolveMavenValue(values[i].version, properties), group, relationship)]

\* A profile without an id goes by its position.
MavenSections(of, group, properties) ==
  AppendMavenDependencies(of.dependencies, Append(group, "dependencies"), "direct", properties)
  \o AppendMavenDependencies(of.management, Append(group, "dependencyManagement"),
                             "inconclusive", properties)
MavenProfile(pom, profile, i) ==
  CASE profile.dependencies \o profile.management = <<>> -> <<>>
    [] profile.dependencies \o profile.management # <<>> /\ profile.id = "" ->
         <<Unreadable>> \o MavenSections(profile, <<"profiles[", ToString(i)>>,
                                         MavenPOMProperties(pom, profile.properties))
    [] OTHER -> MavenSections(profile, <<"profiles", profile.id>>,
                              MavenPOMProperties(pom, profile.properties))
AnalyzeMavenPOM(file) ==
  OfFile(file, LAMBDA pom :
    ResultOf(MavenSections(pom, <<>>, MavenPOMProperties(pom, <<>>))
             \o FlattenSeq([i \in DOMAIN pom.profiles |-> MavenProfile(pom, pom.profiles[i], i)])))

-----------------------------------------------------------------------------
(* Projects of .NET: a node is [name, attributes, text, children].         *)

Attribute(node, name) ==
  IF name \in DOMAIN node.attributes THEN node.attributes[name] ELSE NoText
ChildrenNamed(node, name) == Selection(node.children, LAMBDA child : child.name = name)
Unconditional(nodes) == Selection(nodes, LAMBDA node : Attribute(node, "Condition") = NoText)

\* An attribute, or else the text of a child.
DotnetItemValue(node, field) ==
  IF Attribute(node, field) # NoText \/ ChildrenNamed(node, field) = <<>>
    THEN Attribute(node, field) ELSE Head(ChildrenNamed(node, field)).text

DotnetProperties(root) ==
  LET groups == Unconditional(ChildrenNamed(root, "PropertyGroup"))
      properties == Selection(Unconditional(FlattenSeq([i \in DOMAIN groups |-> groups[i].children])),
                              LAMBDA property : property.children = <<>>)
  IN  FoldLeft(LAMBDA f, p : (p.name :> p.text) @@ f, <<>>, properties)

\* The contents of groups of items, wherever in the project they stand.
DotnetItemGroups(node) ==
  LET below == Preorder(node.children, LAMBDA child : child.children)
      groups == Selection(below, LAMBDA child : child.name = "ItemGroup")
  IN  [i \in DOMAIN groups |-> groups[i].children]

DotnetItemVersion(item, itemName) ==
  IF DotnetItemValue(item, "Version") # NoText \/ itemName # "PackageReference"
    THEN DotnetItemValue(item, "Version") ELSE DotnetItemValue(item, "VersionOverride")
SplitMSBuildAssets(text) == {text[i] : i \in DOMAIN text} \ {";", ",", " "}
BuildAssets == {"build", "buildtransitive", "analyzers"}
DotnetItemScope(item, assets) ==
  CASE DotnetItemValue(item, "DevelopmentDependency") = <<"true">> -> "development"
    [] /\ DotnetItemValue(item, "DevelopmentDependency") # <<"true">>
       /\ assets # {} /\ assets \subseteq BuildAssets -> "build"
    [] OTHER -> "runtime"

DotnetItem(item, itemName, relationship, raw, version) ==
  LET include == Attribute(item, "Include")
      name == IF include # NoText THEN include ELSE Attribute(item, "Update")
  IN  IF name = NoText THEN Unreadable
      ELSE [list |-> <<Declaration(name, Settled(version, raw), <<itemName>>,
                         DotnetItemScope(item, SplitMSBuildAssets(DotnetItemValue(item, "IncludeAssets"))),
                         IF include # NoText THEN relationship ELSE "inconclusive")>>,
            messages |-> Unsettled(version)]
DotnetMSBuildItems(root, itemName, relationship, properties) ==
  LET items == Selection(FlattenSeq(DotnetItemGroups(root)), LAMBDA item : item.name = itemName)
  IN  [i \in DOMAIN items |->
         DotnetItem(items[i], itemName, relationship, DotnetItemVersion(items[i], itemName),
                    ResolveMSBuildValue(DotnetItemVersion(items[i], itemName), properties))]

OfRoot(file, name, Read(_)) ==
  CASE ~ file.parses -> AnalyzerError
    [] file.parses /\ file.root.name # name -> NotRecognized
    [] OTHER -> ResultOf(Read(file.root))
AnalyzeDotnetProject(file) ==
  OfRoot(file, "Project", LAMBDA root :
    DotnetMSBuildItems(root, "PackageReference", "direct", DotnetProperties(root)))
AnalyzeDotnetCentralPackages(file) ==
  OfRoot(file, "Project", LAMBDA root :
    DotnetMSBuildItems(root, "PackageVersion", "inconclusive", DotnetProperties(root)))

ConfiguredPackage(node) ==
  IF Attribute(node, "id") = NoText THEN Unreadable
  ELSE Readable(Declaration(Attribute(node, "id"), Attribute(node, "version"), <<"package">>,
         IF Attribute(node, "developmentDependency") = <<"true">> THEN "development" ELSE "runtime",
         "direct"))
AnalyzeDotnetPackagesConfig(file) ==
  OfRoot(file, "packages", LAMBDA root :
    [i \in DOMAIN ChildrenNamed(root, "package") |->
       ConfiguredPackage(ChildrenNamed(root, "package")[i])])

-----------------------------------------------------------------------------
(* Images: "name:tag@digest".                                              *)

DockerImageDependency(raw, group, scope) ==
  LET at == FirstOf(raw, {"@"})
      tagged == Before(raw, at)
      colon == LastOf(tagged, ":")
      hasTag == colon > LastOf(tagged, "/")
      name == IF hasTag THEN Before(tagged, colon) ELSE tagged
  IN  IF \/ raw = NoText \/ Contains(raw, " ")
         \/ (at # None /\ After(raw, at) = NoText) \/ name = NoText
         \/ (hasTag /\ colon = Len(tagged))
        THEN <<>>
      ELSE <<Declaration(name, IF hasTag THEN After(tagged, colon) ELSE NoText, group, scope, "direct")
             @@ [raw |-> raw]>>

-----------------------------------------------------------------------------
(* A Dockerfile: lines of [fields, continued]; a field is a text, in which *)
(* an option and its "=" are one token.                                    *)

\* Comments count only where no line is being continued, and blank lines never.
DockerfileLogicalLines(lines) ==
  LET Join(s, line) ==
        IF \/ line.fields = <<>> /\ ~ line.continued
           \/ ~ s.continuing /\ line.fields # <<>> /\ Head(Head(line.fields)) = "#"
          THEN s
        ELSE [logical |-> IF line.continued THEN s.logical
                          ELSE Append(s.logical, s.current \o line.fields),
              current |-> IF line.continued THEN s.current \o line.fields ELSE <<>>,
              continuing |-> line.continued]
  IN  FoldLeft(Join, [logical |-> <<>>, current |-> <<>>, continuing |-> FALSE], lines)

Argument(s, fields) ==
  LET equals == FirstOf(fields[2], {"="})
      name == Before(fields[2], equals)
  IN  IF Len(fields) < 2 \/ name = NoText THEN [s EXCEPT !.failed = TRUE]
      ELSE IF equals = None THEN s
      ELSE [s EXCEPT !.args = (Head(name) :> After(fields[2], equals)) @@ @]

IsOption(field) == Head(field) \in {"--platform=", "--from=", "--"}
BehindOptions(fields) ==
  LET words == {i \in DOMAIN fields : ~ IsOption(fields[i])}
  IN  IF words = {} THEN <<>> ELSE SubSeq(fields, Min(words), Len(fields))

\* Only what the last FROM names directly is the image that runs.
\* Mutant: a stage is not remembered when it continues another one.
Unnamed(s, image, dependency, stage) ==
  IF image \in s.stages THEN [s EXCEPT !.final = None]
  ELSE [s EXCEPT !.final = Len(s.images) + 1, !.stages = @ \cup stage, !.images = @ \o dependency]
FromImage(s, image, dependency, stage) ==
  LET named == [s EXCEPT !.stages = @ \cup stage, !.final = None] IN
  IF Contains(image, "$") THEN [named EXCEPT !.messages = @ + 1]
  ELSE IF image = <<"scratch">> \/ image \in s.stages THEN named
  ELSE IF dependency = <<>> THEN [s EXCEPT !.final = None, !.messages = @ + 1]
  ELSE [named EXCEPT !.images = @ \o dependency, !.final = Len(s.images) + 1]
From(s, fields) ==
  LET image == Expand(fields[1], s.args)
      stage == IF Len(fields) >= 3 /\ fields[2] = <<"AS">> THEN {fields[3]} ELSE {}
  IN  IF fields = <<>> THEN [s EXCEPT !.failed = TRUE]
      ELSE FromImage(s, image, DockerImageDependency(image, <<"FROM">>, "build"), stage)

Numerals == {<<ToString(n)>> : n \in 0 .. 9}
CopyImage(s, source, dependency) ==
  IF source \in s.stages \cup Numerals THEN s
  ELSE IF Contains(source, "$") \/ dependency = <<>>
         THEN [s EXCEPT !.messages = @ + 1]
  ELSE [s EXCEPT !.copies = @ \o dependency]
Copy(s, fields) ==
  LET from == Selection(fields, LAMBDA field : Head(field) = "--from=" /\ Len(field) > 1)
      source == Expand(Tail(Head(from)), s.args)
  IN  IF from = <<>> THEN s
      ELSE CopyImage(s, source, DockerImageDependency(source, <<"COPY --from">>, "build"))

Instruction(s, fields) ==
  CASE s.failed \/ Head(fields) \notin {<<"ARG">>, <<"FROM">>, <<"COPY">>} -> s
    [] ~ s.failed /\ Head(fields) = <<"ARG">> -> Argument(s, fields)
    [] ~ s.failed /\ Head(fields) = <<"FROM">> -> From(s, BehindOptions(Tail(fields)))
    [] ~ s.failed /\ Head(fields) = <<"COPY">> -> Copy(s, Tail(fields))
Instructions(lines) ==
  FoldLeft(Instruction, [args |-> <<>>, stages |-> {}, images |-> <<>>, copies |-> <<>>,
                         messages |-> 0, final |-> None, failed |-> FALSE], lines)

\* An image that is used twice is listed once, as running if it does.
AppendOrMergeDockerDependency(list, dependency) ==
  LET same == {i \in DOMAIN list : list[i].raw = dependency.raw} IN
  IF same = {} THEN Append(list, dependency)
  ELSE IF dependency.scope = "runtime" THEN [list EXCEPT ![Min(same)].scope = "runtime"]
  ELSE list
ImagesOf(s) ==
  FoldLeft(AppendOrMergeDockerDependency, <<>>,
           [i \in DOMAIN s.images |->
              IF i = s.final THEN [s.images[i] EXCEPT !.scope = "runtime"] ELSE s.images[i]]
           \o s.copies)
DockerfileResult(s) ==
  IF s.failed THEN AnalyzerError ELSE SemanticAnalyzerResult(ImagesOf(s), s.messages)
AnalyzeDockerfile(file) ==
  LET joined == DockerfileLogicalLines(file.lines)
  IN  IF joined.continuing THEN AnalyzerError ELSE DockerfileResult(Instructions(joined.logical))

\* compose.yaml.
ComposeService(name, service) ==
  LET image == ValueAt(service, <<"image">>)
      read == DockerImageDependency(image.text, <<"services", name, "image">>, "runtime")
  IN  CASE ~ Has(service, "image") -> Ignored
        [] Has(service, "image") /\ (read = <<>> \/ Contains(image.text, "$")) -> Unreadable
        [] OTHER -> Readable(read[1])
AnalyzeDockerCompose(file) ==
  LET services == ValueAt(file.root, <<"services">>) IN
  CASE \/ ~ file.parses \/ file.root.kind \notin {"mapping", "null"}
       \/ Has(file.root, "services") /\ services.kind # "mapping" -> AnalyzerError
    [] file.parses /\ file.root.kind \in {"mapping", "null"} /\ ~ Has(file.root, "services") ->
         ResultOf(<<>>)
    [] OTHER -> ResultOf(Entries(services, ComposeService))
=============================================================================
