------------------------------ MODULE Analyzers ------------------------------
(***************************************************************************)
(* What becomes of a source: its analyzer reads it, and generation decides *)
(* for each format whether the groups in it are planned or block the run.  *)
(* A document comes with what its author declares in it, so that reading   *)
(* can be compared with writing.  A document that is known to be taken for *)
(* something else also comes with what it is taken for, in a field of its  *)
(* own, and one that ends the process says so in another.                  *)
(***************************************************************************)
EXTENDS AnalyzerResults

CONSTANTS Alphabet, Depth, Versions,   \* see Documents and NodeLocks
          TerraformFiles, TypeScriptFiles, PythonFiles, SetupFiles, BundleFiles,
          TomlFiles, YamlFiles, YamlLists, PresenceFiles, XmlFiles, PyprojectFiles,
          NpmLocks, YarnLocks, PnpmLocks, PackageLockfiles,
          NodeManifests, CargoManifests, PackageManifestFiles, BuildManifests

ASSUME DepthAssumption == Depth \in Nat

Terraform == INSTANCE TerraformGlue
TypeScript == INSTANCE TypeScriptConstructs
PythonPrograms == INSTANCE PythonSource
Bundles == INSTANCE DatabricksBundle
Toml == INSTANCE TomlQueries
Yaml == INSTANCE YamlQueries
Locks == INSTANCE PackageLocks
Manifests == INSTANCE PackageManifests
Builds == INSTANCE BuildFiles

\* The blocks of a Terraform file and the tokens of a program are lists.
ASSUME FilesAssumption ==
  /\ \A d \in TerraformFiles : d.file.parses => Bundles!IsList(d.file.blocks)
  /\ \A d \in TypeScriptFiles \cup PythonFiles : Bundles!IsList(d.file)

VARIABLES family,    \* which analyzer the source belongs to
          document,  \* the source, and what is declared in it
          stage,     \* "new", "analyzed", "decided" or "crashed"
          result,    \* the result of its analyzer
          verdicts   \* of generation, for each format

vars == <<family, document, stage, result, verdicts>>

Formats == {Python, Maven}
Holds(kind, documents) == family = kind /\ document \in documents

Init == /\ \/ Holds("terraform", TerraformFiles) \/ Holds("typescript", TypeScriptFiles)
           \/ Holds("python", PythonFiles)       \/ Holds("setup", SetupFiles)
           \/ Holds("bundle", BundleFiles)       \/ Holds("toml", TomlFiles)
           \/ Holds("yaml", YamlFiles)           \/ Holds("yaml-list", YamlLists)
           \/ Holds("presence", PresenceFiles)   \/ Holds("xml", XmlFiles)
           \/ Holds("pyproject", PyprojectFiles) \/ Holds("npm-lock", NpmLocks)
           \/ Holds("yarn-lock", YarnLocks)      \/ Holds("pnpm-lock", PnpmLocks)
           \/ Holds("package-json", NodeManifests)
           \/ Holds("cargo", CargoManifests)
           \/ Holds("manifest", PackageManifestFiles) \/ Holds("lock", PackageLockfiles)
           \/ Holds("build", BuildManifests)
        /\ stage = "new"
        /\ result = NotRecognized
        /\ verdicts = [f \in Formats |-> "not asked"]

Analyze(kind, made) == /\ stage = "new" /\ family = kind
                       /\ stage' = "analyzed"
                       /\ result' = made
                       /\ UNCHANGED <<family, document, verdicts>>

AnalyzeTerraform == Analyze("terraform", Terraform!AnalyzeTerraformGlue(document.file))
AnalyzeTypeScript == Analyze("typescript", TypeScript!AnalyzeTypeScript(document.file))
AnalyzePython == Analyze("python", PythonPrograms!AnalyzePythonConstructs(document.file))
\* The recursion of the analyzer has no end, and the process dies of it.
OverflowPython == /\ stage = "new" /\ family = "python"
                  /\ stage' = "crashed"
                  /\ UNCHANGED <<family, document, result, verdicts>>
AnalyzeSetup == Analyze("setup", PythonPrograms!AnalyzePythonCall(document.file))
AnalyzeBundle == Analyze("bundle", Bundles!AnalyzeDatabricksBundle(document.file))
AnalyzeToml == Analyze("toml", Toml!AnalyzeTOMLFile(document.rules, document.file))
AnalyzeYaml ==
  Analyze("yaml", OfFile(document.file, LAMBDA root : Yaml!AnalyzeYAMLGroups(document.rules, root)))
AnalyzeYamlList ==
  Analyze("yaml-list", OfFile(document.file, LAMBDA root : Yaml!AnalyzeYAMLQuery(document.path, root)))

\* Whether a path is there.
Asks(syntax, Read(_)) ==
  /\ family = "presence" /\ document.syntax = syntax
  /\ Analyze("presence", OfFile(document.file, Read))
Segments(path) == [i \in DOMAIN path |-> Yaml!Key(path[i])]
AnalyzeJson == Asks("json", LAMBDA root : Yaml!AnalyzeJSON(document.path, root))
AnalyzeYamlPresence ==
  Asks("yaml", LAMBDA root : Yaml!AnalyzeYAMLExistsAny(<<Segments(document.path)>>, root))
AnalyzeYamlExists ==
  Asks("yaml-exists", LAMBDA root : Yaml!AnalyzeYAMLExists(Segments(document.path), root))
TomlRules(any, tables) == [queries |-> <<>>, tableQueries |-> <<>>, existsAny |-> any,
                           tableExistsAny |-> tables, excludeKeys |-> {}]
AnalyzeTomlPresence ==
  \/ Asks("toml", LAMBDA root :
             Toml!AnalyzeTOML(TomlRules(<<Segments(document.path)>>, <<>>), root))
  \/ Asks("toml-table", LAMBDA root :
             Toml!AnalyzeTOML(TomlRules(<<>>, <<Segments(document.path)>>), root))
AnalyzeXml == Analyze("xml", Yaml!AnalyzeXML(<<document.path>>, document.file))

AnalyzePyproject ==
  Analyze("pyproject", Toml!AnalyzePyproject(document.file, document.files))
AnalyzeNpmLock == Analyze("npm-lock", Locks!AnalyzePackageLock(document.file))
AnalyzeYarnLock == Analyze("yarn-lock", Locks!AnalyzeYarnLock(document.file))
AnalyzePnpmLock == Analyze("pnpm-lock", Locks!AnalyzePNPMLock(document.file))
AnalyzeNodeManifest == Analyze("package-json", Manifests!AnalyzePackageJSON(document.file))
AnalyzeCargo == Analyze("cargo", Manifests!AnalyzeCargoManifest(document.file))

\* Sources of the other package managers: document.kind names the analyzer.
Reads(kind, made) == document.kind = kind /\ Analyze(family, made)
AnalyzeManifest ==
  /\ family = "manifest"
  /\ \/ Reads("dart", Manifests!AnalyzeDartPubspec(document.file))
     \/ Reads("fortran", Manifests!AnalyzeFortranFPM(document.file))
     \/ Reads("julia", Manifests!AnalyzeJuliaProject(document.file))
     \/ Reads("composer", Manifests!AnalyzeComposerManifest(document.file))
     \/ Reads("deno", Manifests!AnalyzeDenoJSON(document.file))
     \/ Reads("import-map", Manifests!AnalyzeImportMap(document.file))
AnalyzeBuild ==
  /\ family = "build"
  /\ \/ Reads("pom", Builds!AnalyzeMavenPOM(document.file))
     \/ Reads("project", Builds!AnalyzeDotnetProject(document.file))
     \/ Reads("central", Builds!AnalyzeDotnetCentralPackages(document.file))
     \/ Reads("packages-config", Builds!AnalyzeDotnetPackagesConfig(document.file))
     \/ Reads("dockerfile", Builds!AnalyzeDockerfile(document.file))
     \/ Reads("compose", Builds!AnalyzeDockerCompose(document.file))
AnalyzeLock ==
  /\ family = "lock"
  /\ \/ Reads("cargo", Locks!AnalyzeCargoLock(document.file))
     \/ Reads("poetry", Locks!AnalyzePoetryLock(document.file))
     \/ Reads("uv", Locks!AnalyzeUVLock(document.file))
     \/ Reads("pipenv", Locks!AnalyzePipfileLock(document.file))
     \/ Reads("composer", Locks!AnalyzeComposerLock(document.file))
     \/ Reads("conan", Locks!AnalyzeConanLock(document.file))
     \/ Reads("dart", Locks!AnalyzePubspecLock(document.file))
     \/ Reads("nuget", Locks!AnalyzeDotnetPackagesLock(document.file))

\* What generation is asked about is what the scan reports.
Decide == /\ stage = "analyzed" /\ result.status # "other"
          /\ stage' = "decided"
          /\ verdicts' = [f \in Formats |-> Verdict(result, document.generate, f)]
          /\ UNCHANGED <<family, document, result>>

AnalyzeProgram(overflows) == \/ ~ overflows /\ AnalyzePython
                             \/ overflows /\ OverflowPython
AnalyzeJobs ==
  \/ AnalyzeTerraform \/ AnalyzeTypeScript \/ AnalyzeBundle
  \/ family = "python" /\ AnalyzeProgram(PythonPrograms!Overflows(document.file))
AnalyzeLists == AnalyzeSetup \/ AnalyzeToml \/ AnalyzeYaml \/ AnalyzeYamlList
                \/ AnalyzePyproject \/ AnalyzeNodeManifest \/ AnalyzeCargo \/ AnalyzeManifest
                \/ AnalyzeBuild
AnalyzePresence == AnalyzeJson \/ AnalyzeYamlPresence \/ AnalyzeYamlExists
                   \/ AnalyzeTomlPresence \/ AnalyzeXml
AnalyzeLocks == AnalyzeNpmLock \/ AnalyzeYarnLock \/ AnalyzePnpmLock \/ AnalyzeLock
Next == AnalyzeJobs \/ AnalyzeLists \/ AnalyzePresence \/ AnalyzeLocks \/ Decide

Spec == Init /\ [][Next]_vars

-----------------------------------------------------------------------------
\* No source makes an analyzer break the rules for results, which would end
\* the scan.
TypeOK == /\ stage \in {"new", "analyzed", "decided", "crashed"}
          /\ result.status \in {"recognized", "other", "error"} /\ Accepted(result)
          /\ \A f \in Formats : verdicts[f] \in {"not asked", "blocked", "planned"}

\* What a document declares, and what it is taken for.
Taken == IF "taken" \in DOMAIN document THEN document.taken ELSE document

\* Jobs: each is [python |-> "yes" | "no" | "unknown", known, modules].
JobFamilies == {"terraform", "typescript", "python"}
Wanted(jobs) == Selection(jobs, LAMBDA job : job.python # "no")
ExportedOrBlocked(wanted) ==
  LET readable == \A i \in DOMAIN wanted : wanted[i].python = "yes" /\ wanted[i].known IN
  /\ stage = "analyzed" /\ result.status = "other" => wanted = <<>>
  /\ stage = "decided" =>
       verdicts[Python] = IF readable THEN "planned" ELSE "blocked"
  /\ stage = "decided" /\ verdicts[Python] = "planned" =>
       /\ Len(result.groups) = Len(wanted)
       /\ \A i \in DOMAIN wanted : result.groups[i].dependencies = wanted[i].modules

\* Every selected job is exported, with the modules that it runs with and in
\* the order of the file, or generation is blocked: a job that cannot be read
\* is never left out of what is generated, and nothing is generated for jobs
\* in other languages.
JobsExportedOrBlocked ==
  family \in JobFamilies => ExportedOrBlocked(Wanted(document.jobs))

\* The same of the jobs that a file is taken to have: they are those that it
\* declares, unless it is one of the files that are misread, and an analysis
\* ends unless names are assigned to each other.
JobsTakenExported ==
  family \in JobFamilies =>
    /\ ExportedOrBlocked(Wanted(Taken.jobs))
    /\ stage # "new" => (stage = "crashed") = ("overflows" \in DOMAIN document)

\* What the jobs in a file come to, in the order of the text; of a file that
\* does not parse nothing can be said.
FoundJobs(kind, file) ==
  CASE kind = "terraform" -> IF file.parses THEN Terraform!GlueJobs(file) ELSE <<NotReadable>>
    [] kind = "typescript" -> TypeScript!NewExpressions(file)
    [] OTHER -> FlattenSeq(PythonPrograms!GlueConstructs(file))

DecidedAs(found) ==
  /\ (verdicts[Python] = "blocked") = ("incomplete" \in Outcomes(found))
  /\ verdicts[Python] = "planned" => result.groups = GroupsIn(found)

\* One job that cannot be read blocks all jobs of its file, and nothing else
\* does; otherwise each job is a group of its own, in order, and none is merged
\* with another or dropped.
FoundJobsDecide ==
  family \in JobFamilies /\ stage = "decided" /\ document.generate = Python =>
    DecidedAs(FoundJobs(family, document.file))

\* Tasks of a bundle: each declares, per format, lists that can be read or not.
\* A library that one format cannot have blocks that format and no other; what
\* the structure of the bundle hides blocks both.
FormatsBlockedSeparately ==
  family = "bundle" /\ stage = "decided" =>
    \A f \in Formats :
      LET tasks == document.tasks
          planned == /\ document.sound
                     /\ \A i \in DOMAIN tasks : tasks[i][f].known
          groups == GroupsOf(result, f)
      IN  /\ verdicts[f] # "not asked" =>
               (verdicts[f] = "planned") = planned
          /\ planned => /\ Len(groups) = Len(tasks)
                        /\ \A i \in DOMAIN tasks : groups[i].dependencies = tasks[i][f].declared

\* Each task for itself is read as it is declared, as its groups for Python and
\* for Maven, and the structure of the bundle hides something only if it is
\* declared to.  It is what FormatsBlockedSeparately needs.
IsReadTask(groups, task) ==
  \A i \in DOMAIN groups :
    LET said == task[groups[i].format] IN
    /\ groups[i].diagnostics > 0 <=> ~ said.known
    /\ said.known => groups[i].dependencies = said.declared
BundleRead(source) ==
  LET pieces == Bundles!BundlePieces(source.file)
      read == Selection(pieces, LAMBDA piece : piece.groups # <<>>)
  IN  /\ Bundles!IsBundle(source.file)
      /\ source.sound <=> /\ source.file.parses /\ source.file.targets # Bundles!Malformed
                          /\ \A i \in DOMAIN pieces : ~ pieces[i].structural
      /\ source.sound => /\ read # <<>> /\ DOMAIN source.tasks = DOMAIN read
                         /\ \A i \in DOMAIN read : IsReadTask(read[i].groups, source.tasks[i])

\* Lists: what is declared, as a set, and whether all of it can be read.
ListFamilies == {"setup", "toml", "yaml", "yaml-list", "pyproject", "package-json", "cargo",
                 "manifest", "build"}
Listing == {result.dependencies[i] : i \in DOMAIN result.dependencies}
Shown(d) == CASE family \in {"package-json", "cargo"} -> <<d.name, d.group>>
              [] family = "manifest" -> <<d.name, d.group, d.scope>>
              [] family = "build" -> <<d.name, d.version, d.group, d.scope, d.relationship>>
              [] OTHER -> d
ListsAll(said) ==
  /\ result.status = "recognized" =>
       LET reported == {Shown(d) : d \in Listing} IN
       /\ (result.analysis.extraction = "complete") = said.readable
       /\ reported \subseteq said.declared
       /\ said.readable => reported = said.declared
  /\ stage # "new" /\ result.status = "other" => said.declared = {}
  /\ result.status = "error" => ~ said.readable

\* A list that is reported as complete is all that the file declares, and one
\* that is not is never taken for it; nothing is reported that the file does
\* not declare, and a file without dependencies is not said to have any.  Of a
\* file that is misread, the same of what it is taken to declare.
CompleteMeansAllTaken == family \in ListFamilies => ListsAll(Taken)

\* A key that only has to be there is found in every syntax, whatever else is
\* in the file, and only a file that does not parse has no answer.
PresenceDecided ==
  family \in {"presence", "xml"} /\ stage # "new" =>
    /\ (result.status = "error") = document.broken
    /\ ~ document.broken =>
         document.declares = (IF document.syntax = "yaml-exists" THEN result.status = "recognized"
                              ELSE result.analysis.presence = "present")

LockFamilies == {"npm-lock", "yarn-lock", "pnpm-lock", "lock"}
Standing(d) == IF "relationship" \in DOMAIN d THEN <<d.name, d.relationship, d.scope>>
                                              ELSE <<d.name, d.group>>
TellsTheTree(said) ==
  /\ result.status # "other"
  /\ (result.analysis.extraction = "complete") = said.readable
  /\ {<<d.name, d.version>> : d \in Listing} = said.tree
  /\ said.asked \subseteq {Standing(d) : d \in Listing}

\* A lockfile for an installation is reported as the packages installed, each
\* under its own name and in its own version, and those that the project asks
\* for under their group or by what they are asked for; the list is complete
\* only if the file parses and every entry can be read.  Of a lockfile that is
\* misread, the same of the installation that it is taken for.
LocksTellTheTreeTaken == family \in LockFamilies /\ stage # "new" => TellsTheTree(Taken)
=============================================================================
