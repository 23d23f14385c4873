--------------------------- MODULE AnalyzersProofs ---------------------------
(***************************************************************************)
(* Theorems about the analyzers: what they return for every document, and  *)
(* what is decided about files of any number of jobs and tasks.            *)
(***************************************************************************)
EXTENDS Analyzers, ListLemmas

-----------------------------------------------------------------------------
(* Types: every analyzer makes its result with one of a few operators.     *)

\* What TypeOK says of a result.
Sound(r) == r.status \in {"recognized", "other", "error"} /\ Accepted(r)

\* The ways to make a result.
LEMMA CompleteSound == \A d, g : Sound(Complete(d, g))
BY DEF Sound, Accepted, Complete, Result, CompleteAnalysis, Is, ValidSourceAnalyzerResult,
       ValidSourceAnalysis

\* The constants among the results are sound as well.
LEMMA EmptySound == /\ Sound(NotRecognized) /\ Sound(AnalyzerError) /\ Sound(Identified)
                    /\ \A b : Sound(Presence(b))
BY DEF Sound, Accepted, NotRecognized, AnalyzerError, Identified, Presence, PresenceAnalysis,
       IdentifiedAnalysis, FailedAnalysis, Result, Is, ValidSourceAnalyzerResult,
       ValidSourceAnalysis

LEMMA IncompleteSound == \A d, g : Sound(Incomplete(d, g))
BY DEF Sound, Accepted, Incomplete, FailedAnalysis, Result, Is, ValidSourceAnalyzerResult,
       ValidSourceAnalysis

LEMMA SemanticSound == \A d, m : Sound(SemanticAnalyzerResult(d, m))
BY CompleteSound DEF Sound, Accepted, SemanticAnalyzerResult, Result, Is,
       ValidSourceAnalyzerResult, ValidSourceAnalysis

LEMMA JobsSound == \A jobs : Sound(JobsResult(jobs))
BY CompleteSound, IncompleteSound, EmptySound DEF JobsResult

\* They are the same in every module that takes them from AnalyzerResults.
LEMMA TerraformMakers ==
  /\ \A d, g : Terraform!Complete(d, g) = Complete(d, g)
  /\ \A d, g : Terraform!Incomplete(d, g) = Incomplete(d, g)
  /\ \A d, m : Terraform!SemanticAnalyzerResult(d, m) = SemanticAnalyzerResult(d, m)
  /\ \A b : Terraform!Presence(b) = Presence(b)
  /\ Terraform!NotRecognized = NotRecognized
  /\ Terraform!AnalyzerError = AnalyzerError
  /\ Terraform!Identified = Identified
BY DEF Terraform!Complete, Complete, Terraform!Incomplete, Incomplete,
       Terraform!SemanticAnalyzerResult, SemanticAnalyzerResult, Terraform!Presence, Presence,
       Terraform!NotRecognized, NotRecognized, Terraform!AnalyzerError, AnalyzerError,
       Terraform!Identified, Identified, Terraform!Result, Result, Terraform!CompleteAnalysis,
       CompleteAnalysis, Terraform!PresenceAnalysis, PresenceAnalysis,
       Terraform!IdentifiedAnalysis, IdentifiedAnalysis, Terraform!FailedAnalysis,
       FailedAnalysis, Terraform!Is, Is

LEMMA TypeScriptMakers ==
  /\ \A d, g : TypeScript!Complete(d, g) = Complete(d, g)
  /\ \A d, g : TypeScript!Incomplete(d, g) = Incomplete(d, g)
  /\ \A d, m : TypeScript!SemanticAnalyzerResult(d, m) = SemanticAnalyzerResult(d, m)
  /\ \A b : TypeScript!Presence(b) = Presence(b)
  /\ TypeScript!NotRecognized = NotRecognized
  /\ TypeScript!AnalyzerError = AnalyzerError
  /\ TypeScript!Identified = Identified
BY DEF TypeScript!Complete, Complete, TypeScript!Incomplete, Incomplete,
       TypeScript!SemanticAnalyzerResult, SemanticAnalyzerResult, TypeScript!Presence, Presence,
       TypeScript!NotRecognized, NotRecognized, TypeScript!AnalyzerError, AnalyzerError,
       TypeScript!Identified, Identified, TypeScript!Result, Result,
       TypeScript!CompleteAnalysis, CompleteAnalysis, TypeScript!PresenceAnalysis,
       PresenceAnalysis, TypeScript!IdentifiedAnalysis, IdentifiedAnalysis,
       TypeScript!FailedAnalysis, FailedAnalysis, TypeScript!Is, Is

LEMMA PythonProgramsMakers ==
  /\ \A d, g : PythonPrograms!Complete(d, g) = Complete(d, g)
  /\ \A d, g : PythonPrograms!Incomplete(d, g) = Incomplete(d, g)
  /\ \A d, m : PythonPrograms!SemanticAnalyzerResult(d, m) = SemanticAnalyzerResult(d, m)
  /\ \A b : PythonPrograms!Presence(b) = Presence(b)
  /\ PythonPrograms!NotRecognized = NotRecognized
  /\ PythonPrograms!AnalyzerError = AnalyzerError
  /\ PythonPrograms!Identified = Identified
BY DEF PythonPrograms!Complete, Complete, PythonPrograms!Incomplete, Incomplete,
       PythonPrograms!SemanticAnalyzerResult, SemanticAnalyzerResult, PythonPrograms!Presence,
       Presence, PythonPrograms!NotRecognized, NotRecognized, PythonPrograms!AnalyzerError,
       AnalyzerError, PythonPrograms!Identified, Identified, PythonPrograms!Result, Result,
       PythonPrograms!CompleteAnalysis, CompleteAnalysis, PythonPrograms!PresenceAnalysis,
       PresenceAnalysis, PythonPrograms!IdentifiedAnalysis, IdentifiedAnalysis,
       PythonPrograms!FailedAnalysis, FailedAnalysis, PythonPrograms!Is, Is

LEMMA BundlesMakers ==
  /\ \A d, g : Bundles!Complete(d, g) = Complete(d, g)
  /\ \A d, g : Bundles!Incomplete(d, g) = Incomplete(d, g)
  /\ \A d, m : Bundles!SemanticAnalyzerResult(d, m) = SemanticAnalyzerResult(d, m)
  /\ \A b : Bundles!Presence(b) = Presence(b)
  /\ Bundles!NotRecognized = NotRecognized
  /\ Bundles!AnalyzerError = AnalyzerError
  /\ Bundles!Identified = Identified
BY DEF Bundles!Complete, Complete, Bundles!Incomplete, Incomplete,
       Bundles!SemanticAnalyzerResult, SemanticAnalyzerResult, Bundles!Presence, Presence,
       Bundles!NotRecognized, NotRecognized, Bundles!AnalyzerError, AnalyzerError,
       Bundles!Identified, Identified, Bundles!Result, Result, Bundles!CompleteAnalysis,
       CompleteAnalysis, Bundles!PresenceAnalysis, PresenceAnalysis, Bundles!IdentifiedAnalysis,
       IdentifiedAnalysis, Bundles!FailedAnalysis, FailedAnalysis, Bundles!Is, Is

LEMMA TomlMakers ==
  /\ \A d, g : Toml!Complete(d, g) = Complete(d, g)
  /\ \A d, g : Toml!Incomplete(d, g) = Incomplete(d, g)
  /\ \A d, m : Toml!SemanticAnalyzerResult(d, m) = SemanticAnalyzerResult(d, m)
  /\ \A b : Toml!Presence(b) = Presence(b)
  /\ Toml!NotRecognized = NotRecognized
  /\ Toml!AnalyzerError = AnalyzerError
  /\ Toml!Identified = Identified
BY DEF Toml!Complete, Complete, Toml!Incomplete, Incomplete, Toml!SemanticAnalyzerResult,
       SemanticAnalyzerResult, Toml!Presence, Presence, Toml!NotRecognized, NotRecognized,
       Toml!AnalyzerError, AnalyzerError, Toml!Identified, Identified, Toml!Result, Result,
       Toml!CompleteAnalysis, CompleteAnalysis, Toml!PresenceAnalysis, PresenceAnalysis,
       Toml!IdentifiedAnalysis, IdentifiedAnalysis, Toml!FailedAnalysis, FailedAnalysis,
       Toml!Is, Is

LEMMA YamlMakers ==
  /\ \A d, g : Yaml!Complete(d, g) = Complete(d, g)
  /\ \A d, g : Yaml!Incomplete(d, g) = Incomplete(d, g)
  /\ \A d, m : Yaml!SemanticAnalyzerResult(d, m) = SemanticAnalyzerResult(d, m)
  /\ \A b : Yaml!Presence(b) = Presence(b)
  /\ Yaml!NotRecognized = NotRecognized
  /\ Yaml!AnalyzerError = AnalyzerError
  /\ Yaml!Identified = Identified
BY DEF Yaml!Complete, Complete, Yaml!Incomplete, Incomplete, Yaml!SemanticAnalyzerResult,
       SemanticAnalyzerResult, Yaml!Presence, Presence, Yaml!NotRecognized, NotRecognized,
       Yaml!AnalyzerError, AnalyzerError, Yaml!Identified, Identified, Yaml!Result, Result,
       Yaml!CompleteAnalysis, CompleteAnalysis, Yaml!PresenceAnalysis, PresenceAnalysis,
       Yaml!IdentifiedAnalysis, IdentifiedAnalysis, Yaml!FailedAnalysis, FailedAnalysis,
       Yaml!Is, Is

LEMMA LocksMakers ==
  /\ \A d, g : Locks!Complete(d, g) = Complete(d, g)
  /\ \A d, g : Locks!Incomplete(d, g) = Incomplete(d, g)
  /\ \A d, m : Locks!SemanticAnalyzerResult(d, m) = SemanticAnalyzerResult(d, m)
  /\ \A b : Locks!Presence(b) = Presence(b)
  /\ Locks!NotRecognized = NotRecognized
  /\ Locks!AnalyzerError = AnalyzerError
  /\ Locks!Identified = Identified
BY DEF Locks!Complete, Complete, Locks!Incomplete, Incomplete, Locks!SemanticAnalyzerResult,
       SemanticAnalyzerResult, Locks!Presence, Presence, Locks!NotRecognized, NotRecognized,
       Locks!AnalyzerError, AnalyzerError, Locks!Identified, Identified, Locks!Result, Result,
       Locks!CompleteAnalysis, CompleteAnalysis, Locks!PresenceAnalysis, PresenceAnalysis,
       Locks!IdentifiedAnalysis, IdentifiedAnalysis, Locks!FailedAnalysis, FailedAnalysis,
       Locks!Is, Is

LEMMA ManifestsMakers ==
  /\ \A d, g : Manifests!Complete(d, g) = Complete(d, g)
  /\ \A d, g : Manifests!Incomplete(d, g) = Incomplete(d, g)
  /\ \A d, m : Manifests!SemanticAnalyzerResult(d, m) = SemanticAnalyzerResult(d, m)
  /\ \A b : Manifests!Presence(b) = Presence(b)
  /\ Manifests!NotRecognized = NotRecognized
  /\ Manifests!AnalyzerError = AnalyzerError
  /\ Manifests!Identified = Identified
BY DEF Manifests!Complete, Complete, Manifests!Incomplete, Incomplete,
       Manifests!SemanticAnalyzerResult, SemanticAnalyzerResult, Manifests!Presence, Presence,
       Manifests!NotRecognized, NotRecognized, Manifests!AnalyzerError, AnalyzerError,
       Manifests!Identified, Identified, Manifests!Result, Result, Manifests!CompleteAnalysis,
       CompleteAnalysis, Manifests!PresenceAnalysis, PresenceAnalysis,
       Manifests!IdentifiedAnalysis, IdentifiedAnalysis, Manifests!FailedAnalysis,
       FailedAnalysis, Manifests!Is, Is

LEMMA BuildsMakers ==
  /\ \A d, g : Builds!Complete(d, g) = Complete(d, g)
  /\ \A d, g : Builds!Incomplete(d, g) = Incomplete(d, g)
  /\ \A d, m : Builds!SemanticAnalyzerResult(d, m) = SemanticAnalyzerResult(d, m)
  /\ \A b : Builds!Presence(b) = Presence(b)
  /\ Builds!NotRecognized = NotRecognized
  /\ Builds!AnalyzerError = AnalyzerError
  /\ Builds!Identified = Identified
BY DEF Builds!Complete, Complete, Builds!Incomplete, Incomplete, Builds!SemanticAnalyzerResult,
       SemanticAnalyzerResult, Builds!Presence, Presence, Builds!NotRecognized, NotRecognized,
       Builds!AnalyzerError, AnalyzerError, Builds!Identified, Identified, Builds!Result,
       Result, Builds!CompleteAnalysis, CompleteAnalysis, Builds!PresenceAnalysis,
       PresenceAnalysis, Builds!IdentifiedAnalysis, IdentifiedAnalysis, Builds!FailedAnalysis,
       FailedAnalysis, Builds!Is, Is

\* Every analyzer makes its results in these ways.
LEMMA TerraformSound == \A file : Sound(Terraform!AnalyzeTerraformGlue(file))
BY TerraformMakers, CompleteSound, IncompleteSound, EmptySound, SemanticSound
   DEF Terraform!AnalyzeTerraformGlue, Terraform!JobsResult

LEMMA TypeScriptSound == \A file : Sound(TypeScript!AnalyzeTypeScript(file))
BY TypeScriptMakers, CompleteSound, IncompleteSound, EmptySound, SemanticSound
   DEF TypeScript!AnalyzeTypeScript, TypeScript!JobsResult

LEMMA PythonSound == \A file : Sound(PythonPrograms!AnalyzePythonConstructs(file))
BY PythonProgramsMakers, CompleteSound, IncompleteSound, EmptySound, SemanticSound
   DEF PythonPrograms!AnalyzePythonConstructs, PythonPrograms!JobsResult

LEMMA SetupSound == \A file : Sound(PythonPrograms!AnalyzePythonCall(file))
BY PythonProgramsMakers, CompleteSound, IncompleteSound, EmptySound, SemanticSound
   DEF PythonPrograms!AnalyzePythonCall, PythonPrograms!FirstSetup, PythonPrograms!SetupResult,
       PythonPrograms!SetupDependencies, PythonPrograms!PythonExtractionResult

LEMMA BundleSound == \A file : Sound(Bundles!AnalyzeDatabricksBundle(file))
BY BundlesMakers, CompleteSound, IncompleteSound, EmptySound, SemanticSound
   DEF Bundles!AnalyzeDatabricksBundle

LEMMA TomlSound == \A rules, file : Sound(Toml!AnalyzeTOMLFile(rules, file))
BY TomlMakers, CompleteSound, IncompleteSound, EmptySound, SemanticSound
   DEF Toml!AnalyzeTOMLFile, Toml!OfFile, Toml!AnalyzeTOML

LEMMA TomlRootSound == \A rules, root : Sound(Toml!AnalyzeTOML(rules, root))
BY TomlMakers, CompleteSound, IncompleteSound, EmptySound, SemanticSound DEF Toml!AnalyzeTOML

LEMMA PyprojectSound == \A file, files : Sound(Toml!AnalyzePyproject(file, files))
BY TomlMakers, TomlRootSound, CompleteSound, IncompleteSound, EmptySound, SemanticSound, Zenon
   DEF Toml!AnalyzePyproject, Toml!WithDynamic, Toml!WithFields, Toml!WithRead,
       Toml!PythonExtractionResult

LEMMA YamlSound == \A rules, root : Sound(Yaml!AnalyzeYAMLGroups(rules, root))
BY YamlMakers, CompleteSound, IncompleteSound, EmptySound, SemanticSound
   DEF Yaml!AnalyzeYAMLGroups, Yaml!GroupsOn, Yaml!GroupsResult

LEMMA YamlListSound == \A path, root : Sound(Yaml!AnalyzeYAMLQuery(path, root))
BY YamlMakers, CompleteSound, IncompleteSound, EmptySound, SemanticSound
   DEF Yaml!AnalyzeYAMLQuery

LEMMA PresenceSound ==
  /\ \A keys, root : Sound(Yaml!AnalyzeJSON(keys, root))
  /\ \A paths, root : Sound(Yaml!AnalyzeYAMLExistsAny(paths, root))
  /\ \A path, root : Sound(Yaml!AnalyzeYAMLExists(path, root))
  /\ \A queries, tags : Sound(Yaml!AnalyzeXML(queries, tags))
BY YamlMakers, CompleteSound, IncompleteSound, EmptySound, SemanticSound
   DEF Yaml!AnalyzeJSON, Yaml!AnalyzeYAMLExistsAny, Yaml!AnalyzeYAMLExists, Yaml!AnalyzeXML

LEMMA NodeLocksSound ==
  /\ \A file : Sound(Locks!AnalyzePackageLock(file))
  /\ \A file : Sound(Locks!AnalyzeYarnLock(file))
  /\ \A file : Sound(Locks!AnalyzePNPMLock(file))
BY LocksMakers, CompleteSound, IncompleteSound, EmptySound, SemanticSound
   DEF Locks!AnalyzePackageLock, Locks!MatchPackageLockV1Dependencies,
       Locks!MatchPackageLockV2V3, Locks!MatchPackageLockV2V3FromRootOnly,
       Locks!AnalyzeYarnLock, Locks!AnalyzePNPMLock, Locks!Listed

LEMMA PackageLocksSound ==
  /\ \A file : Sound(Locks!AnalyzeCargoLock(file))
  /\ \A file : Sound(Locks!AnalyzePoetryLock(file))
  /\ \A file : Sound(Locks!AnalyzeUVLock(file))
  /\ \A file : Sound(Locks!AnalyzePipfileLock(file))
  /\ \A file : Sound(Locks!AnalyzeComposerLock(file))
  /\ \A file : Sound(Locks!AnalyzeConanLock(file))
  /\ \A file : Sound(Locks!AnalyzePubspecLock(file))
  /\ \A file : Sound(Locks!AnalyzeDotnetPackagesLock(file))
BY LocksMakers, CompleteSound, IncompleteSound, EmptySound, SemanticSound
   DEF Locks!ReadLock, Locks!Listed, Locks!Semantic, Locks!AnalyzeCargoLock,
       Locks!AnalyzePoetryLock, Locks!AnalyzeUVLock, Locks!AnalyzePipfileLock,
       Locks!AnalyzeComposerLock, Locks!AnalyzeConanLock, Locks!AnalyzePubspecLock,
       Locks!AnalyzeDotnetPackagesLock

LEMMA ManifestsSound ==
  /\ \A file : Sound(Manifests!AnalyzePackageJSON(file))
  /\ \A file : Sound(Manifests!AnalyzeCargoManifest(file))
  /\ \A file : Sound(Manifests!AnalyzeDartPubspec(file))
  /\ \A file : Sound(Manifests!AnalyzeFortranFPM(file))
  /\ \A file : Sound(Manifests!AnalyzeJuliaProject(file))
  /\ \A file : Sound(Manifests!AnalyzeComposerManifest(file))
  /\ \A file : Sound(Manifests!AnalyzeDenoJSON(file))
  /\ \A file : Sound(Manifests!AnalyzeImportMap(file))
BY ManifestsMakers, CompleteSound, IncompleteSound, EmptySound, SemanticSound
   DEF Manifests!ResultOf, Manifests!AnalyzeJSONManifest, Manifests!AnalyzePackageJSON,
       Manifests!AnalyzeCargoManifest, Manifests!AnalyzeDartPubspec,
       Manifests!AnalyzeFortranFPM, Manifests!AnalyzeJuliaProject,
       Manifests!AnalyzeComposerManifest, Manifests!AnalyzeDenoJSON, Manifests!AnalyzeImportMap

LEMMA BuildsSound ==
  /\ \A file : Sound(Builds!AnalyzeMavenPOM(file))
  /\ \A file : Sound(Builds!AnalyzeDotnetProject(file))
  /\ \A file : Sound(Builds!AnalyzeDotnetCentralPackages(file))
  /\ \A file : Sound(Builds!AnalyzeDotnetPackagesConfig(file))
  /\ \A file : Sound(Builds!AnalyzeDockerfile(file))
  /\ \A file : Sound(Builds!AnalyzeDockerCompose(file))
BY BuildsMakers, CompleteSound, IncompleteSound, EmptySound, SemanticSound
   DEF Builds!ResultOf, Builds!OfFile, Builds!OfRoot, Builds!DockerfileResult,
       Builds!AnalyzeMavenPOM, Builds!AnalyzeDotnetProject, Builds!AnalyzeDotnetCentralPackages,
       Builds!AnalyzeDotnetPackagesConfig, Builds!AnalyzeDockerfile,
       Builds!AnalyzeDockerCompose

\* A document that is analyzed has a sound result.
LEMMA AnalyzedSound ==
  ASSUME TypeOK, NEW kind, NEW made, Sound(made), Analyze(kind, made)
  PROVE  TypeOK'
BY DEF TypeOK, Analyze, Sound, Accepted

\* Every action, by the analyzer that it runs.
LEMMA StepTyped == TypeOK /\ Next => TypeOK'
<1> SUFFICES ASSUME TypeOK, Next PROVE TypeOK'
  OBVIOUS
<1>1. CASE AnalyzeJobs
  <2>1. CASE OverflowPython
    BY <2>1 DEF OverflowPython, TypeOK, Accepted
  <2> QED
    BY <1>1, <2>1, AnalyzedSound, TerraformSound, TypeScriptSound, PythonSound, BundleSound
    DEF AnalyzeJobs, AnalyzeProgram, AnalyzeTerraform, AnalyzeTypeScript, AnalyzePython, AnalyzeBundle
<1>2. CASE AnalyzeLists
  <2>1. CASE AnalyzeSetup \/ AnalyzeToml \/ AnalyzePyproject
    BY <2>1, AnalyzedSound, SetupSound, TomlSound, PyprojectSound
    DEF AnalyzeSetup, AnalyzeToml, AnalyzePyproject
  <2>2. CASE AnalyzeYaml
    BY <2>2, AnalyzedSound, YamlSound, EmptySound DEF AnalyzeYaml, OfFile
  <2>3. CASE AnalyzeYamlList
    BY <2>3, AnalyzedSound, YamlListSound, EmptySound DEF AnalyzeYamlList, OfFile
  <2>4. CASE AnalyzeNodeManifest \/ AnalyzeCargo
    BY <2>4, AnalyzedSound, ManifestsSound DEF AnalyzeNodeManifest, AnalyzeCargo
  <2>5. CASE AnalyzeManifest
    BY <2>5, AnalyzedSound, ManifestsSound DEF AnalyzeManifest, Reads
  <2>6. CASE AnalyzeBuild
    BY <2>6, AnalyzedSound, BuildsSound DEF AnalyzeBuild, Reads
  <2> QED
    BY <1>2, <2>1, <2>2, <2>3, <2>4, <2>5, <2>6 DEF AnalyzeLists
<1>3. CASE AnalyzePresence
  <2>1. CASE AnalyzeJson
    BY <2>1, AnalyzedSound, PresenceSound, EmptySound DEF AnalyzeJson, Asks, OfFile
  <2>2. CASE AnalyzeYamlPresence
    BY <2>2, AnalyzedSound, PresenceSound, EmptySound DEF AnalyzeYamlPresence, Asks, OfFile
  <2>3. CASE AnalyzeYamlExists
    BY <2>3, AnalyzedSound, PresenceSound, EmptySound DEF AnalyzeYamlExists, Asks, OfFile
  <2>4. CASE AnalyzeTomlPresence
    BY <2>4, AnalyzedSound, TomlRootSound, EmptySound DEF AnalyzeTomlPresence, Asks, OfFile
  <2>5. CASE AnalyzeXml
    BY <2>5, AnalyzedSound, PresenceSound DEF AnalyzeXml
  <2> QED
    BY <1>3, <2>1, <2>2, <2>3, <2>4, <2>5 DEF AnalyzePresence
<1>4. CASE AnalyzeLocks
  <2>1. CASE AnalyzeNpmLock \/ AnalyzeYarnLock \/ AnalyzePnpmLock
    BY <2>1, AnalyzedSound, NodeLocksSound DEF AnalyzeNpmLock, AnalyzeYarnLock, AnalyzePnpmLock
  <2>2. CASE AnalyzeLock
    BY <2>2, AnalyzedSound, PackageLocksSound DEF AnalyzeLock, Reads
  <2> QED
    BY <1>4, <2>1, <2>2 DEF AnalyzeLocks
<1>5. CASE Decide
  BY <1>5 DEF Decide, TypeOK, Verdict, Formats
<1> QED
  BY <1>1, <1>2, <1>3, <1>4, <1>5 DEF Next

\* No file whatever makes an analyzer return a result that the scan would
\* reject, and generation answers each format with one of its verdicts.
THEOREM TypeCorrect == Spec => []TypeOK
<1>1. Init => TypeOK
  BY EmptySound DEF Init, TypeOK, Sound, Formats
<1>2. TypeOK /\ UNCHANGED vars => TypeOK'
  BY DEF TypeOK, vars, Accepted
<1> QED
  BY <1>1, <1>2, StepTyped, PTL DEF Spec

-----------------------------------------------------------------------------
(* Jobs: from the outcome of each to the verdict on the file.              *)

\* An outcome of a job has no format and no faults of its own.
Plain(o) ==
  /\ o.outcome \in {"skipped", "incomplete", "group"}
  /\ o.outcome = "group" => o.group.format = NoFormat /\ o.group.diagnostics = 0

\* At no places stands nothing.
LEMMA AtNoPlaces == \A s : AtPlaces(s, {}) = <<>>
<1>1. PICK order : order = Ascending({})
  OBVIOUS
<1>2. Lists(Ascending({}), {}, 0)
  BY AscendingLists
<1>3. order \in Seq(1 .. 0)
  BY <1>1, <1>2 DEF Lists
<1>4. order = <<>>
  BY <1>3
<1> QED
  BY <1>1, <1>4 DEF AtPlaces

\* Groups without format and faults block by the extraction alone.
LEMMA UnformattedVerdict ==
  ASSUME NEW r, \A i \in DOMAIN r.groups : /\ r.groups[i].format = NoFormat
                                           /\ r.groups[i].diagnostics = 0
  PROVE  Verdict(r, Python, Python) =
           IF \/ r.analysis.extraction \in {"failed", "partial", "unsupported"}
              \/ r.groups = <<>>
             THEN "blocked" ELSE "planned"
<1>1. {i \in DOMAIN r.groups : r.groups[i].format = Python} = {}
  BY DEF NoFormat, Python
<1>2. GroupsOf(r, Python) = <<>>
  BY <1>1, AtNoPlaces DEF GroupsOf, Selection
<1>3. Relevant(r, Python) = r.groups
  BY <1>2 DEF Relevant
<1>4. ~ \E i \in DOMAIN r.groups : r.groups[i].diagnostics > 0
  OBVIOUS
<1> QED
  BY <1>2, <1>3, <1>4, Zenon DEF Verdict

\* What a result comes to that is made of the outcomes in found.
DecidedBy(r, found) ==
  /\ (Verdict(r, Python, Python) = "blocked") = ("incomplete" \in Outcomes(found))
  /\ Verdict(r, Python, Python) = "planned" => r.groups = GroupsIn(found)

\* Any number of plain outcomes decides by the ones that cannot be read.
LEMMA OutcomesDecide ==
  ASSUME NEW T, NEW out \in Seq(T), \A o \in T : Plain(o), NEW r, r = JobsResult(out),
         r.status # "other"
  PROVE  DecidedBy(r, out)
<1>1. \A i \in DOMAIN out : Plain(out[i])
  OBVIOUS
<1> DEFINE Q == {i \in DOMAIN out : out[i].outcome = "group"}
           grouped == Ascending(Q)
<1>2. DOMAIN out = 1 .. Len(out) /\ Len(out) \in Nat
  OBVIOUS
<1>3. Lists(grouped, Q, Len(out))
  <2>1. Q \in SUBSET (1 .. Len(out))
    BY <1>2
  <2> QED
    BY <1>2, <2>1, AscendingLists
<1>4. {grouped[k] : k \in DOMAIN grouped} = Q
  BY <1>2, <1>3 DEF Lists
<1>5. GroupsIn(out) = [k \in DOMAIN grouped |-> out[grouped[k]].group]
  BY DEF GroupsIn, Selection, AtPlaces
<1>6. \A k \in DOMAIN GroupsIn(out) :
        GroupsIn(out)[k].format = NoFormat /\ GroupsIn(out)[k].diagnostics = 0
  <2>1. \A k \in DOMAIN grouped : grouped[k] \in Q
    BY <1>4
  <2>2. \A i \in Q : out[i].group.format = NoFormat /\ out[i].group.diagnostics = 0
    BY <1>1 DEF Plain
  <2> HIDE DEF Q, grouped
  <2> QED
    BY <1>5, <2>1, <2>2
<1>7. ~ (Outcomes(out) \subseteq {"skipped"})
  <2>1. NotRecognized.status = "other"
    BY DEF NotRecognized, Result
  <2> QED
    BY <2>1 DEF JobsResult
<1>8. CASE "incomplete" \in Outcomes(out)
  <2>1. r = Incomplete(DependenciesIn(GroupsIn(out)), GroupsIn(out))
    BY <1>7, <1>8 DEF JobsResult
  <2>2. r.groups = GroupsIn(out) /\ r.analysis.extraction \in {"failed", "partial"}
    BY <2>1 DEF Incomplete, Result, FailedAnalysis, Is
  <2>3. Verdict(r, Python, Python) = "blocked"
    BY <1>6, <2>2, UnformattedVerdict
  <2> QED
    BY <1>8, <2>3 DEF DecidedBy
<1>9. CASE "incomplete" \notin Outcomes(out)
  <2>1. r = Complete(DependenciesIn(GroupsIn(out)), GroupsIn(out))
    BY <1>7, <1>9 DEF JobsResult
  <2>2. r.groups = GroupsIn(out) /\ r.analysis.extraction = "complete"
    BY <2>1 DEF Complete, Result, CompleteAnalysis, Is
  <2>3. PICK i \in DOMAIN out : out[i].outcome = "group"
    BY <1>1, <1>7, <1>9 DEF Outcomes, Plain
  <2>4. DOMAIN grouped # {}
    BY <1>4, <2>3
  <2> HIDE DEF Q, grouped
  <2>5. r.groups # <<>>
    BY <1>5, <2>2, <2>4
  <2>6. Verdict(r, Python, Python) = "planned"
    BY <1>6, <2>2, <2>5, UnformattedVerdict
  <2> QED
    BY <1>6, <1>9, <2>2, <2>6 DEF DecidedBy
<1> QED
  BY <1>8, <1>9

\* The outcomes of the analyzers of jobs are plain.
LEMMA PlainOutcomes ==
  /\ Plain(Skipped) /\ Plain(NotReadable)
  /\ \A name, location, state, d : Plain(Grouped(Group(name, location, state, d)))
BY DEF Plain, Skipped, NotReadable, Grouped, Group

LEMMA TerraformPlain == \A block, at : Plain(Terraform!GlueJob(block, at))
<1>1. /\ Terraform!Skipped = Skipped /\ Terraform!NotReadable = NotReadable
      /\ \A g : Terraform!Grouped(g) = Grouped(g)
      /\ \A name, location, state, d :
           Terraform!Group(name, location, state, d) = Group(name, location, state, d)
  BY DEF Terraform!Skipped, Skipped, Terraform!NotReadable, NotReadable, Terraform!Grouped,
         Grouped, Terraform!Group, Group, Terraform!NoFormat, NoFormat
<1> QED
  BY <1>1, PlainOutcomes, Zenon DEF Terraform!GlueJob

LEMMA TypeScriptPlain == \A program, at : Plain(TypeScript!MatchNewExpression(program, at))
<1>1. /\ TypeScript!Skipped = Skipped /\ TypeScript!NotReadable = NotReadable
      /\ \A g : TypeScript!Grouped(g) = Grouped(g)
      /\ \A name, location, state, d :
           TypeScript!Group(name, location, state, d) = Group(name, location, state, d)
  BY DEF TypeScript!Skipped, Skipped, TypeScript!NotReadable, NotReadable, TypeScript!Grouped,
         Grouped, TypeScript!Group, Group, TypeScript!NoFormat, NoFormat
<1>2. \A program, properties, arguments, name, at :
        Plain(TypeScript!ExtractModules(program, properties, arguments, name, at))
  BY <1>1, PlainOutcomes, ZenonT(60) DEF TypeScript!ExtractModules
<1> QED
  BY <1>1, <1>2, PlainOutcomes, ZenonT(60) DEF TypeScript!MatchNewExpression

\* A job in Python has at most two outcomes.
PlainList(l) ==
  \/ l = <<>>
  \/ \E o : Plain(o) /\ l = <<o>>
  \/ \E o, p : Plain(o) /\ Plain(p) /\ l = <<o, p>>

LEMMA PythonPlain == \A source, start : PlainList(PythonPrograms!GlueConstruct(source, start))
<1>1. /\ PythonPrograms!Skipped = Skipped /\ PythonPrograms!NotReadable = NotReadable
      /\ \A g : PythonPrograms!Grouped(g) = Grouped(g)
      /\ \A name, location, state, d :
           PythonPrograms!Group(name, location, state, d) = Group(name, location, state, d)
  BY DEF PythonPrograms!Skipped, Skipped, PythonPrograms!NotReadable, NotReadable,
         PythonPrograms!Grouped, Grouped, PythonPrograms!Group, Group,
         PythonPrograms!NoFormat, NoFormat
<1>2. PlainList(<<>>) /\ PlainList(<<Skipped>>) /\ PlainList(<<NotReadable>>)
  BY PlainOutcomes DEF PlainList
<1>3. \A name, start, declared, requirements :
        PlainList(PythonPrograms!GlueGroup(name, start, declared, requirements))
  <2> TAKE name, start, declared, requirements
  <2>1. PICK state : state = IF declared = <<>> THEN "empty" ELSE "ready"
    OBVIOUS
  <2>2. PICK o : o = Grouped(Group(name, start, state, requirements.kept))
    OBVIOUS
  <2>3. Plain(o) /\ Plain(NotReadable)
    BY <2>2, PlainOutcomes
  <2>4. PICK n : n = NotReadable
    OBVIOUS
  <2>5. PythonPrograms!GlueGroup(name, start, declared, requirements) =
          (IF requirements.invalid THEN <<n>> ELSE <<>>) \o
          (IF declared # <<>> /\ requirements.kept = <<>> THEN <<>> ELSE <<o>>)
    BY <1>1, <2>1, <2>2, <2>4, Zenon DEF PythonPrograms!GlueGroup
  <2>6. /\ <<n>> \o <<o>> = <<n, o>> /\ <<n>> \o <<>> = <<n>>
        /\ <<>> \o <<o>> = <<o>> /\ <<>> \o <<>> = <<>>
    <3>1. PICK S : S = {n, o}
      OBVIOUS
    <3>2. n \in S /\ o \in S
      BY <3>1
    <3>3. <<n>> \in Seq(S) /\ <<o>> \in Seq(S) /\ <<>> \in Seq(S)
      BY <3>2
    <3>4. <<n>> \o <<>> = <<n>> /\ <<>> \o <<o>> = <<o>> /\ <<>> \o <<>> = <<>>
      BY <3>3, ConcatEmptySeq
    <3>5. <<n>> \o <<o>> = <<n, o>>
      <4>1. PICK u : u = <<n>> \o <<o>>
        OBVIOUS
      <4>2. PICK t : t = <<n, o>>
        OBVIOUS
      <4>3. Len(u) = 2 /\ u[1] = n /\ u[2] = o /\ u \in Seq(S)
        BY <3>3, <4>1
      <4>4. Len(t) = 2 /\ t[1] = n /\ t[2] = o /\ t \in Seq(S)
        BY <3>2, <4>2
      <4>5. \A i \in 1 .. 2 : u[i] = t[i]
        BY <4>3, <4>4
      <4>6. u = t
        BY <4>3, <4>4, <4>5
      <4> QED
        BY <4>1, <4>2, <4>6
    <3> QED
      BY <3>4, <3>5
  <2>7. PlainList(<<n, o>>) /\ PlainList(<<n>>) /\ PlainList(<<o>>) /\ PlainList(<<>>)
    BY <2>3, <2>4 DEF PlainList
  <2> QED
    BY <2>5, <2>6, <2>7, Zenon
<1>4. \A value, name, start : PlainList(PythonPrograms!ExtractGlueModules(value, name, start))
  BY <1>1, <1>2, <1>3, Zenon DEF PythonPrograms!ExtractGlueModules
<1>5. \A source, name, start, end, language, modules :
        PlainList(PythonPrograms!GlueJob(source, name, start, end, language, modules))
  BY <1>1, <1>2, <1>4, Zenon DEF PythonPrograms!GlueJob
<1>6. \A source, name, start, end, object :
        PlainList(PythonPrograms!GlueArguments(source, name, start, end, object))
  BY <1>1, <1>2, <1>5, Zenon DEF PythonPrograms!GlueArguments
<1>7. \A source, start, args, keyword :
        PlainList(PythonPrograms!GlueCall(source, start, args, keyword))
  BY <1>1, <1>2, <1>6, Zenon DEF PythonPrograms!GlueCall
<1> QED
  BY <1>7, Zenon DEF PythonPrograms!GlueConstruct

\* The analyzer of a family of jobs.
JobsFamilyResult(kind, file) ==
  CASE kind = "terraform" -> Terraform!AnalyzeTerraformGlue(file)
    [] kind = "typescript" -> TypeScript!AnalyzeTypeScript(file)
    [] OTHER -> PythonPrograms!AnalyzePythonConstructs(file)

\* The instances of Ascending and of JobsResult are one operator.
LEMMA SameAscending ==
  \A s : TypeScript!Ascending(s) = Ascending(s) /\ PythonPrograms!Ascending(s) = Ascending(s)
BY Zenon DEF TypeScript!Ascending, PythonPrograms!Ascending, Ascending, TypeScript!Max,
   PythonPrograms!Max, Max

LEMMA TerraformJobs == \A jobs : Terraform!JobsResult(jobs) = JobsResult(jobs)
<1>1. \A s : Terraform!Ascending(s) = Ascending(s)
  BY Zenon DEF Terraform!Ascending, Ascending, Terraform!Max, Max
<1>2. \A s : Terraform!FlattenSeq(s) = FlattenSeq(s)
  BY Zenon DEF Terraform!FlattenSeq, FlattenSeq
<1>3. \A s : Terraform!GroupsIn(s) = GroupsIn(s)
  BY <1>1, Zenon DEF Terraform!GroupsIn, GroupsIn, Terraform!Selection, Selection,
     Terraform!AtPlaces, AtPlaces
<1>4. \A s : Terraform!DependenciesIn(s) = DependenciesIn(s)
  BY <1>2, Zenon DEF Terraform!DependenciesIn, DependenciesIn
<1>5. \A s : Terraform!Outcomes(s) = Outcomes(s)
  BY DEF Terraform!Outcomes, Outcomes
<1> QED
  BY <1>3, <1>4, <1>5, TerraformMakers, Zenon DEF Terraform!JobsResult, JobsResult

LEMMA TypeScriptJobs == \A jobs : TypeScript!JobsResult(jobs) = JobsResult(jobs)
<1>1. \A s : TypeScript!Ascending(s) = Ascending(s)
  BY Zenon DEF TypeScript!Ascending, Ascending, TypeScript!Max, Max
<1>2. \A s : TypeScript!FlattenSeq(s) = FlattenSeq(s)
  BY Zenon DEF TypeScript!FlattenSeq, FlattenSeq
<1>3. \A s : TypeScript!GroupsIn(s) = GroupsIn(s)
  BY <1>1, Zenon DEF TypeScript!GroupsIn, GroupsIn, TypeScript!Selection, Selection,
     TypeScript!AtPlaces, AtPlaces
<1>4. \A s : TypeScript!DependenciesIn(s) = DependenciesIn(s)
  BY <1>2, Zenon DEF TypeScript!DependenciesIn, DependenciesIn
<1>5. \A s : TypeScript!Outcomes(s) = Outcomes(s)
  BY DEF TypeScript!Outcomes, Outcomes
<1> QED
  BY <1>3, <1>4, <1>5, TypeScriptMakers, Zenon DEF TypeScript!JobsResult, JobsResult

LEMMA PythonJobs ==
  /\ \A jobs : PythonPrograms!JobsResult(jobs) = JobsResult(jobs)
  /\ \A s : PythonPrograms!FlattenSeq(s) = FlattenSeq(s)
<1>1. \A s : PythonPrograms!Ascending(s) = Ascending(s)
  BY Zenon DEF PythonPrograms!Ascending, Ascending, PythonPrograms!Max, Max
<1>2. \A s : PythonPrograms!FlattenSeq(s) = FlattenSeq(s)
  BY Zenon DEF PythonPrograms!FlattenSeq, FlattenSeq
<1>3. \A s : PythonPrograms!GroupsIn(s) = GroupsIn(s)
  BY <1>1, Zenon DEF PythonPrograms!GroupsIn, GroupsIn, PythonPrograms!Selection, Selection,
     PythonPrograms!AtPlaces, AtPlaces
<1>4. \A s : PythonPrograms!DependenciesIn(s) = DependenciesIn(s)
  BY <1>2, Zenon DEF PythonPrograms!DependenciesIn, DependenciesIn
<1>5. \A s : PythonPrograms!Outcomes(s) = Outcomes(s)
  BY DEF PythonPrograms!Outcomes, Outcomes
<1>6. \A jobs : PythonPrograms!JobsResult(jobs) = JobsResult(jobs)
  BY <1>3, <1>4, <1>5, PythonProgramsMakers, Zenon DEF PythonPrograms!JobsResult, JobsResult
<1> QED
  BY <1>2, <1>6

\* The result of an analyzer is that of the outcomes that it finds.
LEMMA FamilyResult ==
  ASSUME NEW kind \in JobFamilies, NEW file, kind = "terraform" => file.parses
  PROVE  JobsFamilyResult(kind, file) = JobsResult(FoundJobs(kind, file))
<1>1. CASE kind = "terraform"
  BY <1>1, TerraformJobs DEF JobsFamilyResult, FoundJobs, Terraform!AnalyzeTerraformGlue
<1>2. CASE kind = "typescript"
  BY <1>2, TypeScriptJobs DEF JobsFamilyResult, FoundJobs, TypeScript!AnalyzeTypeScript
<1>3. CASE kind = "python"
  BY <1>3, PythonJobs DEF JobsFamilyResult, FoundJobs, PythonPrograms!AnalyzePythonConstructs
<1> QED
  BY <1>1, <1>2, <1>3 DEF JobFamilies

\* Plain lists are sequences over plain outcomes.
LEMMA PlainLists ==
  ASSUME NEW n \in Nat, NEW lists, lists = [i \in 1 .. n |-> lists[i]],
         \A i \in 1 .. n : PlainList(lists[i])
  PROVE  \E T : lists \in Seq(Seq(T)) /\ \A o \in T : Plain(o)
<1>1. PICK T : T = UNION {Members(lists[i]) : i \in 1 .. n}
  OBVIOUS
<1>2. ASSUME NEW i \in 1 .. n
      PROVE  lists[i] \in Seq(T) /\ \A o \in Members(lists[i]) : Plain(o)
  <2>1. Members(lists[i]) \subseteq T
    BY <1>1
  <2>2. CASE lists[i] = <<>>
    BY <2>2 DEF Members
  <2>3. CASE \E o : Plain(o) /\ lists[i] = <<o>>
    <3>1. PICK o : Plain(o) /\ lists[i] = <<o>>
      BY <2>3
    <3>2. Members(<<o>>) = {o}
      BY DEF Members
    <3>3. o \in T
      BY <2>1, <3>1, <3>2
    <3>4. <<o>> \in Seq(T)
      BY <3>3
    <3>5. \A q \in Members(lists[i]) : Plain(q)
      BY <3>1, <3>2
    <3> QED
      BY <3>1, <3>4, <3>5
  <2>4. CASE \E o, p : Plain(o) /\ Plain(p) /\ lists[i] = <<o, p>>
    <3>1. PICK o, p : Plain(o) /\ Plain(p) /\ lists[i] = <<o, p>>
      BY <2>4
    <3>2. Members(<<o, p>>) = {o, p}
      BY DEF Members
    <3>3. o \in T /\ p \in T
      BY <2>1, <3>1, <3>2
    <3>4. <<o, p>> \in Seq(T)
      BY <3>3
    <3>5. \A q \in Members(lists[i]) : Plain(q)
      BY <3>1, <3>2
    <3> QED
      BY <3>1, <3>4, <3>5
  <2> QED
    BY <2>2, <2>3, <2>4 DEF PlainList
<1>3. lists \in Seq(Seq(T))
  BY <1>2
<1>4. \A o \in T : Plain(o)
  BY <1>1, <1>2
<1> QED
  BY <1>3, <1>4

\* At which places of a list something stands is a list again.
LEMMA AscendingIn ==
  ASSUME NEW s, Bundles!IsList(s), NEW S \in SUBSET DOMAIN s
  PROVE  Bundles!IsList(Ascending(S)) /\ DOMAIN Ascending(S) = 1 .. Len(Ascending(S))
<1>1. Len(s) \in Nat /\ DOMAIN s = 1 .. Len(s)
  BY DEF Bundles!IsList
<1>2. Lists(Ascending(S), S, Len(s))
  BY <1>1, AscendingLists
<1>3. PICK order : order = Ascending(S)
  OBVIOUS
<1>4. order \in Seq(1 .. Len(s))
  BY <1>2, <1>3 DEF Lists
<1>5. Len(order) \in Nat /\ DOMAIN order = 1 .. Len(order) /\ order = [i \in DOMAIN order |-> order[i]]
  BY <1>4
<1> QED
  BY <1>3, <1>5 DEF Bundles!IsList

\* What an analyzer finds is a list of plain outcomes.
IsFileOf(kind, file) ==
  IF kind = "terraform" THEN Bundles!IsList(file.blocks) ELSE Bundles!IsList(file)
LEMMA FoundPlain ==
  ASSUME NEW kind \in JobFamilies, NEW file, kind = "terraform" => file.parses,
         IsFileOf(kind, file)
  PROVE  \E T : FoundJobs(kind, file) \in Seq(T) /\ \A o \in T : Plain(o)
<1>1. CASE kind = "terraform"
  <2>1. PICK n : n = Len(file.blocks)
    OBVIOUS
  <2>2. n \in Nat /\ DOMAIN file.blocks = 1 .. n
    BY <1>1, <2>1 DEF IsFileOf, Bundles!IsList
  <2>3. PICK T : T = {Terraform!GlueJob(file.blocks[i], i) : i \in 1 .. n}
    OBVIOUS
  <2>4. FoundJobs(kind, file) = [i \in 1 .. n |-> Terraform!GlueJob(file.blocks[i], i)]
    BY <1>1, <2>2 DEF FoundJobs, Terraform!GlueJobs
  <2>5. FoundJobs(kind, file) \in [1 .. n -> T]
    BY <2>3, <2>4
  <2>6. FoundJobs(kind, file) \in Seq(T)
    BY <2>2, <2>5
  <2> QED
    BY <2>3, <2>6, TerraformPlain
<1>2. CASE kind = "typescript"
  <2>1. PICK calls : calls = TypeScript!Ascending({i \in DOMAIN file : file[i].kind = "new"})
    OBVIOUS
  <2>2. PICK n : n = Len(calls)
    OBVIOUS
  <2>3. n \in Nat /\ DOMAIN calls = 1 .. n
    <3>1. Bundles!IsList(file)
      BY <1>2 DEF IsFileOf
    <3>2. {i \in DOMAIN file : file[i].kind = "new"} \in SUBSET DOMAIN file
      OBVIOUS
    <3>3. calls = Ascending({i \in DOMAIN file : file[i].kind = "new"})
      BY <2>1, SameAscending
    <3> QED
      BY <2>2, <3>1, <3>2, <3>3, AscendingIn DEF Bundles!IsList
  <2>4. PICK T : T = {TypeScript!MatchNewExpression(file, calls[i]) : i \in 1 .. n}
    OBVIOUS
  <2>5. FoundJobs(kind, file) = [i \in 1 .. n |-> TypeScript!MatchNewExpression(file, calls[i])]
    BY <1>2, <2>1, <2>3 DEF FoundJobs, TypeScript!NewExpressions
  <2>6. FoundJobs(kind, file) \in [1 .. n -> T]
    BY <2>4, <2>5
  <2>7. FoundJobs(kind, file) \in Seq(T)
    BY <2>3, <2>6
  <2> QED
    BY <2>4, <2>7, TypeScriptPlain
<1>3. CASE kind = "python"
  <2>1. PICK starts : starts = PythonPrograms!GlueCalls(file)
    OBVIOUS
  <2>2. PICK n : n = Len(starts)
    OBVIOUS
  <2>3. n \in Nat /\ DOMAIN starts = 1 .. n
    <3>1. Bundles!IsList(file)
      BY <1>3 DEF IsFileOf
    <3>2. \E S \in SUBSET DOMAIN file : starts = PythonPrograms!Ascending(S)
      BY <2>1, Zenon DEF PythonPrograms!GlueCalls, PythonPrograms!PythonConstructorCallStarts
    <3> QED
      BY <2>2, <3>1, <3>2, SameAscending, AscendingIn DEF Bundles!IsList
  <2>4. PICK lists : lists = PythonPrograms!GlueConstructs(file)
    OBVIOUS
  <2>5. lists = [i \in 1 .. n |-> PythonPrograms!GlueConstruct(file, starts[i])]
    BY <2>1, <2>3, <2>4 DEF PythonPrograms!GlueConstructs
  <2>6. lists = [i \in 1 .. n |-> lists[i]] /\ \A i \in 1 .. n : PlainList(lists[i])
    BY <2>5, PythonPlain
  <2>7. PICK T : lists \in Seq(Seq(T)) /\ \A o \in T : Plain(o)
    BY <2>3, <2>6, PlainLists
  <2>8. FlattenSeq(lists) \in Seq(T)
    BY <2>7, Flattened
  <2>9. FoundJobs(kind, file) = FlattenSeq(lists)
    BY <1>3, <2>4 DEF FoundJobs
  <2> QED
    BY <2>7, <2>8, <2>9
<1> QED
  BY <1>1, <1>2, <1>3 DEF JobFamilies

\* What the result of every analyzer of jobs is, and how it is decided.
RunInvariant ==
  /\ family = "terraform" => document \in TerraformFiles
  /\ family = "typescript" => document \in TypeScriptFiles
  /\ family = "python" => document \in PythonFiles
  /\ family \in JobFamilies /\ stage \in {"analyzed", "decided"} =>
       result = JobsFamilyResult(family, document.file)
  /\ family = "bundle" /\ stage \in {"analyzed", "decided"} =>
       result = Bundles!AnalyzeDatabricksBundle(document.file)
  /\ stage = "decided" =>
       /\ result.status # "other"
       /\ verdicts = [f \in Formats |-> Verdict(result, document.generate, f)]

\* Every step keeps it: the result and the verdicts are written once.
LEMMA RunInvariantInductive == RunInvariant /\ [Next]_vars => RunInvariant'
<1> SUFFICES ASSUME RunInvariant, [Next]_vars PROVE RunInvariant'
  OBVIOUS
<1>1. ASSUME NEW kind, NEW made, Analyze(kind, made),
             kind \in JobFamilies => made = JobsFamilyResult(kind, document.file),
             kind = "bundle" => made = Bundles!AnalyzeDatabricksBundle(document.file)
      PROVE  RunInvariant'
  BY <1>1, Zenon DEF RunInvariant, Analyze
<1>2. ASSUME NEW kind, NEW made, Analyze(kind, made), kind \notin JobFamilies \cup {"bundle"}
      PROVE  RunInvariant'
  BY <1>1, <1>2
<1>3. CASE AnalyzeJobs
  <2>1. CASE AnalyzeTerraform
    <3>1. Terraform!AnalyzeTerraformGlue(document.file) =
            JobsFamilyResult("terraform", document.file)
      BY DEF JobsFamilyResult
    <3> QED
      BY <1>1, <2>1, <3>1 DEF AnalyzeTerraform
  <2>2. CASE AnalyzeTypeScript
    <3>1. TypeScript!AnalyzeTypeScript(document.file) =
            JobsFamilyResult("typescript", document.file)
      BY DEF JobsFamilyResult
    <3> QED
      BY <1>1, <2>2, <3>1 DEF AnalyzeTypeScript
  <2>3. CASE AnalyzePython
    <3>1. PythonPrograms!AnalyzePythonConstructs(document.file) =
            JobsFamilyResult("python", document.file)
      BY DEF JobsFamilyResult
    <3> QED
      BY <1>1, <2>3, <3>1 DEF AnalyzePython
  <2>4. CASE AnalyzeBundle
    BY <1>1, <2>4 DEF AnalyzeBundle, JobFamilies
  <2>5. CASE OverflowPython
    BY <2>5, Zenon DEF OverflowPython, RunInvariant
  <2> QED
    BY <1>3, <2>1, <2>2, <2>3, <2>4, <2>5 DEF AnalyzeJobs, AnalyzeProgram
<1>4. CASE AnalyzeLists
  <2>1. CASE AnalyzeSetup \/ AnalyzeToml \/ AnalyzePyproject
    BY <2>1, <1>2 DEF AnalyzeSetup, AnalyzeToml, AnalyzePyproject, JobFamilies
  <2>2. CASE AnalyzeYaml \/ AnalyzeYamlList
    BY <2>2, <1>2 DEF AnalyzeYaml, AnalyzeYamlList, JobFamilies
  <2>3. CASE AnalyzeNodeManifest \/ AnalyzeCargo
    BY <2>3, <1>2 DEF AnalyzeNodeManifest, AnalyzeCargo, JobFamilies
  <2>4. CASE AnalyzeManifest
    BY <2>4, <1>2 DEF AnalyzeManifest, Reads, JobFamilies
  <2>5. CASE AnalyzeBuild
    BY <2>5, <1>2 DEF AnalyzeBuild, Reads, JobFamilies
  <2> QED
    BY <1>4, <2>1, <2>2, <2>3, <2>4, <2>5 DEF AnalyzeLists
<1>5. CASE AnalyzePresence
  <2>1. CASE AnalyzeJson
    BY <2>1, <1>2 DEF AnalyzeJson, Asks, JobFamilies
  <2>2. CASE AnalyzeYamlPresence
    BY <2>2, <1>2 DEF AnalyzeYamlPresence, Asks, JobFamilies
  <2>3. CASE AnalyzeYamlExists
    BY <2>3, <1>2 DEF AnalyzeYamlExists, Asks, JobFamilies
  <2>4. CASE AnalyzeTomlPresence
    BY <2>4, <1>2 DEF AnalyzeTomlPresence, Asks, JobFamilies
  <2>5. CASE AnalyzeXml
    BY <2>5, <1>2 DEF AnalyzeXml, JobFamilies
  <2> QED
    BY <1>5, <2>1, <2>2, <2>3, <2>4, <2>5 DEF AnalyzePresence
<1>6. CASE AnalyzeLocks
  <2>1. CASE AnalyzeNpmLock \/ AnalyzeYarnLock \/ AnalyzePnpmLock
    BY <2>1, <1>2 DEF AnalyzeNpmLock, AnalyzeYarnLock, AnalyzePnpmLock, JobFamilies
  <2>2. CASE AnalyzeLock
    BY <2>2, <1>2 DEF AnalyzeLock, Reads, JobFamilies
  <2> QED
    BY <1>6, <2>1, <2>2 DEF AnalyzeLocks
<1>7. CASE Decide
  <2>1. /\ stage = "analyzed" /\ stage' = "decided" /\ result.status # "other"
        /\ family' = family /\ document' = document /\ result' = result
        /\ verdicts' = [f \in Formats |-> Verdict(result, document.generate, f)]
    BY <1>7 DEF Decide
  <2> QED
    BY <2>1, Zenon DEF RunInvariant
<1>8. CASE UNCHANGED vars
  BY <1>8, Zenon DEF RunInvariant, vars
<1> QED
  BY <1>3, <1>4, <1>5, <1>6, <1>7, <1>8 DEF Next

\* The verdict on a file of jobs is the verdict on what is found in it.
LEMMA JobsDecided == RunInvariant => FoundJobsDecide
<1> SUFFICES ASSUME RunInvariant, family \in JobFamilies, stage = "decided",
                    document.generate = Python,
                    NEW found, found = FoundJobs(family, document.file)
             PROVE  /\ (verdicts[Python] = "blocked") = ("incomplete" \in Outcomes(found))
                    /\ verdicts[Python] = "planned" => result.groups = GroupsIn(found)
  BY Zenon DEF FoundJobsDecide, DecidedAs
<1>1. /\ result = JobsFamilyResult(family, document.file) /\ result.status # "other"
      /\ verdicts[Python] = Verdict(result, Python, Python)
  BY DEF RunInvariant, Formats
<1>2. CASE family = "terraform" /\ ~ document.file.parses
  <2>1. found = <<NotReadable>>
    BY <1>2 DEF FoundJobs
  <2>2. "incomplete" \in Outcomes(found)
    BY <2>1 DEF Outcomes, NotReadable
  <2>3. result = AnalyzerError
    BY <1>1, <1>2, TerraformMakers DEF JobsFamilyResult, Terraform!AnalyzeTerraformGlue
  <2>4. result.groups = <<>> /\ DOMAIN result.groups = {}
    BY <2>3 DEF AnalyzerError, Result
  <2>5. Verdict(result, Python, Python) = "blocked"
    BY <2>4, UnformattedVerdict
  <2> QED
    BY <1>1, <2>2, <2>5
<1>3. CASE ~ (family = "terraform" /\ ~ document.file.parses)
  <2>1. IsFileOf(family, document.file)
    BY <1>3, FilesAssumption DEF RunInvariant, IsFileOf, JobFamilies
  <2>2. PICK T : found \in Seq(T) /\ \A o \in T : Plain(o)
    BY <1>3, <2>1, FoundPlain
  <2>3. result = JobsResult(found)
    BY <1>1, <1>3, FamilyResult
  <2>4. DecidedBy(result, found)
    BY <1>1, <2>2, <2>3, OutcomesDecide
  <2> QED
    BY <1>1, <2>4 DEF DecidedBy
<1> QED
  BY <1>2, <1>3

\* In a file of any number of jobs, in any of the three languages, one job that
\* cannot be read blocks the generation of all of them, and nothing else does;
\* if all can be read each is a group of its own, in the order of the text.
\* This is about the loops over the jobs of a file and about the decision on
\* their results: what a single job comes to, and whether it is found at all,
\* is in the definitions and in the runs.
THEOREM FoundDecided == Spec => []FoundJobsDecide
<1>1. Init => RunInvariant
  BY DEF Init, Holds, RunInvariant
<1> QED
  BY <1>1, RunInvariantInductive, JobsDecided, PTL DEF Spec

-----------------------------------------------------------------------------
(* Bundles: from the pieces of each task to the verdict on each format.    *)

\* Lists of a bundle are sequences over their members, and the other way around.
LEMMA ListsAreSequences ==
  ASSUME NEW s, Bundles!IsList(s)
  PROVE  s \in Seq(Members(s)) /\ DOMAIN s = 1 .. Len(s) /\ Len(s) \in Nat
<1>1. PICK n : n = Len(s)
  OBVIOUS
<1>2. n \in Nat /\ s = [i \in 1 .. n |-> s[i]]
  BY <1>1 DEF Bundles!IsList
<1>3. DOMAIN s = 1 .. n
  BY <1>2
<1>4. \A i \in 1 .. n : s[i] \in Members(s)
  BY <1>3 DEF Members
<1>5. s \in [1 .. n -> Members(s)]
  BY <1>2, <1>4
<1> QED
  BY <1>1, <1>2, <1>3, <1>5

LEMMA SequencesAreLists ==
  ASSUME NEW T, NEW s \in Seq(T)
  PROVE  Bundles!IsList(s)
<1>1. Len(s) \in Nat /\ DOMAIN s = 1 .. Len(s)
  OBVIOUS
<1>2. s = [i \in DOMAIN s |-> s[i]]
  OBVIOUS
<1> QED
  BY <1>1, <1>2 DEF Bundles!IsList

\* Lists that are put together are lists.
LEMMA ListsOfLists ==
  ASSUME NEW n \in Nat, NEW s, s = [i \in 1 .. n |-> s[i]], \A i \in 1 .. n : Bundles!IsList(s[i])
  PROVE  /\ s \in Seq(Seq(UNION {Members(s[i]) : i \in 1 .. n})) /\ DOMAIN s = 1 .. n
         /\ Bundles!IsList(FlattenSeq(s))
         /\ Members(FlattenSeq(s)) = UNION {Members(s[i]) : i \in 1 .. n}
<1>1. PICK T : T = UNION {Members(s[i]) : i \in 1 .. n}
  OBVIOUS
<1>2. ASSUME NEW i \in 1 .. n PROVE s[i] \in Seq(T)
  <2>1. s[i] \in Seq(Members(s[i]))
    BY ListsAreSequences
  <2>2. Members(s[i]) \subseteq T
    BY <1>1
  <2> QED
    BY <2>1, <2>2
<1>3. PICK S : S = Seq(T)
  OBVIOUS
<1>4. s \in [1 .. n -> S]
  BY <1>2, <1>3
<1>5. s \in Seq(S) /\ DOMAIN s = 1 .. n
  BY <1>4
<1>6. s \in Seq(Seq(T))
  BY <1>3, <1>5
<1>7. FlattenSeq(s) \in Seq(T) /\ Members(FlattenSeq(s)) = UNION {Members(s[i]) : i \in DOMAIN s}
  BY <1>6, Flattened
<1>8. Bundles!IsList(FlattenSeq(s))
  BY <1>7, SequencesAreLists
<1> QED
  BY <1>1, <1>5, <1>6, <1>7, <1>8

LEMMA JoinedLists ==
  ASSUME NEW s, NEW t, Bundles!IsList(s), Bundles!IsList(t)
  PROVE  Bundles!IsList(s \o t) /\ Members(s \o t) = Members(s) \cup Members(t)
<1>1. PICK T : T = Members(s) \cup Members(t)
  OBVIOUS
<1>2. s \in Seq(T) /\ t \in Seq(T)
  <2>1. s \in Seq(Members(s)) /\ t \in Seq(Members(t))
    BY ListsAreSequences
  <2> QED
    BY <1>1, <2>1
<1>3. s \o t \in Seq(T) /\ Members(s \o t) = Members(s) \cup Members(t)
  BY <1>2, MembersOfJoin
<1> QED
  BY <1>3, SequencesAreLists

\* The shortest lists.
LEMMA ShortLists ==
  /\ Bundles!IsList(<<>>) /\ Members(<<>>) = {}
  /\ \A x : Bundles!IsList(<<x>>) /\ Members(<<x>>) = {x}
<1>1. Bundles!IsList(<<>>) /\ Members(<<>>) = {}
  <2>1. <<>> \in Seq({})
    OBVIOUS
  <2>2. Bundles!IsList(<<>>)
    BY <2>1, SequencesAreLists
  <2>3. Members(<<>>) = {}
    BY DEF Members
  <2> QED
    BY <2>2, <2>3
<1>2. ASSUME NEW x PROVE Bundles!IsList(<<x>>) /\ Members(<<x>>) = {x}
  <2>1. <<x>> \in Seq({x})
    OBVIOUS
  <2>2. Bundles!IsList(<<x>>)
    BY <2>1, SequencesAreLists
  <2>3. Members(<<x>>) = {x}
    BY DEF Members
  <2> QED
    BY <2>2, <2>3
<1> QED
  BY <1>1, <1>2

\* A group of a bundle.
IsGroup(g, format) ==
  /\ "diagnostics" \in DOMAIN g /\ g.diagnostics \in Nat /\ g.format = format

\* A piece has no groups, or one for each format.
Paired(piece) ==
  \/ piece.groups = <<>>
  \/ \E p, m : IsGroup(p, Python) /\ IsGroup(m, Maven) /\ piece.groups = <<p, m>>

\* The helpers of a bundle are those of the results.
LEMMA BundleOperators ==
  /\ \A s : Bundles!FlattenSeq(s) = FlattenSeq(s)
  /\ \A s, places : Bundles!AtPlaces(s, places) = AtPlaces(s, places)
  /\ Bundles!Python = Python /\ Bundles!Maven = Maven
<1>1. \A s : Bundles!Ascending(s) = Ascending(s)
  BY Zenon DEF Bundles!Ascending, Ascending, Bundles!Max, Max
<1>2. \A s : Bundles!FlattenSeq(s) = FlattenSeq(s)
  BY Zenon DEF Bundles!FlattenSeq, FlattenSeq
<1>3. \A s, places : Bundles!AtPlaces(s, places) = AtPlaces(s, places)
  BY <1>1, Zenon DEF Bundles!AtPlaces, AtPlaces
<1>4. Bundles!Python = Python /\ Bundles!Maven = Maven
  BY DEF Bundles!Python, Python, Bundles!Maven, Maven
<1> QED
  BY <1>2, <1>3, <1>4

\* What makes a group makes one of its format.
LEMMA FormattedGroup ==
  ASSUME NEW format, NEW name, NEW location, NEW state, NEW d, NEW diagnostics \in Nat
  PROVE  IsGroup(Bundles!Formatted(format, Bundles!Group(name, location, state, d), diagnostics),
                 format)
BY DEF IsGroup, Bundles!Formatted, Bundles!Group

\* What is selected from a list can be counted.
LEMMA CountedDeclarations ==
  ASSUME NEW s, Bundles!IsList(s), NEW P \in SUBSET DOMAIN s
  PROVE  Len(AtPlaces(s, P)) \in Nat
<1>1. PICK n : n = Len(s)
  OBVIOUS
<1>2. n \in Nat /\ DOMAIN s = 1 .. n
  BY <1>1, ListsAreSequences
<1>3. PICK order : order = Ascending(P)
  OBVIOUS
<1>4. order \in Seq(1 .. n)
  <2>1. P \in SUBSET (1 .. n)
    BY <1>2
  <2>2. Lists(order, P, n)
    BY <1>2, <1>3, <2>1, AscendingLists
  <2> QED
    BY <2>2 DEF Lists
<1>5. PICK at : at = AtPlaces(s, P)
  OBVIOUS
<1>6. at = [k \in DOMAIN order |-> s[order[k]]]
  BY <1>3, <1>5 DEF AtPlaces
<1>7. DOMAIN order = 1 .. Len(order) /\ Len(order) \in Nat
  BY <1>4
<1>8. at = [k \in 1 .. Len(order) |-> s[order[k]]]
  BY <1>6, <1>7
<1>9. Len(at) = Len(order)
  BY <1>7, <1>8
<1> QED
  BY <1>5, <1>7, <1>9

\* The declarations of a library are a list.
LEMMA DeclarationsAreLists ==
  /\ \A library : Bundles!IsList(Bundles!PythonDeclarations(library))
  /\ \A library : Bundles!IsList(Bundles!MavenDeclarations(library))
<1>1. \A x, y, p, q : Bundles!IsList((IF p THEN <<x>> ELSE <<>>) \o (IF q THEN <<y>> ELSE <<>>))
  <2> TAKE x, y, p, q
  <2>1. PICK s : s = IF p THEN <<x>> ELSE <<>>
    OBVIOUS
  <2>2. PICK t : t = IF q THEN <<y>> ELSE <<>>
    OBVIOUS
  <2>3. Bundles!IsList(s) /\ Bundles!IsList(t)
    BY <2>1, <2>2, ShortLists, Zenon
  <2>4. Bundles!IsList(s \o t)
    BY <2>3, JoinedLists
  <2> QED
    BY <2>1, <2>2, <2>4, Zenon
<1> QED
  BY <1>1, Zenon DEF Bundles!PythonDeclarations, Bundles!MavenDeclarations

\* What the libraries of a task declare.
Declared(items, python) ==
  FlattenSeq([i \in DOMAIN items |->
                IF items[i] = Bundles!Malformed THEN <<>>
                ELSE IF python THEN Bundles!PythonDeclarations(items[i])
                               ELSE Bundles!MavenDeclarations(items[i])])

\* So are those of a task.
LEMMA DeclaredLists ==
  ASSUME NEW items, Bundles!IsList(items), NEW python \in BOOLEAN
  PROVE  Bundles!IsList(Declared(items, python))
<1>1. PICK n : n = Len(items)
  OBVIOUS
<1>2. n \in Nat /\ DOMAIN items = 1 .. n
  BY <1>1, ListsAreSequences
<1>3. PICK s : s = [i \in DOMAIN items |->
                      IF items[i] = Bundles!Malformed THEN <<>>
                      ELSE IF python THEN Bundles!PythonDeclarations(items[i])
                                     ELSE Bundles!MavenDeclarations(items[i])]
  OBVIOUS
<1>4. \A i \in 1 .. n : Bundles!IsList(s[i])
  <2> TAKE i \in 1 .. n
  <2>1. s[i] = IF items[i] = Bundles!Malformed THEN <<>>
               ELSE IF python THEN Bundles!PythonDeclarations(items[i])
                              ELSE Bundles!MavenDeclarations(items[i])
    BY <1>2, <1>3
  <2> QED
    BY <2>1, ShortLists, DeclarationsAreLists
<1>5. s = [i \in 1 .. n |-> s[i]]
  BY <1>2, <1>3
<1>6. Bundles!IsList(FlattenSeq(s))
  BY <1>2, <1>4, <1>5, ListsOfLists
<1> QED
  BY <1>3, <1>6 DEF Declared

\* The rejected ones are a number.
LEMMA RejectedNumbers ==
  ASSUME NEW declared, Bundles!IsList(declared)
  PROVE  Len(Bundles!Selection(declared, LAMBDA d : d.diagnostics > 0)) \in Nat
<1>1. PICK P : P = {i \in DOMAIN declared : declared[i].diagnostics > 0}
  OBVIOUS
<1>2. Len(AtPlaces(declared, P)) \in Nat
  BY <1>1, CountedDeclarations
<1>3. Bundles!Selection(declared, LAMBDA d : d.diagnostics > 0) = Bundles!AtPlaces(declared, P)
  BY <1>1 DEF Bundles!Selection
<1> QED
  BY <1>2, <1>3, BundleOperators

\* What a task declares makes a group.
LEMMA DeclaredGroups ==
  ASSUME NEW format, NEW name, NEW location, NEW declared, Bundles!IsList(declared), NEW libraries
  PROVE  IsGroup(Bundles!DeclaredGroup(format, name, location, declared, libraries), format)
<1>1. PICK rejected : rejected = Len(Bundles!Selection(declared, LAMBDA d : d.diagnostics > 0))
  OBVIOUS
<1>2. rejected \in Nat
  BY <1>1, RejectedNumbers
<1>3. \A state, d :
        IsGroup(Bundles!Formatted(format, Bundles!Group(name, location, state, d), rejected),
                format)
  BY <1>2, FormattedGroup
<1> QED
  BY <1>1, <1>3, Zenon DEF Bundles!DeclaredGroup

\* Faults of a task make a group for each format.
LEMMA BothGroups ==
  ASSUME NEW name, NEW location, NEW state, NEW d, NEW diagnostics \in Nat, NEW structural,
         NEW recognized
  PROVE  Paired(Bundles!Piece(Bundles!Both(Bundles!Group(name, location, state, d), diagnostics),
                              structural, recognized))
<1>1. PICK g : g = Bundles!Group(name, location, state, d)
  OBVIOUS
<1>2. PICK p : p = Bundles!Formatted(Python, g, diagnostics)
  OBVIOUS
<1>3. PICK m : m = Bundles!Formatted(Maven, g, diagnostics)
  OBVIOUS
<1>4. IsGroup(p, Python) /\ IsGroup(m, Maven)
  BY <1>1, <1>2, <1>3, FormattedGroup
<1>5. Bundles!Both(g, diagnostics) = <<p, m>>
  BY <1>2, <1>3, BundleOperators DEF Bundles!Both
<1>6. Bundles!Piece(<<p, m>>, structural, recognized).groups = <<p, m>>
  BY DEF Bundles!Piece
<1> QED
  BY <1>1, <1>4, <1>5, <1>6 DEF Paired

\* A task is a pair of groups.
LEMMA TaskPaired ==
  ASSUME NEW name, NEW location, NEW task, Bundles!IsTask(task)
  PROVE  Paired(Bundles!TaskPiece(name, location, task))
<1>1. Paired(Bundles!Piece(Bundles!MalformedDatabricksGroups(location), TRUE, TRUE))
  BY BothGroups DEF Bundles!MalformedDatabricksGroups
<1>2. \A u : Paired(Bundles!Piece(Bundles!Both(Bundles!Group(name, location, "missing", <<>>), 0),
                                  u, TRUE))
  BY BothGroups
<1>3. Paired(Bundles!Piece(Bundles!Both(Bundles!Group(name, location, "missing", <<>>), 1),
                           TRUE, TRUE))
  BY BothGroups
<1>5. CASE \/ task = Bundles!Malformed \/ task.libraries = Bundles!Absent
           \/ task.libraries = Bundles!Malformed
  BY <1>1, <1>2, <1>3, <1>5, Zenon DEF Bundles!TaskPiece
<1>4. CASE task # Bundles!Malformed /\ task.libraries \notin {Bundles!Absent, Bundles!Malformed}
  <2>1. PICK items : items = task.libraries.items
    OBVIOUS
  <2>2. Bundles!IsList(items)
    BY <1>4, <2>1 DEF Bundles!IsTask, Bundles!HoldsList
  <2>3. /\ Bundles!Declarations(items, Bundles!PythonDeclarations) = Declared(items, TRUE)
        /\ Bundles!Declarations(items, Bundles!MavenDeclarations) = Declared(items, FALSE)
    BY BundleOperators DEF Bundles!Declarations, Declared
  <2>4. PICK p : p = Bundles!DeclaredGroup(Python, name, location, Declared(items, TRUE), items)
    OBVIOUS
  <2>5. PICK m : m = Bundles!DeclaredGroup(Maven, name, location, Declared(items, FALSE), items)
    OBVIOUS
  <2>6. IsGroup(p, Python) /\ IsGroup(m, Maven)
    BY <2>2, <2>4, <2>5, DeclaredLists, DeclaredGroups
  <2>7. \A u : Paired(Bundles!Piece(<<p, m>>, u, TRUE))
    BY <2>6 DEF Paired, Bundles!Piece
  <2>8. PICK u : u = (task.key = "" \/ \E i \in DOMAIN items : items[i] = Bundles!Malformed)
    OBVIOUS
  <2>9. Bundles!TaskPiece(name, location, task) = Bundles!Piece(<<p, m>>, u, TRUE)
    BY <1>4, <2>1, <2>3, <2>4, <2>5, <2>8, BundleOperators, Zenon DEF Bundles!TaskPiece
  <2> QED
    BY <2>7, <2>9
<1> QED
  BY <1>4, <1>5

\* So is every part of a job, of a scope and of the bundle.
AllPaired(pieces) == Bundles!IsList(pieces) /\ \A p \in Members(pieces) : Paired(p)

LEMMA OnePaired ==
  /\ AllPaired(<<>>)
  /\ \A p : Paired(p) => AllPaired(<<p>>)
  /\ \A structural, recognized : Paired(Bundles!Piece(<<>>, structural, recognized))
<1>1. AllPaired(<<>>)
  BY ShortLists DEF AllPaired
<1>2. \A p : Paired(p) => AllPaired(<<p>>)
  BY ShortLists DEF AllPaired
<1>3. \A structural, recognized : Paired(Bundles!Piece(<<>>, structural, recognized))
  BY DEF Paired, Bundles!Piece
<1> QED
  BY <1>1, <1>2, <1>3

LEMMA FlattenedPaired ==
  ASSUME NEW n \in Nat, NEW s, s = [i \in 1 .. n |-> s[i]], \A i \in 1 .. n : AllPaired(s[i])
  PROVE  AllPaired(FlattenSeq(s))
<1>1. /\ Bundles!IsList(FlattenSeq(s))
      /\ Members(FlattenSeq(s)) = UNION {Members(s[i]) : i \in 1 .. n}
  <2>1. \A i \in 1 .. n : Bundles!IsList(s[i])
    BY DEF AllPaired
  <2> QED
    BY <2>1, ListsOfLists
<1>2. \A i \in 1 .. n : \A p \in Members(s[i]) : Paired(p)
  BY DEF AllPaired
<1>3. \A p \in Members(FlattenSeq(s)) : Paired(p)
  BY <1>1, <1>2
<1> QED
  BY <1>1, <1>3 DEF AllPaired

LEMMA JobPaired ==
  ASSUME NEW scope, NEW job, Bundles!IsJob(job)
  PROVE  AllPaired(Bundles!JobPieces(scope, job))
<1>1. AllPaired(<<Bundles!Piece(<<>>, TRUE, TRUE)>>) /\ AllPaired(<<>>)
  BY OnePaired
<1>2. AllPaired(<<Bundles!Piece(Bundles!MalformedDatabricksGroups(<<scope, job.name>>),
                                TRUE, TRUE)>>)
  <2>1. \A location : Paired(Bundles!Piece(Bundles!MalformedDatabricksGroups(location), TRUE, TRUE))
    BY BothGroups DEF Bundles!MalformedDatabricksGroups
  <2> QED
    BY <2>1, OnePaired
<1>3. CASE job = Bundles!Malformed \/ job.tasks = Bundles!Absent \/ job.tasks = Bundles!Malformed
  BY <1>1, <1>2, <1>3, Zenon DEF Bundles!JobPieces
<1>4. CASE job # Bundles!Malformed /\ job.tasks \notin {Bundles!Absent, Bundles!Malformed}
  <2>1. PICK items : items = job.tasks.items
    OBVIOUS
  <2>2. Bundles!IsList(items) /\ \A i \in DOMAIN items : Bundles!IsTask(items[i])
    BY <1>4, <2>1 DEF Bundles!IsJob, Bundles!HoldsList
  <2>3. PICK n : n = Len(items)
    OBVIOUS
  <2>4. n \in Nat /\ DOMAIN items = 1 .. n
    BY <2>2, <2>3, ListsAreSequences
  <2>5. PICK s : s = [i \in DOMAIN items |->
                        Bundles!TaskPiece(<<scope, job.name, items[i].key>>,
                                          <<scope, job.name, i>>, items[i])]
    OBVIOUS
  <2>6. \A i \in 1 .. n : Paired(s[i])
    <3> TAKE i \in 1 .. n
    <3>1. s[i] = Bundles!TaskPiece(<<scope, job.name, items[i].key>>,
                                   <<scope, job.name, i>>, items[i])
      BY <2>4, <2>5
    <3> QED
      BY <2>2, <2>4, <3>1, TaskPaired
  <2>7. Bundles!IsList(s) /\ DOMAIN s = 1 .. n
    <3>1. DOMAIN s = 1 .. n
      BY <2>4, <2>5
    <3>2. \A i \in 1 .. n : s[i] \in Members(s)
      BY <3>1 DEF Members
    <3>3. s = [i \in 1 .. n |-> s[i]]
      BY <2>4, <2>5
    <3>4. s \in Seq(Members(s))
      <4>1. s \in [1 .. n -> Members(s)]
        BY <3>2, <3>3
      <4> QED
        BY <2>4, <4>1
    <3> QED
      BY <3>1, <3>4, SequencesAreLists
  <2>8. AllPaired(s)
    BY <2>6, <2>7 DEF AllPaired, Members
  <2>9. PICK t : t = <<Bundles!Piece(<<>>, FALSE, TRUE)>>
    OBVIOUS
  <2>10. AllPaired(t)
    BY <2>9, OnePaired
  <2>11. AllPaired(t \o s)
    <3>1. Bundles!IsList(t \o s) /\ Members(t \o s) = Members(t) \cup Members(s)
      BY <2>8, <2>10, JoinedLists DEF AllPaired
    <3> QED
      BY <2>8, <2>10, <3>1 DEF AllPaired
  <2>12. Bundles!JobPieces(scope, job) = t \o s
    BY <1>4, <2>1, <2>5, <2>9, Zenon DEF Bundles!JobPieces
  <2> QED
    BY <2>11, <2>12
<1> QED
  BY <1>3, <1>4

LEMMA ScopePaired ==
  ASSUME NEW scope, Bundles!IsScope(scope)
  PROVE  AllPaired(Bundles!ScopePieces(scope))
<1>1. AllPaired(<<Bundles!Piece(<<>>, TRUE, TRUE)>>) /\ AllPaired(<<>>)
      /\ AllPaired(<<Bundles!Piece(<<>>, TRUE, FALSE)>>)
  BY OnePaired
<1>2. CASE \/ scope = Bundles!Malformed
           \/ scope.jobs = Bundles!Absent \/ scope.jobs = Bundles!Malformed
  BY <1>1, <1>2, Zenon DEF Bundles!ScopePieces
<1>3. CASE scope # Bundles!Malformed /\ scope.jobs \notin {Bundles!Absent, Bundles!Malformed}
  <2>1. PICK items : items = scope.jobs.items
    OBVIOUS
  <2>2. Bundles!IsList(items) /\ \A i \in DOMAIN items : Bundles!IsJob(items[i])
    BY <1>3, <2>1 DEF Bundles!IsScope, Bundles!HoldsList
  <2>3. PICK n : n = Len(items)
    OBVIOUS
  <2>4. n \in Nat /\ DOMAIN items = 1 .. n
    BY <2>2, <2>3, ListsAreSequences
  <2>5. PICK s : s = [i \in DOMAIN items |-> Bundles!JobPieces(scope.name, items[i])]
    OBVIOUS
  <2>6. \A i \in 1 .. n : AllPaired(s[i])
    <3> TAKE i \in 1 .. n
    <3>1. s[i] = Bundles!JobPieces(scope.name, items[i])
      BY <2>4, <2>5
    <3> QED
      BY <2>2, <2>4, <3>1, JobPaired
  <2>7. s = [i \in 1 .. n |-> s[i]]
    BY <2>4, <2>5
  <2>8. AllPaired(FlattenSeq(s))
    BY <2>4, <2>6, <2>7, FlattenedPaired
  <2>9. Bundles!ScopePieces(scope) = FlattenSeq(s)
    BY <1>3, <2>1, <2>5, BundleOperators, Zenon DEF Bundles!ScopePieces
  <2> QED
    BY <2>8, <2>9
<1> QED
  BY <1>2, <1>3

\* Every piece of a bundle lists no group, or one for each format.
LEMMA BundlePaired ==
  ASSUME NEW file, Bundles!IsBundle(file)
  PROVE  AllPaired(Bundles!BundlePieces(file))
<1>1. PICK targets : targets = IF file.targets.kind = "list" THEN file.targets.items ELSE <<>>
  OBVIOUS
<1>2. Bundles!IsList(targets) /\ \A i \in DOMAIN targets : Bundles!IsScope(targets[i])
  <2>1. CASE file.targets.kind = "list"
    <3>1. file.targets \notin {Bundles!Absent, Bundles!Malformed}
      BY <2>1 DEF Bundles!Absent, Bundles!Malformed
    <3> QED
      BY <1>1, <2>1, <3>1 DEF Bundles!IsBundle, Bundles!HoldsList
  <2>2. CASE file.targets.kind # "list"
    BY <1>1, <2>2, ShortLists
  <2> QED
    BY <2>1, <2>2
<1>3. PICK root : root = <<file.root>>
  OBVIOUS
<1>4. Bundles!IsList(root) /\ Members(root) = {file.root}
  BY <1>3, ShortLists
<1>5. PICK scopes : scopes = root \o targets
  OBVIOUS
<1>6. Bundles!IsList(scopes) /\ Members(scopes) = Members(root) \cup Members(targets)
  BY <1>2, <1>4, <1>5, JoinedLists
<1>7. PICK n : n = Len(scopes)
  OBVIOUS
<1>8. n \in Nat /\ DOMAIN scopes = 1 .. n
  BY <1>6, <1>7, ListsAreSequences
<1>9. \A i \in 1 .. n : Bundles!IsScope(scopes[i])
  <2>1. \A x \in Members(targets) : Bundles!IsScope(x)
    BY <1>2 DEF Members
  <2>2. Bundles!IsScope(file.root)
    BY DEF Bundles!IsBundle
  <2>3. \A x \in Members(scopes) : Bundles!IsScope(x)
    BY <1>4, <1>6, <2>1, <2>2
  <2> QED
    BY <1>8, <2>3 DEF Members
<1>10. PICK s : s = [i \in DOMAIN scopes |-> Bundles!ScopePieces(scopes[i])]
  OBVIOUS
<1>11. \A i \in 1 .. n : AllPaired(s[i])
  <2> TAKE i \in 1 .. n
  <2>1. s[i] = Bundles!ScopePieces(scopes[i])
    BY <1>8, <1>10
  <2> QED
    BY <1>9, <2>1, ScopePaired
<1>12. s = [i \in 1 .. n |-> s[i]]
  BY <1>8, <1>10
<1>13. AllPaired(FlattenSeq(s))
  BY <1>8, <1>11, <1>12, FlattenedPaired
<1>14. Bundles!BundlePieces(file) = FlattenSeq(s)
  BY <1>1, <1>3, <1>5, <1>10, BundleOperators, Zenon DEF Bundles!BundlePieces
<1> QED
  BY <1>13, <1>14

\* The groups of the pieces, put together.
PieceGroups(pieces) == [i \in DOMAIN pieces |-> pieces[i].groups]
ReadPieces(pieces) == AtPlaces(pieces, {i \in DOMAIN pieces : pieces[i].groups # <<>>})

\* They are a list of groups.
LEMMA PieceGroupsLists ==
  ASSUME NEW pieces, AllPaired(pieces)
  PROVE  /\ \E T : PieceGroups(pieces) \in Seq(Seq(T))
         /\ DOMAIN PieceGroups(pieces) = DOMAIN pieces
         /\ Bundles!IsList(FlattenSeq(PieceGroups(pieces)))
         /\ \A g \in Members(FlattenSeq(PieceGroups(pieces))) :
              "diagnostics" \in DOMAIN g /\ g.diagnostics \in Nat
         /\ \A i \in DOMAIN pieces : \A g \in Members(pieces[i].groups) :
              g \in Members(FlattenSeq(PieceGroups(pieces)))
<1>1. PICK n : n = Len(pieces)
  OBVIOUS
<1>2. n \in Nat /\ DOMAIN pieces = 1 .. n
  BY <1>1, ListsAreSequences DEF AllPaired
<1>3. PICK s : s = PieceGroups(pieces)
  OBVIOUS
<1>4. s = [i \in 1 .. n |-> pieces[i].groups]
  BY <1>2, <1>3 DEF PieceGroups
<1>5. \A i \in 1 .. n : s[i] = pieces[i].groups
  BY <1>4
<1>6. s = [i \in 1 .. n |-> s[i]]
  BY <1>4, <1>5
<1>7. ASSUME NEW i \in 1 .. n
      PROVE  /\ Bundles!IsList(s[i])
             /\ \A g \in Members(s[i]) : "diagnostics" \in DOMAIN g /\ g.diagnostics \in Nat
  <2>1. Paired(pieces[i])
    BY <1>2 DEF AllPaired, Members
  <2>2. CASE s[i] = <<>>
    BY <2>2, ShortLists
  <2>3. CASE \E p, m : IsGroup(p, Python) /\ IsGroup(m, Maven) /\ s[i] = <<p, m>>
    <3>1. PICK p, m : IsGroup(p, Python) /\ IsGroup(m, Maven) /\ s[i] = <<p, m>>
      BY <2>3
    <3>2. PICK t : t = <<p, m>>
      OBVIOUS
    <3>3. t \in Seq({p, m})
      BY <3>2
    <3>4. Bundles!IsList(t)
      BY <3>3, SequencesAreLists
    <3>5. Members(<<p, m>>) = {p, m}
      BY DEF Members
    <3> QED
      BY <3>1, <3>2, <3>4, <3>5 DEF IsGroup
  <2> QED
    BY <1>5, <2>1, <2>2, <2>3 DEF Paired
<1>8. /\ s \in Seq(Seq(UNION {Members(s[i]) : i \in 1 .. n})) /\ DOMAIN s = 1 .. n
      /\ Bundles!IsList(FlattenSeq(s))
      /\ Members(FlattenSeq(s)) = UNION {Members(s[i]) : i \in 1 .. n}
  <2>1. \A i \in 1 .. n : Bundles!IsList(s[i])
    BY <1>7
  <2> QED
    BY <1>2, <1>6, <2>1, ListsOfLists
<1>9. \A g \in Members(FlattenSeq(s)) : "diagnostics" \in DOMAIN g /\ g.diagnostics \in Nat
  BY <1>7, <1>8
<1>10. \A i \in 1 .. n : \A g \in Members(pieces[i].groups) : g \in Members(FlattenSeq(s))
  BY <1>5, <1>8
<1> QED
  BY <1>2, <1>3, <1>8, <1>9, <1>10

\* The place of a format in a pair.
PlaceOf(f) == IF f = Python THEN 1 ELSE 2

\* The groups for a format, one of each piece that has any.
LEMMA GroupsForFormat ==
  ASSUME NEW pieces, AllPaired(pieces), NEW f \in Formats,
         NEW result1, result1.groups = FlattenSeq(PieceGroups(pieces))
  PROVE  GroupsOf(result1, f) =
           [m \in DOMAIN ReadPieces(pieces) |-> ReadPieces(pieces)[m].groups[PlaceOf(f)]]
<1>1. PICK s : s = PieceGroups(pieces)
  OBVIOUS
<1>2. PICK out : out = FlattenSeq(s)
  OBVIOUS
<1>3. PICK T : s \in Seq(Seq(T))
  BY <1>1, PieceGroupsLists
<1>4. DOMAIN s = DOMAIN pieces /\ \A i \in DOMAIN pieces : s[i] = pieces[i].groups
  BY <1>1 DEF PieceGroups
<1>5. PICK W : W = {g \in Members(out) : g.format = f}
  OBVIOUS
<1>6. PICK c : c = PlaceOf(f)
  OBVIOUS
<1>7. c \in 1 .. 2
  BY <1>6 DEF PlaceOf
<1>8. ASSUME NEW i \in DOMAIN s
      PROVE  s[i] = <<>> \/ (Len(s[i]) = 2 /\ s[i][c] \in W /\ s[i][3 - c] \notin W)
  <2>1. Paired(pieces[i])
    <3>1. i \in DOMAIN pieces
      BY <1>4
    <3> QED
      BY <3>1 DEF AllPaired, Members
  <2>2. CASE \E p, m : IsGroup(p, Python) /\ IsGroup(m, Maven) /\ s[i] = <<p, m>>
    <3>1. PICK p, m : IsGroup(p, Python) /\ IsGroup(m, Maven) /\ s[i] = <<p, m>>
      BY <2>2
    <3>2. Members(<<p, m>>) = {p, m}
      BY DEF Members
    <3>3. p \in Members(out) /\ m \in Members(out)
      <4>1. \A g \in Members(pieces[i].groups) : g \in Members(out)
        BY <1>1, <1>2, <1>4, PieceGroupsLists
      <4>2. pieces[i].groups = <<p, m>>
        BY <1>4, <3>1
      <4> QED
        BY <3>2, <4>1, <4>2
    <3>4. p.format = Python /\ m.format = Maven /\ Python # Maven
      BY <3>1 DEF IsGroup, Python, Maven
    <3>5. Len(<<p, m>>) = 2 /\ <<p, m>>[1] = p /\ <<p, m>>[2] = m
      OBVIOUS
    <3>6. CASE f = Python
      <4>1. p \in W /\ m \notin W /\ c = 1 /\ 3 - c = 2
        BY <1>5, <1>6, <3>3, <3>4, <3>6 DEF PlaceOf
      <4> QED
        BY <3>1, <3>5, <4>1
    <3>7. CASE f = Maven
      <4>1. m \in W /\ p \notin W /\ c = 2 /\ 3 - c = 1
        BY <1>5, <1>6, <3>3, <3>4, <3>7 DEF PlaceOf
      <4> QED
        BY <3>1, <3>5, <4>1
    <3> QED
      BY <3>6, <3>7 DEF Formats
  <2> QED
    BY <1>4, <2>1, <2>2 DEF Paired
<1>9. PICK kept : kept = Ascending({i \in DOMAIN s : s[i] # <<>>})
  OBVIOUS
<1>10. AtPlaces(out, {j \in DOMAIN out : out[j] \in W}) = [m \in DOMAIN kept |-> s[kept[m]][c]]
  <2>1. Pairs(s, W, c)
    BY <1>8 DEF Pairs
  <2>2. StandIn(FlattenSeq(s), W) = [m \in DOMAIN Kept(s) |-> s[Kept(s)[m]][c]]
    BY <1>3, <1>7, <2>1, FlattenedPairs
  <2> QED
    BY <1>2, <1>9, <2>2, Zenon DEF StandIn, Kept
<1>11. {j \in DOMAIN out : out[j] \in W} = {j \in DOMAIN out : out[j].format = f}
  BY <1>5 DEF Members
<1>12. GroupsOf(result1, f) = [m \in DOMAIN kept |-> s[kept[m]][c]]
  <2>1. result1.groups = out
    BY <1>1, <1>2
  <2> QED
    BY <1>10, <1>11, <2>1 DEF GroupsOf, Selection
<1>13. PICK read : read = ReadPieces(pieces)
  OBVIOUS
<1>14. read = [m \in DOMAIN kept |-> pieces[kept[m]]]
  <2>1. {i \in DOMAIN pieces : pieces[i].groups # <<>>} = {i \in DOMAIN s : s[i] # <<>>}
    BY <1>4
  <2> QED
    BY <1>9, <1>13, <2>1, Zenon DEF ReadPieces, AtPlaces
<1>15. \A m \in DOMAIN kept : kept[m] \in DOMAIN s
  <2>1. PICK n : n = Len(s)
    OBVIOUS
  <2>2. n \in Nat /\ DOMAIN s = 1 .. n
    BY <1>3, <2>1
  <2>3. PICK P : P = {i \in DOMAIN s : s[i] # <<>>}
    OBVIOUS
  <2>4. Lists(kept, P, n)
    <3>1. P \in SUBSET (1 .. n)
      BY <2>2, <2>3
    <3> QED
      BY <1>9, <2>2, <2>3, <3>1, AscendingLists
  <2> QED
    BY <2>2, <2>4 DEF Lists
<1>16. DOMAIN read = DOMAIN kept /\ \A m \in DOMAIN kept : s[kept[m]][c] = read[m].groups[c]
  BY <1>4, <1>14, <1>15
<1>17. [m \in DOMAIN kept |-> s[kept[m]][c]] = [m \in DOMAIN read |-> read[m].groups[c]]
  BY <1>16
<1> QED
  BY <1>6, <1>12, <1>13, <1>17

\* A piece that has been read has the pair of its groups.
LEMMA ReadPairs ==
  ASSUME NEW pieces, AllPaired(pieces), NEW k \in DOMAIN ReadPieces(pieces)
  PROVE  \E p, m : /\ IsGroup(p, Python) /\ IsGroup(m, Maven)
                   /\ ReadPieces(pieces)[k].groups = <<p, m>>
<1>1. PICK n : n = Len(pieces)
  OBVIOUS
<1>2. n \in Nat /\ DOMAIN pieces = 1 .. n
  BY <1>1, ListsAreSequences DEF AllPaired
<1>3. PICK P : P = {i \in DOMAIN pieces : pieces[i].groups # <<>>}
  OBVIOUS
<1>4. PICK kept : kept = Ascending(P)
  OBVIOUS
<1>5. {kept[m] : m \in DOMAIN kept} = P
  <2>1. P \in SUBSET (1 .. n)
    BY <1>2, <1>3
  <2>2. Lists(kept, P, n)
    BY <1>2, <1>4, <2>1, AscendingLists
  <2> QED
    BY <2>1, <2>2 DEF Lists
<1>6. ReadPieces(pieces) = [m \in DOMAIN kept |-> pieces[kept[m]]]
  BY <1>3, <1>4 DEF ReadPieces, AtPlaces
<1>7. k \in DOMAIN kept /\ ReadPieces(pieces)[k] = pieces[kept[k]] /\ kept[k] \in P
  BY <1>5, <1>6
<1>8. pieces[kept[k]].groups # <<>> /\ kept[k] \in DOMAIN pieces
  BY <1>3, <1>7
<1>9. Paired(pieces[kept[k]])
  BY <1>8 DEF AllPaired, Members
<1> QED
  BY <1>7, <1>8, <1>9 DEF Paired

\* What is read of a bundle.
Structural(file) ==
  \/ file.targets = Bundles!Malformed
  \/ \E i \in DOMAIN Bundles!BundlePieces(file) : Bundles!BundlePieces(file)[i].structural

\* A bundle that is decided has the groups of its pieces, or blamed ones.
LEMMA BundleResult ==
  ASSUME NEW file, NEW r, r = Bundles!AnalyzeDatabricksBundle(file), r.status # "other"
  PROVE  /\ ~ file.parses => r.groups = <<>>
         /\ file.parses =>
              r.groups = Bundles!Blamed(FlattenSeq(PieceGroups(Bundles!BundlePieces(file))),
                                                     Structural(file))
         /\ file.parses /\ Structural(file) =>
              r.analysis.extraction \in {"failed", "partial"}
<1>1. PICK pieces : pieces = Bundles!BundlePieces(file)
  OBVIOUS
<1>2. PICK out : out = FlattenSeq(PieceGroups(pieces))
  OBVIOUS
<1>3. PICK u : u = Structural(file)
  OBVIOUS
<1>4. PICK groups : groups = Bundles!Blamed(out, u)
  OBVIOUS
<1>5. PICK d : d = Bundles!DependenciesIn(out)
  OBVIOUS
<1>6. NotRecognized.status = "other" /\ AnalyzerError.groups = <<>>
  BY DEF NotRecognized, AnalyzerError, Result
<1>7. CASE ~ file.parses
  <2>1. r = IF file.looksLikeBundle THEN AnalyzerError ELSE NotRecognized
    BY <1>7, BundlesMakers, Zenon DEF Bundles!AnalyzeDatabricksBundle
  <2> QED
    BY <1>6, <1>7, <2>1
<1>8. CASE file.parses
  <2>1. \/ r = NotRecognized
        \/ r = Incomplete(d, groups)
        \/ r = Complete(d, groups) /\ ~ u
    <3>1. out = Bundles!FlattenSeq([i \in DOMAIN pieces |-> pieces[i].groups])
      BY <1>2, BundleOperators DEF PieceGroups
    <3>2. u = (file.targets = Bundles!Malformed \/ \E i \in DOMAIN pieces : pieces[i].structural)
      BY <1>1, <1>3 DEF Structural
    <3> QED
      BY <1>1, <1>4, <1>5, <1>8, <3>1, <3>2, BundlesMakers, Zenon
      DEF Bundles!AnalyzeDatabricksBundle
  <2>2. Incomplete(d, groups).groups = groups /\ Complete(d, groups).groups = groups
    BY DEF Incomplete, Complete, Result
  <2>3. Incomplete(d, groups).analysis.extraction \in {"failed", "partial"}
    BY DEF Incomplete, Result, FailedAnalysis, Is
  <2>4. r = Incomplete(d, groups) \/ (r = Complete(d, groups) /\ ~ u)
    BY <1>6, <2>1
  <2>5. r.groups = groups /\ (u => r.analysis.extraction \in {"failed", "partial"})
    BY <2>2, <2>3, <2>4
  <2>6. groups =
          Bundles!Blamed(FlattenSeq(PieceGroups(Bundles!BundlePieces(file))), Structural(file))
    BY <1>1, <1>2, <1>3, <1>4
  <2>7. u <=> Structural(file)
    BY <1>3
  <2> QED
    BY <1>8, <2>5, <2>6, <2>7
<1> QED
  BY <1>7, <1>8

\* A bundle that hides something has a fault in every group, or no groups.
LEMMA HiddenBlocks ==
  ASSUME NEW out, Bundles!IsList(out),
         \A g \in Members(out) : "diagnostics" \in DOMAIN g /\ g.diagnostics \in Nat,
         NEW r, r.groups = Bundles!Blamed(out, TRUE),
         r.analysis.extraction \in {"failed", "partial"},
         NEW declared, NEW f
  PROVE  Verdict(r, declared, f) \in {"not asked", "blocked"}
<1>1. PICK n : n = Len(out)
  OBVIOUS
<1>2. n \in Nat /\ DOMAIN out = 1 .. n
  BY <1>1, ListsAreSequences
<1>3. r.groups = [i \in 1 .. n |-> [out[i] EXCEPT !.diagnostics = @ + 1]]
  BY <1>2, Zenon DEF Bundles!Blamed
<1>4. ASSUME NEW i \in 1 .. n PROVE r.groups[i].diagnostics > 0
  <2>1. PICK g : g = out[i]
    OBVIOUS
  <2>2. "diagnostics" \in DOMAIN g /\ g.diagnostics \in Nat
    BY <1>2, <2>1 DEF Members
  <2>3. r.groups[i] = [g EXCEPT !.diagnostics = @ + 1]
    BY <1>3, <2>1
  <2>4. PICK h : h = [g EXCEPT !.diagnostics = @ + 1]
    OBVIOUS
  <2>5. h.diagnostics = g.diagnostics + 1
    BY <2>2, <2>4
  <2>6. h.diagnostics > 0
    BY <2>2, <2>5
  <2> QED
    BY <2>3, <2>4, <2>6
<1>5. DOMAIN r.groups = 1 .. n
  BY <1>3
<1>6. Bundles!IsList(r.groups)
  <2>1. PICK s : s = r.groups
    OBVIOUS
  <2>2. s = [i \in 1 .. n |-> s[i]] /\ Len(s) = n
    BY <1>2, <1>3, <2>1
  <2>3. Bundles!IsList(s)
    BY <1>2, <2>2 DEF Bundles!IsList
  <2> QED
    BY <2>1, <2>3
<1>7. CASE GroupsOf(r, f) # <<>>
  <2>1. PICK P : P = {i \in DOMAIN r.groups : r.groups[i].format = f}
    OBVIOUS
  <2>2. GroupsOf(r, f) = AtPlaces(r.groups, P)
    BY <2>1 DEF GroupsOf, Selection
  <2>3. PICK order : order = Ascending(P)
    OBVIOUS
  <2>4. order \in Seq(1 .. n)
    <3>1. P \in SUBSET (1 .. n)
      BY <1>5, <2>1
    <3>2. Lists(order, P, n)
      BY <1>2, <2>3, <3>1, AscendingLists
    <3> QED
      BY <3>2 DEF Lists
  <2>5. GroupsOf(r, f) = [k \in DOMAIN order |-> r.groups[order[k]]]
    BY <2>2, <2>3 DEF AtPlaces
  <2>6. order # <<>>
    <3>1. SUFFICES ASSUME order = <<>> PROVE FALSE
      OBVIOUS
    <3>2. DOMAIN order = {}
      BY <3>1
    <3>3. GroupsOf(r, f) = [k \in {} |-> r.groups[order[k]]]
      BY <2>5, <3>2
    <3>4. GroupsOf(r, f) = <<>>
      BY <3>3
    <3> QED
      BY <1>7, <3>4
  <2>7. 1 \in DOMAIN order
    BY <2>4, <2>6
  <2>8. 1 \in DOMAIN GroupsOf(r, f)
    BY <2>5, <2>7
  <2>9. GroupsOf(r, f)[1].diagnostics > 0
    <3>1. GroupsOf(r, f)[1] = r.groups[order[1]]
      BY <2>5, <2>7, Zenon
    <3>2. order[1] \in 1 .. n
      BY <1>2, <2>4, <2>7
    <3> QED
      BY <1>4, <3>1, <3>2, Zenon
  <2>10. Relevant(r, f) = GroupsOf(r, f)
    BY <1>7 DEF Relevant
  <2>11. \E i \in DOMAIN Relevant(r, f) : Relevant(r, f)[i].diagnostics > 0
    BY <2>8, <2>9, <2>10
  <2> QED
    BY <1>7, <2>11, Zenon DEF Verdict
<1>8. CASE GroupsOf(r, f) = <<>>
  <2>1. r.analysis.extraction \in {"failed", "partial", "unsupported"}
    OBVIOUS
  <2> QED
    BY <1>8, <2>1, Zenon DEF Verdict
<1> QED
  BY <1>7, <1>8

\* The verdict on a bundle, format by format.
LEMMA BundleDecided ==
  RunInvariant /\ BundleRead(document) => FormatsBlockedSeparately
<1> SUFFICES ASSUME RunInvariant, BundleRead(document), family = "bundle", stage = "decided",
                    NEW f \in Formats
             PROVE  LET tasks == document.tasks
                        planned == /\ document.sound
                                   /\ \A i \in DOMAIN tasks : tasks[i][f].known
                        groups == GroupsOf(result, f)
                    IN  /\ verdicts[f] # "not asked" => (verdicts[f] = "planned") = planned
                        /\ planned => /\ Len(groups) = Len(tasks)
                                      /\ \A i \in DOMAIN tasks :
                                           groups[i].dependencies = tasks[i][f].declared
  BY Zenon DEF FormatsBlockedSeparately
<1>1. PICK file : file = document.file
  OBVIOUS
<1>2. PICK pieces : pieces = Bundles!BundlePieces(file)
  OBVIOUS
<1>3. PICK read : read = ReadPieces(pieces)
  OBVIOUS
<1>4. PICK tasks : tasks = document.tasks
  OBVIOUS
<1>5. /\ AllPaired(pieces)
      /\ document.sound <=> file.parses /\ ~ Structural(file)
      /\ document.sound => /\ read # <<>> /\ DOMAIN tasks = DOMAIN read
                           /\ \A i \in DOMAIN read : IsReadTask(read[i].groups, tasks[i])
  <2>1. Bundles!IsBundle(file)
    BY <1>1 DEF BundleRead
  <2>2. AllPaired(pieces)
    BY <1>2, <2>1, BundlePaired
  <2>3. read = Selection(pieces, LAMBDA piece : piece.groups # <<>>)
    BY <1>3 DEF ReadPieces, Selection
  <2>4. document.sound <=> file.parses /\ ~ Structural(file)
    BY <1>1 DEF BundleRead, Structural
  <2>5. document.sound => /\ read # <<>> /\ DOMAIN tasks = DOMAIN read
                          /\ \A i \in DOMAIN read : IsReadTask(read[i].groups, tasks[i])
    BY <1>1, <1>2, <1>4, <2>3, Zenon DEF BundleRead
  <2> QED
    BY <2>2, <2>4, <2>5
<1>6. /\ result = Bundles!AnalyzeDatabricksBundle(file) /\ result.status # "other"
      /\ verdicts[f] = Verdict(result, document.generate, f)
  BY <1>1 DEF RunInvariant
<1>7. PICK out : out = FlattenSeq(PieceGroups(pieces))
  OBVIOUS
<1>8. /\ ~ file.parses => result.groups = <<>>
      /\ file.parses => result.groups = Bundles!Blamed(out, Structural(file))
      /\ file.parses /\ Structural(file) => result.analysis.extraction \in {"failed", "partial"}
  BY <1>2, <1>6, <1>7, BundleResult
<1>9. CASE ~ document.sound
  <2>1. verdicts[f] \in {"not asked", "blocked"}
    <3>1. CASE ~ file.parses
      <4>1. result.groups = <<>>
        BY <1>8, <3>1
      <4>2. GroupsOf(result, f) = <<>>
        <5>1. {i \in DOMAIN result.groups : result.groups[i].format = f} = {}
          BY <4>1
        <5> QED
          BY <5>1, AtNoPlaces DEF GroupsOf, Selection
      <4> QED
        BY <1>6, <4>1, <4>2, Zenon DEF Verdict
    <3>2. CASE file.parses
      <4>1. Structural(file)
        BY <1>5, <1>9, <3>2
      <4>2. /\ result.groups = Bundles!Blamed(out, TRUE)
            /\ result.analysis.extraction \in {"failed", "partial"}
        <5>1. Bundles!Blamed(out, Structural(file)) = Bundles!Blamed(out, TRUE)
          BY <4>1, Zenon DEF Bundles!Blamed
        <5> QED
          BY <1>8, <3>2, <4>1, <5>1
      <4>3. /\ Bundles!IsList(out)
            /\ \A g \in Members(out) : "diagnostics" \in DOMAIN g /\ g.diagnostics \in Nat
        BY <1>5, <1>7, PieceGroupsLists
      <4> QED
        BY <1>6, <4>2, <4>3, HiddenBlocks
    <3> QED
      BY <3>1, <3>2
  <2> QED
    BY <1>9, <2>1
<1>10. CASE document.sound
  <2>1. file.parses /\ ~ Structural(file)
    BY <1>5, <1>10
  <2>2. result.groups = out
    BY <1>8, <2>1, Zenon DEF Bundles!Blamed
  <2>3. PICK groups : groups = GroupsOf(result, f)
    OBVIOUS
  <2>4. PICK c : c = PlaceOf(f)
    OBVIOUS
  <2>5. groups = [m \in DOMAIN read |-> read[m].groups[c]]
    BY <1>3, <1>5, <1>7, <2>2, <2>3, <2>4, GroupsForFormat
  <2>6. ASSUME NEW i \in DOMAIN read
        PROVE  /\ groups[i].diagnostics > 0 <=> ~ tasks[i][f].known
               /\ tasks[i][f].known => groups[i].dependencies = tasks[i][f].declared
    <3>1. PICK p, m : IsGroup(p, Python) /\ IsGroup(m, Maven) /\ read[i].groups = <<p, m>>
      BY <1>3, <1>5, ReadPairs
    <3>2. PICK g : g = read[i].groups[c]
      OBVIOUS
    <3>3. groups[i] = g
      BY <2>5, <3>2
    <3>4. g.format = f /\ c \in DOMAIN read[i].groups
      <4>1. PICK t : t = <<p, m>>
        OBVIOUS
      <4>2. t[1] = p /\ t[2] = m /\ DOMAIN t = 1 .. 2
        BY <4>1
      <4>3. g = t[c]
        BY <3>1, <3>2, <4>1
      <4>4. CASE f = Python
        BY <2>4, <3>1, <4>1, <4>2, <4>3, <4>4 DEF PlaceOf, IsGroup
      <4>5. CASE f = Maven
        <5>1. Maven # Python
          BY DEF Maven, Python
        <5>2. c = 2
          BY <2>4, <4>5, <5>1 DEF PlaceOf
        <5> QED
          BY <3>1, <4>1, <4>2, <4>3, <4>5, <5>2 DEF IsGroup
      <4> QED
        BY <4>4, <4>5 DEF Formats
    <3>5. IsReadTask(read[i].groups, tasks[i])
      BY <1>5, <1>10
    <3>6. /\ g.diagnostics > 0 <=> ~ tasks[i][g.format].known
          /\ tasks[i][g.format].known => g.dependencies = tasks[i][g.format].declared
      BY <3>2, <3>4, <3>5 DEF IsReadTask
    <3> QED
      BY <3>3, <3>4, <3>6
  <2>7. PICK n \in Nat : DOMAIN read = 1 .. n /\ n # 0
    <3>1. PICK m : m = Len(pieces)
      OBVIOUS
    <3>2. m \in Nat /\ DOMAIN pieces = 1 .. m
      BY <1>5, <3>1, ListsAreSequences DEF AllPaired
    <3>3. PICK P : P = {i \in DOMAIN pieces : pieces[i].groups # <<>>}
      OBVIOUS
    <3>4. PICK order : order = Ascending(P)
      OBVIOUS
    <3>5. order \in Seq(1 .. m)
      <4>1. P \in SUBSET (1 .. m)
        BY <3>2, <3>3
      <4>2. Lists(order, P, m)
        BY <3>2, <3>4, <4>1, AscendingLists
      <4> QED
        BY <4>2 DEF Lists
    <3>6. read = [k \in DOMAIN order |-> pieces[order[k]]]
      BY <1>3, <3>3, <3>4 DEF ReadPieces, AtPlaces
    <3>7. DOMAIN order = 1 .. Len(order) /\ Len(order) \in Nat
      BY <3>5
    <3>8. Len(order) # 0
      <4>1. SUFFICES ASSUME Len(order) = 0 PROVE FALSE
        OBVIOUS
      <4>2. DOMAIN order = {}
        BY <3>7, <4>1
      <4>3. read = [k \in {} |-> pieces[order[k]]]
        BY <3>6, <4>2
      <4>4. read = <<>>
        BY <4>3
      <4> QED
        BY <1>5, <1>10, <4>4
    <3> QED
      BY <3>6, <3>7, <3>8
  <2>8. DOMAIN groups = 1 .. n /\ DOMAIN tasks = 1 .. n /\ Len(groups) = n /\ groups # <<>>
    <3>1. groups = [m \in 1 .. n |-> read[m].groups[c]]
      BY <2>5, <2>7
    <3>2. DOMAIN groups = 1 .. n /\ Len(groups) = n
      BY <3>1
    <3> QED
      BY <1>5, <1>10, <2>7, <3>2
  <2>9. Relevant(result, f) = groups /\ result.groups # <<>>
    <3>1. Relevant(result, f) = groups
      BY <2>3, <2>8 DEF Relevant
    <3>2. result.groups # <<>>
      <4>1. SUFFICES ASSUME result.groups = <<>> PROVE FALSE
        OBVIOUS
      <4>2. {i \in DOMAIN result.groups : result.groups[i].format = f} = {}
        BY <4>1
      <4>3. GroupsOf(result, f) = <<>>
        BY <4>2, AtNoPlaces DEF GroupsOf, Selection
      <4> QED
        BY <2>3, <2>8, <4>3
    <3> QED
      BY <3>1, <3>2
  <2>10. PICK known \in BOOLEAN : known <=> \A i \in 1 .. n : tasks[i][f].known
    OBVIOUS
  <2>11. (\E i \in DOMAIN groups : groups[i].diagnostics > 0) <=> ~ known
    BY <2>6, <2>7, <2>8, <2>10
  <2>12. verdicts[f] = IF known THEN "planned" ELSE "blocked"
    BY <1>6, <2>3, <2>8, <2>9, <2>11, Zenon DEF Verdict
  <2>13. known => \A i \in 1 .. n : groups[i].dependencies = tasks[i][f].declared
    BY <2>6, <2>7, <2>10
  <2>14. (verdicts[f] = "planned") = known
    BY <2>12
  <2>15. (document.sound /\ \A i \in DOMAIN document.tasks : document.tasks[i][f].known) <=> known
    BY <1>4, <1>10, <2>8, <2>10
  <2>16. (verdicts[f] = "planned") <=>
           (document.sound /\ \A i \in DOMAIN document.tasks : document.tasks[i][f].known)
    BY <2>14, <2>15
  <2>17. Len(document.tasks) = n
    BY <1>4, <2>7, <2>8
  <2>18. known => /\ Len(GroupsOf(result, f)) = Len(document.tasks)
                  /\ \A i \in DOMAIN document.tasks :
                       GroupsOf(result, f)[i].dependencies = document.tasks[i][f].declared
    BY <1>4, <2>3, <2>8, <2>13, <2>17
  <2> QED
    BY <2>15, <2>16, <2>18
<1> QED
  BY <1>9, <1>10

(***************************************************************************)
(* Where every task of a bundle is read as what stands there, each format  *)
(* is planned exactly when all tasks of the bundle can be expressed in it  *)
(* and its structure is sound, and then with one group for each task, in   *)
(* order: for any number of scopes, jobs and tasks. This is about the      *)
(* loops of databricks_bundle.go, its structural faults and the decision   *)
(* on its result. That single tasks are read so is what TLC evaluates      *)
(* (BundleReadAssumption).                                                 *)
(***************************************************************************)
THEOREM BundlesDecided == Spec => [](BundleRead(document) => FormatsBlockedSeparately)
<1>1. Init => RunInvariant
  BY DEF Init, Holds, RunInvariant
<1> QED
  BY <1>1, RunInvariantInductive, BundleDecided, PTL DEF Spec
=============================================================================
