-------------------------- MODULE DatabricksBundle --------------------------
(***************************************************************************)
(* Tasks of Databricks bundles (internal/analyze/databricks_bundle.go).    *)
(* A node of the file is Absent, Malformed (not of the type that the code  *)
(* looks for) or has its own kind, with its parts as fields.               *)
(***************************************************************************)
EXTENDS AnalyzerResults, PythonRequirements

Absent == [kind |-> "absent"]
Malformed == [kind |-> "malformed"]
Scope(name, jobs) == [kind |-> "scope", name |-> name, jobs |-> jobs]
Job(name, tasks) == [kind |-> "job", name |-> name, tasks |-> tasks]
Task(key, libraries) == [kind |-> "task", key |-> key, libraries |-> libraries]
List(items) == [kind |-> "list", items |-> items]
Library(pypi, whl, maven, jar) ==
  [kind |-> "library", pypi |-> pypi, whl |-> whl, maven |-> maven, jar |-> jar]
PyPI(package, repo) == [kind |-> "pypi", package |-> package, repo |-> repo]
Coordinates(parts, repo, exclusions) ==
  [kind |-> "maven", parts |-> parts, repo |-> repo, exclusions |-> exclusions]

\* Lists of a file are sequences.
IsList(s) == Len(s) \in Nat /\ s = [i \in 1 .. Len(s) |-> s[i]]
HoldsList(node, Each(_)) ==
  node \notin {Absent, Malformed} => IsList(node.items) /\ \A i \in DOMAIN node.items : Each(node.items[i])
IsTask(task) == task # Malformed => HoldsList(task.libraries, LAMBDA library : TRUE)
IsJob(job) == job # Malformed => HoldsList(job.tasks, IsTask)
IsScope(scope) == scope # Malformed => HoldsList(scope.jobs, IsJob)
IsBundle(file) == IsScope(file.root) /\ HoldsList(file.targets, IsScope)

\* Between two colons of a coordinate stands something, and no placeholder.
Literals(parts, count) ==
  Len(parts) = count /\ \A i \in DOMAIN parts : parts[i] \notin {"", "${x}"}

ParseDatabricksPyPI(pypi) ==
  IF pypi.kind = "pypi" /\ ~ pypi.repo /\ IsRequirement(pypi.package)
    THEN [dependencies |-> <<pypi.package>>, diagnostics |-> 0]
    ELSE [dependencies |-> <<>>, diagnostics |-> 1]
ParseDatabricksMaven(maven) ==
  IF /\ maven.kind = "maven" /\ Literals(maven.parts, 3) /\ ~ maven.repo
     /\ \/ maven.exclusions = Absent
        \/ /\ maven.exclusions.kind = "list"
           /\ \A i \in DOMAIN maven.exclusions.items : Literals(maven.exclusions.items[i], 2)
    THEN [dependencies |-> <<maven.parts>>, diagnostics |-> 0]
    ELSE [dependencies |-> <<>>, diagnostics |-> 1]
Unsupports == [dependencies |-> <<>>, diagnostics |-> 1]

\* What the libraries declare for a format: one entry for each declaration.
PythonDeclarations(library) ==
  (IF library.pypi # Absent THEN <<ParseDatabricksPyPI(library.pypi)>> ELSE <<>>) \o
  (IF library.whl THEN <<Unsupports>> ELSE <<>>)
MavenDeclarations(library) ==
  (IF library.maven # Absent THEN <<ParseDatabricksMaven(library.maven)>> ELSE <<>>) \o
  (IF library.jar THEN <<Unsupports>> ELSE <<>>)
Declarations(libraries, Of(_)) ==
  FlattenSeq([i \in DOMAIN libraries |->
                IF libraries[i] = Malformed THEN <<>> ELSE Of(libraries[i])])

-----------------------------------------------------------------------------
(* What a part of the bundle contributes: groups, whether its structure    *)
(* hides something, and whether it makes the file a bundle.                *)

Piece(groups, structural, recognized) ==
  [groups |-> groups, structural |-> structural, recognized |-> recognized]

Formatted(format, group, diagnostics) ==
  [group EXCEPT !.format = format, !.diagnostics = diagnostics]
Both(group, diagnostics) ==
  <<Formatted(Python, group, diagnostics), Formatted(Maven, group, diagnostics)>>
MalformedDatabricksGroups(location) == Both(Group(<<>>, location, "missing", <<>>), 1)

DeclaredGroup(format, name, location, declared, libraries) ==
  LET dependencies == FlattenSeq([i \in DOMAIN declared |-> declared[i].dependencies])
      rejected == Len(Selection(declared, LAMBDA d : d.diagnostics > 0))
      state == IF declared # <<>> THEN "ready"
               ELSE IF libraries = <<>> THEN "empty" ELSE "missing"
  IN  Formatted(format, Group(name, location, state, dependencies), rejected)

TaskPiece(name, location, task) ==
  LET unnamed == task.key = ""
      items == task.libraries.items
      broken == \E i \in DOMAIN items : items[i] = Malformed
      python == Declarations(items, PythonDeclarations)
      maven == Declarations(items, MavenDeclarations)
      ungrouped == Group(name, location, "missing", <<>>)
  IN  CASE task = Malformed -> Piece(MalformedDatabricksGroups(location), TRUE, TRUE)
        [] task.libraries = Absent -> Piece(Both(ungrouped, 0), unnamed, TRUE)
        [] task.libraries = Malformed -> Piece(Both(ungrouped, 1), TRUE, TRUE)
        [] OTHER -> Piece(<<DeclaredGroup(Python, name, location, python, items),
                           DeclaredGroup(Maven, name, location, maven, items)>>,
                         unnamed \/ broken, TRUE)

JobPieces(scope, job) ==
  CASE job = Malformed -> <<Piece(<<>>, TRUE, TRUE)>>
    [] job.tasks = Absent -> <<>>
    [] job.tasks = Malformed ->
         <<Piece(MalformedDatabricksGroups(<<scope, job.name>>), TRUE, TRUE)>>
    [] OTHER -> <<Piece(<<>>, FALSE, TRUE)>> \o
                [i \in DOMAIN job.tasks.items |->
                   TaskPiece(<<scope, job.name, job.tasks.items[i].key>>,
                             <<scope, job.name, i>>, job.tasks.items[i])]

\* Malformed as jobs: resources or resources.jobs is no mapping.
ScopePieces(scope) ==
  CASE scope = Malformed -> <<Piece(<<>>, TRUE, TRUE)>>
    [] scope.jobs = Absent -> <<>>
    [] scope.jobs = Malformed -> <<Piece(<<>>, TRUE, FALSE)>>
    [] OTHER -> FlattenSeq([i \in DOMAIN scope.jobs.items |->
                              JobPieces(scope.name, scope.jobs.items[i])])

\* targets: Absent, Malformed or the list of target scopes by name.
BundlePieces(file) ==
  LET scopes == <<file.root>> \o (IF file.targets.kind = "list" THEN file.targets.items ELSE <<>>)
  IN  FlattenSeq([i \in DOMAIN scopes |-> ScopePieces(scopes[i])])

\* Mutant: the structure of a bundle is nobody's business.
Unchecked(groups, structural) == groups
Blamed(groups, structural) ==
  IF ~ structural THEN groups
  ELSE [i \in DOMAIN groups |-> [groups[i] EXCEPT !.diagnostics = @ + 1]]

AnalyzeDatabricksBundle(file) ==
  LET pieces == BundlePieces(file)
      declared == FlattenSeq([i \in DOMAIN pieces |-> pieces[i].groups])
      structural == file.targets = Malformed \/ \E i \in DOMAIN pieces : pieces[i].structural
      groups == Blamed(declared, structural)
  IN  IF ~ file.parses THEN IF file.looksLikeBundle THEN AnalyzerError ELSE NotRecognized
      ELSE IF file.root = Malformed \/ ~ \E i \in DOMAIN pieces : pieces[i].recognized
        THEN NotRecognized
      ELSE IF structural \/ \E i \in DOMAIN groups : groups[i].diagnostics > 0
        THEN Incomplete(DependenciesIn(declared), groups)
      ELSE Complete(DependenciesIn(declared), groups)
=============================================================================
