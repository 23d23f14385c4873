--------------------------- MODULE AnalyzerResults ---------------------------
(***************************************************************************)
(* The result of an analyzer in full (internal/analyze/scan.go): its       *)
(* dependencies and groups of dependencies, with the number of its         *)
(* diagnostics; how analyzers put results together, and what generation    *)
(* makes of a source before it looks at destinations.                      *)
(***************************************************************************)
EXTENDS Texts, SourceAnalysis

Python == "python-requirements"
Maven == "maven-pom"
NoFormat == "none"

\* diagnostics: how many are attached to the group itself.
Group(name, location, state, dependencies) ==
  [name |-> name, location |-> location, format |-> NoFormat, state |-> state,
   dependencies |-> dependencies, diagnostics |-> 0]

\* status: "recognized", "other" (left to later detectors) or "error".
Result(status, analysis, dependencies, groups, warnings, errors) ==
  [status |-> status, analysis |-> analysis, dependencies |-> dependencies,
   groups |-> groups, warnings |-> warnings, errors |-> errors]
NotRecognized == Result("other", IdentifiedAnalysis, <<>>, <<>>, 0, 0)
AnalyzerError == Result("error", FailedAnalysis, <<>>, <<>>, 0, 1)
Presence(present) == Result("recognized", PresenceAnalysis(present), <<>>, <<>>, 0, 0)
Identified == Result("recognized", IdentifiedAnalysis, <<>>, <<>>, 0, 0)
Complete(dependencies, groups) ==
  Result("recognized", CompleteAnalysis(Len(dependencies)), dependencies, groups, 0, 0)

\* An analyzer that parses the file first: [parses, root].
OfFile(file, Analyzed(_)) == IF file.parses THEN Analyzed(file.root) ELSE AnalyzerError

\* A selected declaration cannot be read: failed, or partial if any other can.
\* Mutant: what could be read passes for all there is.
Whole(dependencies, groups) == Complete(dependencies, groups)
\* Mutant: it counts as partial even if nothing could be read.
AlwaysPartial(dependencies, groups) ==
  Result("recognized", Is("present", "partial"), dependencies, groups, 1, 0)
Incomplete(dependencies, groups) ==
  IF Len(dependencies) = 0
    THEN Result("recognized", FailedAnalysis, <<>>, groups, 0, 1)
    ELSE Result("recognized", Is("present", "partial"), dependencies, groups, 1, 0)

\* What a job in a file comes to: it is not for the detector, it cannot be
\* read, or it is a group.
Skipped == [outcome |-> "skipped"]
NotReadable == [outcome |-> "incomplete"]
Grouped(group) == [outcome |-> "group", group |-> group]

\* The groups of the jobs that can be read, and what they all depend on.
Outcomes(jobs) == {jobs[i].outcome : i \in DOMAIN jobs}
GroupsIn(jobs) ==
  LET grouped == Selection(jobs, LAMBDA job : job.outcome = "group")
  IN  [i \in DOMAIN grouped |-> grouped[i].group]
DependenciesIn(groups) ==
  FlattenSeq([i \in DOMAIN groups |-> groups[i].dependencies])

\* Mutant: jobs that cannot be read are left out.
OnlyReadable(jobs) ==
  IF "group" \in Outcomes(jobs) THEN Complete(DependenciesIn(GroupsIn(jobs)), GroupsIn(jobs))
                                ELSE NotRecognized
JobsResult(jobs) ==
  LET groups == GroupsIn(jobs) IN
  CASE Outcomes(jobs) \subseteq {"skipped"} -> NotRecognized
    [] "incomplete" \in Outcomes(jobs) -> Incomplete(DependenciesIn(groups), groups)
    [] OTHER -> Complete(DependenciesIn(groups), groups)

SemanticAnalyzerResult(dependencies, messages) ==
  IF messages = 0 THEN Complete(dependencies, <<>>)
  ELSE Result("recognized",
              Is("present", IF Len(dependencies) = 0 THEN "unsupported" ELSE "partial"),
              dependencies, <<>>, messages, 0)

\* Python's detectors: nothing read at all is a failure.
PythonExtractionResult(dependencies, incomplete) ==
  IF incomplete = 0 THEN Complete(dependencies, <<>>) ELSE Incomplete(dependencies, <<>>)

\* No diagnostic is malformed: the codes are written in the program, and every
\* message has words around what it quotes.
Accepted(result) ==
  result.status = "recognized" =>
    ValidSourceAnalyzerResult([analysis |-> result.analysis,
                               dependencies |-> Len(result.dependencies),
                               warnings |-> result.warnings, errors |-> result.errors,
                               malformed |-> 0])

\* Generate for one source of a detector that declares a format, up to the
\* destinations of its groups.
GroupsOf(result, format) == Selection(result.groups, LAMBDA g : g.format = format)
Relevant(result, format) ==
  IF GroupsOf(result, format) # <<>> THEN GroupsOf(result, format) ELSE result.groups
Verdict(result, declared, format) ==
  LET grouped == GroupsOf(result, format) # <<>> IN
  IF declared # format /\ ~ grouped THEN "not asked"
  ELSE IF \/ ~ grouped /\ result.analysis.extraction \in {"failed", "partial", "unsupported"}
          \/ result.groups = <<>>
          \/ \E i \in DOMAIN Relevant(result, format) :
               Relevant(result, format)[i].diagnostics > 0
    THEN "blocked"
  ELSE "planned"
=============================================================================
