------------------------------- MODULE Deplens -------------------------------
(***************************************************************************)
(* One run of the program (cmd/deplens/main.go): it reads its arguments,   *)
(* composes the rules, scans a tree that others may change (Scan), writes  *)
(* the files it is asked for and prints its report.                        *)
(***************************************************************************)
EXTENDS RuleComposition

CONSTANTS Nodes, Root, Below, Pyprojects, Contents, Unreadable, Trees, Entries,
          MaxEdits,       \* like these, see Scan
          Commands,       \* the arguments of each command
          Documents,      \* the rule document at a path
          Embedded,       \* the path of the embedded rules
          BaseName,       \* the names of the nodes
          RegexMatches,   \* the nodes whose names a regular expression matches
          GlobMatches,    \* the nodes whose paths a glob matches
          Behaviour       \* what an analyzer of some type makes of a content

VARIABLES tree, rules, pending, file, discovered, policyInputs, sources, outcome, touched,
          command,    \* the command, one of Commands
          stage,      \* what the program does
          loaded,     \* how many extensions have been appended
          composed,   \* the rules: detectors, checks and disabled detectors
          generated,  \* the sources for which files have been written
          printed,    \* "nothing", "usage" or "report"
          status      \* the exit status

Scanner == INSTANCE Scan

\* A list, and the types of analyzers that documents can configure.
IsList(s) == s \in Seq(Range(s))
AnalyzerTypes ==
  PlainAnalyzers \cup {<<t>> : t \in {"yaml", "toml", "json", "xml", "html", "ini", "terraform",
                                     "banner-regex", "typescript", "python"}}
\* Every regular expression that compiles matches some nodes, every analyzer
\* makes something of each content, and the valid identifiers in the
\* documents are among those whose order is given.
ASSUME DeplensAssumption ==
  /\ Scanner!Parameters /\ Embedded \in DOMAIN Documents
  /\ RegexMatches \in [DOMAIN Groups -> SUBSET Nodes]
  /\ Behaviour \in [AnalyzerTypes -> [verdict : [Contents -> Scanner!Verdicts],
                                      offers : [Contents -> [Formats -> {"nothing", "files", "blocked"}]]]]
  /\ \A c \in DOMAIN Commands : IsList(Commands[c])
  /\ IsList(Alphabetical)
  /\ \A p, q \in DOMAIN Alphabetical : Alphabetical[p] = Alphabetical[q] => p = q
  /\ \A path \in DOMAIN Documents :
       /\ IsList(Documents[path].rules) /\ IsList(Documents[path].checks)
       /\ \A id \in IDs(Documents[path].rules) \cup IDs(Documents[path].checks) :
            ValidID(id) => id \in Range(Alphabetical)
scan == <<tree, rules, pending, file, discovered, policyInputs, sources, outcome, touched>>
run == <<command, loaded, composed, generated, printed, status>>
vars == <<scan, stage, run>>

Configs == [c \in DOMAIN Commands |-> ParseArgs(Commands[c], Embedded)]
Config == Configs[command]
Format == Config.format

\* A path in no document's place cannot be read.
LoadAll(documents) ==
  [path \in DOMAIN documents |->
     [extension \in BOOLEAN |-> LoadRulesDocument(documents[path], extension)]]
Loaded == LoadAll(Documents)
At(documents, path, extension) ==
  IF path \in DOMAIN documents THEN documents[path][extension] ELSE Invalid
Load(path, extension) == At(Loaded, path, extension)

NoRules == [detectors |-> <<>>, checks |-> <<>>, disabled |-> <<>>]

Init == /\ Scanner!Init
        /\ command \in DOMAIN Commands
        /\ stage = "arguments" /\ loaded = 0 /\ composed = NoRules
        /\ generated = {} /\ printed = "nothing" /\ status = 0

\* os.Exit
Exit(code) == stage' = "exited" /\ status' = code
Continue(next) == stage' = next /\ UNCHANGED status
Report(what) == \/ printed' = what /\ Exit(0)
                \/ Exit(1) /\ UNCHANGED printed

Proceed(verdict) ==
  CASE verdict = "help" -> Report("usage")
    [] verdict = "error" -> Exit(1) /\ UNCHANGED printed
    [] verdict = "run" -> Continue("base") /\ UNCHANGED printed
ReadArguments ==
  /\ stage = "arguments"
  /\ Proceed(Config.verdict)
  /\ UNCHANGED <<scan, command, loaded, composed, generated>>

TakeBase(document) ==
  \/ /\ document.ok
     /\ composed' = [NoRules EXCEPT !.detectors = document.detectors, !.checks = document.checks]
     /\ Continue("extensions")
  \/ ~ document.ok /\ Exit(1) /\ UNCHANGED composed
LoadBase ==
  /\ stage = "base"
  /\ TakeBase(Load(Config.base, FALSE))
  /\ UNCHANGED <<scan, command, loaded, generated, printed>>

Fits(document) == document.ok /\ Disjoint(composed, document)
TakeExtension(document) ==
  \/ /\ Fits(document)
     /\ composed' = Extend(composed, document)
     /\ loaded' = loaded + 1
     /\ Continue("extensions")
  \/ ~ Fits(document) /\ Exit(1) /\ UNCHANGED <<composed, loaded>>
LoadExtension ==
  /\ stage = "extensions" /\ loaded < Len(Config.extensions)
  /\ TakeExtension(Load(Config.extensions[loaded + 1], TRUE))
  /\ UNCHANGED <<scan, command, generated, printed>>

TakeAway(config) ==
  \/ Known(composed, config) /\ composed' = Exclude(composed, config) /\ Continue("start")
  \/ ~ Known(composed, config) /\ Exit(1) /\ UNCHANGED composed
ExcludeRules ==
  /\ stage = "extensions" /\ loaded = Len(Config.extensions)
  /\ TakeAway(Config)
  /\ UNCHANGED <<scan, command, loaded, generated, printed>>

-----------------------------------------------------------------------------
(* The scan.                                                               *)

NeedsPolicyContent ==
  {<<id>> : id \in {"js", "js-pnpm-workspace", "js-yarnrc", "rust-cargo", "go-mod",
                    "php-composer", "ruby-gemfile"}}
HasEvaluator(type) == \E i \in DOMAIN composed.checks : composed.checks[i].evaluator = type
Matches(d) == (IF d.regex = <<>> THEN Nodes ELSE RegexMatches[d.regex])
              \cap (IF d.glob = <<>> THEN Nodes ELSE GlobMatches[d.glob])
\* A detector as the dispatch sees it.
Dispatched(d) ==
  [matches |-> Matches(d), analyzer |-> d.analyzer # <<>>,
   policyContent |-> d.id \in NeedsPolicyContent,
   verdict |-> IF d.analyzer = <<>> THEN [c \in Contents |-> "other"]
                                    ELSE Behaviour[d.analyzer].verdict]

StartScan ==
  /\ stage = "start"
  /\ Scanner!Start([detectors |-> [i \in DOMAIN composed.detectors |-> Dispatched(composed.detectors[i])],
                    uv |-> HasEvaluator(<<"uv-lockfile-missing">>),
                    ignored |-> {n \in Nodes : BaseName[n] \in Config.ignored}])
  /\ stage' = "scan" /\ UNCHANGED run

ScanStep == stage = "scan" /\ Scanner!Work /\ UNCHANGED <<stage, run>>
OthersEdit == stage = "scan" /\ Scanner!Edit /\ UNCHANGED <<stage, run>>

\* The runtime ends a program whose stack overflows with status 2.
EndScan ==
  /\ stage = "scan"
  /\ \/ outcome = "aborted" /\ Exit(1)
     \/ outcome = "crashed" /\ Exit(2)
     \/ outcome = "done" /\ Continue(IF Format = "none" THEN "report" ELSE "generation")
  /\ UNCHANGED <<scan, command, loaded, composed, generated, printed>>

-----------------------------------------------------------------------------
(* Files and report.                                                       *)

\* What generation does about a source: nothing, write files, or give up.
Effect(s) ==
  LET d == composed.detectors[s.detector]
      offer == IF s.state = "analyzed" THEN Behaviour[d.analyzer].offers[s.basis][Format] ELSE "nothing"
  IN  CASE offer # "nothing" -> offer
        [] d.generate = Format -> "blocked"
        [] OTHER -> "nothing"
Selected(effect) == {s.path : s \in {t \in sources : Effect(t) = effect}}

\* Mutant: what generation reports is lost.
Ignore(code) == stage' = "report" /\ UNCHANGED status
GiveUp(code) == Exit(code)

\* How files are written is told in Generation: after a failure the files that
\* were complete by then remain.
GenerateFiles ==
  /\ stage = "generation"
  /\ \/ /\ Selected("blocked") # {}
        /\ GiveUp(1) /\ UNCHANGED generated
     \/ /\ Selected("blocked") = {}
        /\ \E done \in SUBSET Selected("files") :
             /\ generated' = done
             /\ IF done = Selected("files") THEN Continue("report") ELSE GiveUp(1)
  /\ UNCHANGED <<scan, command, loaded, composed, printed>>

PrintReport ==
  /\ stage = "report"
  /\ Report("report")
  /\ UNCHANGED <<scan, command, loaded, composed, generated>>

Configure == ReadArguments \/ LoadBase \/ LoadExtension \/ ExcludeRules
Work == Configure \/ StartScan \/ ScanStep \/ EndScan \/ GenerateFiles \/ PrintReport
Next == Work \/ OthersEdit
Spec == Init /\ [][Next]_vars /\ WF_vars(Work)

-----------------------------------------------------------------------------
Stages == {"arguments", "base", "extensions", "start", "scan", "generation", "report", "exited"}

\* Every variable has its type.
TypeOK == /\ Scanner!TypeOK
          /\ command \in DOMAIN Commands /\ stage \in Stages
          /\ loaded \in 0 .. Len(Config.extensions)
          /\ \A f \in {"detectors", "checks", "disabled"} : IDs(composed[f]) \subseteq Range(Alphabetical)
          /\ generated \subseteq Nodes
          /\ printed \in {"nothing", "usage", "report"} /\ status \in 0 .. 2

\* Whatever others do to the rest of the tree, a scan that succeeds reports
\* every file they leave alone, once, for the first detector in the order of
\* the composed rules that claims it, or not at all if there is none.
UndisturbedFilesReported == Scanner!UndisturbedFilesReported
\* The checks never judge other bytes than the analysis of the same file.
ChecksSeeAnalyzedBytes == Scanner!ChecksSeeAnalyzedBytes
\* No file, however unreadable or malformed, ends the scan; what does is a root
\* that is no directory, the directory that the walk stands before and cannot
\* list, or an analyzer that breaks its contract or overflows on the file under
\* analysis.  Nor does a pipe that nobody touched hold it up.
FilesNeverAbort == Scanner!FilesNeverAbort

-----------------------------------------------------------------------------
\* The documents of a command, the base as document 0, and their definitions,
\* each by its document and its position there.
DocumentOf(config, k) == Documents[IF k = 0 THEN config.base ELSE config.extensions[k]]
PlacesIn(config, n, field) ==
  UNION {{k} \X DOMAIN DocumentOf(config, k)[field] : k \in 0 .. n}
Definition(config, place, field) == DocumentOf(config, place[1])[field][place[2]]
Precedes(p, q) == p[1] < q[1] \/ (p[1] = q[1] /\ p[2] < q[2])

Places(field) == PlacesIn(Config, Len(Config.extensions), field)
PlaceOf(id, field) == CHOOSE p \in Places(field) : Definition(Config, p, field).id = id
DefinedIDs(config, n, field) == {Definition(config, p, field).id : p \in PlacesIn(config, n, field)}
Defined(field) == DefinedIDs(Config, Len(Config.extensions), field)
Excluded(field) ==
  IF field = "rules" THEN Config.rules \cup UNION {CoveragePresets[p] : p \in Config.presets}
                     ELSE Config.checks

DetectorsInForce ==
  /\ IDs(composed.detectors) = Defined("rules") \ Excluded("rules")
  /\ Len(rules.detectors) = Len(composed.detectors)
  /\ \A i \in DOMAIN composed.detectors :
       LET place == PlaceOf(composed.detectors[i].id, "rules")
           rule == Definition(Config, place, "rules")
       IN  /\ rules.detectors[i].matches =
                {n \in Nodes : /\ rule.regex # <<>> => n \in RegexMatches[rule.regex]
                               /\ rule.glob # <<>> => n \in GlobMatches[rule.glob]}
           /\ \A j \in 1 .. (i - 1) : Precedes(PlaceOf(composed.detectors[j].id, "rules"), place)
ChecksInForce ==
  /\ IDs(composed.checks) = Defined("checks") \ Excluded("checks")
  /\ \A i \in DOMAIN composed.checks : \A j \in 1 .. (i - 1) :
       Position(composed.checks[j].id) < Position(composed.checks[i].id)

\* A scan has gone by exactly the detectors that the base and the extensions of
\* its command define and no exclusion names, in the order of the documents,
\* by exactly the checks that are left, in the order of their identifiers, and
\* knows every detector that was taken away and no other.
RulesInForce ==
  stage = "exited" /\ outcome # "idle" =>
    /\ DetectorsInForce
    /\ ChecksInForce
    /\ IDs(composed.disabled) = Defined("rules") \cap Excluded("rules")

\* The exit status is that of success exactly if something was printed, which
\* is the usage of the program or a report on a complete scan and on all the
\* files that were asked for.  Nothing is written if one source is blocked.
ExitStatusTellsTruth ==
  stage = "exited" =>
    /\ status = 0 <=> printed # "nothing"
    /\ printed = "usage" => outcome = "idle"
    /\ printed = "report" =>
         /\ outcome = "done"
         /\ Format # "none" => Selected("blocked") = {} /\ generated = Selected("files")
    /\ generated # {} => outcome = "done" /\ Format # "none" /\ Selected("blocked") = {}

\* A run ends, whatever others do, unless they put a pipe that nobody writes to
\* where a file has been looked at: the run then waits for a writer.
RunEnds == <>(stage = "exited" \/ Scanner!Waiting)
=============================================================================
