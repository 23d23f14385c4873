--------------------------- MODULE SourceAnalysis ---------------------------
(***************************************************************************)
(* What an analyzer says of one file (internal/analyze/scan.go, rules.go): *)
(* the state of the analysis, and which results the scan accepts.  A       *)
(* result counts its dependencies and diagnostics: warnings and errors, and *)
(* as malformed those with another severity, a code that does not match    *)
(* diagnosticCodeRegexp or an empty message.                               *)
(***************************************************************************)
EXTENDS Naturals

Presences == {"unknown", "absent", "present"}
Extractions == {"unsupported", "failed", "complete", "partial"}
Analysis == [presence : Presences, extraction : Extractions]
Is(presence, extraction) == [presence |-> presence, extraction |-> extraction]

CompleteAnalysis(dependencies) ==
  Is(IF dependencies = 0 THEN "absent" ELSE "present", "complete")
PresenceAnalysis(present) ==
  Is(IF present THEN "present" ELSE "absent", "unsupported")
IdentifiedAnalysis == Is("unknown", "unsupported")
FailedAnalysis == Is("unknown", "failed")

ValidSourceAnalysis(analysis) ==
  analysis \in {Is("unknown", "unsupported"), Is("unknown", "failed"),
                Is("absent", "unsupported"), Is("absent", "complete"),
                Is("present", "unsupported"), Is("present", "complete"),
                Is("present", "partial")}

AnalyzerResult == [analysis : Analysis, dependencies : Nat,
                   warnings : Nat, errors : Nat, malformed : Nat]

\* A result that breaks one of these rules aborts the scan.
ValidSourceAnalyzerResult(result) ==
  /\ ValidSourceAnalysis(result.analysis)
  /\ result.dependencies > 0 => result.analysis.presence = "present"
  /\ result.analysis.extraction = "partial" =>
       result.dependencies # 0 /\ result.warnings # 0
  /\ result.analysis.extraction = "failed" => result.errors # 0
  /\ result.malformed = 0
=============================================================================
