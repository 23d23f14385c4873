---------------------------- MODULE PolicyChecks ----------------------------
(***************************************************************************)
(* The end of Scan (internal/analyze/scan.go): the catalog references are  *)
(* resolved, and evaluateChecks (findings.go) goes through the configured  *)
(* checks, each of which adds runs and findings.                           *)
(*                                                                         *)
(* A repository is a set of files (module Repository).  The checks of      *)
(* default_rules.yaml are configured, sorted by their identifiers; one is  *)
(* named here by its evaluator, which is its only configuration.           *)
(***************************************************************************)
EXTENDS LockfileChecks, Catalogs, Codeowners

CONSTANTS
  Scans      \* records [tree, disabled, platform]: files, the detectors that are
             \* disabled, and the platform that the CODEOWNERS check is set to

\* A file where its path says, with what a file of its name is read for.
WellFormed(f) ==
  /\ f.root \in Seq(STRING) /\ f.name \in STRING
  /\ f.status \in {"ok", "malformed", "unread"}
  /\ f.facts \in IF f.name = "CODEOWNERS" THEN OwnersContent ELSE FactsOf(DetectorOf(f.name))
IsRepository(t) ==
  /\ IsFiniteSet(t) /\ \A f \in t : WellFormed(f)
  /\ \A f, g \in t : f.root = g.root /\ f.name = g.name => f = g

ASSUME ScansAssumption ==
  \A s \in Scans : IsRepository(s.tree) /\ s.platform \in {"auto", "github", "gitlab"}

VARIABLES
  tree, disabled, platform,
  resolutions,   \* of each package.json that refers to a catalog
  remaining,     \* the checks that are left
  runs,          \* pairs <<check, run>>
  findings       \* pairs <<check, root of the project, or path of the source>>

vars == <<tree, disabled, platform, resolutions, remaining, runs, findings>>

CheckOrder ==
  <<"codeowners", "go", "conflicting", "npm", "pnpm", "yarn", "composer", "uv", "gemfile", "cargo">>

Init ==
  /\ \E s \in Scans : tree = s.tree /\ disabled = s.disabled /\ platform = s.platform
  /\ resolutions = {}
  /\ remaining = <<"catalogs">> \o CheckOrder
  /\ runs = {} /\ findings = {}

Resolutions(sources) == {<<f, Resolution(sources, f)>> : f \in Referring(sources)}

ResolveCatalogs ==
  /\ remaining # <<>> /\ Head(remaining) = "catalogs"
  /\ resolutions' = Resolutions(Sources(tree, disabled))
  /\ remaining' = Tail(remaining)
  /\ UNCHANGED <<tree, disabled, platform, runs, findings>>

\* Mutant: the loop never gets past a check.
SameChecks(checks) == checks
NextChecks(checks) == Tail(checks)

SourcePaths(sources) == {Append(f.root, f.name) : f \in sources}
\* Its check is skipped only where exclusions have left no source to ask about.
EvaluateCodeowners(sources, configured) ==
  IF sources = {} /\ disabled # {}
    THEN Result({Skipped(<<>>, "detector-disabled")}, {})
    ELSE CodeownersCheck(Inputs(tree), SourcePaths(sources), configured)

EvaluateCheck ==
  /\ remaining # <<>> /\ Head(remaining) \in Evaluators \cup {"codeowners"}
  /\ LET check == Head(remaining)
         result == IF check = "codeowners"
                     THEN EvaluateCodeowners(Sources(tree, disabled), platform)
                     ELSE Evaluate(check, tree, disabled)
     IN  /\ runs' = runs \cup {<<check, r>> : r \in result.runs}
         /\ findings' = findings \cup {<<check, r>> : r \in result.findings}
  /\ remaining' = NextChecks(remaining)
  /\ UNCHANGED <<tree, disabled, platform, resolutions>>

Next == ResolveCatalogs \/ EvaluateCheck

Spec == Init /\ [][Next]_vars

Done == remaining = <<>>
Findings(t, d) ==
  UNION {{<<check, r>> : r \in Evaluate(check, t, d).findings} : check \in Evaluators}
LockfileFindings == {p \in findings : p[1] \in Evaluators}
Runs(t, d) == UNION {{<<check, r>> : r \in Evaluate(check, t, d).runs} : check \in Evaluators}

-----------------------------------------------------------------------------
(* Properties.                                                             *)

Statuses == {"completed", "skipped", "failed"}
Managers == {"npm", "pnpm", "yarn"}
Roots == UNION {Upwards(f.root) : f \in tree}

\* The values of the variables, and what is left to do: a check has runs only
\* once its turn has come.
TypeOK ==
  /\ \E n \in 1 .. Len(CheckOrder) + 2 :
       remaining = SubSeq(<<"catalogs">> \o CheckOrder, n, Len(CheckOrder) + 1)
  /\ \A p \in runs : /\ p[1] \in Evaluators \cup {"codeowners"}
                     /\ p[2].root \in Roots \cup {<<>>}
                     /\ p[2].status \in Statuses
                     /\ \A i \in DOMAIN remaining : remaining[i] # p[1]
  /\ \A p \in findings :
       <<p[1], Completed(IF p[1] = "codeowners" THEN <<>> ELSE p[2])>> \in runs
  /\ \A p \in resolutions : p[1] \in JavaScript(tree) /\ p[2].resolved \in BOOLEAN

\* The members of a workspace, written as sets of paths: each pattern adds the
\* paths it names to those so far, or takes them away.
Expansion(patterns, paths) ==
  LET named(i) == {p \in paths : PathGlobMatches(patterns[i].segments, p)}
      upto[i \in 0 .. Len(patterns)] ==
        IF i = 0 THEN {}
        ELSE IF patterns[i].exclude THEN upto[i - 1] \ named(i) ELSE upto[i - 1] \cup named(i)
  IN  upto[Len(patterns)]
\* The project of a root, found by walking up from it: the first directory
\* with a workspace that has it as a member.
Owners(root, spaces) ==
  LET ahead == {n \in 0 .. Len(root) - 1 :
        \E w \in spaces : /\ w.root = SubSeq(root, 1, n)
                          /\ SubSeq(root, n + 1, Len(root)) \in
                               Expansion(w.patterns, {SubSeq(root, n + 1, Len(root))})}
  IN  IF ahead = {} THEN root ELSE SubSeq(root, 1, CHOOSE n \in ahead : \A k \in ahead : k <= n)

EcosystemRoots(check, sources) ==
  CASE check \in Managers \cup {"conflicting"} ->
         {Owners(f.root, JavaScriptSpaces(sources)) : f \in JavaScript(sources)}
    [] check = "uv" -> {Owners(f.root, ManifestSpaces(UV(tree), "uv")) : f \in UV(tree)}
    [] check = "cargo" ->
         {Owners(f.root, ManifestSpaces(Cargo(sources), "cargo")) : f \in Cargo(sources)}
    [] OTHER -> Roots

\* A check completes on the innermost workspace around a manifest that counts
\* it as a member, and on no member in its own right (ARCHITECTURE.md: member
\* manifests are attached to explicit owners, directory ancestry is not enough).
VerdictsAtNearestOwner ==
  Done => LET sources == Sources(tree, disabled)
          IN  \A p \in runs : p[1] \in Evaluators /\ p[2].status = "completed" =>
                p[2].root \in EcosystemRoots(p[1], sources)

\* A JavaScript project gets at most one finding, of one manager or of a
\* conflict, and none of a manager whose check was skipped there.
OneVerdictPerProject ==
  \A p, q \in findings :
    {p[1], q[1]} \subseteq Managers \cup {"conflicting"} /\ p[2] = q[2] => p = q

\* Disabling detectors may only cost findings of lockfiles, whatever evidence
\* goes with them (README.md: "Skips are conservative").
ExclusionsNeverAddFindings ==
  Done => LockfileFindings \subseteq Findings(tree, {})

\* The lockfiles that the documentation accepts.
Accepted(check) ==
  CASE check = "npm" -> {"package-lock.json", "npm-shrinkwrap.json"}
    [] check = "pnpm" -> {"pnpm-lock.yaml"} [] check = "yarn" -> {"yarn.lock"}
    [] check = "uv" -> {"uv.lock"} [] check = "cargo" -> {"Cargo.lock"}
    [] check = "go" -> {"go.sum"} [] check = "composer" -> {"composer.lock"}
    [] check = "gemfile" -> {"Gemfile.lock"}
\* What a reader of a finding may do: commit a lockfile that is missing, or
\* keep those of one manager.
Repaired(check, root) ==
  IF check # "conflicting"
    THEN {tree \cup {File(root, name, "ok", NoFacts)} : name \in Accepted(check)}
    ELSE {{f \in tree : ~ (/\ f.root = root
                           /\ \E m \in Managers \ {kept} : f.name \in Accepted(m))} :
          kept \in LockManagers(tree, root)}
\* Doing what a finding asks for settles it: the check completes there without
\* the finding, and no other finding comes up.
RemediationSettles ==
  Done => \A p \in LockfileFindings : \A t \in Repaired(p[1], p[2]) :
    /\ Findings(t, disabled) \subseteq findings \ {p}
    /\ <<p[1], Completed(p[2])>> \in Runs(t, disabled)

\* The catalogs and the lockfile checks agree on the workspace of a manifest:
\* where a reference resolves through a configuration above the manifest, the
\* lockfile is expected at that root, and of no other manager.
CatalogsAgreeWithLockfiles ==
  Done => \A p \in resolutions : p[2].resolved /\ p[2].root # p[1].root =>
    /\ WorkspaceOwner(p[1].root, JavaScriptSpaces(Sources(tree, disabled))) = p[2].root
    /\ \A m \in Managers \ {p[2].manager} : <<m, p[2].root>> \notin findings

\* The manifests a check has to say something about: those it cannot read, and
\* those that have what it judges.
Questions(check) ==
  CASE check = "conflicting" -> Of(tree, "js")
    [] check = "uv" -> Of(tree, "python-pyproject") \ UV(tree)
    [] check = "cargo" -> {f \in Of(tree, "rust-cargo") :
                             Unparsable(f) \/ (Facts(f).deps /\ Facts(f).package)}
    [] check = "go" -> {f \in Of(tree, "go-mod") : Unparsable(f) \/ Facts(f).requirements # {}}
    [] check = "composer" -> {f \in Of(tree, "php-composer") : Unparsable(f) \/ Facts(f).deps}
    [] check = "gemfile" -> {f \in Of(tree, "ruby-gemfile") : Facts(f).deps}
    [] OTHER -> {}
\* No manifest is passed over in silence: while its detector is on, each one
\* is answered by a run of its ecosystem, completed, skipped or failed, at its
\* own root or at that of its workspace.
ManifestsAreAnsweredFor ==
  Done => \A check \in Evaluators : \A f \in Questions(check) :
    DetectorOf(f.name) \notin disabled =>
      \E p \in runs :
        /\ p[1] = check /\ p[2].root \in Upwards(f.root)
        /\ p[2].status = "completed" => ~ Unparsable(f)
        /\ p[2].status # "completed" => p[2].root = f.root

\* The lines of a file that belong to a section, by the last header before.
HeaderOf(lines, i) ==
  LET headers == {j \in 1 .. i - 1 : lines[j].kind = "section"}
  IN  IF headers = {} THEN Section("", "none")
      ELSE lines[CHOOSE j \in headers : \A k \in headers : k <= j]
\* A section of all its parts covers a path if it excludes it nowhere and the
\* last rule for it has an owner, of its own or from its header.
OwnedSomewhere(lines, path) ==
  \E key \in {""} \cup {lines[i].key : i \in {j \in DOMAIN lines : lines[j].kind = "section"}} :
    LET hits == {i \in DOMAIN lines : /\ lines[i].kind # "section" /\ path \in lines[i].paths
                                      /\ HeaderOf(lines, i).key = key}
    IN  /\ hits # {} /\ \A i \in hits : lines[i].kind = "rule"
        /\ LET last == CHOOSE i \in hits : \A j \in hits : j <= i
           IN  ValidForGitLab(lines[last].owners) \/ ValidForGitLab(HeaderOf(lines, last).owners)
\* On GitLab a source is reported exactly if no section of the file covers it,
\* however its sections are split, repeated and overridden.
SectionsDecideTogether ==
  Done /\ platform = "gitlab" /\ Sources(tree, disabled) # {} =>
    \A f \in Located(Inputs(tree), "gitlab") : f.status = "ok" =>
      \A p \in SourcePaths(Sources(tree, disabled)) :
        <<"codeowners", p>> \in findings <=> ~ OwnedSomewhere(f.facts.lines, p)

\* The automatic choice guesses no platform ("Ambiguous inputs produce skipped
\* or failed check runs", ARCHITECTURE.md): where it completes, a platform
\* that keeps its rules where it found them would have had the same findings.
NoGuessedPlatform ==
  Done /\ platform = "auto" /\ <<"codeowners", OwnersRun("completed")>> \in runs =>
    LET sources == Sources(tree, disabled)
        reported == {p[2] : p \in {q \in findings : q[1] = "codeowners"}}
        mark == [github |-> <<".github">>, gitlab |-> <<".gitlab">>]
        marks == {f.root : f \in Inputs(tree)} \cap {mark.github, mark.gitlab}
    IN  \A other \in {"github", "gitlab"} :
          marks \subseteq {mark[other]} =>
            EvaluateCodeowners(sources, other).findings = reported
=============================================================================
