--------------------------- MODULE LockfileChecks ---------------------------
(***************************************************************************)
(* The evaluators of the lockfile checks (internal/analyze/findings.go)    *)
(* and the runs that replace them when detectors they rely on are disabled *)
(* (exclusions.go).  Each returns its check runs and its findings.         *)
(* Wording, locations and evidence are left out.                           *)
(***************************************************************************)
EXTENDS Repository

Completed(root) == [root |-> root, status |-> "completed"]
Skipped(root, reason) == [root |-> root, status |-> "skipped", reason |-> reason]
Failed(file) == [root |-> file.root, status |-> "failed", file |-> file.name]
FailedRuns(errors, detector) == {Failed(f) : f \in Of(errors, detector)}
Result(runs, findings) == [runs |-> runs, findings |-> findings]

\* Mutant: npm-shrinkwrap.json is forgotten.
CommonNames(manager) ==
  CASE manager = "npm" -> {"package-lock.json"}
    [] manager = "pnpm" -> {"pnpm-lock.yaml"}
    [] manager = "yarn" -> {"yarn.lock"}
\* The lockfiles of the JavaScript package managers.
LockfileNames(manager) ==
  CASE manager = "npm" -> {"package-lock.json", "npm-shrinkwrap.json"}
    [] manager = "pnpm" -> {"pnpm-lock.yaml"}
    [] manager = "yarn" -> {"yarn.lock"}
HasLockfile(sources, root, names) == \E n \in names : HasSource(sources, root, n)
LockManagers(sources, root) ==
  {m \in {"npm", "pnpm", "yarn"} : HasLockfile(sources, root, LockfileNames(m))}

\* The manifests that are judged as one project, by the root of their owner.
Projects(sources) ==
  LET spaces == JavaScriptSpaces(sources)
      owner == [f \in JavaScript(sources) |-> WorkspaceOwner(f.root, spaces)]
  IN  [root \in {owner[f] : f \in DOMAIN owner} |-> {f \in DOMAIN owner : owner[f] = root}]

\* The manager of each workspace at a root, where it has one.
SpaceManagers(sources, root) ==
  {w.manager : w \in {v \in JavaScriptSpaces(sources) : v.root = root}}
\* Mutant: what the lockfiles say of the manager does not count.
DeclaredManagers(sources, root, members) ==
  ({Facts(f).manager : f \in members} \cup SpaceManagers(sources, root)) \ {""}
ProjectManagers(sources, root, members) ==
  (({Facts(f).manager : f \in members} \cup SpaceManagers(sources, root)) \ {""})
  \cup LockManagers(sources, root)

JavaScriptLockfile(errors, sources, manager) ==
  LET projects == Projects(sources)
      managers(root) == ProjectManagers(sources, root, projects[root])
      selected == {root \in DOMAIN projects : /\ \E f \in projects[root] : Facts(f).deps
                                              /\ manager \in managers(root)}
      ambiguous == {root \in selected : \/ \E f \in projects[root] : Facts(f).invalid
                                        \/ Cardinality(managers(root)) # 1}
      clear == selected \ ambiguous
  IN  Result(FailedRuns(errors, "js")
             \cup (IF manager = "pnpm" THEN FailedRuns(errors, "js-pnpm-workspace") ELSE {})
             \cup {Skipped(root, "ambiguous-package-manager") : root \in ambiguous}
             \cup {Completed(root) : root \in clear},
             {root \in clear : ~ HasLockfile(sources, root, LockfileNames(manager))})

ConflictingLockfiles(errors, sources) ==
  LET roots == DOMAIN Projects(sources)
  IN  Result(FailedRuns(errors, "js") \cup {Completed(root) : root \in roots},
             {root \in roots : Cardinality(LockManagers(sources, root)) >= 2})

UVLockfile(errors, tree, sources) ==
  LET spaces == ManifestSpaces(UV(tree), "uv")
      owner(f) == WorkspaceOwner(f.root, spaces)
      managed(f) == \E g \in UV(tree) : g.root = owner(f) /\ Facts(g).managed
      roots == {owner(f) : f \in {g \in UV(tree) : Facts(g).deps /\ managed(g)}}
  IN  Result(FailedRuns(errors, "python-pyproject") \cup {Completed(root) : root \in roots},
             {root \in roots : ~ HasSource(sources, root, "uv.lock")})

\* Mutant: the lockfile is looked for beside each manifest.
OwnRoot(manifest, spaces) == manifest.root
CargoOwner(manifest, spaces) == WorkspaceOwner(manifest.root, spaces)

IsApplication(tree, f) ==
  Facts(f).application \/ HasSource(tree, f.root \o <<"src">>, "main.rs")
CargoLockfile(errors, tree, sources) ==
  LET spaces == ManifestSpaces(Cargo(sources), "cargo")
      packages == {f \in Cargo(sources) : /\ Facts(f).deps
                                          /\ Facts(f).package \/ Facts(f).workspaces = <<>>}
      applications == {f \in packages : IsApplication(tree, f)}
      roots == {CargoOwner(f, spaces) : f \in applications}
  IN  Result(FailedRuns(errors, "rust-cargo")
             \cup {Skipped(f.root, "project-role-unknown") : f \in packages \ applications}
             \cup {Completed(root) : root \in roots},
             {root \in roots : ~ HasSource(sources, root, "Cargo.lock")})

\* The evaluators that look beside each manifest: skipped are the runs of those
\* that need no lockfile, or may not.
LockfileBeside(skipped, judged, sources, lockfile) ==
  Result(skipped \cup {Completed(f.root) : f \in judged},
         {f.root : f \in {g \in judged : ~ HasSource(sources, g.root, lockfile)}})

GoSum(errors, sources) ==
  LET modules == {f \in Read(sources, "go-mod") : Facts(f).requirements # {}}
      judged == {f \in modules : "external" \in Facts(f).requirements}
  IN  LockfileBeside(FailedRuns(errors, "go-mod") \cup
                       {Skipped(f.root, "local-dependencies-only") : f \in modules \ judged},
                     judged, sources, "go.sum")

NotLocked(f) ==
  CASE Facts(f).lockDisabled -> "lockfile-disabled"
    [] ~ Facts(f).lockDisabled /\ Facts(f).type = "unknown" -> "project-role-unknown"
    [] OTHER -> "not-application"
ComposerLockfile(errors, sources) ==
  LET manifests == {f \in Read(sources, "php-composer") : Facts(f).deps}
      judged == {f \in manifests : ~ Facts(f).lockDisabled /\ Facts(f).type = "project"}
  IN  LockfileBeside(FailedRuns(errors, "php-composer") \cup
                       {Skipped(f.root, NotLocked(f)) : f \in manifests \ judged},
                     judged, sources, "composer.lock")

GemfileLockfile(sources) ==
  LET gemfiles == {f \in Read(sources, "ruby-gemfile") : Facts(f).deps}
      judged == {f \in gemfiles : ~ Facts(f).gemspec}
  IN  LockfileBeside({Skipped(f.root, "not-application") : f \in gemfiles \ judged},
                     judged, sources, "Gemfile.lock")

-----------------------------------------------------------------------------
(* Disabled detectors.                                                     *)

Evaluators == {"npm", "pnpm", "yarn", "conflicting", "uv", "cargo", "go", "composer", "gemfile"}
JavaScriptLocks == {"js-npm-lock", "js-npm-shrinkwrap", "js-pnpm-lock", "js-yarn"}

\* Mutant: the lockfiles of other managers are not relied on.
FewerPrerequisites(evaluator) ==
  CASE evaluator \in {"npm", "pnpm", "yarn"} -> {"js", "js-pnpm-workspace", "js-yarnrc"}
    [] OTHER -> {}
\* evaluatorDetectors
Prerequisites(evaluator) ==
  CASE evaluator \in {"npm", "pnpm", "yarn"} ->
         {"js", "js-pnpm-workspace", "js-yarnrc"} \cup JavaScriptLocks
    [] evaluator = "conflicting" -> {"js", "js-pnpm-workspace"} \cup JavaScriptLocks
    [] evaluator = "uv" -> {"python-pyproject", "python-uv"}
    [] evaluator = "cargo" -> {"rust-cargo", "rust-cargo-lock"}
    [] evaluator = "go" -> {"go-mod", "go-sum"}
    [] evaluator = "composer" -> {"php-composer", "php-composer-lock"}
    [] evaluator = "gemfile" -> {"ruby-gemfile", "ruby-gemfile-lock"}

\* Where the skipped check would have looked: every root of what it reads.
ReadRoots(evaluator, tree, sources) ==
  {f.root : f \in
     CASE evaluator \in {"npm", "pnpm", "yarn", "conflicting"} ->
            JavaScript(sources) \cup JavaScriptSpaces(sources)
       [] evaluator = "uv" -> UV(tree)
       [] evaluator = "cargo" -> Cargo(sources)
       [] evaluator = "go" -> Read(sources, "go-mod")
       [] evaluator = "composer" -> Read(sources, "php-composer")
       [] evaluator = "gemfile" -> Read(sources, "ruby-gemfile")}
OrTop(roots) == IF roots = {} THEN {<<>>} ELSE roots
\* Mutant: what cannot be parsed is not listed.
ReadableRoots(evaluator, tree, sources) == OrTop(ReadRoots(evaluator, tree, sources))
KnownRoots(evaluator, tree, sources) ==
  OrTop(ReadRoots(evaluator, tree, sources) \cup
        {f.root : f \in {g \in ParseErrors(tree, sources) :
                           DetectorOf(g.name) \in Prerequisites(evaluator)}})
DisabledRuns(evaluator, tree, sources) ==
  {Skipped(root, "detector-disabled") : root \in KnownRoots(evaluator, tree, sources)}

\* One round of the loop in evaluateChecks.
Evaluate(evaluator, tree, disabled) ==
  LET sources == Sources(tree, disabled)
      errors == ParseErrors(tree, sources)
  IN  IF Prerequisites(evaluator) \cap disabled # {}
        THEN Result(DisabledRuns(evaluator, tree, sources), {})
        ELSE CASE evaluator \in {"npm", "pnpm", "yarn"} -> JavaScriptLockfile(errors, sources, evaluator)
               [] evaluator = "conflicting" -> ConflictingLockfiles(errors, sources)
               [] evaluator = "uv" -> UVLockfile(errors, tree, sources)
               [] evaluator = "cargo" -> CargoLockfile(errors, tree, sources)
               [] evaluator = "go" -> GoSum(errors, sources)
               [] evaluator = "composer" -> ComposerLockfile(errors, sources)
               [] evaluator = "gemfile" -> GemfileLockfile(sources)
=============================================================================
