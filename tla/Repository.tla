----------------------------- MODULE Repository -----------------------------
(***************************************************************************)
(* buildEvaluationContext (internal/analyze/findings.go): what the checks  *)
(* know of a repository.  A file has a root (the path of its directory), a *)
(* name, a status and the facts that its reader takes from it.             *)
(*                                                                         *)
(* A file is "ok", "malformed" (it was read and cannot be parsed; its      *)
(* facts are then what it would say otherwise) or "unread" (the scan has   *)
(* no content of it).                                                      *)
(***************************************************************************)
EXTENDS Workspaces

NoFacts == [facts |-> "none"]
File(root, name, status, facts) ==
  [root |-> root, name |-> name, status |-> status, facts |-> facts]

\* manager: "" without packageManager; invalid: it names no manager; catalog:
\* the catalog of its dependency with catalog:<name>, or "none".
PackageJSON(deps, manager, invalid, workspaces, catalog) ==
  [deps |-> deps, manager |-> manager, invalid |-> invalid,
   workspaces |-> workspaces, catalog |-> catalog]
\* entries: the catalogs with an entry for what the manifests refer to, ""
\* being the catalog without a name; invalid: its catalogs cannot be read.
PNPMWorkspace(workspaces, entries, invalid) ==
  [workspaces |-> workspaces, entries |-> entries, invalid |-> invalid]
YarnRC(entries, invalid) == [entries |-> entries, invalid |-> invalid]
Pyproject(deps, managed, workspaces) ==
  [deps |-> deps, managed |-> managed, workspaces |-> workspaces]
\* application: a [[bin]] table or package.default-run.
CargoTOML(deps, package, application, workspaces) ==
  [deps |-> deps, package |-> package, application |-> application,
   workspaces |-> workspaces]
\* The kinds of requirements: replaced by a local path, or external.
GoMod(requirements) == [requirements |-> requirements]
Composer(deps, lockDisabled, type) ==
  [deps |-> deps, lockDisabled |-> lockDisabled, type |-> type]
Gemfile(deps, gemspec) == [deps |-> deps, gemspec |-> gemspec]

\* The detector of each file the checks look at; src/main.rs has none.
DetectorOf(name) ==
  CASE name = "package.json" -> "js"
    [] name \in {"pnpm-workspace.yaml", "pnpm-workspace.yml"} -> "js-pnpm-workspace"
    [] name = ".yarnrc.yml" -> "js-yarnrc"
    [] name = "package-lock.json" -> "js-npm-lock"
    [] name = "npm-shrinkwrap.json" -> "js-npm-shrinkwrap"
    [] name = "pnpm-lock.yaml" -> "js-pnpm-lock"
    [] name = "yarn.lock" -> "js-yarn"
    [] name = "pyproject.toml" -> "python-pyproject"
    [] name = "uv.lock" -> "python-uv"
    [] name = "Cargo.toml" -> "rust-cargo"
    [] name = "Cargo.lock" -> "rust-cargo-lock"
    [] name = "go.mod" -> "go-mod"
    [] name = "go.sum" -> "go-sum"
    [] name = "composer.json" -> "php-composer"
    [] name = "composer.lock" -> "php-composer-lock"
    [] name = "Gemfile" -> "ruby-gemfile"
    [] name = "Gemfile.lock" -> "ruby-gemfile-lock"
    [] OTHER -> "none"

\* What the fields above hold in the files that are read.
Pattern == [segments : Seq(STRING), exclude : BOOLEAN]
FactsOf(detector) ==
  CASE detector = "js" -> [deps : BOOLEAN, manager : STRING, invalid : BOOLEAN,
                           workspaces : Seq(Pattern), catalog : STRING]
    [] detector = "js-pnpm-workspace" ->
         [workspaces : Seq(Pattern), entries : SUBSET STRING, invalid : BOOLEAN]
    [] detector = "js-yarnrc" -> [entries : SUBSET STRING, invalid : BOOLEAN]
    [] detector = "python-pyproject" ->
         [deps : BOOLEAN, managed : BOOLEAN, workspaces : Seq(Pattern)]
    [] detector = "rust-cargo" -> [deps : BOOLEAN, package : BOOLEAN, application : BOOLEAN,
                                   workspaces : Seq(Pattern)]
    [] detector = "go-mod" -> [requirements : SUBSET {"local", "external"}]
    [] detector = "php-composer" -> [deps : BOOLEAN, lockDisabled : BOOLEAN, type : STRING]
    [] detector = "ruby-gemfile" -> [deps : BOOLEAN, gemspec : BOOLEAN]
    [] OTHER -> {NoFacts}

Sources(tree, disabled) == {f \in tree : DetectorOf(f.name) \notin disabled \cup {"none"}}
HasSource(sources, root, name) == \E f \in sources : f.root = root /\ f.name = name
Of(files, detector) == {f \in files : DetectorOf(f.name) = detector}

\* JSON fails on no content; YAML, TOML and go.mod take it for an empty file.
Unparsable(f) ==
  \/ f.status = "malformed" /\ f.name \notin {"Gemfile", ".yarnrc.yml"}
  \/ f.status = "unread" /\ f.name \in {"package.json", "composer.json", "pyproject.toml"}

\* What is read of a file that can be parsed.
Emptied(facts) ==
  [k \in DOMAIN facts |-> IF k = "workspaces" THEN <<>>
                          ELSE IF k \in {"requirements", "entries"} THEN {} ELSE FALSE]
Facts(f) == IF f.status = "unread" THEN Emptied(f.facts) ELSE f.facts
Read(files, detector) == {f \in Of(files, detector) : ~ Unparsable(f)}

JavaScript(sources) == Read(sources, "js")

\* javascriptSpaces: of pnpm, of Yarn configurations (which name no member)
\* and of package.json files.
JavaScriptSpaces(sources) ==
  {Workspace(f.root, Facts(f).workspaces, "pnpm") : f \in Read(sources, "js-pnpm-workspace")}
  \cup {Workspace(f.root, <<>>, "yarn") : f \in Of(sources, "js-yarnrc")}
  \cup {Workspace(f.root, Facts(f).workspaces, Facts(f).manager) :
          f \in {g \in JavaScript(sources) : Facts(g).workspaces # <<>>}}

\* uvWorkspaces and cargoWorkspaces.
ManifestSpaces(manifests, manager) ==
  {Workspace(f.root, Facts(f).workspaces, manager) :
     f \in {g \in manifests : Facts(g).workspaces # <<>>}}

\* Every pyproject.toml is a policy input, whether or not a detector took it.
UV(tree) == Read(tree, "python-pyproject")
Cargo(sources) == Read(sources, "rust-cargo")

ParseErrors(tree, sources) ==
  {f \in sources : Unparsable(f) /\
     DetectorOf(f.name) \in {"js", "js-pnpm-workspace", "rust-cargo", "go-mod", "php-composer"}}
  \cup {f \in Of(tree, "python-pyproject") : Unparsable(f)}
=============================================================================
