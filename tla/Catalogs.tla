------------------------------ MODULE Catalogs ------------------------------
(***************************************************************************)
(* resolveJavaScriptCatalogs (internal/analyze/javascript_catalog.go): the *)
(* configuration that owns the catalog references of a package.json, and   *)
(* whether its reference is resolved.  The entries of a catalog are        *)
(* abstracted to whether it has one that can be normalized.                *)
(***************************************************************************)
EXTENDS Repository

Configs(sources) == Of(sources, "js-pnpm-workspace") \cup Of(sources, "js-yarnrc")
ConfigManager(config) == IF DetectorOf(config.name) = "js-yarnrc" THEN "yarn" ELSE "pnpm"

\* An empty document is no mapping.
ConfigFails(config) == config.status # "ok" \/ config.facts.invalid

\* manifests[root], of which there is at most one.
ManifestsAt(sources, root) == {f \in JavaScript(sources) : f.root = root}

\* Yarn takes the workspaces of the package.json beside its configuration.
ConfigPatterns(sources, config) ==
  LET beside == ManifestsAt(sources, config.root)
  IN  IF ConfigManager(config) = "pnpm" THEN Facts(config).workspaces
      ELSE IF beside = {} THEN <<>> ELSE Facts(CHOOSE f \in beside : TRUE).workspaces

\* The root itself and all above it.
Upwards(root) == {SubSeq(root, 1, n) : n \in 0 .. Len(root)}
CandidateRoots(sources, root) == {c.root : c \in Configs(sources)} \cap Upwards(root)

OtherManager(f, manager) ==
  Facts(f).invalid \/ Facts(f).manager \notin {"", manager}

\* A package.json between a manifest and the configuration that starts a
\* project of its own.
Nested(f, config, patterns) ==
  \/ Facts(f).workspaces # <<>> \/ Facts(f).manager # "" \/ Facts(f).invalid
  \/ ~ WorkspaceMatches(Relative(config.root, f.root), patterns)

\* Mutant: only the pattern that the manifest itself matches counts.
MemberOnly(sources, manifest, config) ==
  config.root = manifest.root
  \/ WorkspaceMatches(Relative(config.root, manifest.root), ConfigPatterns(sources, config))
\* Whether the configuration found for a manifest is that of its project.
BelongsTo(sources, manifest, config) ==
  LET patterns == ConfigPatterns(sources, config)
      between == {f \in JavaScript(sources) : /\ IsAncestorRoot(config.root, f.root)
                                              /\ IsAncestorRoot(f.root, manifest.root)}
  IN  config.root = manifest.root
      \/ /\ Facts(manifest).workspaces = <<>>
         /\ WorkspaceMatches(Relative(config.root, manifest.root), patterns)
         /\ \A f \in between : ~ Nested(f, config, patterns)

Unresolved == [resolved |-> FALSE]
ResolvedBy(config) ==
  [resolved |-> TRUE, root |-> config.root, manager |-> ConfigManager(config)]

\* The default catalog of pnpm has two names, that of Yarn is not "default".
CatalogName(manifest, config) ==
  IF ConfigManager(config) = "pnpm" /\ Facts(manifest).catalog = ""
    THEN "default" ELSE Facts(manifest).catalog

\* javascriptCatalogOwner, then the lookup of the entry.
Resolution(sources, manifest) ==
  LET roots == CandidateRoots(sources, manifest.root)
      found == {c \in Configs(sources) : c.root = Longest(roots)}
      config == CHOOSE c \in found : TRUE
      manager == ConfigManager(config)
      owners == ManifestsAt(sources, config.root)
      Owned == /\ roots # {} /\ Cardinality(found) = 1
               /\ ~ ConfigFails(config)
               /\ \A f \in owners \cup {manifest} : ~ OtherManager(f, manager)
               /\ BelongsTo(sources, manifest, config)
  IN  IF Owned /\ CatalogName(manifest, config) \in Facts(config).entries
        THEN ResolvedBy(config) ELSE Unresolved

Referring(sources) == {f \in JavaScript(sources) : Facts(f).catalog # "none"}
=============================================================================
