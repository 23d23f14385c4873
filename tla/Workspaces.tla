----------------------------- MODULE Workspaces -----------------------------
(***************************************************************************)
(* Path globs (internal/analyze/rules.go) and the ownership of projects by *)
(* workspaces (findings.go).  A path relative to the root of the scan is a *)
(* sequence of names; the root itself is <<>>.                             *)
(***************************************************************************)
EXTENDS Naturals, Sequences, FiniteSets

\* path.Match on one segment, for patterns that are a name or one wildcard.
SegmentMatches(segment, name) == segment = "*" \/ segment = name

\* match[i, j]: the pattern from i on matches the path from j on.
PathGlobMatches(pattern, path) ==
  LET match[i \in 1 .. Len(pattern) + 1, j \in 1 .. Len(path) + 1] ==
        \/ i > Len(pattern) /\ j > Len(path)
        \/ /\ i <= Len(pattern) /\ pattern[i] = "**"
           /\ \E k \in j .. Len(path) + 1 : match[i + 1, k]
        \/ /\ i <= Len(pattern) /\ pattern[i] # "**" /\ j <= Len(path)
           /\ SegmentMatches(pattern[i], path[j])
           /\ match[i + 1, j + 1]
  IN  match[1, 1]

\* A pattern of a workspace, and one that takes paths out again.
Member(segments) == [segments |-> segments, exclude |-> FALSE]
Except(segments) == [segments |-> segments, exclude |-> TRUE]

\* Mutant: the first pattern that matches decides.
FirstHit(hits) == CHOOSE i \in hits : \A j \in hits : i <= j
DecidingHit(hits) == CHOOSE i \in hits : \A j \in hits : j <= i

\* The patterns are gone through in order, and each that matches overrules
\* those before it.
WorkspaceMatches(relative, patterns) ==
  LET hits == {i \in DOMAIN patterns : PathGlobMatches(patterns[i].segments, relative)}
  IN  hits # {} /\ ~ patterns[DecidingHit(hits)].exclude

IsAncestorRoot(ancestor, child) ==
  Len(ancestor) < Len(child) /\ SubSeq(child, 1, Len(ancestor)) = ancestor
Relative(ancestor, child) == SubSeq(child, Len(ancestor) + 1, Len(child))

Workspace(root, patterns, manager) ==
  [root |-> root, patterns |-> patterns, manager |-> manager]

\* Mutant: the outermost workspace wins.
Outermost(roots) == CHOOSE r \in roots : \A s \in roots : Len(r) <= Len(s)
\* All of them are ancestors of one project, so that lengths tell them apart.
Longest(roots) == CHOOSE r \in roots : \A s \in roots : Len(s) <= Len(r)

\* javascriptWorkspaceOwner, for every ecosystem: the innermost workspace
\* around a project that has it as a member, or the project itself.
WorkspaceOwner(project, workspaces) ==
  LET owners == {w.root : w \in {v \in workspaces :
                   /\ IsAncestorRoot(v.root, project)
                   /\ WorkspaceMatches(Relative(v.root, project), v.patterns)}}
  IN  IF owners = {} THEN project ELSE Longest(owners)
=============================================================================
