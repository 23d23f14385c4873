---------------------------- MODULE MCGeneration ----------------------------
(***************************************************************************)
(* Small scans for TLC: one source with a group that is skipped between    *)
(* two that are ready; two sources that share the destinations between     *)
(* them; and the ways in which preflight can end early.                    *)
(***************************************************************************)
EXTENDS GenerationInvariant

CONSTANTS r1, r2, c1, c2, c3

MCRuns == {r1, r2}
MCContents == {c1, c2, c3}
NobodyFirst == [r \in MCRuns |-> {}]
\* A rerun in CI: r2 starts when r1 is over.
OneAfterTheOther == [r \in MCRuns |-> IF r = r2 THEN {r1} ELSE {}]

AGroup(location, dest, content) ==
  [format |-> Format, state |-> "ready", location |-> location, dest |-> dest,
   content |-> content, diagnostics |-> FALSE, renders |-> TRUE]
AsMissing(g) == [g EXCEPT !.state = "missing"]
OfNoFormat(g) == [g EXCEPT !.format = NoFormat]
OfOther(g) == [g EXCEPT !.format = IF Format = Python THEN Maven ELSE Python]

AnySource(groups) ==
  [declared |-> NoFormat, extraction |-> "complete", groups |-> groups]
Declaring(groups) == [AnySource(groups) EXCEPT !.declared = Format]
Plain == [AnySource({}) EXCEPT !.extraction = "failed"]

First == AGroup(1, 2, c1)
Second == AGroup(2, 1, c2)
Third == AGroup(1, 3, c3)

\* Two files in one source, in the opposite order of their locations.
OneSource ==
  <<Declaring({OfNoFormat(First), OfNoFormat(AsMissing(AGroup(3, 3, c3))),
               OfNoFormat(Second)})>>
\* Sources with groups of both formats, between them one that takes no part.
TwoSources ==
  <<AnySource({First, OfOther(AGroup(1, 2, c1))}), Plain,
    AnySource({Second, AsMissing(AGroup(5, 3, c3))})>>
\* The groups of the second source reach into the names of the first: the
\* group "b.yaml-c" of "a.yaml" and the group "c" of "a.yaml-b.yaml".
SharedDestination ==
  <<AnySource({First, Second}), AnySource({[Third EXCEPT !.dest = 2]})>>

\* Preflight ends early, after it has accepted the first source.
Failed == [Declaring({}) EXCEPT !.extraction = "failed"]
Ungrouped == Declaring({})
Malformed == AnySource({[Third EXCEPT !.diagnostics = TRUE]})
MalformedMissing == AnySource({[AsMissing(Third) EXCEPT !.diagnostics = TRUE]})
Unrenderable == AnySource({[Third EXCEPT !.renders = FALSE]})

GoodScans == {OneSource, TwoSources}
BadScans == {<<AnySource({First}), s>> :
               s \in {Failed, Ungrouped, Malformed, MalformedMissing,
                      Unrenderable}}
AllScans == GoodScans \cup BadScans
CollidingScans == {SharedDestination}
=============================================================================
