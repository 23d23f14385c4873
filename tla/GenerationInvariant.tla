------------------------ MODULE GenerationInvariant ------------------------
(***************************************************************************)
(* The inductive invariant of Generation: what each step of a run knows    *)
(* about the steps before it.                                              *)
(***************************************************************************)
EXTENDS Generation

AtGroup == {"group", "directory", "destination"}
AtPlan == Writing \ {"write"}

\* What preflight has looked at so far, the plan at hand not included.
LookedAt(r) ==
  {p \in Wanted :
     /\ \/ p.source < source[r]
        \/ pc[r] \in AtGroup /\ p.source = source[r] /\ p.group \notin todo[r]
     /\ pc[r] \in {"directory", "destination"} => p # current[r]}

Sound(p) == ~p.group.diagnostics /\ (p.group.state = "ready" => p.group.renders)

\* In preflight: exactly what has been looked at is planned or reported.
PreflightInv(r) ==
  pc[r] \in {"idle"} \cup Preflight =>
    /\ source[r] >= 1
    /\ \A i \in DOMAIN scan :
         i < source[r] /\ Selected(scan[i]) => ~Unusable(scan[i])
    /\ \A p \in LookedAt(r) : Sound(p)
    /\ plans[r] = Ready(LookedAt(r))
    /\ outcomes[r] = LookedAt(r) \ Ready(LookedAt(r))

\* Before the first group, and between the groups of one source.
CursorInv(r) ==
  /\ pc[r] = "idle" => source[r] = 1
  /\ pc[r] \in AtGroup => /\ source[r] \in DOMAIN scan
                          /\ Selected(scan[source[r]])
                          /\ ~Unusable(scan[source[r]])
                          /\ todo[r] \subseteq Chosen(scan[source[r]])
  /\ pc[r] \in {"directory", "destination"} =>
       /\ current[r] \in Ready(Wanted)
       /\ current[r].source = source[r]
       /\ current[r].group \notin todo[r]
       /\ ~current[r].group.diagnostics

\* Past preflight: everything wanted is planned or reported.
WritingInv(r) ==
  pc[r] \in Writing \cup {"done"} =>
    /\ Admissible
    /\ plans[r] = Ready(Wanted)
    /\ outcomes[r] \subseteq Wanted
    /\ Wanted \ Ready(Wanted) \subseteq outcomes[r]

\* The plan at hand is the next one, and the mode decides how it is written.
PlanInv(r) ==
  /\ pc[r] \in AtPlan =>
       /\ current[r] \in Remaining(r)
       /\ \A q \in Remaining(r) : Dest(r) <= q.group.dest
  /\ pc[r] = "fill" => r \notin Overwrite
  /\ pc[r] \in {"temporary", "rename"} => r \in Overwrite
  /\ pc[r] = "done" => Remaining(r) = {}

\* Only a run that is past preflight has left anything in the tree.
TraceInv(r) ==
  HasWritten(r) => /\ pc[r] \notin {"idle"} \cup Preflight
                   /\ Admissible /\ plans[r] = Ready(Wanted)

RunInv(r) == /\ PreflightInv(r) /\ CursorInv(r) /\ WritingInv(r)
             /\ PlanInv(r) /\ TraceInv(r)

IInv == TypeOK /\ \A r \in Runs : RunInv(r)
-----------------------------------------------------------------------------
(* What else is invariant: how reported files, and failures, come about.   *)

\* The file of a plan is there and holds what it should, or somebody else has
\* touched it.
InPlace(p) == /\ node[p.group.dest].kind = "file"
              /\ node[p.group.dest].content = p.group.content
              /\ node[p.group.dest].whole
Kept(p) == p.group.dest \in edited \/ InPlace(p)

\* A file that a run is filling is its own, or that of an overwriting run that
\* has put the same content in its place.
IntactInv ==
  SeparateDestinations =>
    \A r \in Runs :
      /\ pc[r] \in Writing \cup {"done"} => \A p \in Published(r) : Kept(p)
      /\ pc[r] = "fill" => IsOpen(r) \/ Kept(current[r])

\* Runs leave files, and nothing else.
FilesInv == \A d \in Dests : node[d].by \in Runs => node[d].kind = "file"

\* What an overwriting run cannot replace stays where it is, and an overwriting
\* run that has planned a destination has seen that it is not in the way.
InTheWay(d) == node[d].kind \in {"link", "directory"}
FailureInv ==
  Format = Python =>
    /\ \A r \in Runs : pc[r] \notin {"directory", "mkdir"}
    /\ edited = {} =>
         \A r \in Overwrite :
           /\ \A p \in plans[r] : ~InTheWay(p.group.dest)
           /\ pc[r] = "failed" => \/ ioError[r] \/ ~Admissible
                                 \/ \E d \in Dests : InTheWay(d)

\* Plans are carried out in the order of their destinations.
OrderInv ==
  \A r \in Runs : \A p \in Published(r), q \in Remaining(r) :
    p.group.dest <= q.group.dest

\* Runs without the overwrite flag race for the same destinations.
Race == /\ Format = Python /\ Overwrite = {} /\ Admissible
        /\ SeparateDestinations /\ Undisturbed /\ Unobstructed
\* A run's files are those it has reported and the one it is filling.
OwnFiles(r) ==
  \A d \in Dests : node[d].by = r =>
    \E p \in plans[r] : /\ p.group.dest = d
                        /\ p \in outcomes[r] \/ (pc[r] = "fill" /\ p = current[r])
\* A run that has lost was stopped by a file beyond all of its own.
Overtaken(r) ==
  \E d \in Dests : /\ node[d].by \in Runs
                   /\ \A e \in Dests : node[e].by = r => e < d
RaceInv ==
  Race => /\ \E n \in Nat : \A d \in Dests : node[d].by \in Runs => d <= n
          /\ \A r \in Runs : /\ OwnFiles(r)
                             /\ pc[r] = "failed" => Overtaken(r)
=============================================================================
