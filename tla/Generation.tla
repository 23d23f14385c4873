----------------------------- MODULE Generation -----------------------------
(***************************************************************************)
(* Generate and writeGeneratedFile (internal/analyze/generate.go): the     *)
(* phase that turns the dependency groups of a scan into files.  Several   *)
(* runs of the program act on one tree, and somebody else may edit the     *)
(* tree between any two calls of a run to the operating system.            *)
(*                                                                         *)
(* A destination is the number its root-relative path takes in string      *)
(* order.  A group carries the destination that its name leads to; module  *)
(* GroupNaming models that conversion, and shows what is assumed here:     *)
(* the groups of one source never share a destination.                     *)
(*                                                                         *)
(* For Maven output a destination d is the pom.xml of a directory of its   *)
(* own: dir[d] is that directory (a symbolic link to a directory is a      *)
(* "link", another file is "blocked"), node[d] and litter[d] are what is   *)
(* reached through it, litter[d] the entries other than pom.xml.  For      *)
(* Python output litter[d] is the temporary files made beside d.           *)
(***************************************************************************)
EXTENDS Naturals, Sequences, FiniteSets

CONSTANTS Runs,       \* executions of the program on one tree
          Overwrite,  \* the runs started with --overwrite-generated
          After,      \* After[r]: runs that have ended when r starts
          Format,     \* the format the runs generate
          Python, Maven, NoFormat,
          Scans,      \* scan results: sequences of sources
          Dests,      \* destinations, numbered in string order
          Contents,   \* contents a group's dependencies are rendered to
          NoContent, Env, NoPlan,
          EditBudget  \* bound on the edits somebody else makes to the tree

Formats == {Python, Maven, NoFormat}
States == {"missing", "empty", "ready"}
Extractions == {"unsupported", "complete", "partial", "failed"}

Group == [format : Formats, state : States, location : Nat, dest : Dests,
          content : Contents, diagnostics : BOOLEAN, renders : BOOLEAN]
Source == [declared : Formats, extraction : Extractions,
           groups : SUBSET Group]
\* A plan, and the outcome reported of a group, name a group of a source.
Plan == [source : Nat, group : Group]

ASSUME ConstantAssumption ==
  /\ Overwrite \subseteq Runs
  /\ After \in [Runs -> SUBSET Runs]
  /\ Format \in {Python, Maven} /\ Python # Maven
  /\ Dests \subseteq Nat
  /\ Scans \subseteq Seq(Source)
  /\ Env \notin Runs /\ NoContent \notin Contents /\ NoPlan \notin Plan
  /\ EditBudget \in Nat

-----------------------------------------------------------------------------
(* What a source asks for: its groups of the format if it has any, all its *)
(* groups if its detector declares the format.                             *)

FormatGroups(s) == {g \in s.groups : g.format = Format}
Selected(s) == FormatGroups(s) # {} \/ s.declared = Format
Unusable(s) == /\ FormatGroups(s) = {}
               /\ s.extraction # "complete" \/ s.groups = {}
Chosen(s) == IF FormatGroups(s) # {} THEN FormatGroups(s) ELSE s.groups

\* generationGroupComponents: theorem ComponentsDistinct of GroupNamingProofs.
ASSUME ComponentsAreDistinct ==
  \A sources \in Scans : \A i \in DOMAIN sources :
    \A g, h \in Chosen(sources[i]) : g.dest = h.dest => g = h

-----------------------------------------------------------------------------
VARIABLES scan,     \* the sources that were found in the tree
          pc,       \* pc[r]: the step that run r is about to take
          source,   \* source[r]: the source that preflight is looking at
          todo,     \* todo[r]: its groups that are still to be looked at
          plans,    \* plans[r]: what preflight has accepted
          outcomes, \* outcomes[r]: generation.Outcomes
          current,  \* current[r]: the plan at hand
          ioError,  \* ioError[r]: a call to the operating system has failed
          node,     \* node[d]: what the path d names
          dir,      \* dir[d]: the Maven directory of d
          litter,   \* litter[d]: who left another file in that directory
          edited,   \* destinations somebody else has touched
          edits     \* number of these edits

run == <<pc, source, todo, plans, outcomes, current, ioError>>
tree == <<node, dir, litter>>
environment == <<scan, edited, edits>>
vars == <<run, tree, environment>>

Over == {"done", "failed", "crashed"}
Preflight == {"source", "group", "directory", "destination"}
Writing == {"write", "mkdir", "create", "fill", "temporary", "rename"}
Active == Preflight \cup Writing

Kinds == {"absent", "file", "link", "directory"}
Node == [kind : Kinds, by : Runs \cup {Env},
         content : Contents \cup {NoContent}, whole : BOOLEAN]
\* What the path of a directory may name, and what of it can be entered.
Entered == {"directory", "link"}
Directories == {"none", "blocked"} \cup Entered
Foreign(kind) ==
  [kind |-> kind, by |-> Env, content |-> NoContent, whole |-> TRUE]
Absent == Foreign("absent")
Written(r, content, whole) ==
  [kind |-> "file", by |-> r, content |-> content, whole |-> whole]

\* Every group that generation has to account for.
Wanted ==
  UNION {{[source |-> i, group |-> g] : g \in Chosen(scan[i])} :
           i \in {j \in DOMAIN scan : Selected(scan[j])}}
Ready(groups) == {p \in groups : p.group.state = "ready"}

Published(r) == Ready(outcomes[r])
Remaining(r) == plans[r] \ outcomes[r]
Dest(r) == current[r].group.dest
Content(r) == current[r].group.content

-----------------------------------------------------------------------------
Init == /\ scan \in Scans
        /\ pc = [r \in Runs |-> "idle"]
        /\ source = [r \in Runs |-> 1]
        /\ todo = [r \in Runs |-> {}]
        /\ plans = [r \in Runs |-> {}]
        /\ outcomes = [r \in Runs |-> {}]
        /\ current = [r \in Runs |-> NoPlan]
        /\ ioError = [r \in Runs |-> FALSE]
        /\ node \in [Dests -> {Foreign(k) : k \in Kinds}]
        /\ dir \in [Dests -> Directories]
        /\ litter \in [Dests -> {{}, {Env}}]
        /\ \A d \in Dests :
             /\ Format = Python => dir[d] = "none" /\ litter[d] = {}
             /\ Format = Maven /\ dir[d] \notin Entered =>
                  node[d] = Absent /\ litter[d] = {}
        /\ edited = {}
        /\ edits = 0

Goto(r, label) == pc' = [pc EXCEPT ![r] = label]

Begin(r) ==
  /\ pc[r] = "idle"
  /\ \A q \in After[r] : pc[q] \in Over
  /\ Goto(r, "source")
  /\ UNCHANGED <<source, todo, plans, outcomes, current, ioError>>
  /\ UNCHANGED <<tree, environment>>

-----------------------------------------------------------------------------
(* Preflight: the loops over the sources and over their groups.            *)

SkipSource(r) ==
  /\ pc[r] = "source" /\ source[r] \in DOMAIN scan
  /\ ~Selected(scan[source[r]])
  /\ source' = [source EXCEPT ![r] = @ + 1]
  /\ UNCHANGED <<pc, todo, plans, outcomes, current, ioError>>
  /\ UNCHANGED <<tree, environment>>

RejectSource(r) ==
  /\ pc[r] = "source" /\ source[r] \in DOMAIN scan
  /\ Selected(scan[source[r]]) /\ Unusable(scan[source[r]])
  /\ Goto(r, "failed")
  /\ UNCHANGED <<source, todo, plans, outcomes, current, ioError>>
  /\ UNCHANGED <<tree, environment>>

EnterSource(r) ==
  /\ pc[r] = "source" /\ source[r] \in DOMAIN scan
  /\ Selected(scan[source[r]]) /\ ~Unusable(scan[source[r]])
  /\ todo' = [todo EXCEPT ![r] = Chosen(scan[source[r]])]
  /\ Goto(r, "group")
  /\ UNCHANGED <<source, plans, outcomes, current, ioError>>
  /\ UNCHANGED <<tree, environment>>

LeaveSource(r) ==
  /\ pc[r] = "group" /\ todo[r] = {}
  /\ source' = [source EXCEPT ![r] = @ + 1]
  /\ Goto(r, "source")
  /\ UNCHANGED <<todo, plans, outcomes, current, ioError>>
  /\ UNCHANGED <<tree, environment>>

\* g is a next group of run r: groups are sorted by location.
IsNext(r, g) == /\ g \in todo[r]
                /\ \A h \in todo[r] : g.location <= h.location
\* usedRelative: a destination that this source has used before.
Collides(r, g) == \E p \in plans[r] : /\ p.source = source[r]
                                      /\ p.group.dest = g.dest
Rejected(r, g) == g.diagnostics \/ (g.state = "ready" /\ Collides(r, g))

RejectGroup(r) ==
  /\ pc[r] = "group"
  /\ \E g \in todo[r] : IsNext(r, g) /\ Rejected(r, g)
  /\ Goto(r, "failed")
  /\ UNCHANGED <<source, todo, plans, outcomes, current, ioError>>
  /\ UNCHANGED <<tree, environment>>

SkipGroup(r) ==
  /\ pc[r] = "group"
  /\ \E g \in todo[r] :
       /\ IsNext(r, g) /\ ~Rejected(r, g) /\ g.state # "ready"
       /\ outcomes' = [outcomes EXCEPT ![r] =
                         @ \cup {[source |-> source[r], group |-> g]}]
       /\ todo' = [todo EXCEPT ![r] = @ \ {g}]
  /\ UNCHANGED <<pc, source, plans, current, ioError>>
  /\ UNCHANGED <<tree, environment>>

TakeGroup(r) ==
  /\ pc[r] = "group"
  /\ \E g \in todo[r] :
       /\ IsNext(r, g) /\ ~Rejected(r, g) /\ g.state = "ready"
       /\ current' = [current EXCEPT ![r] =
                        [source |-> source[r], group |-> g]]
       /\ todo' = [todo EXCEPT ![r] = @ \ {g}]
  /\ Goto(r, IF Format = Maven THEN "directory" ELSE "destination")
  /\ UNCHANGED <<source, plans, outcomes, ioError>>
  /\ UNCHANGED <<tree, environment>>

DirectoryAcceptable(r) ==
  \/ dir[Dest(r)] = "none"
  \/ r \in Overwrite /\ dir[Dest(r)] = "directory" /\ litter[Dest(r)] = {}

\* validateGeneratedMavenDirectory
CheckDirectory(r) ==
  /\ pc[r] = "directory"
  /\ Goto(r, IF DirectoryAcceptable(r) THEN "destination" ELSE "failed")
  /\ UNCHANGED <<source, todo, plans, outcomes, current, ioError>>
  /\ UNCHANGED <<tree, environment>>

\* Mutant: the overwrite flag is not looked at.
DestinationFree(r) == /\ node[Dest(r)].kind = "absent"
                      /\ current[r].group.renders
DestinationAcceptable(r) ==
  /\ \/ node[Dest(r)].kind = "absent"
     \/ r \in Overwrite /\ node[Dest(r)].kind = "file"
  /\ current[r].group.renders

CheckDestination(r) ==
  /\ pc[r] = "destination"
  /\ IF DestinationAcceptable(r)
       THEN /\ plans' = [plans EXCEPT ![r] = @ \cup {current[r]}]
            /\ Goto(r, "group")
       ELSE /\ Goto(r, "failed")
            /\ UNCHANGED plans
  /\ UNCHANGED <<source, todo, outcomes, current, ioError>>
  /\ UNCHANGED <<tree, environment>>

\* Mutant: a source is written as soon as it has been validated.
EndPreflightEarly(r) ==
  /\ pc[r] = "source" /\ (source[r] \notin DOMAIN scan \/ plans[r] # {})
  /\ Goto(r, "write")
  /\ UNCHANGED <<source, todo, plans, outcomes, current, ioError>>
  /\ UNCHANGED <<tree, environment>>

EndPreflight(r) ==
  /\ pc[r] = "source" /\ source[r] \notin DOMAIN scan
  /\ Goto(r, "write")
  /\ UNCHANGED <<source, todo, plans, outcomes, current, ioError>>
  /\ UNCHANGED <<tree, environment>>

-----------------------------------------------------------------------------
(* Writing: the loop over the plans, sorted by relative path.  The sort is *)
(* not stable, so that plans with one destination come in any order.       *)

\* Mutant: plans are not sorted.
AnyOrder(r, p) == TRUE
InOrder(r, p) == \A q \in Remaining(r) : p.group.dest <= q.group.dest

NextPlan(r) ==
  /\ pc[r] = "write"
  /\ \E p \in Remaining(r) :
       /\ InOrder(r, p)
       /\ current' = [current EXCEPT ![r] = p]
  /\ Goto(r, IF Format = Maven THEN "mkdir" ELSE "create")
  /\ UNCHANGED <<source, todo, plans, outcomes, ioError>>
  /\ UNCHANGED <<tree, environment>>

\* os.MkdirAll: an existing directory is not an error, nor is a link to one
\* that has come after CheckDirectory; another file is.
MakeDirectory(r) ==
  /\ pc[r] = "mkdir"
  /\ IF dir[Dest(r)] = "blocked"
       THEN /\ Goto(r, "failed")
            /\ UNCHANGED dir
       ELSE /\ Goto(r, "create")
            /\ dir' = [dir EXCEPT ![Dest(r)] = IF @ = "none" THEN "directory" ELSE @]
  /\ UNCHANGED <<source, todo, plans, outcomes, current, ioError>>
  /\ UNCHANGED <<node, litter, environment>>

\* Mutant: without O_EXCL.
AlwaysOpens(r) == TRUE
OpensExclusively(r) == node[Dest(r)].kind = "absent"

\* os.OpenFile with O_CREATE and O_EXCL: an empty file, or an error.
CreateExclusive(r) ==
  /\ pc[r] = "create" /\ r \notin Overwrite
  /\ IF OpensExclusively(r)
       THEN /\ node' = [node EXCEPT ![Dest(r)] =
                          Written(r, Content(r), FALSE)]
            /\ Goto(r, "fill")
       ELSE /\ Goto(r, "failed")
            /\ UNCHANGED node
  /\ UNCHANGED <<source, todo, plans, outcomes, current, ioError>>
  /\ UNCHANGED <<dir, litter, environment>>

\* Mutant: the outcome of a plan is not appended.
PublishSilently(r) == Goto(r, "write") /\ UNCHANGED outcomes
\* Mutant: an outcome is appended before it is filled in.
PublishNothing(r) ==
  /\ outcomes' = [outcomes EXCEPT ![r] = @ \cup {NoPlan}]
  /\ Goto(r, "write")
\* A plan is carried out: its outcome is reported, the loop goes on.
Publish(r) == /\ outcomes' = [outcomes EXCEPT ![r] = @ \cup {current[r]}]
              /\ Goto(r, "write")

\* Mutant: the content is never written.
NeverOpen(r) == FALSE
\* The open file, if its path still names it.
IsOpen(r) == node[Dest(r)] = Written(r, Content(r), FALSE)

\* file.Write and file.Close act on the open file, whatever its path names.
FillExclusive(r) ==
  /\ pc[r] = "fill"
  /\ node' = IF IsOpen(r)
               THEN [node EXCEPT ![Dest(r)] = Written(r, Content(r), TRUE)]
               ELSE node
  /\ Publish(r)
  /\ UNCHANGED <<source, todo, plans, current, ioError>>
  /\ UNCHANGED <<dir, litter, environment>>

\* os.CreateTemp
CreateTemporary(r) ==
  /\ pc[r] = "create" /\ r \in Overwrite
  /\ litter' = [litter EXCEPT ![Dest(r)] = @ \cup {r}]
  /\ Goto(r, "temporary")
  /\ UNCHANGED <<source, todo, plans, outcomes, current, ioError>>
  /\ UNCHANGED <<node, dir, environment>>

\* Chmod, Write and Close of the temporary file.
FillTemporary(r) ==
  /\ pc[r] = "temporary"
  /\ Goto(r, "rename")
  /\ UNCHANGED <<source, todo, plans, outcomes, current, ioError>>
  /\ UNCHANGED <<tree, environment>>

\* defer os.Remove(temporaryName)
RemoveTemporary(r) == litter' = [litter EXCEPT ![Dest(r)] = @ \ {r}]

\* Mutant: the file is renamed before it is written.
UnwrittenTemporary(r) == Written(r, Content(r), FALSE)
\* What the temporary file holds once it is closed.
Temporary(r) == Written(r, Content(r), TRUE)

\* os.Rename takes the place of a file or of a link, not of a directory.
Rename(r) ==
  /\ pc[r] = "rename"
  /\ IF node[Dest(r)].kind = "directory"
       THEN /\ Goto(r, "failed")
            /\ UNCHANGED <<node, outcomes>>
       ELSE /\ node' = [node EXCEPT ![Dest(r)] = Temporary(r)]
            /\ Publish(r)
  /\ RemoveTemporary(r)
  /\ UNCHANGED <<source, todo, plans, current, ioError>>
  /\ UNCHANGED <<dir, environment>>

\* Mutant: the loop over the plans can be left early.
FinishEarly(r) ==
  /\ pc[r] = "write"
  /\ Goto(r, "done")
  /\ UNCHANGED <<source, todo, plans, outcomes, current, ioError>>
  /\ UNCHANGED <<tree, environment>>

Finish(r) ==
  /\ pc[r] = "write" /\ Remaining(r) = {}
  /\ Goto(r, "done")
  /\ UNCHANGED <<source, todo, plans, outcomes, current, ioError>>
  /\ UNCHANGED <<tree, environment>>

-----------------------------------------------------------------------------
(* What may go wrong at any call, and who else may act.                    *)

\* A call of the operating system fails: the run returns its error.  A file
\* that was open stays behind with what has been written to it.
FailIO(r) ==
  /\ pc[r] \in {"directory", "destination"} \cup (Writing \ {"write"})
  /\ Goto(r, "failed")
  /\ ioError' = [ioError EXCEPT ![r] = TRUE]
  /\ RemoveTemporary(r)
  /\ UNCHANGED <<source, todo, plans, outcomes, current>>
  /\ UNCHANGED <<node, dir, environment>>

\* The process is killed: nothing is cleaned up.
Crash(r) ==
  /\ pc[r] \in Active
  /\ Goto(r, "crashed")
  /\ UNCHANGED <<source, todo, plans, outcomes, current, ioError>>
  /\ UNCHANGED <<tree, environment>>

\* Somebody else makes, replaces or removes something at d.
Edit(d) ==
  /\ edits < EditBudget
  /\ \/ /\ Format = Maven => dir[d] \in Entered
        /\ \E k \in Kinds : node' = [node EXCEPT ![d] = Foreign(k)]
        /\ UNCHANGED <<dir, litter>>
     \/ /\ Format = Maven /\ dir[d] = "none"
        /\ \E k \in Directories \ {"none"} : dir' = [dir EXCEPT ![d] = k]
        /\ UNCHANGED <<node, litter>>
     \/ /\ Format = Maven /\ dir[d] \in Entered
        /\ litter' = [litter EXCEPT ![d] = @ \cup {Env}]
        /\ UNCHANGED <<node, dir>>
  /\ edits' = edits + 1
  /\ edited' = edited \cup {d}
  /\ UNCHANGED <<run, scan>>

-----------------------------------------------------------------------------
Step(r) ==
  \/ SkipSource(r) \/ RejectSource(r) \/ EnterSource(r) \/ LeaveSource(r)
  \/ RejectGroup(r) \/ SkipGroup(r) \/ TakeGroup(r)
  \/ CheckDirectory(r) \/ CheckDestination(r) \/ EndPreflight(r)
  \/ NextPlan(r) \/ MakeDirectory(r) \/ CreateExclusive(r) \/ FillExclusive(r)
  \/ CreateTemporary(r) \/ FillTemporary(r) \/ Rename(r) \/ Finish(r)

Next == \/ \E r \in Runs : Begin(r) \/ Step(r) \/ FailIO(r) \/ Crash(r)
        \/ \E d \in Dests : Edit(d)

\* A run that has begun is one thread of straight-line code: it goes on.
Fairness == \A r \in Runs : WF_vars(Step(r))

Spec == Init /\ [][Next]_vars /\ Fairness

-----------------------------------------------------------------------------
(* Properties.                                                             *)

\* Every variable has its type.
TypeOK ==
  /\ scan \in Scans
  /\ pc \in [Runs -> {"idle"} \cup Active \cup Over]
  /\ source \in [Runs -> Nat]
  /\ todo \in [Runs -> SUBSET Group]
  /\ plans \in [Runs -> SUBSET Plan]
  /\ outcomes \in [Runs -> SUBSET Plan]
  /\ current \in [Runs -> Plan \cup {NoPlan}]
  /\ ioError \in [Runs -> BOOLEAN]
  /\ node \in [Dests -> Node]
  /\ dir \in [Dests -> Directories]
  /\ litter \in [Dests -> SUBSET (Runs \cup {Env})]
  /\ edited \subseteq Dests
  /\ edits \in Nat

\* "Existing destinations ... remain unchanged unless --overwrite-generated is
\* set.  Overwrite replaces only the files planned by the current run": what a
\* path names changes only when somebody else edits it, when nothing was there,
\* when the run that made a file completes it, or when an overwriting run puts
\* its whole content in the place of something that it has planned.
Replaceable(d) ==
  \E r \in Overwrite : /\ \E p \in plans[r] : p.group.dest = d
                       /\ node'[d].by = r /\ node'[d].whole
Replaced(d) ==
  \/ edits' # edits
  \/ node[d].kind = "absent"
  \/ /\ node[d].by \in Runs
     /\ node'[d] = Written(node[d].by, node[d].content, TRUE)
  \/ Replaceable(d)
OnlyPlannedFilesReplaced ==
  [][\A d \in Dests : node'[d] # node[d] => Replaced(d)]_vars

\* A file that is not whole is the work of a run without the overwrite flag
\* that is writing it now, or that was stopped by an error or by its death:
\* rename makes overwriting atomic per file.
PartialFilesExplained ==
  \A d \in Dests : ~node[d].whole =>
    \E r \in Runs \ Overwrite :
      /\ node[d].by = r
      /\ \/ pc[r] = "fill" /\ Dest(r) = d
         \/ pc[r] = "crashed"
         \/ pc[r] = "failed" /\ ioError[r]

\* "Generation validates every selected source and destination before it
\* writes": a run that has left anything in the tree has accepted every source
\* and planned every ready group of all of them.
Admissible ==
  /\ \A i \in DOMAIN scan : Selected(scan[i]) => ~Unusable(scan[i])
  /\ \A p \in Wanted : ~p.group.diagnostics
  /\ \A p \in Ready(Wanted) : p.group.renders
HasWritten(r) == \E d \in Dests : node[d].by = r \/ r \in litter[d]
PreflightComesFirst ==
  \A r \in Runs : HasWritten(r) => Admissible /\ plans[r] = Ready(Wanted)

\* A run that succeeds has reported every group it was asked for.
EveryGroupReported ==
  \A r \in Runs : pc[r] = "done" => outcomes[r] = Wanted

\* Where no two groups share a destination, the file of every path in the
\* report of a finished run holds all of what the run was to write, whatever
\* other runs do later, unless somebody else has touched it.
SeparateDestinations ==
  \A p, q \in Ready(Wanted) : p.group.dest = q.group.dest => p = q
ReportedFilesIntact ==
  SeparateDestinations =>
    \A r \in Runs : pc[r] = "done" =>
      \A p \in Published(r) :
        \/ p.group.dest \in edited
        \/ /\ node[p.group.dest].content = p.group.content
           /\ node[p.group.dest].whole

\* A temporary file belongs to a run that is at work on it, or that was killed.
NoTemporaryLeft ==
  \A d \in Dests : \A r \in Runs \cap litter[d] :
    \/ pc[r] \in {"temporary", "rename"} /\ Dest(r) = d
    \/ pc[r] = "crashed"

\* Runs without the overwrite flag that race for the same Python destinations
\* do not all lose: plans are carried out in the order of their paths, and so
\* the run that creates the last of them does not fail.  (Unless something
\* else stands in the way, or a call fails, or a run dies.)
Undisturbed ==
  /\ edited = {}
  /\ \A r \in Runs : ~ioError[r] /\ pc[r] # "crashed"
Unobstructed ==
  \A d \in Dests : node[d].by = Env => node[d].kind = "absent"
RaceHasWinner ==
  /\ Format = Python /\ Admissible /\ SeparateDestinations
  /\ Undisturbed /\ Unobstructed /\ Runs # {}
  => \E r \in Runs : pc[r] # "failed"

\* "In CI, add --overwrite-generated when the workspace may contain output from
\* an earlier run" (README.md): an overwriting run fails only when the scan
\* cannot be generated from, a call fails, or something that no run has made
\* stands in the way.
OverwriteRerunSucceeds ==
  \A r \in Overwrite : pc[r] = "failed" =>
    \/ ioError[r] \/ ~Admissible \/ edited # {}
    \/ \E d \in Dests : \/ node[d].by = Env /\ node[d].kind # "absent"
                        \/ dir[d] \in {"blocked", "link"}
                        \/ Env \in litter[d]

\* "destination collisions" are rejected before the first write
\* (ARCHITECTURE.md, Generation), and "Each group gets a separate file".
CollisionsRejected == \A r \in Runs : HasWritten(r) => SeparateDestinations

\* A run that has begun ends.
RunsEnd == \A r \in Runs : pc[r] \in Active ~> pc[r] \in Over

-----------------------------------------------------------------------------
(* Generation implements GenerationContract.  Preflight, the temporary     *)
(* files, the Maven directories and the outcomes of skipped groups are     *)
(* hidden; the file that an exclusive run has open is its claim.           *)

Status(label) ==
  CASE label \in Writing -> "writing"
    [] label = "done" -> "succeeded"
    [] label \in {"failed", "crashed"} -> "failed"
    [] OTHER -> "undecided"

Contract == INSTANCE GenerationContract WITH
  want      <- Ready(Wanted),
  status    <- [r \in Runs |-> Status(pc[r])],
  claim     <- [r \in Runs |-> IF pc[r] = "fill" THEN current[r] ELSE NoPlan],
  published <- [r \in Runs |-> Published(r)]

\* Whatever runs, edits, errors and crashes are interleaved, what a reader of
\* the tree sees of generate.go is a behaviour of the contract.
ImplementsContract == Contract!Spec
=============================================================================
