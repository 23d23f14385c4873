-------------------------- MODULE GenerationProofs --------------------------
(***************************************************************************)
(* Theorems about Generation, for every set of runs, scans and trees.      *)
(***************************************************************************)
EXTENDS GenerationInvariant, WellFoundedInduction, NaturalsInduction, TLAPS

-----------------------------------------------------------------------------
(* What is wanted of a scan.                                               *)

LEMMA ChosenAreGroups ==
  ASSUME scan \in Scans, NEW i \in DOMAIN scan
  PROVE  scan[i] \in Source /\ Chosen(scan[i]) \subseteq Group
<1>1. scan \in Seq(Source)
  BY ConstantAssumption
<1>2. scan[i] \in Source
  BY <1>1
<1>3. scan[i].groups \subseteq Group
  BY <1>2 DEF Source
<1> QED
  BY <1>2, <1>3 DEF Chosen, FormatGroups

LEMMA WantedGroups ==
  ASSUME scan \in Scans, NEW p
  PROVE  p \in Wanted <=>
           \E i \in DOMAIN scan : \E g \in Chosen(scan[i]) :
             Selected(scan[i]) /\ p = [source |-> i, group |-> g]
BY DEF Wanted

LEMMA WantedArePlans ==
  ASSUME scan \in Scans
  PROVE  Wanted \subseteq Plan
<1> SUFFICES ASSUME NEW p \in Wanted PROVE p \in Plan
  OBVIOUS
<1>1. PICK i \in DOMAIN scan : \E g \in Chosen(scan[i]) :
             Selected(scan[i]) /\ p = [source |-> i, group |-> g]
  BY WantedGroups
<1>2. i \in Nat
  BY ConstantAssumption
<1> QED
  BY <1>1, <1>2, ChosenAreGroups DEF Plan

\* A wanted plan names its source and one of the groups chosen there.
LEMMA WantedOfSource ==
  ASSUME scan \in Scans, NEW p \in Wanted
  PROVE  /\ p \in Plan /\ p.source \in DOMAIN scan
         /\ Selected(scan[p.source]) /\ p.group \in Chosen(scan[p.source])
         /\ p = [source |-> p.source, group |-> p.group]
BY WantedGroups, WantedArePlans

LEMMA WantedFrom ==
  ASSUME scan \in Scans, NEW i \in DOMAIN scan, NEW g \in Chosen(scan[i]),
         Selected(scan[i])
  PROVE  [source |-> i, group |-> g] \in Wanted
BY WantedGroups

-----------------------------------------------------------------------------
(* What a step of one run leaves alone.                                    *)

\* Nothing that belongs to run q changes, and q leaves nothing in the tree.
Same(q) == /\ scan' = scan
           /\ pc'[q] = pc[q] /\ source'[q] = source[q] /\ todo'[q] = todo[q]
           /\ plans'[q] = plans[q] /\ outcomes'[q] = outcomes[q]
           /\ current'[q] = current[q] /\ ioError'[q] = ioError[q]
NothingNew(q) ==
  \A d \in Dests : /\ node'[d].by = q => node[d].by = q
                   /\ q \in litter'[d] => q \in litter[d]

LEMMA SameRunInv ==
  ASSUME NEW q, RunInv(q), Same(q), NothingNew(q)
  PROVE  RunInv(q)'
<1>1. Wanted' = Wanted
  BY DEF Wanted, Same
<1>2. Admissible' = Admissible /\ Ready(Wanted)' = Ready(Wanted)
  BY <1>1 DEF Admissible, Same, Ready
<1>3. LookedAt(q)' = LookedAt(q)
  BY <1>1 DEF LookedAt, Same
<1>4. Remaining(q)' = Remaining(q) /\ Dest(q)' = Dest(q)
  BY DEF Remaining, Dest, Same
<1>5. PreflightInv(q)'
  BY <1>3 DEF RunInv, PreflightInv, Same, Ready
<1>6. CursorInv(q)'
  BY <1>2 DEF RunInv, CursorInv, Same
<1>7. WritingInv(q)'
  BY <1>1, <1>2 DEF RunInv, WritingInv, Same
<1>8. PlanInv(q)'
  BY <1>4 DEF RunInv, PlanInv, Same
<1>9. TraceInv(q)'
  <2>1. HasWritten(q)' => HasWritten(q)
    BY DEF NothingNew, HasWritten
  <2> QED
    BY <1>2, <2>1 DEF RunInv, TraceInv, Same
<1> QED
  BY <1>5, <1>6, <1>7, <1>8, <1>9 DEF RunInv

\* Every step of run r: a call it makes, its failure or its death.
RunStep(r) == Begin(r) \/ Step(r) \/ FailIO(r) \/ Crash(r)

LEMMA OtherRunsSame ==
  ASSUME TypeOK, NEW r \in Runs, NEW q \in Runs, q # r, RunStep(r)
  PROVE  Same(q) /\ NothingNew(q)
<1> USE DEF TypeOK, Same, NothingNew, Goto, environment, tree
<1>1. ASSUME \/ Begin(r) \/ SkipSource(r) \/ RejectSource(r) \/ EnterSource(r)
             \/ LeaveSource(r) \/ RejectGroup(r) \/ CheckDirectory(r)
             \/ EndPreflight(r) \/ FillTemporary(r) \/ Finish(r) \/ Crash(r)
      PROVE  Same(q) /\ NothingNew(q)
  BY <1>1 DEF Begin, SkipSource, RejectSource, EnterSource, LeaveSource,
     RejectGroup, CheckDirectory, EndPreflight, FillTemporary, Finish, Crash
<1>2. ASSUME SkipGroup(r) \/ TakeGroup(r) \/ CheckDestination(r) \/ NextPlan(r)
             \/ MakeDirectory(r)
      PROVE  Same(q) /\ NothingNew(q)
  BY <1>2 DEF SkipGroup, TakeGroup, CheckDestination, NextPlan, MakeDirectory
<1>3. ASSUME CreateExclusive(r) \/ FillExclusive(r)
      PROVE  Same(q) /\ NothingNew(q)
  BY <1>3 DEF CreateExclusive, FillExclusive, Publish, Written
<1>4. ASSUME CreateTemporary(r) \/ FailIO(r)
      PROVE  Same(q) /\ NothingNew(q)
  BY <1>4 DEF CreateTemporary, FailIO, RemoveTemporary
<1>5. ASSUME Rename(r)
      PROVE  Same(q) /\ NothingNew(q)
  BY <1>5 DEF Rename, RemoveTemporary, Publish, Temporary, Written
<1> QED
  BY <1>1, <1>2, <1>3, <1>4, <1>5 DEF RunStep, Step

LEMMA EditSame ==
  ASSUME TypeOK, NEW d \in Dests, Edit(d), NEW q \in Runs
  PROVE  Same(q) /\ NothingNew(q)
<1>1. Env # q
  BY ConstantAssumption
<1> QED
  BY <1>1 DEF Edit, TypeOK, Same, NothingNew, run, Foreign

-----------------------------------------------------------------------------
(* Types.                                                                  *)

LEMMA NodeTypes ==
  /\ \A k \in Kinds : Foreign(k) \in Node
  /\ \A r \in Runs, c \in Contents, w \in BOOLEAN : Written(r, c, w) \in Node
BY DEF Foreign, Written, Node, Kinds

LEMMA PlanTypes ==
  ASSUME NEW p \in Plan
  PROVE  /\ p.source \in Nat /\ p.group \in Group
         /\ p.group.dest \in Dests /\ p.group.content \in Contents
BY DEF Plan, Group

\* The plan at hand is a plan wherever it is used.
LEMMA CurrentIsPlan ==
  ASSUME TypeOK, NEW r \in Runs, RunInv(r),
         pc[r] \in AtPlan \cup {"directory", "destination"}
  PROVE  /\ current[r] \in Plan /\ current[r] \in Wanted
         /\ Dest(r) \in Dests /\ Content(r) \in Contents
<1>1. current[r] \in Wanted
  BY DEF RunInv, PlanInv, CursorInv, WritingInv, Remaining, Ready, AtPlan
<1>2. scan \in Scans
  BY DEF TypeOK
<1> QED
  BY <1>1, <1>2, WantedArePlans, PlanTypes DEF Dest, Content

LEMMA TypeInit == Init => TypeOK
<1> SUFFICES ASSUME Init PROVE TypeOK
  OBVIOUS
<1>1. node \in [Dests -> Node]
  BY NodeTypes DEF Init
<1> QED
  BY <1>1 DEF Init, TypeOK, Over

LEMMA TypeStep ==
  ASSUME TypeOK, \A r \in Runs : RunInv(r), [Next]_vars
  PROVE  TypeOK'
<1> USE DEF TypeOK, Goto, tree, environment, Over, Active, Preflight, Writing
<1>1. ASSUME NEW r \in Runs,
             \/ Begin(r) \/ SkipSource(r) \/ RejectSource(r) \/ LeaveSource(r)
             \/ RejectGroup(r) \/ CheckDirectory(r) \/ EndPreflight(r)
             \/ FillTemporary(r) \/ Finish(r) \/ Crash(r)
      PROVE  TypeOK'
  BY <1>1 DEF Begin, SkipSource, RejectSource, LeaveSource,
     RejectGroup, CheckDirectory, EndPreflight, FillTemporary, Finish, Crash
<1>2. ASSUME NEW r \in Runs, EnterSource(r)
      PROVE  TypeOK'
  <2>1. Chosen(scan[source[r]]) \subseteq Group
    BY <1>2, ChosenAreGroups DEF EnterSource
  <2> QED
    BY <1>2, <2>1 DEF EnterSource
<1>3. ASSUME NEW r \in Runs, SkipGroup(r) \/ TakeGroup(r)
      PROVE  TypeOK'
  <2>1. \A g \in todo[r] : [source |-> source[r], group |-> g] \in Plan
    BY DEF Plan
  <2> QED
    BY <1>3, <2>1 DEF SkipGroup, TakeGroup
<1>4. ASSUME NEW r \in Runs, CheckDestination(r)
      PROVE  TypeOK'
  <2>1. current[r] \in Plan
    BY <1>4, CurrentIsPlan DEF CheckDestination
  <2> QED
    BY <1>4, <2>1 DEF CheckDestination
<1>5. ASSUME NEW r \in Runs, NextPlan(r)
      PROVE  TypeOK'
  BY <1>5 DEF NextPlan, Remaining
<1>6. ASSUME NEW r \in Runs, MakeDirectory(r)
      PROVE  TypeOK'
  <2>1. dir' \in [Dests -> Directories]
    BY <1>6 DEF MakeDirectory, Directories, Entered
  <2> QED
    BY <1>6, <2>1 DEF MakeDirectory
<1>7. ASSUME NEW r \in Runs, CreateTemporary(r) \/ FailIO(r)
      PROVE  TypeOK'
  <2>1. litter' \in [Dests -> SUBSET (Runs \cup {Env})]
    BY <1>7 DEF CreateTemporary, FailIO, RemoveTemporary
  <2> QED
    BY <1>7, <2>1 DEF CreateTemporary, FailIO
<1>8. ASSUME NEW r \in Runs,
             CreateExclusive(r) \/ FillExclusive(r) \/ Rename(r)
      PROVE  TypeOK'
  <2>1. current[r] \in Plan /\ Content(r) \in Contents
    BY <1>8, CurrentIsPlan DEF CreateExclusive, FillExclusive, Rename, AtPlan
  <2>2. \A w \in BOOLEAN : Written(r, Content(r), w) \in Node
    BY <2>1, NodeTypes
  <2>3. node' \in [Dests -> Node]
    BY <1>8, <2>2 DEF CreateExclusive, FillExclusive, Rename, Temporary
  <2>4. litter' \in [Dests -> SUBSET (Runs \cup {Env})]
    <3>1. litter' = litter \/ RemoveTemporary(r)
      BY <1>8 DEF CreateExclusive, FillExclusive, Rename
    <3> QED
      BY <3>1 DEF RemoveTemporary
  <2>5. outcomes' \in [Runs -> SUBSET Plan]
    <3>1. outcomes' \in {outcomes,
                         [outcomes EXCEPT ![r] = @ \cup {current[r]}]}
      BY <1>8 DEF CreateExclusive, FillExclusive, Rename, Publish
    <3> QED
      BY <2>1, <3>1
  <2>6. pc' \in [Runs -> {"idle"} \cup Active \cup Over]
    <3>1. \E label \in {"fill", "failed", "write"} : Goto(r, label)
      BY <1>8 DEF CreateExclusive, FillExclusive, Rename, Publish
    <3> QED
      BY <3>1
  <2> QED
    BY <1>8, <2>3, <2>4, <2>5, <2>6 DEF CreateExclusive, FillExclusive, Rename
<1>9. ASSUME NEW d \in Dests, Edit(d)
      PROVE  TypeOK'
  <2>1. node' \in [Dests -> Node]
    BY <1>9, NodeTypes DEF Edit
  <2>2. dir' \in [Dests -> Directories]
    BY <1>9 DEF Edit
  <2>3. litter' \in [Dests -> SUBSET (Runs \cup {Env})]
    BY <1>9 DEF Edit
  <2>4. edited' \subseteq Dests /\ edits' \in Nat
    BY <1>9 DEF Edit
  <2> QED
    BY <1>9, <2>1, <2>2, <2>3, <2>4 DEF Edit, run
<1>10. CASE UNCHANGED vars
  BY <1>10 DEF vars, run
<1> QED
  BY <1>1, <1>2, <1>3, <1>4, <1>5, <1>6, <1>7, <1>8, <1>9, <1>10 DEF Next, Step

-----------------------------------------------------------------------------
(* The invariant of the run that moves: how it ends.                       *)

LEMMA ScanSame ==
  ASSUME scan' = scan
  PROVE  /\ Wanted' = Wanted /\ Ready(Wanted)' = Ready(Wanted)
         /\ Admissible' = Admissible
<1>1. Wanted' = Wanted
  BY DEF Wanted
<1> QED
  BY <1>1 DEF Admissible, Ready

\* A run that gives up or dies keeps its plans and adds nothing to the tree.
LEMMA StopStep ==
  ASSUME NEW r, RunInv(r), scan' = scan, pc'[r] \in {"failed", "crashed"},
         plans'[r] = plans[r], HasWritten(r)' => HasWritten(r)
  PROVE  RunInv(r)'
BY ScanSame DEF RunInv, PreflightInv, CursorInv, WritingInv, PlanInv, TraceInv,
   AtGroup, AtPlan, Writing, Preflight

\* While it writes, a run keeps its plans and reports only what it planned.
LEMMA WriteStep ==
  ASSUME NEW r, RunInv(r), scan' = scan, pc[r] \in Writing,
         pc'[r] \in Writing \cup Over, plans'[r] = plans[r],
         \/ outcomes'[r] = outcomes[r]
         \/ /\ pc[r] \in AtPlan
            /\ outcomes'[r] = outcomes[r] \cup {current[r]},
         PlanInv(r)'
  PROVE  RunInv(r)'
<1>1. PreflightInv(r)' /\ CursorInv(r)'
  BY DEF PreflightInv, CursorInv, AtGroup, Writing, Preflight, Over
<1>2. WritingInv(r)
  BY DEF RunInv
<1>3. WritingInv(r)'
  <2>1. current[r] \in Wanted \/ outcomes'[r] = outcomes[r]
    BY DEF RunInv, PlanInv, WritingInv, Remaining, Ready
  <2> QED
    BY <1>2, <2>1, ScanSame DEF WritingInv
<1>4. TraceInv(r)'
  BY <1>2, ScanSame DEF WritingInv, TraceInv, Writing, Preflight, Over
<1> QED
  BY <1>1, <1>3, <1>4 DEF RunInv

-----------------------------------------------------------------------------
(* The invariant of the run that moves: preflight.                         *)

\* A step within preflight that looks at p: p is planned if it is ready, and
\* reported if not.
LEMMA LookStep ==
  ASSUME NEW r, RunInv(r), scan' = scan, node' = node, litter' = litter,
         pc[r] \in Preflight, pc'[r] \in Preflight, source'[r] = source[r],
         NEW p \in Wanted, Sound(p), p \notin LookedAt(r),
         LookedAt(r)' = LookedAt(r) \cup {p},
         \/ /\ p.group.state = "ready"
            /\ plans'[r] = plans[r] \cup {p} /\ outcomes'[r] = outcomes[r]
         \/ /\ p.group.state # "ready"
            /\ plans'[r] = plans[r] /\ outcomes'[r] = outcomes[r] \cup {p},
         CursorInv(r)'
  PROVE  RunInv(r)'
<1>1. PreflightInv(r)
  BY DEF RunInv
<1>2. PreflightInv(r)'
  <2>1. \A q \in LookedAt(r)' : Sound(q)
    BY <1>1 DEF PreflightInv, Sound
  <2>2. Ready(LookedAt(r))' = IF p.group.state = "ready"
                                THEN Ready(LookedAt(r)) \cup {p}
                                ELSE Ready(LookedAt(r))
    BY DEF Ready
  <2>3. /\ plans'[r] = Ready(LookedAt(r))'
        /\ outcomes'[r] = (LookedAt(r) \ Ready(LookedAt(r)))'
    BY <1>1, <2>2 DEF PreflightInv, Ready
  <2> QED
    BY <1>1, <2>1, <2>3 DEF PreflightInv, Sound
<1>3. WritingInv(r)' /\ PlanInv(r)'
  BY DEF WritingInv, PlanInv, AtPlan, Writing, Preflight
<1>4. ~HasWritten(r)'
  BY DEF RunInv, TraceInv, HasWritten
<1> QED
  BY <1>2, <1>3, <1>4 DEF RunInv, TraceInv

\* A step within preflight that adds nothing to what has been looked at.
LEMMA QuietPreflightStep ==
  ASSUME NEW r, RunInv(r), scan' = scan, node' = node, litter' = litter,
         pc[r] \in {"idle"} \cup Preflight, pc'[r] \in Preflight,
         LookedAt(r)' = LookedAt(r),
         plans'[r] = plans[r], outcomes'[r] = outcomes[r],
         source'[r] >= 1,
         \A i \in DOMAIN scan :
           i < source'[r] /\ Selected(scan[i]) => ~Unusable(scan[i]),
         CursorInv(r)'
  PROVE  RunInv(r)'
<1>1. PreflightInv(r)'
  BY ScanSame DEF RunInv, PreflightInv, Ready, Sound
<1>2. WritingInv(r)' /\ PlanInv(r)'
  BY DEF WritingInv, PlanInv, AtPlan, Writing, Preflight
<1>3. ~HasWritten(r)'
  BY DEF RunInv, TraceInv, HasWritten
<1> QED
  BY <1>1, <1>2, <1>3 DEF RunInv, TraceInv

LEMMA BeginStep ==
  ASSUME TypeOK, NEW r \in Runs, RunInv(r), Begin(r)
  PROVE  RunInv(r)'
<1>1. /\ scan' = scan /\ node' = node /\ litter' = litter
      /\ pc[r] = "idle" /\ pc'[r] = "source"
      /\ source'[r] = source[r] /\ todo'[r] = todo[r]
      /\ plans'[r] = plans[r] /\ outcomes'[r] = outcomes[r]
      /\ current'[r] = current[r]
  BY DEF Begin, TypeOK, Goto, tree, environment
<1>2. LookedAt(r)' = LookedAt(r)
  BY <1>1, ScanSame DEF LookedAt, AtGroup
<1>3. CursorInv(r)'
  BY <1>1 DEF CursorInv, AtGroup
<1> QED
  BY <1>1, <1>2, <1>3, QuietPreflightStep
     DEF RunInv, PreflightInv, Preflight

LEMMA SkipSourceStep ==
  ASSUME TypeOK, NEW r \in Runs, RunInv(r), SkipSource(r)
  PROVE  RunInv(r)'
<1>1. /\ scan' = scan /\ node' = node /\ litter' = litter
      /\ pc[r] = "source" /\ pc'[r] = "source"
      /\ source'[r] = source[r] + 1 /\ todo'[r] = todo[r]
      /\ plans'[r] = plans[r] /\ outcomes'[r] = outcomes[r]
      /\ current'[r] = current[r]
      /\ ~Selected(scan[source[r]]) /\ source[r] \in Nat
  BY DEF SkipSource, TypeOK, tree, environment
<1>2. \A i \in DOMAIN scan : i \in Nat
  BY ConstantAssumption DEF TypeOK
<1>3. LookedAt(r)' = LookedAt(r)
  <2>1. \A p \in Wanted : p.source \in Nat /\ p.source # source[r]
    BY <1>1, <1>2, WantedOfSource DEF TypeOK
  <2> QED
    BY <1>1, <2>1, ScanSame DEF LookedAt, AtGroup
<1>4. CursorInv(r)'
  BY <1>1 DEF CursorInv, AtGroup
<1>5. PreflightInv(r)
  BY DEF RunInv
<1>6. \A i \in DOMAIN scan :
        i < source'[r] /\ Selected(scan[i]) => ~Unusable(scan[i])
  <2> SUFFICES ASSUME NEW i \in DOMAIN scan, i < source'[r], Selected(scan[i])
               PROVE  ~Unusable(scan[i])
    OBVIOUS
  <2>1. i < source[r]
    BY <1>1, <1>2
  <2> QED
    BY <1>1, <1>5, <2>1 DEF PreflightInv, Preflight
<1> QED
  BY <1>1, <1>3, <1>4, <1>5, <1>6, QuietPreflightStep
     DEF PreflightInv, Preflight

LEMMA EnterSourceStep ==
  ASSUME TypeOK, NEW r \in Runs, RunInv(r), EnterSource(r)
  PROVE  RunInv(r)'
<1>1. /\ scan' = scan /\ node' = node /\ litter' = litter
      /\ pc[r] = "source" /\ pc'[r] = "group"
      /\ source'[r] = source[r] /\ todo'[r] = Chosen(scan[source[r]])
      /\ plans'[r] = plans[r] /\ outcomes'[r] = outcomes[r]
      /\ source[r] \in DOMAIN scan /\ Selected(scan[source[r]])
      /\ ~Unusable(scan[source[r]])
  BY DEF EnterSource, TypeOK, Goto, tree, environment
<1>2. LookedAt(r)' = LookedAt(r)
  <2>1. \A p \in Wanted : p.source = source[r] => p.group \in todo'[r]
    BY <1>1, WantedOfSource DEF TypeOK
  <2> QED
    BY <1>1, <2>1, ScanSame DEF LookedAt, AtGroup
<1>3. CursorInv(r)'
  BY <1>1 DEF CursorInv, AtGroup
<1> QED
  BY <1>1, <1>2, <1>3, QuietPreflightStep DEF RunInv, PreflightInv, Preflight

LEMMA LeaveSourceStep ==
  ASSUME TypeOK, NEW r \in Runs, RunInv(r), LeaveSource(r)
  PROVE  RunInv(r)'
<1>1. /\ scan' = scan /\ node' = node /\ litter' = litter
      /\ pc[r] = "group" /\ pc'[r] = "source"
      /\ source'[r] = source[r] + 1 /\ todo[r] = {}
      /\ plans'[r] = plans[r] /\ outcomes'[r] = outcomes[r]
      /\ source[r] \in Nat
  BY DEF LeaveSource, TypeOK, Goto, tree, environment
<1>2. \A i \in DOMAIN scan : i \in Nat
  BY ConstantAssumption DEF TypeOK
<1>3. LookedAt(r)' = LookedAt(r)
  <2>1. \A p \in Wanted : p.source \in Nat
    BY <1>2, WantedOfSource DEF TypeOK
  <2>2. \A p \in Wanted : p.source < source[r] + 1 <=>
                           p.source < source[r] \/ p.source = source[r]
    BY <1>1, <2>1
  <2> QED
    BY <1>1, <2>2, ScanSame DEF LookedAt, AtGroup
<1>4. CursorInv(r)'
  BY <1>1 DEF CursorInv, AtGroup
<1>5. PreflightInv(r) /\ CursorInv(r)
  BY DEF RunInv
<1>6. \A i \in DOMAIN scan :
        i < source'[r] /\ Selected(scan[i]) => ~Unusable(scan[i])
  <2> SUFFICES ASSUME NEW i \in DOMAIN scan, i < source'[r], Selected(scan[i])
               PROVE  ~Unusable(scan[i])
    OBVIOUS
  <2>1. i < source[r] \/ i = source[r]
    BY <1>1, <1>2
  <2> QED
    BY <1>1, <1>5, <2>1 DEF PreflightInv, CursorInv, AtGroup, Preflight
<1> QED
  BY <1>1, <1>3, <1>4, <1>5, <1>6, QuietPreflightStep
     DEF PreflightInv, Preflight

\* The group at hand, as a plan: wanted, and not looked at before.
LEMMA GroupIsWanted ==
  ASSUME TypeOK, NEW r \in Runs, RunInv(r), pc[r] = "group",
         NEW g \in todo[r]
  PROVE  /\ [source |-> source[r], group |-> g] \in Wanted
         /\ [source |-> source[r], group |-> g] \notin LookedAt(r)
<1>1. /\ source[r] \in DOMAIN scan /\ Selected(scan[source[r]])
      /\ g \in Chosen(scan[source[r]])
  BY DEF RunInv, CursorInv, AtGroup
<1>2. source[r] \in Nat
  BY DEF TypeOK
<1> QED
  BY <1>1, <1>2, WantedFrom DEF LookedAt, TypeOK

LEMMA SkipGroupStep ==
  ASSUME TypeOK, NEW r \in Runs, RunInv(r), SkipGroup(r)
  PROVE  RunInv(r)'
<1>1. PICK g \in todo[r] :
        /\ ~Rejected(r, g) /\ g.state # "ready"
        /\ outcomes' = [outcomes EXCEPT ![r] =
                         @ \cup {[source |-> source[r], group |-> g]}]
        /\ todo' = [todo EXCEPT ![r] = @ \ {g}]
  BY DEF SkipGroup
<1> DEFINE p == [source |-> source[r], group |-> g]
<1>2. /\ scan' = scan /\ node' = node /\ litter' = litter
      /\ pc[r] = "group" /\ pc'[r] = "group"
      /\ source'[r] = source[r] /\ todo'[r] = todo[r] \ {g}
      /\ plans'[r] = plans[r] /\ outcomes'[r] = outcomes[r] \cup {p}
  BY <1>1 DEF SkipGroup, TypeOK, tree, environment
<1>3. p \in Wanted /\ p \notin LookedAt(r)
  BY <1>2, GroupIsWanted
<1>4. Sound(p)
  BY <1>1 DEF Sound, Rejected
<1>5. LookedAt(r)' = LookedAt(r) \cup {p}
  <2>1. \A q \in Wanted : q.source = source[r] /\ q.group = g <=> q = p
    BY WantedOfSource DEF TypeOK
  <2>2. ~(p.source < source[r])
    BY DEF TypeOK
  <2> QED
    BY <1>2, <1>3, <2>1, <2>2, ScanSame DEF LookedAt, AtGroup
<1>6. CursorInv(r)'
  BY <1>2 DEF RunInv, CursorInv, AtGroup
<1> QED
  BY <1>1, <1>2, <1>3, <1>4, <1>5, <1>6, LookStep DEF Preflight

LEMMA TakeGroupStep ==
  ASSUME TypeOK, NEW r \in Runs, RunInv(r), TakeGroup(r)
  PROVE  RunInv(r)'
<1>1. PICK g \in todo[r] :
        /\ ~Rejected(r, g) /\ g.state = "ready"
        /\ current' = [current EXCEPT ![r] =
                        [source |-> source[r], group |-> g]]
        /\ todo' = [todo EXCEPT ![r] = @ \ {g}]
  BY DEF TakeGroup
<1> DEFINE p == [source |-> source[r], group |-> g]
<1>2. /\ scan' = scan /\ node' = node /\ litter' = litter
      /\ pc[r] = "group" /\ pc'[r] \in {"directory", "destination"}
      /\ source'[r] = source[r] /\ todo'[r] = todo[r] \ {g}
      /\ plans'[r] = plans[r] /\ outcomes'[r] = outcomes[r]
      /\ current'[r] = p
  BY <1>1 DEF TakeGroup, TypeOK, Goto, tree, environment
<1>3. p \in Wanted /\ p \notin LookedAt(r)
  BY <1>2, GroupIsWanted
<1>4. LookedAt(r)' = LookedAt(r)
  <2>1. \A q \in Wanted : q.source = source[r] /\ q.group = g <=> q = p
    BY WantedOfSource DEF TypeOK
  <2> QED
    BY <1>2, <1>3, <2>1, ScanSame DEF LookedAt, AtGroup
<1>5. CursorInv(r)'
  <2>1. CursorInv(r)
    BY DEF RunInv
  <2>2. p \in Ready(Wanted)' /\ ~p.group.diagnostics
    BY <1>1, <1>2, <1>3, ScanSame DEF Ready, Rejected
  <2> QED
    BY <1>2, <2>1, <2>2 DEF CursorInv, AtGroup
<1> QED
  BY <1>2, <1>4, <1>5, QuietPreflightStep DEF RunInv, PreflightInv, Preflight

LEMMA CheckDirectoryStep ==
  ASSUME TypeOK, NEW r \in Runs, RunInv(r), CheckDirectory(r)
  PROVE  RunInv(r)'
<1>1. /\ scan' = scan /\ node' = node /\ litter' = litter
      /\ pc[r] = "directory" /\ pc'[r] \in {"destination", "failed"}
      /\ source'[r] = source[r] /\ todo'[r] = todo[r]
      /\ plans'[r] = plans[r] /\ outcomes'[r] = outcomes[r]
      /\ current'[r] = current[r]
  BY DEF CheckDirectory, TypeOK, Goto, tree, environment
<1>2. CASE pc'[r] = "failed"
  BY <1>1, <1>2, StopStep DEF HasWritten
<1>3. CASE pc'[r] = "destination"
  <2>1. LookedAt(r)' = LookedAt(r)
    BY <1>1, <1>3, ScanSame DEF LookedAt, AtGroup
  <2>2. CursorInv(r)'
    BY <1>1, <1>3, ScanSame DEF RunInv, CursorInv, AtGroup
  <2> QED
    BY <1>1, <1>3, <2>1, <2>2, QuietPreflightStep
       DEF RunInv, PreflightInv, Preflight
<1> QED
  BY <1>1, <1>2, <1>3

LEMMA CheckDestinationStep ==
  ASSUME TypeOK, NEW r \in Runs, RunInv(r), CheckDestination(r)
  PROVE  RunInv(r)'
<1>1. /\ scan' = scan /\ node' = node /\ litter' = litter
      /\ pc[r] = "destination"
      /\ source'[r] = source[r] /\ todo'[r] = todo[r]
      /\ outcomes'[r] = outcomes[r] /\ current'[r] = current[r]
  BY DEF CheckDestination, TypeOK, tree, environment
<1>2. CASE ~DestinationAcceptable(r)
  <2>1. pc'[r] = "failed" /\ plans'[r] = plans[r]
    BY <1>2 DEF CheckDestination, TypeOK, Goto
  <2> QED
    BY <1>1, <2>1, StopStep DEF HasWritten
<1>3. CASE DestinationAcceptable(r)
  <2>1. pc'[r] = "group" /\ plans'[r] = plans[r] \cup {current[r]}
    BY <1>3 DEF CheckDestination, TypeOK, Goto
  <2>2. CursorInv(r)
    BY DEF RunInv
  <2>3. /\ current[r] \in Wanted /\ current[r].group.state = "ready"
        /\ current[r].source = source[r] /\ current[r].group \notin todo[r]
        /\ ~current[r].group.diagnostics
    BY <1>1, <2>2 DEF CursorInv, Ready
  <2>4. Sound(current[r])
    BY <1>3, <2>3 DEF Sound, DestinationAcceptable
  <2>5. current[r] \notin LookedAt(r)
    BY <1>1 DEF LookedAt
  <2>6. LookedAt(r)' = LookedAt(r) \cup {current[r]}
    BY <1>1, <2>1, <2>3, ScanSame DEF LookedAt, AtGroup
  <2>7. CursorInv(r)'
    BY <1>1, <2>1, <2>2 DEF CursorInv, AtGroup
  <2> QED
    BY <1>1, <2>1, <2>3, <2>4, <2>5, <2>6, <2>7, LookStep DEF Preflight
<1> QED
  BY <1>2, <1>3

LEMMA EndPreflightStep ==
  ASSUME TypeOK, NEW r \in Runs, RunInv(r), EndPreflight(r)
  PROVE  RunInv(r)'
<1>1. /\ scan' = scan /\ node' = node /\ litter' = litter
      /\ pc[r] = "source" /\ pc'[r] = "write" /\ source[r] \notin DOMAIN scan
      /\ plans'[r] = plans[r] /\ outcomes'[r] = outcomes[r]
  BY DEF EndPreflight, TypeOK, Goto, tree, environment
<1>2. PreflightInv(r)
  BY DEF RunInv
<1>3. \A i \in DOMAIN scan : i < source[r]
  <2>1. DOMAIN scan = 1 .. Len(scan) /\ Len(scan) \in Nat
    BY ConstantAssumption DEF TypeOK
  <2>2. source[r] \in Nat /\ source[r] >= 1
    BY <1>1, <1>2 DEF TypeOK, PreflightInv, Preflight
  <2> QED
    BY <1>1, <2>1, <2>2
<1>4. LookedAt(r) = Wanted
  BY <1>1, <1>3, WantedOfSource DEF LookedAt, TypeOK
<1>5. Admissible
  BY <1>1, <1>2, <1>3, <1>4
     DEF Admissible, PreflightInv, Preflight, Sound, Ready
<1>6. WritingInv(r)'
  BY <1>1, <1>2, <1>4, <1>5, ScanSame DEF WritingInv, PreflightInv, Preflight
<1>7. PreflightInv(r)' /\ CursorInv(r)' /\ PlanInv(r)'
  BY <1>1 DEF PreflightInv, CursorInv, PlanInv, Preflight, AtGroup, AtPlan
<1>8. TraceInv(r)'
  BY <1>1, <1>6 DEF TraceInv, WritingInv, Writing, Preflight
<1> QED
  BY <1>6, <1>7, <1>8 DEF RunInv

-----------------------------------------------------------------------------
(* The invariant of the run that moves: writing.                           *)

LEMMA NextPlanStep ==
  ASSUME TypeOK, NEW r \in Runs, RunInv(r), NextPlan(r)
  PROVE  RunInv(r)'
<1>1. /\ scan' = scan /\ pc[r] = "write" /\ pc'[r] \in {"mkdir", "create"}
      /\ plans'[r] = plans[r] /\ outcomes'[r] = outcomes[r]
      /\ current'[r] \in Remaining(r)
      /\ \A q \in Remaining(r) : current'[r].group.dest <= q.group.dest
  BY DEF NextPlan, InOrder, TypeOK, Goto, environment
<1>2. Remaining(r)' = Remaining(r)
  BY <1>1 DEF Remaining
<1>3. PlanInv(r)'
  BY <1>1, <1>2 DEF PlanInv, Dest, AtPlan, Writing
<1> QED
  BY <1>1, <1>3, WriteStep DEF Writing

\* A step from one call to the next with the same plan at hand.
LEMMA NextCallStep ==
  ASSUME NEW r, RunInv(r), scan' = scan, pc[r] \in AtPlan,
         pc'[r] \in AtPlan, plans'[r] = plans[r],
         outcomes'[r] = outcomes[r], current'[r] = current[r],
         pc'[r] = "fill" => r \notin Overwrite,
         pc'[r] \in {"temporary", "rename"} => r \in Overwrite
  PROVE  RunInv(r)'
<1>1. Remaining(r)' = Remaining(r) /\ Dest(r)' = Dest(r)
  BY DEF Remaining, Dest
<1>2. PlanInv(r)'
  BY <1>1 DEF RunInv, PlanInv, AtPlan, Writing
<1> QED
  BY <1>2, WriteStep DEF AtPlan

\* A step that carries out the plan at hand.
LEMMA PublishStep ==
  ASSUME NEW r, RunInv(r), scan' = scan, pc[r] \in AtPlan,
         pc'[r] = "write", plans'[r] = plans[r],
         outcomes'[r] = outcomes[r] \cup {current[r]}
  PROVE  RunInv(r)'
<1>1. PlanInv(r)'
  BY DEF PlanInv, AtPlan
<1> QED
  BY <1>1, WriteStep DEF AtPlan, Writing

LEMMA MakeDirectoryStep ==
  ASSUME TypeOK, NEW r \in Runs, RunInv(r), MakeDirectory(r)
  PROVE  RunInv(r)'
<1>1. /\ scan' = scan /\ node' = node /\ litter' = litter
      /\ pc[r] = "mkdir" /\ pc'[r] \in {"create", "failed"}
      /\ plans'[r] = plans[r] /\ outcomes'[r] = outcomes[r]
      /\ current'[r] = current[r]
  BY DEF MakeDirectory, TypeOK, Goto, environment
<1>2. CASE pc'[r] = "failed"
  BY <1>1, <1>2, StopStep DEF HasWritten
<1>3. CASE pc'[r] = "create"
  BY <1>1, <1>3, NextCallStep DEF AtPlan, Writing
<1> QED
  BY <1>1, <1>2, <1>3

LEMMA CreateExclusiveStep ==
  ASSUME TypeOK, NEW r \in Runs, RunInv(r), CreateExclusive(r)
  PROVE  RunInv(r)'
<1>1. /\ scan' = scan /\ litter' = litter
      /\ pc[r] = "create" /\ r \notin Overwrite
      /\ plans'[r] = plans[r] /\ outcomes'[r] = outcomes[r]
      /\ current'[r] = current[r]
  BY DEF CreateExclusive, TypeOK, environment
<1>2. CASE OpensExclusively(r)
  <2>1. pc'[r] = "fill"
    BY <1>2 DEF CreateExclusive, TypeOK, Goto
  <2> QED
    BY <1>1, <2>1, NextCallStep DEF AtPlan, Writing
<1>3. CASE ~OpensExclusively(r)
  <2>1. pc'[r] = "failed" /\ node' = node
    BY <1>3 DEF CreateExclusive, TypeOK, Goto
  <2> QED
    BY <1>1, <2>1, StopStep DEF HasWritten
<1> QED
  BY <1>2, <1>3

LEMMA CreateTemporaryStep ==
  ASSUME TypeOK, NEW r \in Runs, RunInv(r),
         CreateTemporary(r) \/ FillTemporary(r)
  PROVE  RunInv(r)'
<1>1. /\ scan' = scan
      /\ \/ pc[r] = "create" /\ r \in Overwrite /\ pc'[r] = "temporary"
         \/ pc[r] = "temporary" /\ pc'[r] = "rename"
      /\ plans'[r] = plans[r] /\ outcomes'[r] = outcomes[r]
      /\ current'[r] = current[r]
  BY DEF CreateTemporary, FillTemporary, TypeOK, Goto, environment
<1>2. r \in Overwrite
  BY <1>1 DEF RunInv, PlanInv
<1> QED
  BY <1>1, <1>2, NextCallStep DEF AtPlan, Writing

LEMMA FillExclusiveStep ==
  ASSUME TypeOK, NEW r \in Runs, RunInv(r), FillExclusive(r)
  PROVE  RunInv(r)'
<1>1. /\ scan' = scan /\ pc[r] = "fill" /\ pc'[r] = "write"
      /\ plans'[r] = plans[r]
      /\ outcomes'[r] = outcomes[r] \cup {current[r]}
  BY DEF FillExclusive, Publish, TypeOK, Goto, environment
<1> QED
  BY <1>1, PublishStep DEF AtPlan, Writing

LEMMA RenameStep ==
  ASSUME TypeOK, NEW r \in Runs, RunInv(r), Rename(r)
  PROVE  RunInv(r)'
<1>1. scan' = scan /\ pc[r] = "rename" /\ plans'[r] = plans[r]
  BY DEF Rename, environment
<1>2. CASE node[Dest(r)].kind = "directory"
  <2>1. pc'[r] = "failed" /\ node' = node
    BY <1>2 DEF Rename, TypeOK, Goto
  <2>2. HasWritten(r)' => HasWritten(r)
    BY <2>1 DEF Rename, RemoveTemporary, HasWritten, TypeOK
  <2> QED
    BY <1>1, <2>1, <2>2, StopStep
<1>3. CASE node[Dest(r)].kind # "directory"
  <2>1. pc'[r] = "write" /\ outcomes'[r] = outcomes[r] \cup {current[r]}
    BY <1>3 DEF Rename, Publish, TypeOK, Goto
  <2> QED
    BY <1>1, <2>1, PublishStep DEF AtPlan, Writing
<1> QED
  BY <1>2, <1>3

LEMMA FinishStep ==
  ASSUME TypeOK, NEW r \in Runs, RunInv(r), Finish(r)
  PROVE  RunInv(r)'
<1>1. /\ scan' = scan /\ pc[r] = "write" /\ pc'[r] = "done"
      /\ plans'[r] = plans[r] /\ outcomes'[r] = outcomes[r]
      /\ Remaining(r) = {}
  BY DEF Finish, TypeOK, Goto, environment
<1>2. PlanInv(r)'
  BY <1>1 DEF PlanInv, Remaining, AtPlan, Writing
<1> QED
  BY <1>1, <1>2, WriteStep DEF Writing, Over

LEMMA StopStepOf ==
  ASSUME TypeOK, NEW r \in Runs, RunInv(r),
         RejectSource(r) \/ RejectGroup(r) \/ FailIO(r) \/ Crash(r)
  PROVE  RunInv(r)'
<1>1. /\ scan' = scan /\ pc'[r] \in {"failed", "crashed"}
      /\ plans'[r] = plans[r]
  BY DEF RejectSource, RejectGroup, FailIO, Crash, TypeOK, Goto, environment
<1>2. HasWritten(r)' => HasWritten(r)
  BY DEF RejectSource, RejectGroup, FailIO, Crash, RemoveTemporary, HasWritten,
     TypeOK, tree
<1> QED
  BY <1>1, <1>2, StopStep

-----------------------------------------------------------------------------
(* The invariant, and what follows from it.                                *)

LEMMA RunInvInit == Init => \A r \in Runs : RunInv(r)
<1> SUFFICES ASSUME Init, NEW r \in Runs PROVE RunInv(r)
  OBVIOUS
<1>1. /\ scan \in Scans /\ pc[r] = "idle" /\ source[r] = 1
      /\ plans[r] = {} /\ outcomes[r] = {}
  BY DEF Init
<1>2. DOMAIN scan \subseteq Nat \ {0}
  BY <1>1, ConstantAssumption
<1>3. LookedAt(r) = {}
  BY <1>1, <1>2, WantedOfSource DEF LookedAt, AtGroup
<1>4. ~HasWritten(r)
  BY ConstantAssumption DEF Init, HasWritten, Foreign
<1>5. PreflightInv(r)
  BY <1>1, <1>2, <1>3 DEF PreflightInv, Ready
<1> QED
  BY <1>1, <1>4, <1>5 DEF RunInv, CursorInv, WritingInv, PlanInv, TraceInv,
     AtGroup, AtPlan, Writing

LEMMA RunInvStep ==
  ASSUME TypeOK, NEW r \in Runs, RunInv(r), RunStep(r)
  PROVE  RunInv(r)'
BY BeginStep, SkipSourceStep, EnterSourceStep, LeaveSourceStep, SkipGroupStep,
   TakeGroupStep, CheckDirectoryStep, CheckDestinationStep, EndPreflightStep,
   NextPlanStep, MakeDirectoryStep, CreateExclusiveStep, FillExclusiveStep,
   CreateTemporaryStep, RenameStep, FinishStep, StopStepOf DEF RunStep, Step

LEMMA InductiveStep == IInv /\ [Next]_vars => IInv'
<1> SUFFICES ASSUME IInv, [Next]_vars PROVE IInv'
  OBVIOUS
<1>1. TypeOK'
  BY TypeStep DEF IInv
<1>2. ASSUME NEW q \in Runs PROVE RunInv(q)'
  <2>1. ASSUME NEW r \in Runs, RunStep(r) PROVE RunInv(q)'
    BY <2>1, RunInvStep, OtherRunsSame, SameRunInv DEF IInv
  <2>2. ASSUME NEW d \in Dests, Edit(d) PROVE RunInv(q)'
    BY <2>2, EditSame, SameRunInv DEF IInv
  <2>3. ASSUME UNCHANGED vars PROVE RunInv(q)'
    BY <2>3, SameRunInv
       DEF IInv, Same, NothingNew, vars, run, tree, environment
  <2> QED
    BY <2>1, <2>2, <2>3 DEF Next, RunStep
<1> QED
  BY <1>1, <1>2 DEF IInv

THEOREM Invariance == Spec => []IInv
<1>1. Init => IInv
  BY TypeInit, RunInvInit DEF IInv
<1> QED
  BY <1>1, InductiveStep, PTL DEF Spec

\* Every variable has its type.
THEOREM TypeCorrect == Spec => []TypeOK
<1>1. IInv => TypeOK
  BY DEF IInv
<1> QED
  BY <1>1, Invariance, PTL

\* A run that has left anything in the tree has accepted every source and has
\* planned every ready group, for any number of runs, sources and groups.
THEOREM PreflightFirst == Spec => []PreflightComesFirst
<1>1. IInv => PreflightComesFirst
  BY DEF IInv, RunInv, TraceInv, PreflightComesFirst
<1> QED
  BY <1>1, Invariance, PTL

\* A run that succeeds has reported every group that it was asked for.
THEOREM GroupsReported == Spec => []EveryGroupReported
<1>1. IInv => EveryGroupReported
  <2> SUFFICES ASSUME IInv, NEW r \in Runs, pc[r] = "done"
               PROVE  outcomes[r] = Wanted
    BY DEF EveryGroupReported
  <2>1. WritingInv(r) /\ PlanInv(r)
    BY DEF IInv, RunInv
  <2>2. Ready(Wanted) \subseteq outcomes[r]
    BY <2>1 DEF WritingInv, PlanInv, Remaining
  <2> QED
    BY <2>1, <2>2 DEF WritingInv
<1> QED
  BY <1>1, Invariance, PTL

-----------------------------------------------------------------------------
(* What runs do to files that are there, and what they leave behind when   *)
(* they are stopped.                                                       *)

\* Where the node of d differs after a step, one of four actions is to blame.
LEMMA WhoChangesNodes ==
  ASSUME TypeOK, NEW r \in Runs, RunStep(r)
  PROVE  \/ node' = node
         \/ CreateExclusive(r) \/ FillExclusive(r) \/ Rename(r)
<1> USE DEF tree
<1>1. Step(r) => \/ node' = node
                 \/ CreateExclusive(r) \/ FillExclusive(r) \/ Rename(r)
  BY DEF Step, SkipSource, RejectSource, EnterSource, LeaveSource, RejectGroup,
     SkipGroup, TakeGroup, CheckDirectory, CheckDestination, EndPreflight,
     NextPlan, MakeDirectory, CreateTemporary, FillTemporary, Finish
<1> QED
  BY <1>1 DEF RunStep, Begin, FailIO, Crash

\* Existing files are only replaced as planned by an overwriting run, or
\* completed by the run that has made them.
LEMMA ReplacedByRun ==
  ASSUME IInv, NEW r \in Runs, RunStep(r), NEW d \in Dests, node'[d] # node[d]
  PROVE  Replaced(d)
<1>1. TypeOK /\ RunInv(r)
  BY DEF IInv
<1>2. CASE CreateExclusive(r)
  <2>1. d = Dest(r) /\ node[d].kind = "absent"
    BY <1>1, <1>2 DEF CreateExclusive, OpensExclusively, TypeOK
  <2> QED
    BY <2>1 DEF Replaced
<1>3. CASE FillExclusive(r)
  <2>1. d = Dest(r) /\ IsOpen(r) /\ node'[d] = Written(r, Content(r), TRUE)
    BY <1>1, <1>3 DEF FillExclusive, TypeOK
  <2>2. node[d] = Written(r, Content(r), FALSE)
    BY <2>1 DEF IsOpen
  <2>3. node[d].by = r /\ node[d].content = Content(r)
    BY <2>2 DEF Written
  <2> QED
    BY <2>1, <2>3 DEF Replaced
<1>4. CASE Rename(r)
  <2>1. d = Dest(r) /\ node'[d] = Written(r, Content(r), TRUE)
    BY <1>1, <1>4 DEF Rename, Temporary, TypeOK
  <2>2. r \in Overwrite /\ current[r] \in plans[r]
    BY <1>1, <1>4 DEF Rename, RunInv, PlanInv, Remaining, AtPlan, Writing
  <2> QED
    BY <2>1, <2>2 DEF Replaced, Replaceable, Dest, Written
<1> QED
  BY <1>1, <1>2, <1>3, <1>4, WhoChangesNodes

LEMMA ReplacedStep == IInv /\ [Next]_vars =>
  [\A d \in Dests : node'[d] # node[d] => Replaced(d)]_vars
<1> SUFFICES ASSUME IInv, Next, NEW d \in Dests, node'[d] # node[d]
             PROVE  Replaced(d)
  BY DEF vars
<1>1. CASE \E r \in Runs : RunStep(r)
  BY <1>1, ReplacedByRun
<1>2. CASE \E e \in Dests : Edit(e)
  <2>1. edits \in Nat /\ edits' = edits + 1
    BY <1>2 DEF Edit, IInv, TypeOK
  <2>2. edits' # edits
    BY <2>1
  <2> QED
    BY <2>2 DEF Replaced
<1> QED
  BY <1>1, <1>2 DEF Next, RunStep

\* Overwriting replaces only what the run has planned, and whole; without it
\* nothing that exists is changed.
THEOREM OnlyPlannedReplaced == Spec => OnlyPlannedFilesReplaced
BY Invariance, ReplacedStep, PTL DEF Spec, OnlyPlannedFilesReplaced

-----------------------------------------------------------------------------
(* Partial files.                                                          *)

\* Where run r is writing now, or was stopped while it wrote.
Stopped(r) == pc[r] = "crashed" \/ (pc[r] = "failed" /\ ioError[r])
IsFilling(r, d) == pc[r] = "fill" /\ Dest(r) = d /\ IsOpen(r)
PartialInv ==
  \A d \in Dests : ~node[d].whole =>
    \E r \in Runs \ Overwrite : /\ node[d].by = r
                                /\ IsFilling(r, d) \/ Stopped(r)

LEMMA PartialInit == Init => PartialInv
BY DEF Init, PartialInv, Foreign

LEMMA FillingSame ==
  ASSUME NEW q, NEW d, Same(q), node'[d] = node[d],
         IsFilling(q, d) \/ Stopped(q)
  PROVE  IsFilling(q, d)' \/ Stopped(q)'
<1>1. IsFilling(q, d) => IsFilling(q, d)'
  BY DEF Same, IsFilling, Dest, Content, IsOpen
<1> QED
  BY <1>1 DEF Same, Stopped

\* A run that is stopped stays so; a run that fills a file and moves completes
\* it or is stopped.
LEMMA FillingGoesOn ==
  ASSUME IInv, NEW r \in Runs, NEW q \in Runs, RunStep(r), NEW d \in Dests,
         node'[d] = node[d], ~node[d].whole, node[d].by = q,
         IsFilling(q, d) \/ Stopped(q)
  PROVE  IsFilling(q, d)' \/ Stopped(q)'
<1>1. TypeOK /\ RunInv(r)
  BY DEF IInv
<1>2. CASE q # r
  BY <1>1, <1>2, OtherRunsSame, FillingSame
<1>3. CASE q = r
  <2>1. CASE Stopped(r)
    BY <2>1 DEF Stopped, RunStep, Step, Begin, SkipSource, RejectSource,
       EnterSource, LeaveSource, RejectGroup, SkipGroup, TakeGroup,
       CheckDirectory, CheckDestination, EndPreflight, NextPlan, MakeDirectory,
       CreateExclusive, FillExclusive, CreateTemporary, FillTemporary, Rename,
       Finish, FailIO, Crash, Active, Preflight, Writing
  <2>2. CASE IsFilling(r, d)
    <3>1. FillExclusive(r) \/ FailIO(r) \/ Crash(r)
      BY <2>2 DEF IsFilling, RunStep, Step, Begin, SkipSource, RejectSource,
         EnterSource, LeaveSource, RejectGroup, SkipGroup, TakeGroup,
         CheckDirectory, CheckDestination, EndPreflight, NextPlan,
         MakeDirectory, CreateExclusive, CreateTemporary, FillTemporary,
         Rename, Finish
    <3>2. ~FillExclusive(r)
      BY <1>1, <2>2 DEF FillExclusive, IsFilling, IsOpen, Written, TypeOK
    <3> QED
      BY <1>1, <1>3, <3>1, <3>2 DEF FailIO, Crash, Stopped, TypeOK, Goto
  <2> QED
    BY <1>3, <2>1, <2>2
<1> QED
  BY <1>2, <1>3

LEMMA PartialStep == IInv /\ PartialInv /\ [Next]_vars => PartialInv'
<1> SUFFICES ASSUME IInv, PartialInv, [Next]_vars, NEW d \in Dests,
                    ~node'[d].whole
             PROVE  \E q \in Runs \ Overwrite :
                      /\ node'[d].by = q
                      /\ IsFilling(q, d)' \/ Stopped(q)'
  BY DEF PartialInv
<1>1. TypeOK
  BY DEF IInv
<1>2. CASE node'[d] = node[d]
  <2>1. PICK q \in Runs \ Overwrite : /\ node[d].by = q
                                      /\ IsFilling(q, d) \/ Stopped(q)
    BY <1>2 DEF PartialInv
  <2>2. CASE \E r \in Runs : RunStep(r)
    BY <1>2, <2>1, <2>2, FillingGoesOn
  <2>3. CASE \E e \in Dests : Edit(e)
    BY <1>1, <1>2, <2>1, <2>3, EditSame, FillingSame
  <2>4. CASE UNCHANGED vars
    BY <1>2, <2>1, <2>4, FillingSame DEF vars, run, tree, environment, Same
  <2> QED
    BY <1>2, <2>1, <2>2, <2>3, <2>4 DEF Next, RunStep
<1>3. CASE node'[d] # node[d]
  <2>1. ASSUME NEW r \in Runs, RunStep(r)
        PROVE  r \notin Overwrite /\ node'[d].by = r /\ IsFilling(r, d)'
    <3>1. ~FillExclusive(r) /\ ~Rename(r)
      BY <1>1, <1>3 DEF FillExclusive, Rename, Temporary, Written, TypeOK
    <3>2. CreateExclusive(r)
      BY <1>1, <1>3, <2>1, <3>1, WhoChangesNodes
    <3>3. /\ d = Dest(r) /\ r \notin Overwrite /\ pc'[r] = "fill"
          /\ node'[d] = Written(r, Content(r), FALSE)
          /\ current'[r] = current[r]
      BY <1>1, <1>3, <3>2 DEF CreateExclusive, TypeOK, Goto
    <3> QED
      BY <3>3 DEF IsFilling, IsOpen, Dest, Content, Written
  <2>2. ASSUME NEW e \in Dests, Edit(e) PROVE FALSE
    BY <1>1, <1>3, <2>2 DEF Edit, Foreign, TypeOK
  <2> QED
    BY <1>3, <2>1, <2>2 DEF Next, RunStep, vars, tree
<1> QED
  BY <1>2, <1>3

\* Whatever fails or dies, a partial file is the work of a run without the
\* overwrite flag: overwriting is atomic per file.
THEOREM PartialExplained == Spec => []PartialFilesExplained
<1>1. PartialInv => PartialFilesExplained
  BY DEF PartialInv, PartialFilesExplained, IsFilling, Stopped
<1> QED
  BY <1>1, Invariance, PartialInit, PartialStep, PTL DEF Spec
-----------------------------------------------------------------------------
(* Temporary files.                                                        *)

AtWork(r, d) == pc[r] \in {"temporary", "rename"} /\ Dest(r) = d
Excused(r, d) == AtWork(r, d) \/ pc[r] = "crashed"

LEMMA TemporaryInit == Init => NoTemporaryLeft
BY ConstantAssumption DEF Init, NoTemporaryLeft

\* What run r does to its own temporary files.
LEMMA TemporaryOfRun ==
  ASSUME IInv, NoTemporaryLeft, NEW r \in Runs, RunStep(r),
         NEW d \in Dests, r \in litter'[d]
  PROVE  Excused(r, d)'
<1>1. TypeOK
  BY DEF IInv
<1>2. CASE CreateTemporary(r)
  <2>1. /\ pc[r] = "create" /\ pc'[r] = "temporary" /\ Dest(r)' = Dest(r)
        /\ litter' = [litter EXCEPT ![Dest(r)] = @ \cup {r}]
    BY <1>1, <1>2 DEF CreateTemporary, Goto, Dest, TypeOK
  <2>2. d # Dest(r) => r \in litter[d]
    BY <1>1, <2>1 DEF TypeOK
  <2> QED
    BY <2>1, <2>2 DEF NoTemporaryLeft, Excused, AtWork
<1>3. CASE FillTemporary(r)
  <2>1. /\ pc[r] = "temporary" /\ pc'[r] = "rename" /\ Dest(r)' = Dest(r)
        /\ litter' = litter
    BY <1>1, <1>3 DEF FillTemporary, Goto, Dest, TypeOK, tree
  <2> QED
    BY <2>1 DEF NoTemporaryLeft, Excused, AtWork
<1>4. CASE Rename(r) \/ FailIO(r)
  <2>1. d # Dest(r) /\ r \in litter[d] /\ pc[r] # "crashed"
    BY <1>1, <1>4 DEF Rename, FailIO, RemoveTemporary, TypeOK, Writing
  <2> QED
    BY <2>1 DEF NoTemporaryLeft
<1>5. CASE Crash(r)
  BY <1>1, <1>5 DEF Crash, Goto, TypeOK, Excused
<1>6. CASE Begin(r) \/ (Step(r) /\ ~CreateTemporary(r) /\ ~FillTemporary(r) /\ ~Rename(r))
  <2>1. litter' = litter /\ pc[r] \notin {"temporary", "rename", "crashed"}
    BY <1>6 DEF Begin, Step, SkipSource, RejectSource, EnterSource, LeaveSource,
       RejectGroup, SkipGroup, TakeGroup, CheckDirectory, CheckDestination,
       EndPreflight, NextPlan, MakeDirectory, CreateExclusive, FillExclusive,
       Finish, tree
  <2> QED
    BY <2>1 DEF NoTemporaryLeft
<1> QED
  BY <1>2, <1>3, <1>4, <1>5, <1>6 DEF RunStep

LEMMA TemporaryStep == IInv /\ NoTemporaryLeft /\ [Next]_vars => NoTemporaryLeft'
<1> SUFFICES ASSUME IInv, NoTemporaryLeft, [Next]_vars, NEW d \in Dests,
                    NEW q \in Runs, q \in litter'[d]
             PROVE  Excused(q, d)'
  BY DEF NoTemporaryLeft, Excused, AtWork
<1>1. TypeOK
  BY DEF IInv
<1>2. ASSUME Same(q), q \in litter[d] PROVE Excused(q, d)'
  BY <1>2 DEF NoTemporaryLeft, Excused, AtWork, Same, Dest
<1>3. ASSUME NEW r \in Runs, RunStep(r) PROVE Excused(q, d)'
  <2>1. CASE q = r
    BY <1>3, <2>1, TemporaryOfRun
  <2>2. CASE q # r
    BY <1>1, <1>2, <1>3, <2>2, OtherRunsSame DEF NothingNew
  <2> QED
    BY <2>1, <2>2
<1>4. ASSUME NEW e \in Dests, Edit(e) PROVE Excused(q, d)'
  <2>1. Same(q)
    BY <1>1, <1>4, EditSame
  <2>2. q \in litter[d]
    BY <1>1, <1>4, ConstantAssumption DEF Edit, TypeOK
  <2> QED
    BY <1>2, <2>1, <2>2
<1>5. CASE UNCHANGED vars
  BY <1>2, <1>5 DEF vars, run, tree, environment, Same
<1> QED
  BY <1>3, <1>4, <1>5 DEF Next, RunStep

\* Only a run that was killed leaves a temporary file behind: one that fails
\* or succeeds has removed or renamed it.
THEOREM TemporariesExplained == Spec => []NoTemporaryLeft
BY Invariance, TemporaryInit, TemporaryStep, PTL DEF Spec

-----------------------------------------------------------------------------
(* Reported files.                                                         *)

LEMMA SeparateSame ==
  ASSUME scan' = scan
  PROVE  SeparateDestinations' = SeparateDestinations
BY ScanSame DEF SeparateDestinations

LEMMA StepKeepsScan ==
  ASSUME [Next]_vars
  PROVE  scan' = scan /\ edited \subseteq edited'
<1>1. ASSUME NEW r \in Runs, RunStep(r) PROVE environment' = environment
  BY <1>1 DEF RunStep, Step, Begin, SkipSource, RejectSource, EnterSource,
     LeaveSource, RejectGroup, SkipGroup, TakeGroup, CheckDirectory,
     CheckDestination, EndPreflight, NextPlan, MakeDirectory, CreateExclusive,
     FillExclusive, CreateTemporary, FillTemporary, Rename, Finish, FailIO,
     Crash
<1>2. ASSUME NEW d \in Dests, Edit(d)
      PROVE  scan' = scan /\ edited \subseteq edited'
  BY <1>2 DEF Edit
<1> QED
  BY <1>1, <1>2 DEF Next, RunStep, vars, environment

\* In a step a run moves or is left alone.
LEMMA MovesOrNot ==
  ASSUME TypeOK, [Next]_vars, NEW q \in Runs
  PROVE  RunStep(q) \/ Same(q)
<1>1. ASSUME NEW r \in Runs, RunStep(r), r # q PROVE Same(q)
  BY <1>1, OtherRunsSame
<1>2. ASSUME NEW d \in Dests, Edit(d) PROVE Same(q)
  BY <1>2, EditSame
<1>3. ASSUME UNCHANGED vars PROVE Same(q)
  BY <1>3 DEF vars, run, environment, Same
<1> QED
  BY <1>1, <1>2, <1>3 DEF Next, RunStep

\* Every node that a step changes, a run's or somebody else's.
LEMMA NodeChange ==
  ASSUME TypeOK, [Next]_vars, NEW d \in Dests, node'[d] # node[d]
  PROVE  \/ d \in edited'
         \/ \E r \in Runs :
              /\ d = Dest(r)
              /\ \/ CreateExclusive(r) /\ node[d].kind = "absent"
                 \/ FillExclusive(r) /\ IsOpen(r)
                 \/ Rename(r) /\ node'[d] = Written(r, Content(r), TRUE)
<1>1. CASE \E r \in Runs : RunStep(r)
  <2>1. PICK r \in Runs : RunStep(r)
    BY <1>1
  <2>2. CreateExclusive(r) \/ FillExclusive(r) \/ Rename(r)
    BY <2>1, WhoChangesNodes
  <2>3. CASE CreateExclusive(r)
    BY <2>3 DEF CreateExclusive, OpensExclusively, TypeOK
  <2>4. CASE FillExclusive(r)
    BY <2>4 DEF FillExclusive, TypeOK
  <2>5. CASE Rename(r)
    BY <2>5 DEF Rename, Temporary, TypeOK
  <2> QED
    BY <2>2, <2>3, <2>4, <2>5
<1>2. CASE \E e \in Dests : Edit(e)
  BY <1>2 DEF Edit, TypeOK
<1>3. CASE UNCHANGED vars
  BY <1>3 DEF vars, tree
<1> QED
  BY <1>1, <1>2, <1>3 DEF Next, RunStep

\* Where destinations are separate, no step takes a wanted file away or
\* changes what it holds.
LEMMA InPlaceStays ==
  ASSUME IInv, SeparateDestinations, [Next]_vars, NEW p \in Ready(Wanted),
         InPlace(p), p.group.dest \notin edited'
  PROVE  InPlace(p)'
<1> DEFINE d == p.group.dest
<1>1. TypeOK
  BY DEF IInv
<1>2. d \in Dests
  BY <1>1, WantedArePlans, PlanTypes DEF TypeOK, Ready
<1>3. CASE node'[d] = node[d]
  BY <1>3 DEF InPlace
<1>4. CASE node'[d] # node[d]
  <2>1. PICK r \in Runs :
              /\ d = Dest(r)
              /\ \/ CreateExclusive(r) /\ node[d].kind = "absent"
                 \/ FillExclusive(r) /\ IsOpen(r)
                 \/ Rename(r) /\ node'[d] = Written(r, Content(r), TRUE)
    BY <1>1, <1>2, <1>4, NodeChange
  <2>2. Rename(r) /\ node'[d] = Written(r, Content(r), TRUE)
    BY <2>1 DEF InPlace, IsOpen, Written
  <2>3. current[r] \in Ready(Wanted)
    BY <2>2 DEF Rename, IInv, RunInv, PlanInv, WritingInv, Remaining, AtPlan,
       Writing
  <2>4. current[r] = p
    BY <2>1, <2>3 DEF SeparateDestinations, Dest
  <2> QED
    BY <2>2, <2>4 DEF InPlace, Written, Content
<1> QED
  BY <1>3, <1>4

LEMMA KeptStays ==
  ASSUME IInv, SeparateDestinations, [Next]_vars, NEW p \in Ready(Wanted),
         Kept(p)
  PROVE  Kept(p)'
BY InPlaceStays, StepKeepsScan DEF Kept

\* A run goes on filling the file that it has opened.
LEMMA OpenStays ==
  ASSUME IInv, SeparateDestinations, [Next]_vars, NEW q \in Runs,
         pc[q] = "fill", Dest(q)' = Dest(q), Content(q)' = Content(q),
         IsOpen(q)
  PROVE  IsOpen(q)' \/ Kept(current[q])'
<1> DEFINE d == Dest(q)
<1>1. TypeOK /\ RunInv(q)
  BY DEF IInv
<1>2. /\ current[q] \in Ready(Wanted) /\ d \in Dests
      /\ q \notin Overwrite /\ current[q].group.dest = d
  BY <1>1, CurrentIsPlan DEF RunInv, PlanInv, WritingInv, Remaining, AtPlan,
     Writing, Dest
<1>3. CASE node'[d] = node[d]
  BY <1>3 DEF IsOpen
<1>4. CASE d \in edited'
  BY <1>2, <1>4 DEF Kept, Dest
<1>5. CASE node'[d] # node[d] /\ d \notin edited'
  <2>1. PICK r \in Runs :
              /\ d = Dest(r)
              /\ \/ CreateExclusive(r) /\ node[d].kind = "absent"
                 \/ FillExclusive(r) /\ IsOpen(r)
                 \/ Rename(r) /\ node'[d] = Written(r, Content(r), TRUE)
    BY <1>1, <1>2, <1>5, NodeChange
  <2>2. ~CreateExclusive(r) \/ node[d].kind # "absent"
    BY DEF IsOpen, Written
  <2>3. current[r] \in Ready(Wanted)
    BY <2>1, <2>2 DEF Rename, FillExclusive, IInv, RunInv, PlanInv, WritingInv,
       Remaining, AtPlan, Writing
  <2>4. current[r] = current[q]
    BY <1>2, <2>1, <2>3 DEF SeparateDestinations, Dest
  <2>5. node'[d] = Written(r, Content(q), TRUE)
    BY <1>1, <1>2, <2>1, <2>2, <2>4 DEF FillExclusive, Content, TypeOK
  <2> QED
    BY <1>2, <2>5 DEF Kept, InPlace, Written, Content, Dest
<1> QED
  BY <1>3, <1>4, <1>5

LEMMA IntactInit == Init => IntactInv
BY DEF Init, IntactInv, Writing

\* What a run publishes in a step.
LEMMA PublishedInStep ==
  ASSUME IInv, NEW r \in Runs, RunStep(r),
         pc'[r] \in Writing \cup {"done"}
  PROVE  \/ pc[r] \in Writing /\ Published(r)' = Published(r)
         \/ pc[r] = "source" /\ Published(r)' = {}
         \/ /\ Published(r)' = Published(r) \cup {current[r]}
            /\ \/ FillExclusive(r)
               \/ Rename(r) /\ node[Dest(r)].kind # "directory"
<1>1. TypeOK /\ RunInv(r)
  BY DEF IInv
<1>2. CASE NextPlan(r) \/ MakeDirectory(r) \/ CreateExclusive(r)
           \/ CreateTemporary(r) \/ FillTemporary(r) \/ Finish(r)
  BY <1>2 DEF NextPlan, MakeDirectory, CreateExclusive, CreateTemporary,
     FillTemporary, Finish, Published, Ready, Writing
<1>3. CASE EndPreflight(r)
  BY <1>1, <1>3 DEF EndPreflight, RunInv, PreflightInv, Published, Ready,
     Preflight
<1>4. CASE FillExclusive(r)
  <2>1. /\ outcomes'[r] = outcomes[r] \cup {current[r]}
        /\ current[r].group.state = "ready"
    BY <1>1, <1>4 DEF FillExclusive, Publish, TypeOK, RunInv, PlanInv,
       WritingInv, Remaining, AtPlan, Writing, Ready
  <2> QED
    BY <1>4, <2>1 DEF Published, Ready
<1>5. CASE Rename(r)
  <2>1. node[Dest(r)].kind # "directory"
    BY <1>1, <1>5 DEF Rename, Goto, TypeOK, Writing
  <2>2. /\ outcomes'[r] = outcomes[r] \cup {current[r]}
        /\ current[r].group.state = "ready"
    BY <1>1, <1>5, <2>1 DEF Rename, Publish, TypeOK, RunInv, PlanInv,
       WritingInv, Remaining, AtPlan, Writing, Ready
  <2> QED
    BY <1>5, <2>1, <2>2 DEF Published, Ready
<1>6. CASE \/ Begin(r) \/ SkipSource(r) \/ RejectSource(r) \/ EnterSource(r)
           \/ LeaveSource(r) \/ RejectGroup(r) \/ SkipGroup(r) \/ TakeGroup(r)
           \/ CheckDirectory(r) \/ CheckDestination(r) \/ FailIO(r) \/ Crash(r)
  BY <1>1, <1>6 DEF Begin, SkipSource, RejectSource, EnterSource, LeaveSource,
     RejectGroup, SkipGroup, TakeGroup, CheckDirectory, CheckDestination,
     FailIO, Crash, Goto, TypeOK, Writing
<1> QED
  BY <1>2, <1>3, <1>4, <1>5, <1>6 DEF RunStep, Step

\* A run that carries out a plan has its file in place.
LEMMA CarriedOut ==
  ASSUME IInv, IntactInv, SeparateDestinations, NEW r \in Runs, [Next]_vars,
         \/ FillExclusive(r)
         \/ Rename(r) /\ node[Dest(r)].kind # "directory",
         NEW p, p = current[r]
  PROVE  Kept(p)'
<1>1. TypeOK /\ RunInv(r)
  BY DEF IInv
<1>2. p \in Ready(Wanted) /\ Dest(r) \in Dests /\ p.group.dest = Dest(r)
      /\ Content(r) = p.group.content
  BY <1>1, CurrentIsPlan DEF RunInv, PlanInv, WritingInv, Remaining, AtPlan,
     Writing, Dest, Content, FillExclusive, Rename
<1>3. CASE FillExclusive(r) /\ IsOpen(r)
  <2>1. node'[Dest(r)] = Written(r, Content(r), TRUE)
    BY <1>1, <1>2, <1>3 DEF FillExclusive, TypeOK
  <2> QED
    BY <1>2, <2>1 DEF Kept, InPlace, Written
<1>4. CASE FillExclusive(r) /\ ~IsOpen(r)
  <2>1. Kept(p)
    BY <1>4 DEF IntactInv, FillExclusive
  <2> QED
    BY <1>2, <2>1, KeptStays
<1>5. CASE Rename(r) /\ node[Dest(r)].kind # "directory"
  <2>1. node'[Dest(r)] = Written(r, Content(r), TRUE)
    BY <1>1, <1>2, <1>5 DEF Rename, Temporary, TypeOK
  <2> QED
    BY <1>2, <2>1 DEF Kept, InPlace, Written
<1> QED
  BY <1>3, <1>4, <1>5

\* What is published is wanted.
LEMMA PublishedIsWanted ==
  ASSUME IInv, NEW r \in Runs, pc[r] \in Writing \cup {"done"}
  PROVE  Published(r) \subseteq Ready(Wanted)
BY DEF IInv, RunInv, WritingInv, Published, Ready

LEMMA IntactOfRun ==
  ASSUME IInv, IntactInv, SeparateDestinations, NEW r \in Runs, RunStep(r),
         [Next]_vars, pc'[r] \in Writing \cup {"done"},
         NEW p \in Published(r)'
  PROVE  Kept(p)'
<1>1. CASE pc[r] \in Writing /\ Published(r)' = Published(r)
  <2>1. p \in Ready(Wanted) /\ Kept(p)
    BY <1>1, PublishedIsWanted DEF IntactInv
  <2> QED
    BY <2>1, KeptStays
<1>2. CASE /\ Published(r)' = Published(r) \cup {current[r]}
           /\ \/ FillExclusive(r)
              \/ Rename(r) /\ node[Dest(r)].kind # "directory"
  <2>1. CASE p = current[r]
    BY <1>2, <2>1, CarriedOut
  <2>2. CASE p # current[r]
    <3>1. pc[r] \in Writing
      BY <1>2 DEF FillExclusive, Rename, Writing
    <3>2. p \in Ready(Wanted) /\ Kept(p)
      BY <1>2, <2>2, <3>1, PublishedIsWanted DEF IntactInv
    <3> QED
      BY <3>2, KeptStays
  <2> QED
    BY <2>1, <2>2
<1> QED
  BY <1>1, <1>2, PublishedInStep

LEMMA OpenOfRun ==
  ASSUME IInv, NEW r \in Runs, RunStep(r), pc'[r] = "fill"
  PROVE  IsOpen(r)'
<1>1. TypeOK /\ RunInv(r)
  BY DEF IInv
<1>2. CreateExclusive(r)
  BY <1>1 DEF RunStep, Step, Begin, SkipSource, RejectSource, EnterSource,
     LeaveSource, RejectGroup, SkipGroup, TakeGroup, CheckDirectory,
     CheckDestination, EndPreflight, NextPlan, MakeDirectory, FillExclusive,
     CreateTemporary, FillTemporary, Rename, Finish, FailIO, Crash, Publish,
     Goto, TypeOK
<1>3. OpensExclusively(r)
  BY <1>1, <1>2 DEF CreateExclusive, Goto, TypeOK
<1>4. Dest(r) \in Dests
  BY <1>1, <1>2, CurrentIsPlan DEF CreateExclusive, AtPlan, Writing
<1>5. /\ node'[Dest(r)] = Written(r, Content(r), FALSE)
      /\ current' = current
  BY <1>1, <1>2, <1>3, <1>4 DEF CreateExclusive, TypeOK
<1> QED
  BY <1>5 DEF IsOpen, Dest, Content, Written

LEMMA IntactOfOther ==
  ASSUME IInv, IntactInv, SeparateDestinations, [Next]_vars,
         NEW q \in Runs, Same(q)
  PROVE  /\ pc'[q] \in Writing \cup {"done"} =>
              \A p \in Published(q)' : Kept(p)'
         /\ pc'[q] = "fill" => IsOpen(q)' \/ Kept(current[q])'
<1>1. Published(q)' = Published(q) /\ Dest(q)' = Dest(q)
      /\ Content(q)' = Content(q) /\ pc'[q] = pc[q] /\ current'[q] = current[q]
  BY DEF Same, Published, Dest, Content, Ready
<1>2. ASSUME pc'[q] \in Writing \cup {"done"}, NEW p \in Published(q)'
      PROVE  Kept(p)'
  <2>1. p \in Ready(Wanted) /\ Kept(p)
    BY <1>1, <1>2, PublishedIsWanted DEF IntactInv
  <2> QED
    BY <2>1, KeptStays
<1>3. ASSUME pc'[q] = "fill" PROVE IsOpen(q)' \/ Kept(current[q])'
  <2>1. CASE IsOpen(q)
    BY <1>1, <1>3, <2>1, OpenStays
  <2>2. CASE Kept(current[q])
    <3>1. current[q] \in Ready(Wanted)
      BY <1>1, <1>3 DEF IInv, RunInv, PlanInv, WritingInv, Remaining, AtPlan,
         Writing
    <3>2. PICK p : p = current[q]
      OBVIOUS
    <3>3. Kept(p)'
      BY <2>2, <3>1, <3>2, KeptStays
    <3> QED
      BY <1>1, <3>2, <3>3
  <2> QED
    BY <1>1, <1>3, <2>1, <2>2 DEF IntactInv
<1> QED
  BY <1>2, <1>3

LEMMA IntactStep == IInv /\ IntactInv /\ [Next]_vars => IntactInv'
<1> SUFFICES ASSUME IInv, IntactInv, [Next]_vars, SeparateDestinations',
                    NEW q \in Runs
             PROVE  /\ pc'[q] \in Writing \cup {"done"} =>
                         \A p \in Published(q)' : Kept(p)'
                    /\ pc'[q] = "fill" => IsOpen(q)' \/ Kept(current[q])'
  BY DEF IntactInv
<1>1. SeparateDestinations /\ TypeOK
  BY StepKeepsScan, SeparateSame DEF IInv
<1>2. CASE Same(q)
  BY <1>1, <1>2, IntactOfOther
<1>3. CASE RunStep(q)
  BY <1>1, <1>3, IntactOfRun, OpenOfRun
<1> QED
  BY <1>1, <1>2, <1>3, MovesOrNot

\* Where no two groups share a destination, the file of every path that a
\* finished run has reported holds all that it was to write, whatever other
\* runs do, crash or overwrite, unless somebody else has touched it.
THEOREM ReportedIntact == Spec => []ReportedFilesIntact
<1>1. IInv /\ IntactInv => ReportedFilesIntact
  BY DEF IntactInv, ReportedFilesIntact, Kept, InPlace
<1> QED
  BY <1>1, Invariance, IntactInit, IntactStep, PTL DEF Spec

-----------------------------------------------------------------------------
(* Failures of an overwriting run.                                         *)

LEMMA FilesInit == Init => FilesInv
BY ConstantAssumption DEF Init, FilesInv, Foreign

LEMMA FilesStep == TypeOK /\ FilesInv /\ [Next]_vars => FilesInv'
<1> SUFFICES ASSUME TypeOK, FilesInv, [Next]_vars, NEW d \in Dests,
                    node'[d].by \in Runs
             PROVE  node'[d].kind = "file"
  BY DEF FilesInv
<1>1. CASE node'[d] = node[d]
  BY <1>1 DEF FilesInv
<1>2. ASSUME NEW r \in Runs, RunStep(r), node'[d] # node[d]
      PROVE  node'[d].kind = "file"
  BY <1>2, WhoChangesNodes DEF CreateExclusive, FillExclusive, Rename,
     Temporary, Written, TypeOK
<1>3. ASSUME NEW e \in Dests, Edit(e), node'[d] # node[d] PROVE FALSE
  BY <1>3, ConstantAssumption DEF Edit, Foreign, TypeOK
<1> QED
  BY <1>1, <1>2, <1>3 DEF Next, RunStep, vars, tree

LEMMA FailureInit == Init => FailureInv
<1>1. Overwrite \subseteq Runs
  BY ConstantAssumption
<1> QED
  BY <1>1 DEF Init, FailureInv

\* In an unedited tree a step takes nothing away that a run cannot replace, and
\* puts nothing there.
LEMMA ObstaclesStay ==
  ASSUME IInv, FailureInv, Format = Python, [Next]_vars, edited' = {},
         NEW d \in Dests
  PROVE  InTheWay(d)' = InTheWay(d)
<1>1. TypeOK /\ edited = {}
  BY StepKeepsScan DEF IInv
<1>2. CASE node'[d] = node[d]
  BY <1>2 DEF InTheWay
<1>3. CASE node'[d] # node[d]
  <2>1. PICK r \in Runs :
              /\ d = Dest(r)
              /\ \/ CreateExclusive(r) /\ node[d].kind = "absent"
                 \/ FillExclusive(r) /\ IsOpen(r)
                 \/ Rename(r) /\ node'[d] = Written(r, Content(r), TRUE)
    BY <1>1, <1>3, NodeChange
  <2>2. node'[d].kind = "file"
    BY <1>1, <1>3, <2>1 DEF CreateExclusive, FillExclusive, Rename, Temporary,
       Written, TypeOK
  <2>3. CASE Rename(r)
    <3>1. r \in Overwrite /\ current[r] \in plans[r]
      BY <2>3 DEF Rename, IInv, RunInv, PlanInv, Remaining, AtPlan, Writing
    <3>2. ~InTheWay(d)
      BY <1>1, <2>1, <3>1 DEF FailureInv, Dest
    <3> QED
      BY <2>2, <3>2 DEF InTheWay
  <2>4. CASE ~Rename(r)
    BY <2>1, <2>2, <2>4 DEF InTheWay, IsOpen, Written
  <2> QED
    BY <2>3, <2>4
<1> QED
  BY <1>2, <1>3

\* An overwriting run that looks at a group does not find its name in use.
LEMMA NoCollision ==
  ASSUME IInv, NEW r \in Runs, pc[r] = "group", NEW g \in todo[r]
  PROVE  ~Collides(r, g)
<1>1. TypeOK /\ PreflightInv(r) /\ CursorInv(r)
  BY DEF IInv, RunInv
<1>2. /\ source[r] \in DOMAIN scan /\ g \in Chosen(scan[source[r]])
      /\ plans[r] = Ready(LookedAt(r))
  BY <1>1 DEF CursorInv, PreflightInv, AtGroup, Preflight
<1> SUFFICES ASSUME NEW p \in plans[r], p.source = source[r],
                    p.group.dest = g.dest
             PROVE  FALSE
  BY DEF Collides
<1>3. p \in Wanted /\ p.group \notin todo[r]
  BY <1>1, <1>2 DEF Ready, LookedAt, TypeOK
<1>4. p.group \in Chosen(scan[source[r]])
  BY <1>1, <1>3, WantedOfSource DEF TypeOK
<1> QED
  BY <1>1, <1>2, <1>3, <1>4, ComponentsAreDistinct DEF TypeOK

\* What an admissible scan does not reject.
LEMMA NothingRejected ==
  ASSUME IInv, NEW r \in Runs, Admissible
  PROVE  ~RejectSource(r) /\ ~RejectGroup(r)
<1>1. TypeOK /\ CursorInv(r)
  BY DEF IInv, RunInv
<1>2. ~RejectSource(r)
  BY DEF RejectSource, Admissible
<1>3. ASSUME pc[r] = "group", NEW g \in todo[r] PROVE ~Rejected(r, g)
  <2>1. [source |-> source[r], group |-> g] \in Wanted
    BY <1>1, <1>3, WantedFrom DEF CursorInv, AtGroup, TypeOK
  <2>2. ~g.diagnostics
    BY <2>1 DEF Admissible
  <2> QED
    BY <1>3, <2>2, NoCollision DEF Rejected
<1> QED
  BY <1>2, <1>3 DEF RejectGroup

\* Where a run fails, at which call and why.
LEMMA HowRunsFail ==
  ASSUME IInv, NEW r \in Runs, RunStep(r), pc'[r] = "failed"
  PROVE  \/ ~Admissible
         \/ ioError'[r]
         \/ pc[r] = "directory" \/ pc[r] = "mkdir"
         \/ pc[r] = "destination" /\ ~DestinationAcceptable(r) /\ node' = node
         \/ CreateExclusive(r) /\ ~OpensExclusively(r)
         \/ Rename(r) /\ node[Dest(r)].kind = "directory"
<1>1. TypeOK
  BY DEF IInv
<1>2. CASE RejectSource(r) \/ RejectGroup(r)
  BY <1>2, NothingRejected
<1>3. CASE FailIO(r)
  BY <1>1, <1>3 DEF FailIO, TypeOK
<1>4. CASE CheckDirectory(r) \/ MakeDirectory(r)
  BY <1>4 DEF CheckDirectory, MakeDirectory
<1>5. CASE CheckDestination(r)
  BY <1>1, <1>5 DEF CheckDestination, Goto, TypeOK, tree
<1>6. CASE CreateExclusive(r)
  BY <1>1, <1>6 DEF CreateExclusive, Goto, TypeOK
<1>7. CASE Rename(r)
  BY <1>1, <1>7 DEF Rename, Publish, Goto, TypeOK
<1>8. CASE \/ Begin(r) \/ SkipSource(r) \/ EnterSource(r) \/ LeaveSource(r)
           \/ SkipGroup(r) \/ TakeGroup(r) \/ EndPreflight(r) \/ NextPlan(r)
           \/ FillExclusive(r) \/ CreateTemporary(r) \/ FillTemporary(r)
           \/ Finish(r) \/ Crash(r)
  BY <1>1, <1>8 DEF Begin, SkipSource, EnterSource, LeaveSource, SkipGroup,
     TakeGroup, EndPreflight, NextPlan, FillExclusive, CreateTemporary,
     FillTemporary, Finish, Crash, Publish, Goto, TypeOK
<1> QED
  BY <1>2, <1>3, <1>4, <1>5, <1>6, <1>7, <1>8 DEF RunStep, Step

\* Python output has no directories of its own.
LEMMA NoDirectories ==
  ASSUME IInv, FailureInv, Format = Python, NEW r \in Runs, RunStep(r)
  PROVE  pc'[r] \notin {"directory", "mkdir"}
<1>1. TypeOK /\ Format # Maven /\ pc[r] \notin {"directory", "mkdir"}
  BY ConstantAssumption DEF IInv, FailureInv
<1> QED
  BY <1>1 DEF RunStep, Step, Begin, SkipSource, RejectSource, EnterSource,
     LeaveSource, RejectGroup, SkipGroup, TakeGroup, CheckDirectory,
     CheckDestination, EndPreflight, NextPlan, MakeDirectory, CreateExclusive,
     FillExclusive, CreateTemporary, FillTemporary, Rename, Finish, FailIO,
     Crash, Publish, Goto, TypeOK

\* What an overwriting run plans is not in its way.
LEMMA PlannedIsFree ==
  ASSUME IInv, FailureInv, Format = Python, edited' = {}, NEW r \in Overwrite,
         RunStep(r), [Next]_vars, NEW p \in plans'[r]
  PROVE  ~InTheWay(p.group.dest)'
<1>1. TypeOK /\ RunInv(r) /\ r \in Runs /\ edited = {}
  BY ConstantAssumption, StepKeepsScan DEF IInv
<1>2. CASE p \in plans[r]
  <2>1. ~InTheWay(p.group.dest) /\ p.group.dest \in Dests
    BY <1>1, <1>2, PlanTypes DEF FailureInv, TypeOK
  <2> DEFINE d == p.group.dest
  <2>2. d \in Dests /\ ~InTheWay(d)
    BY <2>1
  <2> HIDE DEF d
  <2>3. InTheWay(d)' = InTheWay(d)
    BY <2>2, ObstaclesStay
  <2> QED
    BY <2>2, <2>3 DEF d
<1>3. CASE p \notin plans[r]
  <2>1. plans' # plans
    BY <1>3
  <2>2. CheckDestination(r)
    BY <2>1 DEF RunStep, Step, Begin, SkipSource, RejectSource, EnterSource,
       LeaveSource, RejectGroup, SkipGroup, TakeGroup, CheckDirectory,
       EndPreflight, NextPlan, MakeDirectory, CreateExclusive, FillExclusive,
       CreateTemporary, FillTemporary, Rename, Finish, FailIO, Crash
  <2>3. DestinationAcceptable(r) /\ p = current[r] /\ node' = node
    BY <1>1, <1>3, <2>1, <2>2 DEF CheckDestination, tree, TypeOK
  <2>4. ~InTheWay(Dest(r))
    BY <2>3 DEF DestinationAcceptable, InTheWay
  <2> QED
    BY <2>3, <2>4 DEF InTheWay, Dest
<1> QED
  BY <1>2, <1>3

\* An overwriting run fails for one of the reasons there are.
LEMMA OverwritingFails ==
  ASSUME IInv, FailureInv, Format = Python, edited' = {}, NEW r \in Overwrite,
         RunStep(r), [Next]_vars, pc'[r] = "failed"
  PROVE  ioError'[r] \/ ~Admissible \/ \E d \in Dests : InTheWay(d)'
<1>1. TypeOK /\ RunInv(r) /\ r \in Runs /\ edited = {}
  BY ConstantAssumption, StepKeepsScan DEF IInv
<1>2. pc[r] \notin {"directory", "mkdir"}
  BY <1>1 DEF FailureInv
<1>3. CASE pc[r] = "destination" /\ ~DestinationAcceptable(r) /\ node' = node
  <2>1. /\ Dest(r) \in Dests /\ current[r] \in Ready(Wanted)
        /\ node[Dest(r)].kind \in Kinds
    BY <1>1, <1>3, CurrentIsPlan DEF RunInv, CursorInv, TypeOK, Node
  <2>2. Admissible => node[Dest(r)].kind \notin {"absent", "file"}
    BY <1>3, <2>1 DEF Admissible, DestinationAcceptable
  <2>3. Admissible => InTheWay(Dest(r))
    BY <2>1, <2>2 DEF InTheWay, Kinds
  <2> QED
    BY <1>3, <2>1, <2>3 DEF InTheWay
<1>4. CASE Rename(r) /\ node[Dest(r)].kind = "directory"
  <2>1. node' = node /\ Dest(r) \in Dests
    BY <1>1, <1>4, CurrentIsPlan DEF Rename, AtPlan, Writing
  <2> QED
    BY <1>4, <2>1 DEF InTheWay
<1>5. ~CreateExclusive(r)
  BY DEF CreateExclusive
<1> QED
  BY <1>1, <1>2, <1>3, <1>4, <1>5, HowRunsFail

LEMMA FailureOfOther ==
  ASSUME IInv, FailureInv, Format = Python, edited' = {}, NEW r \in Overwrite,
         Same(r), [Next]_vars
  PROVE  /\ \A p \in plans'[r] : ~InTheWay(p.group.dest)'
         /\ pc'[r] = "failed" => \/ ioError'[r] \/ ~Admissible'
                                 \/ \E d \in Dests : InTheWay(d)'
<1>1. TypeOK /\ r \in Runs /\ edited = {}
  BY ConstantAssumption, StepKeepsScan DEF IInv
<1>2. Admissible' = Admissible
  BY ScanSame DEF Same
<1>3. \A d \in Dests : InTheWay(d)' = InTheWay(d)
  BY ObstaclesStay
<1>4. \A p \in plans[r] : p.group.dest \in Dests /\ ~InTheWay(p.group.dest)
  BY <1>1, PlanTypes DEF FailureInv, TypeOK
<1>5. ASSUME NEW p \in plans[r] PROVE ~InTheWay(p.group.dest)'
  <2>1. PICK d \in Dests : d = p.group.dest
    BY <1>4
  <2> QED
    BY <1>3, <1>4, <2>1
<1>6. pc[r] = "failed" => \/ ioError[r] \/ ~Admissible
                          \/ \E d \in Dests : InTheWay(d)
  BY <1>1 DEF FailureInv
<1> QED
  BY <1>2, <1>3, <1>5, <1>6 DEF Same

LEMMA FailureStep == IInv /\ FailureInv /\ [Next]_vars => FailureInv'
<1> SUFFICES ASSUME IInv, FailureInv, [Next]_vars, Format = Python
             PROVE  FailureInv'
  BY DEF FailureInv
<1>1. TypeOK /\ Overwrite \subseteq Runs
  BY ConstantAssumption DEF IInv
<1>2. ASSUME NEW r \in Runs PROVE pc'[r] \notin {"directory", "mkdir"}
  BY <1>1, MovesOrNot, NoDirectories DEF FailureInv, Same
<1>3. ASSUME edited' = {}, NEW r \in Overwrite
      PROVE  /\ \A p \in plans'[r] : ~InTheWay(p.group.dest)'
             /\ pc'[r] = "failed" => \/ ioError'[r] \/ ~Admissible'
                                     \/ \E d \in Dests : InTheWay(d)'
  <2>1. CASE Same(r)
    BY <1>3, <2>1, FailureOfOther
  <2>2. CASE RunStep(r)
    <3>1. Admissible' = Admissible
      BY StepKeepsScan, ScanSame
    <3> QED
      BY <1>3, <2>2, <3>1, PlannedIsFree, OverwritingFails
  <2> QED
    BY <1>1, <2>1, <2>2, MovesOrNot
<1> QED
  BY <1>2, <1>3 DEF FailureInv

\* An overwriting run that generates Python files fails only when the scan
\* cannot be generated from, a call fails, or something that no run has made
\* stands in the way.  (Of Maven files this is false: see the run
\* GenerationMavenRerun.)
THEOREM OverwriteSucceeds ==
  ASSUME Format = Python
  PROVE  Spec => []OverwriteRerunSucceeds
<1>1. IInv /\ FilesInv /\ FailureInv => OverwriteRerunSucceeds
  <2> SUFFICES ASSUME IInv, FilesInv, FailureInv, NEW r \in Overwrite,
                      pc[r] = "failed", ~ioError[r], Admissible, edited = {}
               PROVE  \E d \in Dests :
                        node[d].by = Env /\ node[d].kind # "absent"
    BY DEF OverwriteRerunSucceeds
  <2>1. PICK d \in Dests : InTheWay(d)
    BY DEF FailureInv
  <2>2. node[d].by \in Runs \cup {Env}
    BY DEF IInv, TypeOK, Node
  <2> QED
    BY <2>1, <2>2 DEF InTheWay, FilesInv
<1>2. IInv => TypeOK
  BY DEF IInv
<1> QED
  BY <1>1, <1>2, Invariance, FilesInit, FilesStep, FailureInit, FailureStep,
     PTL DEF Spec

-----------------------------------------------------------------------------
(* The order of destinations.                                              *)

LEMMA OrderInit == Init => OrderInv
BY DEF Init, OrderInv, Published, Ready

\* What a step of a run does to its plans and to what it has reported.
LEMMA ReportStep ==
  ASSUME IInv, NEW r \in Runs, RunStep(r)
  PROVE  \/ plans'[r] = plans[r] /\ outcomes'[r] = outcomes[r]
         \/ SkipGroup(r) /\ plans'[r] = plans[r] /\ Published(r)' = Published(r)
                         /\ outcomes[r] \subseteq outcomes'[r]
         \/ CheckDestination(r) /\ plans[r] \subseteq plans'[r]
                                /\ outcomes'[r] = outcomes[r]
         \/ /\ FillExclusive(r) \/ Rename(r)
            /\ plans'[r] = plans[r]
            /\ outcomes'[r] = outcomes[r] \cup {current[r]}
<1>1. TypeOK
  BY DEF IInv
<1>2. CASE SkipGroup(r)
  <2>1. PICK g \in todo[r] :
       /\ g.state # "ready"
       /\ outcomes' = [outcomes EXCEPT ![r] =
                         @ \cup {[source |-> source[r], group |-> g]}]
       /\ plans' = plans
    BY <1>2 DEF SkipGroup
  <2>2. outcomes'[r] = outcomes[r] \cup {[source |-> source[r], group |-> g]}
    BY <1>1, <2>1 DEF TypeOK
  <2>3. Published(r)' = Published(r)
    BY <2>1, <2>2 DEF Published, Ready
  <2> QED
    BY <1>2, <2>1, <2>2, <2>3
<1>3. CASE CheckDestination(r)
  BY <1>1, <1>3 DEF CheckDestination, TypeOK
<1>4. CASE FillExclusive(r)
  BY <1>1, <1>4 DEF FillExclusive, Publish, TypeOK
<1>5. CASE Rename(r)
  BY <1>1, <1>5 DEF Rename, Publish, TypeOK
<1>6. CASE \/ Begin(r) \/ SkipSource(r) \/ RejectSource(r) \/ EnterSource(r)
           \/ LeaveSource(r) \/ RejectGroup(r) \/ TakeGroup(r)
           \/ CheckDirectory(r) \/ EndPreflight(r) \/ NextPlan(r)
           \/ MakeDirectory(r) \/ CreateExclusive(r) \/ CreateTemporary(r)
           \/ FillTemporary(r) \/ Finish(r) \/ FailIO(r) \/ Crash(r)
  BY <1>6 DEF Begin, SkipSource, RejectSource, EnterSource, LeaveSource,
     RejectGroup, TakeGroup, CheckDirectory, EndPreflight, NextPlan,
     MakeDirectory, CreateExclusive, CreateTemporary, FillTemporary, Finish,
     FailIO, Crash
<1> QED
  BY <1>2, <1>3, <1>4, <1>5, <1>6 DEF RunStep, Step

LEMMA OrderStep == IInv /\ OrderInv /\ [Next]_vars => OrderInv'
<1> SUFFICES ASSUME IInv, OrderInv, [Next]_vars, NEW r \in Runs,
                    NEW p \in Published(r)', NEW q \in Remaining(r)'
             PROVE  p.group.dest <= q.group.dest
  BY DEF OrderInv
<1>1. TypeOK /\ RunInv(r)
  BY DEF IInv
<1>2. CASE Same(r)
  BY <1>2 DEF Same, OrderInv, Published, Remaining, Ready
<1>3. CASE plans'[r] = plans[r] /\ outcomes'[r] = outcomes[r]
  BY <1>3 DEF OrderInv, Published, Remaining, Ready
<1>4. CASE /\ plans'[r] = plans[r] /\ Published(r)' = Published(r)
           /\ outcomes[r] \subseteq outcomes'[r]
  BY <1>4 DEF OrderInv, Remaining
<1>5. CASE CheckDestination(r) /\ outcomes'[r] = outcomes[r]
  BY <1>1, <1>5 DEF CheckDestination, RunInv, PreflightInv, Preflight,
     Published, Ready
<1>6. CASE /\ FillExclusive(r) \/ Rename(r)
           /\ plans'[r] = plans[r]
           /\ outcomes'[r] = outcomes[r] \cup {current[r]}
  <2>1. /\ \A u \in Remaining(r) : current[r].group.dest <= u.group.dest
        /\ current[r] \in Remaining(r)
    BY <1>1, <1>6 DEF FillExclusive, Rename, RunInv, PlanInv, AtPlan, Writing,
       Dest
  <2>2. q \in Remaining(r) /\ (p = current[r] \/ p \in Published(r))
    BY <1>6 DEF Remaining, Published, Ready
  <2> QED
    BY <2>1, <2>2 DEF OrderInv
<1> QED
  BY <1>1, <1>2, <1>3, <1>4, <1>5, <1>6, MovesOrNot, ReportStep

-----------------------------------------------------------------------------
(* Runs that race.                                                         *)

\* A call that has failed and a run that has died are not forgotten.
LEMMA DisturbedStays ==
  ASSUME TypeOK, [Next]_vars, NEW q \in Runs
  PROVE  /\ ioError[q] => ioError'[q]
         /\ pc[q] = "crashed" => pc'[q] = "crashed"
<1>1. CASE Same(q)
  BY <1>1 DEF Same
<1>2. CASE RunStep(q)
  <2>1. ioError' = ioError \/ ioError' = [ioError EXCEPT ![q] = TRUE]
    BY <1>2 DEF RunStep, Step, Begin, SkipSource, RejectSource, EnterSource,
       LeaveSource, RejectGroup, SkipGroup, TakeGroup, CheckDirectory,
       CheckDestination, EndPreflight, NextPlan, MakeDirectory,
       CreateExclusive, FillExclusive, CreateTemporary, FillTemporary, Rename,
       Finish, FailIO, Crash
  <2>2. pc[q] # "crashed"
    BY <1>2 DEF RunStep, Step, Begin, SkipSource, RejectSource, EnterSource,
       LeaveSource, RejectGroup, SkipGroup, TakeGroup, CheckDirectory,
       CheckDestination, EndPreflight, NextPlan, MakeDirectory,
       CreateExclusive, FillExclusive, CreateTemporary, FillTemporary, Rename,
       Finish, FailIO, Crash, Active, Preflight, Writing
  <2> QED
    BY <2>1, <2>2 DEF TypeOK
<1> QED
  BY <1>1, <1>2, MovesOrNot

\* Without the overwrite flag a run changes who has made a file only where
\* there was none.
LEMMA WhoseFiles ==
  ASSUME TypeOK, NEW r \in Runs, RunStep(r), r \notin Overwrite, RunInv(r)
  PROVE  \/ \A d \in Dests : node'[d].by = node[d].by
                             /\ node'[d].kind = node[d].kind
         \/ /\ CreateExclusive(r) /\ OpensExclusively(r) /\ Dest(r) \in Dests
            /\ pc'[r] = "fill"
            /\ node' = [node EXCEPT ![Dest(r)] = Written(r, Content(r), FALSE)]
<1>1. CASE node' = node
  BY <1>1
<1>2. CASE CreateExclusive(r) /\ ~OpensExclusively(r)
  BY <1>2 DEF CreateExclusive
<1>3. CASE CreateExclusive(r) /\ OpensExclusively(r)
  <2>1. Dest(r) \in Dests
    BY <1>3, CurrentIsPlan DEF CreateExclusive, AtPlan, Writing
  <2> QED
    BY <1>3, <2>1 DEF CreateExclusive, Goto, TypeOK
<1>4. CASE FillExclusive(r)
  BY <1>4 DEF FillExclusive, IsOpen, Written, TypeOK
<1>5. ~Rename(r)
  BY DEF Rename, RunInv, PlanInv
<1> QED
  BY <1>1, <1>2, <1>3, <1>4, <1>5, WhoChangesNodes

LEMMA RaceBefore ==
  ASSUME IInv, [Next]_vars, Race'
  PROVE  /\ Race
         /\ (\E r \in Runs : RunStep(r)) \/ UNCHANGED vars
<1>1. TypeOK /\ scan' = scan /\ edited = {} /\ Overwrite = {} /\ Format = Python
      /\ Admissible /\ SeparateDestinations
  BY StepKeepsScan, ScanSame, SeparateSame DEF IInv, Race, Undisturbed
<1>2. Undisturbed
  BY <1>1, DisturbedStays DEF Race, Undisturbed
<1>3. ASSUME NEW d \in Dests, Edit(d) PROVE FALSE
  BY <1>3 DEF Edit, Race, Undisturbed
<1>4. (\E r \in Runs : RunStep(r)) \/ UNCHANGED vars
  BY <1>3 DEF Next, RunStep
<1>5. ASSUME NEW d \in Dests, node[d].by = Env PROVE node[d].kind = "absent"
  <2>1. CASE \E r \in Runs : RunStep(r)
    <3>1. PICK r \in Runs : RunStep(r)
      BY <2>1
    <3>2. r \notin Overwrite /\ RunInv(r)
      BY <1>1 DEF IInv
    <3>3. CASE node'[d].by = node[d].by /\ node'[d].kind = node[d].kind
      BY <1>5, <3>3 DEF Race, Unobstructed
    <3>4. CASE /\ OpensExclusively(r)
               /\ node' = [node EXCEPT ![Dest(r)] = Written(r, Content(r), FALSE)]
      BY <1>1, <1>5, <3>4 DEF Race, Unobstructed, OpensExclusively, TypeOK
    <3> QED
      BY <1>1, <3>1, <3>2, <3>3, <3>4, WhoseFiles
  <2>2. CASE UNCHANGED vars
    BY <1>5, <2>2 DEF Race, Unobstructed, vars, tree
  <2> QED
    BY <1>4, <2>1, <2>2
<1>6. Unobstructed
  BY <1>5 DEF Unobstructed
<1> QED
  BY <1>1, <1>2, <1>4, <1>6 DEF Race

LEMMA RaceInit == Init => RaceInv
<1> SUFFICES ASSUME Init PROVE RaceInv
  OBVIOUS
<1>1. \A d \in Dests : node[d].by \notin Runs
  <2>1. Env \notin Runs
    BY ConstantAssumption
  <2>2. ASSUME NEW d \in Dests PROVE node[d].by = Env
    <3>1. PICK k \in Kinds : node[d] = Foreign(k)
      BY DEF Init
    <3> QED
      BY <3>1 DEF Foreign
  <2> QED
    BY <2>1, <2>2
<1>2. \A r \in Runs : pc[r] = "idle"
  BY DEF Init
<1>3. 0 \in Nat /\ \A d \in Dests : node[d].by \in Runs => d <= 0
  BY <1>1
<1>4. \A r \in Runs : OwnFiles(r) /\ pc[r] # "failed"
  BY <1>1, <1>2 DEF OwnFiles
<1> QED
  BY <1>3, <1>4 DEF RaceInv

\* A file that a run has made remains that run's.
LEMMA MadeFilesStay ==
  ASSUME IInv, FilesInv, [Next]_vars, Race', NEW d \in Dests,
         node[d].by \in Runs
  PROVE  node'[d].by = node[d].by
<1>1. TypeOK /\ Overwrite = {} /\ node[d].kind = "file"
  BY DEF IInv, Race, FilesInv
<1>2. ASSUME NEW r \in Runs, RunStep(r) PROVE node'[d].by = node[d].by
  <2>1. r \notin Overwrite /\ RunInv(r)
    BY <1>1 DEF IInv
  <2> QED
    BY <1>1, <1>2, <2>1, WhoseFiles DEF OpensExclusively, TypeOK
<1>3. CASE UNCHANGED vars
  BY <1>3 DEF vars, tree
<1> QED
  BY <1>2, <1>3, RaceBefore

LEMMA BoundStep ==
  ASSUME IInv, [Next]_vars, Race', NEW n \in Nat,
         \A d \in Dests : node[d].by \in Runs => d <= n
  PROVE  \E m \in Nat : \A d \in Dests : node'[d].by \in Runs => d <= m
<1>1. TypeOK /\ Overwrite = {} /\ Dests \subseteq Nat
  BY ConstantAssumption DEF IInv, Race
<1>2. ASSUME NEW r \in Runs, RunStep(r)
      PROVE  \E m \in Nat : \A d \in Dests : node'[d].by \in Runs => d <= m
  <2>1. r \notin Overwrite /\ RunInv(r)
    BY <1>1 DEF IInv
  <2>2. CASE \A d \in Dests : node'[d].by = node[d].by
    BY <2>2
  <2>3. CASE /\ Dest(r) \in Dests
             /\ node' = [node EXCEPT ![Dest(r)] = Written(r, Content(r), FALSE)]
    <3>1. PICK m \in Nat : n <= m /\ Dest(r) <= m
      <4>1. Dest(r) \in Nat
        BY <1>1, <2>3
      <4>2. \A k \in Nat : n + k \in Nat /\ n <= n + k /\ k <= n + k
        OBVIOUS
      <4> QED
        BY <4>1, <4>2
    <3>2. \A d \in Dests : d # Dest(r) => node'[d] = node[d]
      BY <1>1, <2>3 DEF TypeOK
    <3>3. ASSUME NEW d \in Dests, node'[d].by \in Runs PROVE d <= m
      <4>1. CASE d = Dest(r)
        BY <3>1, <4>1
      <4>2. CASE d # Dest(r)
        <5>1. d <= n /\ d \in Nat /\ n <= m
          BY <1>1, <3>1, <3>2, <3>3, <4>2
        <5> QED
          BY <5>1
      <4> QED
        BY <4>1, <4>2
    <3> QED
      BY <3>3
  <2> QED
    BY <1>1, <1>2, <2>1, <2>2, <2>3, WhoseFiles
<1>3. CASE UNCHANGED vars
  BY <1>3 DEF vars, tree
<1> QED
  BY <1>2, <1>3, RaceBefore

\* The files of the run that moves.
LEMMA OwnFilesOfRun ==
  ASSUME IInv, [Next]_vars, Race', NEW r \in Runs, RunStep(r), OwnFiles(r)
  PROVE  OwnFiles(r)'
<1>1. /\ TypeOK /\ RunInv(r) /\ r \notin Overwrite
      /\ ~ioError'[r] /\ pc'[r] # "crashed"
  BY DEF IInv, Race, Undisturbed
<1> SUFFICES ASSUME NEW d \in Dests, node'[d].by = r
             PROVE  \E p \in plans'[r] :
                      /\ p.group.dest = d
                      /\ \/ p \in outcomes'[r]
                         \/ pc'[r] = "fill" /\ p = current'[r]
  BY DEF OwnFiles
<1>2. plans[r] \subseteq plans'[r] /\ outcomes[r] \subseteq outcomes'[r]
  BY ReportStep
<1>3. CASE node[d].by = r
  <2>1. PICK p \in plans[r] :
          /\ p.group.dest = d
          /\ p \in outcomes[r] \/ (pc[r] = "fill" /\ p = current[r])
    BY <1>3 DEF OwnFiles
  <2>2. CASE p \in outcomes[r]
    BY <1>2, <2>1, <2>2
  <2>3. CASE pc[r] = "fill" /\ p = current[r]
    <3>1. FillExclusive(r)
      BY <1>1, <2>3 DEF RunStep, Step, Begin, SkipSource, RejectSource,
         EnterSource, LeaveSource, RejectGroup, SkipGroup, TakeGroup,
         CheckDirectory, CheckDestination, EndPreflight, NextPlan,
         MakeDirectory, CreateExclusive, CreateTemporary, FillTemporary,
         Rename, Finish, FailIO, Crash, Goto, TypeOK
    <3>2. p \in outcomes'[r]
      BY <1>1, <2>3, <3>1 DEF FillExclusive, Publish, TypeOK
    <3> QED
      BY <1>2, <2>1, <3>2
  <2> QED
    BY <2>1, <2>2, <2>3
<1>4. CASE node[d].by # r
  <2>1. /\ CreateExclusive(r) /\ pc'[r] = "fill"
        /\ node' = [node EXCEPT ![Dest(r)] = Written(r, Content(r), FALSE)]
    BY <1>1, <1>4, WhoseFiles
  <2>2. d = Dest(r)
    BY <1>1, <1>4, <2>1 DEF TypeOK
  <2>3. /\ current'[r] = current[r] /\ current[r] \in plans[r]
        /\ current[r].group.dest = d
    BY <1>1, <2>1, <2>2 DEF CreateExclusive, RunInv, PlanInv, Remaining, AtPlan,
       Writing, Dest
  <2> QED
    BY <1>2, <2>1, <2>3
<1> QED
  BY <1>3, <1>4

\* The run that moves loses only to a file beyond all of its own.
LEMMA OvertakenRun ==
  ASSUME IInv, FilesInv, FailureInv, OrderInv, Race, [Next]_vars, Race',
         NEW r \in Runs, RunStep(r), OwnFiles(r), pc'[r] = "failed"
  PROVE  Overtaken(r)'
<1>1. /\ TypeOK /\ RunInv(r) /\ r \notin Overwrite
      /\ ~ioError'[r] /\ Admissible /\ SeparateDestinations /\ Dests \subseteq Nat
      /\ pc[r] \notin {"directory", "mkdir"}
      /\ \A d \in Dests : node[d].by = Env => node[d].kind = "absent"
      /\ \A d \in Dests : node[d].by \in Runs \cup {Env}
  BY ConstantAssumption DEF IInv, Race, Undisturbed, Unobstructed, FailureInv,
     TypeOK, Node
<1>2. CASE pc[r] = "destination" /\ ~DestinationAcceptable(r) /\ node' = node
  <2>1. current[r] \in Ready(Wanted) /\ Dest(r) \in Dests
    BY <1>1, <1>2, CurrentIsPlan DEF RunInv, CursorInv
  <2>2. node[Dest(r)].by \in Runs
    BY <1>1, <1>2, <2>1 DEF DestinationAcceptable, Admissible
  <2>3. ~HasWritten(r)
    BY <1>1, <1>2 DEF RunInv, TraceInv, Preflight
  <2> QED
    BY <1>2, <2>1, <2>2, <2>3 DEF Overtaken, HasWritten
<1>3. CASE CreateExclusive(r) /\ ~OpensExclusively(r)
  <2>1. node' = node /\ pc[r] = "create"
    BY <1>3 DEF CreateExclusive
  <2>2. /\ current[r] \in Remaining(r) /\ current[r] \in Ready(Wanted)
        /\ plans[r] = Ready(Wanted) /\ Dest(r) \in Dests
    BY <1>1, <2>1, CurrentIsPlan DEF RunInv, PlanInv, WritingInv, Remaining,
       AtPlan, Writing
  <2>3. node[Dest(r)].by \in Runs
    BY <1>1, <1>3, <2>2 DEF OpensExclusively
  <2>4. ASSUME NEW e \in Dests, node[e].by = r PROVE e < Dest(r)
    <3>1. PICK p \in plans[r] : p.group.dest = e /\ p \in outcomes[r]
      BY <2>1, <2>4 DEF OwnFiles
    <3>2. p \in Published(r) /\ p # current[r] /\ p \in Ready(Wanted)
      BY <2>2, <3>1 DEF Published, Ready, Remaining
    <3>3. e <= Dest(r)
      BY <2>2, <3>1, <3>2 DEF OrderInv, Dest
    <3>4. e # Dest(r)
      BY <1>1, <2>2, <3>1, <3>2 DEF SeparateDestinations, Dest
    <3>5. e \in Nat /\ Dest(r) \in Nat
      BY <1>1, <2>2
    <3> QED
      BY <3>3, <3>4, <3>5
  <2>5. PICK d \in Dests : d = Dest(r)
    BY <2>2
  <2> QED
    BY <2>1, <2>3, <2>4, <2>5 DEF Overtaken
<1>4. ~Rename(r)
  BY <1>1 DEF Rename, RunInv, PlanInv
<1> QED
  BY <1>1, <1>2, <1>3, <1>4, HowRunsFail

\* A run that is left alone stays behind the file that has stopped it.
LEMMA RaceOfOther ==
  ASSUME IInv, FilesInv, [Next]_vars, Race', NEW r \in Runs, Same(r),
         \A d \in Dests : node'[d].by = r => node[d].by = r, OwnFiles(r),
         pc[r] = "failed" => Overtaken(r)
  PROVE  OwnFiles(r)' /\ (pc'[r] = "failed" => Overtaken(r)')
<1>1. OwnFiles(r)'
  BY DEF OwnFiles, Same
<1>2. ASSUME pc'[r] = "failed" PROVE Overtaken(r)'
  <2>1. PICK d \in Dests : /\ node[d].by \in Runs
                           /\ \A e \in Dests : node[e].by = r => e < d
    BY <1>2 DEF Overtaken, Same
  <2>2. node'[d].by \in Runs
    BY <2>1, MadeFilesStay
  <2> QED
    BY <2>1, <2>2 DEF Overtaken
<1> QED
  BY <1>1, <1>2

LEMMA RaceStep ==
  IInv /\ FilesInv /\ FailureInv /\ OrderInv /\ RaceInv /\ [Next]_vars
  => RaceInv'
<1> SUFFICES ASSUME IInv, FilesInv, FailureInv, OrderInv, RaceInv, [Next]_vars,
                    Race'
             PROVE  RaceInv'
  BY DEF RaceInv
<1>1. TypeOK /\ Race
  BY RaceBefore DEF IInv
<1>2. \E m \in Nat : \A d \in Dests : node'[d].by \in Runs => d <= m
  <2>1. PICK n \in Nat : \A d \in Dests : node[d].by \in Runs => d <= n
    BY <1>1 DEF RaceInv
  <2> QED
    BY <2>1, BoundStep
<1>3. ASSUME NEW r \in Runs
      PROVE  OwnFiles(r)' /\ (pc'[r] = "failed" => Overtaken(r)')
  <2>1. OwnFiles(r) /\ (pc[r] = "failed" => Overtaken(r))
    BY <1>1 DEF RaceInv
  <2>2. CASE RunStep(r)
    BY <1>1, <2>1, <2>2, OwnFilesOfRun, OvertakenRun
  <2>3. CASE ~RunStep(r)
    <3>1. Same(r)
      BY <1>1, <2>3, MovesOrNot
    <3>2. \A d \in Dests : node'[d].by = r => node[d].by = r
      <4>1. ASSUME NEW q \in Runs, RunStep(q) PROVE NothingNew(r)
        BY <1>1, <2>3, <4>1, OtherRunsSame
      <4>2. UNCHANGED vars => node' = node
        BY DEF vars, tree
      <4> QED
        BY <4>1, <4>2, RaceBefore DEF NothingNew
    <3> QED
      BY <2>1, <3>1, <3>2, RaceOfOther
  <2> QED
    BY <2>2, <2>3
<1> QED
  BY <1>2, <1>3 DEF RaceInv

LEMMA Smallest ==
  ASSUME NEW S \in SUBSET Nat, S # {}
  PROVE  \E i \in S : \A j \in S : i <= j
<1>1. PICK i \in S : \A j \in S : ~ (<<j, i>> \in OpToRel(<, Nat))
  BY NatLessThanWellFounded, WFMin
<1>2. \A j \in S : ~ (j < i)
  BY <1>1 DEF OpToRel
<1> QED
  BY <1>2

LEMMA Largest ==
  ASSUME NEW S \in SUBSET Nat, S # {}, NEW n \in Nat, \A i \in S : i <= n
  PROVE  \E i \in S : \A j \in S : j <= i
<1> DEFINE T == {n - i : i \in S}
<1>1. T \in SUBSET Nat /\ T # {}
  <2>1. \A i \in S : n - i \in Nat
    OBVIOUS
  <2> QED
    BY <2>1
<1>2. PICK k \in T : \A l \in T : k <= l
  BY <1>1, Smallest
<1>3. PICK i \in S : k = n - i
  BY <1>2
<1>4. \A j \in S : n - i <= n - j
  BY <1>2, <1>3
<1> QED
  BY <1>4

\* Of runs that have all lost, the one with the last file was overtaken by a
\* file beyond it.
LEMMA NotAllLose ==
  ASSUME IInv, RaceInv, Race, NEW q \in Runs, pc[q] = "failed"
  PROVE  \E r \in Runs : pc[r] # "failed"
<1> SUFFICES ASSUME \A r \in Runs : pc[r] = "failed" PROVE FALSE
  OBVIOUS
<1> DEFINE S == {d \in Dests : node[d].by \in Runs}
<1>1. PICK n \in Nat : \A d \in S : d <= n
  BY DEF RaceInv
<1>2. S \in SUBSET Nat /\ S # {}
  <2>1. Dests \subseteq Nat
    BY ConstantAssumption
  <2>2. Overtaken(q)
    BY DEF RaceInv
  <2> QED
    BY <2>1, <2>2 DEF Overtaken
<1>3. PICK last \in S : \A d \in S : d <= last
  BY <1>1, <1>2, Largest
<1>4. PICK r \in Runs : node[last].by = r
  BY <1>3
<1>5. PICK d \in S : last < d
  BY <1>3, <1>4 DEF RaceInv, Overtaken
<1> QED
  BY <1>2, <1>3, <1>5

\* Runs that race for the same Python destinations do not all lose, however
\* many they are: of those that have been overtaken, one is left to overtake.
THEOREM RaceWon == Spec => []RaceHasWinner
<1>1. IInv /\ FilesInv /\ FailureInv /\ RaceInv => RaceHasWinner
  <2> SUFFICES ASSUME IInv, FilesInv, FailureInv, RaceInv, Format = Python,
                      Admissible, SeparateDestinations, Undisturbed,
                      Unobstructed, Runs # {}
               PROVE  \E r \in Runs : pc[r] # "failed"
    BY DEF RaceHasWinner
  <2>1. CASE Overwrite = {}
    <3>1. Race
      BY <2>1 DEF Race
    <3>2. PICK q \in Runs : TRUE
      OBVIOUS
    <3> QED
      BY <3>1, <3>2, NotAllLose
  <2>2. CASE Overwrite # {}
    <3>1. PICK r \in Overwrite : r \in Runs
      BY <2>2, ConstantAssumption
    <3>2. ASSUME NEW d \in Dests PROVE ~InTheWay(d)
      BY DEF Unobstructed, FilesInv, IInv, TypeOK, Node, InTheWay
    <3>3. pc[r] # "failed"
      BY <3>1, <3>2 DEF FailureInv, Undisturbed
    <3> QED
      BY <3>1, <3>3
  <2> QED
    BY <2>1, <2>2
<1>2. IInv => TypeOK
  BY DEF IInv
<1> QED
  BY <1>1, <1>2, Invariance, FilesInit, FilesStep, FailureInit, FailureStep,
     OrderInit, OrderStep, RaceInit, RaceStep, PTL DEF Spec

-----------------------------------------------------------------------------
\* Generation implements GenerationContract: every step of a run maps to a
\* step of the contract or changes nothing that the contract speaks of.

\* The variables of the contract.
Want == Ready(Wanted)
StatusOf == [r \in Runs |-> Status(pc[r])]
ClaimOf == [r \in Runs |-> IF pc[r] = "fill" THEN current[r] ELSE NoPlan]
PublishedBy == [r \in Runs |-> Published(r)]

\* The contract's variables change at most where run r is concerned.
LEMMA OnlyMine ==
  ASSUME TypeOK, NEW r \in Runs, RunStep(r)
  PROVE  /\ Want' = Want
         /\ StatusOf' = [StatusOf EXCEPT ![r] = Status(pc'[r])]
         /\ ClaimOf' = [ClaimOf EXCEPT ![r] = IF pc'[r] = "fill"
                                              THEN current'[r] ELSE NoPlan]
         /\ PublishedBy' = [PublishedBy EXCEPT ![r] = Ready(outcomes'[r])]
<1>1. \A q \in Runs \ {r} : Same(q)
  BY OtherRunsSame
<1>2. scan' = scan
  BY DEF RunStep, Step, Begin, SkipSource, RejectSource, EnterSource,
     LeaveSource, RejectGroup, SkipGroup, TakeGroup, CheckDirectory,
     CheckDestination, EndPreflight, NextPlan, MakeDirectory, CreateExclusive,
     FillExclusive, CreateTemporary, FillTemporary, Rename, Finish, FailIO,
     Crash, environment
<1>3. Want' = Want
  BY <1>2, ScanSame DEF Want
<1>4. StatusOf' = [StatusOf EXCEPT ![r] = Status(pc'[r])]
  BY <1>1 DEF StatusOf, Same
<1>5. ClaimOf' = [ClaimOf EXCEPT ![r] = IF pc'[r] = "fill"
                                        THEN current'[r] ELSE NoPlan]
  BY <1>1 DEF ClaimOf, Same
<1>6. PublishedBy' = [PublishedBy EXCEPT ![r] = Ready(outcomes'[r])]
  BY <1>1 DEF PublishedBy, Published, Same, Ready
<1> QED
  BY <1>3, <1>4, <1>5, <1>6

\* A step that is none of the contract's business.
LEMMA HiddenStep ==
  ASSUME TypeOK, NEW r \in Runs, RunStep(r), node' = node,
         Status(pc'[r]) = Status(pc[r]), pc[r] # "fill", pc'[r] # "fill",
         Ready(outcomes'[r]) = Ready(outcomes[r])
  PROVE  UNCHANGED Contract!vars
<1>1. StatusOf' = StatusOf
  BY OnlyMine DEF StatusOf
<1>2. ClaimOf' = ClaimOf
  BY OnlyMine DEF ClaimOf
<1>3. PublishedBy' = PublishedBy
  BY OnlyMine DEF PublishedBy, Published
<1>4. Want' = Want
  BY OnlyMine
<1> QED
  BY <1>1, <1>2, <1>3, <1>4
     DEF Contract!vars, StatusOf, ClaimOf, PublishedBy, Want

\* A run that fails or dies.
LEMMA FailedStep ==
  ASSUME TypeOK, NEW r \in Runs, RunStep(r), node' = node,
         pc'[r] \in {"failed", "crashed"}, pc[r] \in {"idle"} \cup Active,
         outcomes'[r] = outcomes[r]
  PROVE  Contract!Fail(r)
<1>1. StatusOf[r] \in {"undecided", "writing"}
  BY DEF StatusOf, Status, Active, Preflight, Writing
<1>2. StatusOf' = [StatusOf EXCEPT ![r] = "failed"]
  BY OnlyMine DEF Status, Writing
<1>3. ClaimOf' = [ClaimOf EXCEPT ![r] = NoPlan]
  BY OnlyMine
<1>4. PublishedBy' = PublishedBy /\ Want' = Want
  BY OnlyMine DEF PublishedBy, Published
<1> QED
  BY <1>1, <1>2, <1>3, <1>4
     DEF Contract!Fail, StatusOf, ClaimOf, PublishedBy, Want

\* The plan at hand is a next one in the sense of the contract.
LEMMA CurrentIsNext ==
  ASSUME IInv, NEW r \in Runs, pc[r] \in AtPlan
  PROVE  /\ current[r] \in Want \ PublishedBy[r]
         /\ \A q \in Want \ PublishedBy[r] : Dest(r) <= q.group.dest
         /\ StatusOf[r] = "writing"
<1>1. PlanInv(r) /\ WritingInv(r)
  BY DEF IInv, RunInv
<1>2. Want \ PublishedBy[r] = Remaining(r)
  BY <1>1 DEF Want, PublishedBy, Published, WritingInv, Remaining, Ready,
     AtPlan
<1>3. StatusOf[r] = "writing"
  BY DEF StatusOf, Status, AtPlan, Writing
<1> QED
  BY <1>1, <1>2, <1>3 DEF PlanInv

-----------------------------------------------------------------------------
(* The steps, one by one.                                                  *)

LEMMA HiddenSteps ==
  ASSUME IInv, NEW r \in Runs,
         \/ Begin(r) \/ SkipSource(r) \/ EnterSource(r) \/ LeaveSource(r)
         \/ SkipGroup(r) \/ TakeGroup(r) \/ NextPlan(r)
         \/ CreateTemporary(r) \/ FillTemporary(r)
  PROVE  UNCHANGED Contract!vars
<1>1. TypeOK /\ RunStep(r)
  BY DEF IInv, RunStep, Step
<1> USE DEF tree, Goto, Status, Writing
<1>2. CASE Begin(r) \/ SkipSource(r) \/ EnterSource(r) \/ LeaveSource(r)
  BY <1>1, <1>2, HiddenStep
     DEF Begin, SkipSource, EnterSource, LeaveSource, TypeOK
<1>3. CASE SkipGroup(r)
  <2>1. Ready(outcomes'[r]) = Ready(outcomes[r])
    BY <1>1, <1>3 DEF SkipGroup, TypeOK, Ready
  <2> QED
    BY <1>1, <1>3, <2>1, HiddenStep DEF SkipGroup, TypeOK
<1>4. CASE TakeGroup(r)
  BY <1>1, <1>4, HiddenStep DEF TakeGroup, TypeOK
<1>5. CASE NextPlan(r)
  BY <1>1, <1>5, HiddenStep DEF NextPlan, TypeOK
<1>6. CASE CreateTemporary(r) \/ FillTemporary(r)
  BY <1>1, <1>6, HiddenStep DEF CreateTemporary, FillTemporary, TypeOK
<1> QED
  BY <1>2, <1>3, <1>4, <1>5, <1>6

LEMMA FailedSteps ==
  ASSUME IInv, NEW r \in Runs,
         RejectSource(r) \/ RejectGroup(r) \/ FailIO(r) \/ Crash(r)
  PROVE  Contract!Fail(r)
<1>1. TypeOK /\ RunStep(r)
  BY DEF IInv, RunStep, Step
<1>2. /\ node' = node /\ outcomes'[r] = outcomes[r]
      /\ pc[r] \in Active /\ pc'[r] \in {"failed", "crashed"}
  BY <1>1 DEF RejectSource, RejectGroup, FailIO, Crash, tree, Goto, TypeOK,
     Active, Preflight, Writing
<1> QED
  BY <1>1, <1>2, FailedStep

\* The checks of preflight, and making a directory: all is well, or the run
\* fails.
LEMMA CheckSteps ==
  ASSUME IInv, NEW r \in Runs,
         CheckDirectory(r) \/ CheckDestination(r) \/ MakeDirectory(r)
  PROVE  Contract!Fail(r) \/ UNCHANGED Contract!vars
<1>1. TypeOK /\ RunStep(r)
  BY DEF IInv, RunStep, Step
<1>2. /\ node' = node /\ outcomes' = outcomes
      /\ \/ /\ pc[r] \in {"directory", "destination"}
            /\ pc'[r] \in {"group", "destination", "failed"}
         \/ pc[r] = "mkdir" /\ pc'[r] \in {"create", "failed"}
  BY <1>1 DEF CheckDirectory, CheckDestination, MakeDirectory, tree, Goto,
     TypeOK
<1>3. CASE pc'[r] = "failed"
  BY <1>1, <1>2, <1>3, FailedStep DEF Active, Preflight, Writing
<1>4. CASE pc'[r] # "failed"
  BY <1>1, <1>2, <1>4, HiddenStep DEF Status, Writing
<1> QED
  BY <1>3, <1>4

LEMMA AcceptStep ==
  ASSUME IInv, NEW r \in Runs, EndPreflight(r)
  PROVE  Contract!Accept(r)
<1>1. TypeOK /\ RunStep(r)
  BY DEF IInv, RunStep, Step
<1>2. /\ node' = node /\ outcomes' = outcomes
      /\ pc[r] = "source" /\ pc'[r] = "write"
  BY <1>1 DEF EndPreflight, tree, Goto, TypeOK
<1>3. StatusOf[r] = "undecided"
  BY <1>2 DEF StatusOf, Status, Writing
<1>4. StatusOf' = [StatusOf EXCEPT ![r] = "writing"]
  BY <1>1, <1>2, OnlyMine DEF Status, Writing
<1>5. ClaimOf' = ClaimOf
  BY <1>1, <1>2, OnlyMine DEF ClaimOf
<1>6. PublishedBy' = PublishedBy /\ Want' = Want
  BY <1>1, <1>2, OnlyMine DEF PublishedBy, Published
<1> QED
  BY <1>2, <1>3, <1>4, <1>5, <1>6
     DEF Contract!Accept, StatusOf, ClaimOf, PublishedBy, Want

LEMMA SucceedStep ==
  ASSUME IInv, NEW r \in Runs, Finish(r)
  PROVE  Contract!Succeed(r)
<1>1. TypeOK /\ RunStep(r) /\ WritingInv(r)
  BY DEF IInv, RunStep, Step, RunInv
<1>2. /\ node' = node /\ outcomes' = outcomes
      /\ pc[r] = "write" /\ pc'[r] = "done" /\ Remaining(r) = {}
  BY <1>1 DEF Finish, tree, Goto, TypeOK
<1>3. StatusOf[r] = "writing"
  BY <1>2 DEF StatusOf, Status, Writing
<1>4. StatusOf' = [StatusOf EXCEPT ![r] = "succeeded"]
  BY <1>1, <1>2, OnlyMine DEF Status, Writing
<1>5. ClaimOf' = ClaimOf
  BY <1>1, <1>2, OnlyMine DEF ClaimOf
<1>6. PublishedBy' = PublishedBy /\ Want' = Want
  BY <1>1, <1>2, OnlyMine DEF PublishedBy, Published
<1>7. PublishedBy[r] = Want
  BY <1>1, <1>2 DEF PublishedBy, Published, Want, WritingInv, Writing,
     Remaining, Ready
<1> QED
  BY <1>2, <1>3, <1>4, <1>5, <1>6, <1>7
     DEF Contract!Succeed, StatusOf, ClaimOf, PublishedBy, Want

LEMMA ClaimStep ==
  ASSUME IInv, NEW r \in Runs, CreateExclusive(r)
  PROVE  Contract!Fail(r) \/ \E p \in Want : Contract!Claim(r, p)
<1>1. TypeOK /\ RunStep(r)
  BY DEF IInv, RunStep, Step
<1>2. /\ r \notin Overwrite /\ pc[r] = "create" /\ outcomes' = outcomes
      /\ current'[r] = current[r]
  BY <1>1 DEF CreateExclusive
<1>3. CASE ~OpensExclusively(r)
  <2>1. node' = node /\ pc'[r] = "failed"
    BY <1>1, <1>3 DEF CreateExclusive, Goto, TypeOK
  <2> QED
    BY <1>1, <1>2, <2>1, FailedStep DEF Active, Writing
<1>4. CASE OpensExclusively(r)
  <2>1. /\ pc'[r] = "fill"
        /\ node' = [node EXCEPT ![Dest(r)] = Written(r, Content(r), FALSE)]
    BY <1>1, <1>4 DEF CreateExclusive, Goto, TypeOK
  <2>2. /\ current[r] \in Want \ PublishedBy[r] /\ StatusOf[r] = "writing"
        /\ \A q \in Want \ PublishedBy[r] : Dest(r) <= q.group.dest
    BY <1>2, CurrentIsNext DEF AtPlan, Writing
  <2>3. ClaimOf[r] = NoPlan
    BY <1>2 DEF ClaimOf
  <2>4. Contract!IsNext(r, current[r])
    BY <2>2, <2>3
       DEF Contract!IsNext, Dest, StatusOf, ClaimOf, PublishedBy, Want
  <2>5. StatusOf' = StatusOf
    <3>1. Status(pc'[r]) = Status(pc[r])
      BY <1>2, <2>1 DEF Status, Writing
    <3> QED
      BY <1>1, <3>1, OnlyMine DEF StatusOf
  <2>6. ClaimOf' = [ClaimOf EXCEPT ![r] = current[r]]
    BY <1>1, <1>2, <2>1, OnlyMine
  <2>7. PublishedBy' = PublishedBy /\ Want' = Want
    BY <1>1, <1>2, OnlyMine DEF PublishedBy, Published
  <2> PICK p \in Want : p = current[r]
    BY <2>2
  <2>8. Contract!Claim(r, p)
    BY <1>2, <1>4, <2>1, <2>4, <2>5, <2>6, <2>7
       DEF Contract!Claim, OpensExclusively, Dest, Content, StatusOf, ClaimOf, PublishedBy, Want
  <2> QED
    BY <2>8
<1> QED
  BY <1>3, <1>4

LEMMA CompleteStep ==
  ASSUME IInv, NEW r \in Runs, FillExclusive(r)
  PROVE  \E p \in Want : Contract!Complete(r, p)
<1>1. TypeOK /\ RunStep(r)
  BY DEF IInv, RunStep, Step
<1>2. /\ pc[r] = "fill" /\ pc'[r] = "write"
      /\ outcomes'[r] = outcomes[r] \cup {current[r]}
      /\ node' = IF IsOpen(r)
                   THEN [node EXCEPT ![Dest(r)] = Written(r, Content(r), TRUE)]
                   ELSE node
  BY <1>1 DEF FillExclusive, Publish, Goto, TypeOK
<1>3. current[r] \in Want
  BY <1>2, CurrentIsNext DEF AtPlan, Writing
<1>4. StatusOf' = StatusOf
  <2>1. Status(pc'[r]) = Status(pc[r])
    BY <1>2 DEF Status, Writing
  <2> QED
    BY <1>1, <2>1, OnlyMine DEF StatusOf
<1>5. ClaimOf[r] = current[r] /\ ClaimOf' = [ClaimOf EXCEPT ![r] = NoPlan]
  BY <1>1, <1>2, OnlyMine DEF ClaimOf
<1>6. PublishedBy' = [PublishedBy EXCEPT ![r] = @ \cup {current[r]}]
  <2>1. Ready(outcomes'[r]) = Ready(outcomes[r]) \cup {current[r]}
    BY <1>2, <1>3 DEF Ready, Want
  <2> QED
    BY <1>1, <2>1, OnlyMine DEF PublishedBy, Published
<1>7. Want' = Want
  BY <1>1, OnlyMine
<1> PICK p \in Want : p = current[r]
  BY <1>3
<1>8. Contract!Complete(r, p)
  BY <1>2, <1>4, <1>5, <1>6, <1>7
     DEF Contract!Complete, IsOpen, Dest, Content, StatusOf, ClaimOf,
         PublishedBy, Want
<1> QED
  BY <1>8

LEMMA ReplaceStep ==
  ASSUME IInv, NEW r \in Runs, Rename(r)
  PROVE  Contract!Fail(r) \/ \E p \in Want : Contract!Replace(r, p)
<1>1. TypeOK /\ RunStep(r) /\ PlanInv(r)
  BY DEF IInv, RunStep, Step, RunInv
<1>2. pc[r] = "rename" /\ r \in Overwrite
  BY <1>1 DEF Rename, PlanInv
<1>3. CASE node[Dest(r)].kind = "directory"
  <2>1. node' = node /\ pc'[r] = "failed" /\ outcomes' = outcomes
    BY <1>1, <1>3 DEF Rename, Goto, TypeOK
  <2> QED
    BY <1>1, <1>2, <2>1, FailedStep DEF Active, Writing
<1>4. CASE node[Dest(r)].kind # "directory"
  <2>1. /\ pc'[r] = "write" /\ outcomes'[r] = outcomes[r] \cup {current[r]}
        /\ node' = [node EXCEPT ![Dest(r)] = Written(r, Content(r), TRUE)]
    BY <1>1, <1>4 DEF Rename, Temporary, Publish, Goto, TypeOK
  <2>2. /\ current[r] \in Want \ PublishedBy[r] /\ StatusOf[r] = "writing"
        /\ \A q \in Want \ PublishedBy[r] : Dest(r) <= q.group.dest
    BY <1>2, CurrentIsNext DEF AtPlan, Writing
  <2>3. ClaimOf[r] = NoPlan
    BY <1>2 DEF ClaimOf
  <2>4. Contract!IsNext(r, current[r])
    BY <2>2, <2>3
       DEF Contract!IsNext, Dest, StatusOf, ClaimOf, PublishedBy, Want
  <2>5. StatusOf' = StatusOf
    <3>1. Status(pc'[r]) = Status(pc[r])
      BY <1>2, <2>1 DEF Status, Writing
    <3> QED
      BY <1>1, <3>1, OnlyMine DEF StatusOf
  <2>6. ClaimOf' = ClaimOf
    BY <1>1, <1>2, <2>1, OnlyMine DEF ClaimOf
  <2>7. PublishedBy' = [PublishedBy EXCEPT ![r] = @ \cup {current[r]}]
    <3>1. Ready(outcomes'[r]) = Ready(outcomes[r]) \cup {current[r]}
      BY <2>1, <2>2 DEF Ready, Want
    <3> QED
      BY <1>1, <3>1, OnlyMine DEF PublishedBy, Published
  <2>8. Want' = Want
    BY <1>1, OnlyMine
  <2> PICK p \in Want : p = current[r]
    BY <2>2
  <2>9. Contract!Replace(r, p)
    BY <1>2, <1>4, <2>1, <2>4, <2>5, <2>6, <2>7, <2>8
       DEF Contract!Replace, Dest, Content, StatusOf, ClaimOf, PublishedBy,
           Want
  <2> QED
    BY <2>9
<1> QED
  BY <1>3, <1>4

LEMMA EditStep ==
  ASSUME IInv, NEW d \in Dests, Edit(d)
  PROVE  Contract!Edit(d) \/ UNCHANGED Contract!vars
<1>1. UNCHANGED <<pc, outcomes, current, scan>>
  BY DEF Edit, run
<1>2. StatusOf' = StatusOf /\ ClaimOf' = ClaimOf
  BY <1>1 DEF StatusOf, ClaimOf
<1>3. PublishedBy' = PublishedBy /\ Want' = Want
  BY <1>1, ScanSame DEF PublishedBy, Published, Ready, Want
<1>4. node' = node \/ \E k \in Kinds : node' = [node EXCEPT ![d] = Foreign(k)]
  BY DEF Edit
<1> QED
  BY <1>2, <1>3, <1>4
     DEF Contract!Edit, Contract!vars, StatusOf, ClaimOf, PublishedBy, Want

-----------------------------------------------------------------------------
LEMMA ContractInit == Init => Contract!Init
<1> SUFFICES ASSUME Init PROVE Contract!Init
  OBVIOUS
<1>1. Want \in SUBSET Plan
  BY WantedArePlans DEF Want, Ready, Init
<1>2. StatusOf = [r \in Runs |-> "undecided"]
  BY DEF StatusOf, Status, Writing, Init
<1>3. ClaimOf = [r \in Runs |-> NoPlan]
  BY DEF ClaimOf, Init
<1>4. PublishedBy = [r \in Runs |-> {}]
  BY DEF PublishedBy, Published, Ready, Init
<1> QED
  BY <1>1, <1>2, <1>3, <1>4
     DEF Init, Contract!Init, StatusOf, ClaimOf, PublishedBy, Want

LEMMA ContractStep == IInv /\ [Next]_vars => [Contract!Next]_(Contract!vars)
<1> SUFFICES ASSUME IInv, [Next]_vars
             PROVE  Contract!Next \/ UNCHANGED Contract!vars
  OBVIOUS
<1>1. ASSUME NEW r \in Runs, RunStep(r)
      PROVE  Contract!Next \/ UNCHANGED Contract!vars
  BY <1>1, HiddenSteps, FailedSteps, CheckSteps, AcceptStep, SucceedStep,
     ClaimStep, CompleteStep, ReplaceStep
     DEF RunStep, Step, Contract!Next, Want
<1>2. ASSUME NEW d \in Dests, Edit(d)
      PROVE  Contract!Next \/ UNCHANGED Contract!vars
  BY <1>2, EditStep DEF Contract!Next
<1>3. CASE UNCHANGED vars
  <2>1. UNCHANGED <<StatusOf, ClaimOf, PublishedBy, Want, node>>
    BY <1>3, ScanSame DEF vars, run, tree, environment, StatusOf, ClaimOf,
       PublishedBy, Published, Ready, Want
  <2> QED
    BY <2>1 DEF Contract!vars, StatusOf, ClaimOf, PublishedBy, Want
<1> QED
  BY <1>1, <1>2, <1>3 DEF Next, RunStep

\* Generation implements its contract, for any runs, scans and trees, whatever
\* fails, dies or is edited meanwhile.
THEOREM Refinement == Spec => ImplementsContract
BY Invariance, ContractInit, ContractStep, PTL
   DEF Spec, ImplementsContract, Contract!Spec
=============================================================================
