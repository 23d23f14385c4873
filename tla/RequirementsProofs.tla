------------------------- MODULE RequirementsProofs -------------------------
(***************************************************************************)
(* The recursion over included requirements files, for any files with any  *)
(* lines and however they change; and what it returns if they do not.      *)
(***************************************************************************)
EXTENDS Requirements, FiniteSetTheorems, TLAPS

DistinctPaths == \A i, j \in DOMAIN stack : stack[i].path = stack[j].path => i = j

\* What the steps preserve: the map of active paths is what makes the paths
\* on the stack differ.
IInv == TypeOK /\ ActiveIsStack /\ DistinctPaths /\ ResultAccepted

LEMMA InitIInv == Init => IInv
<1> SUFFICES ASSUME Init PROVE IInv
  OBVIOUS
<1>1. /\ tree \in [Paths -> Content \cup {Unreadable}]
      /\ tree[Start] \in Content
  BY RequirementsAssumption DEF Init
<1>2. Call(Start, tree[Start]) \in Frame
  BY <1>1, RequirementsAssumption DEF Call, Frame
<1>3. /\ stack \in Seq(Frame) /\ DOMAIN stack = {1}
      /\ stack[1].path = Start
  BY <1>2 DEF Init, Call
<1>4. TypeOK
  BY <1>1, <1>3, RequirementsAssumption DEF Init, TypeOK
<1> QED
  BY <1>3, <1>4 DEF Init, IInv, ActiveIsStack, DistinctPaths, ResultAccepted

-----------------------------------------------------------------------------
(* What the operations on the stack do.                                    *)

\* The innermost call moves on to its next line; no call changes its file.
LEMMA AdvancedStack ==
  ASSUME TypeOK, HasLine
  PROVE  /\ Advanced \in Seq(Frame)
         /\ Len(Advanced) = Len(stack) /\ DOMAIN Advanced = DOMAIN stack
         /\ \A i \in DOMAIN stack : Advanced[i].path = stack[i].path
<1>1. /\ stack \in Seq(Frame) /\ Len(stack) \in DOMAIN stack
      /\ Top \in Frame
  BY DEF TypeOK, HasLine, Top
<1>2. [Top EXCEPT !.next = Top.next + 1] \in Frame
  BY <1>1 DEF Frame
<1>3. Advanced = [stack EXCEPT ![Len(stack)] =
                    [Top EXCEPT !.next = Top.next + 1]]
  BY <1>1 DEF Advanced, Top
<1>4. Advanced \in Seq(Frame) /\ Len(Advanced) = Len(stack)
      /\ DOMAIN Advanced = DOMAIN stack
  BY <1>1, <1>2, <1>3
<1>5. ASSUME NEW i \in DOMAIN stack PROVE Advanced[i].path = stack[i].path
  <2>1. CASE i = Len(stack)
    BY <1>1, <1>3, <2>1 DEF Frame, Top
  <2>2. CASE i # Len(stack)
    BY <1>1, <1>3, <2>2
  <2> QED
    BY <2>1, <2>2
<1> QED
  BY <1>4, <1>5

\* A line that is dealt with in place leaves the paths of the calls alone.
LEMMA AdvanceKeepsPaths ==
  ASSUME IInv, HasLine, stack' = Advanced, active' = active
  PROVE  stack' \in Seq(Frame) /\ ActiveIsStack' /\ DistinctPaths'
<1>1. /\ Advanced \in Seq(Frame) /\ DOMAIN Advanced = DOMAIN stack
      /\ \A i \in DOMAIN stack : Advanced[i].path = stack[i].path
  BY AdvancedStack DEF IInv
<1> QED
  BY <1>1 DEF IInv, ActiveIsStack, DistinctPaths

-----------------------------------------------------------------------------
(* One lemma for each step.                                                *)

LEMMA IgnoreStep == IInv /\ IgnoreLine => IInv'
BY AdvanceKeepsPaths DEF IInv, IgnoreLine, TypeOK, ResultAccepted

LEMMA KeepStep == IInv /\ KeepLine => IInv'
<1> SUFFICES ASSUME IInv, KeepLine PROVE IInv'
  OBVIOUS
<1>1. stack' \in Seq(Frame) /\ ActiveIsStack' /\ DistinctPaths'
  BY AdvanceKeepsPaths DEF KeepLine
<1>2. dependencies' \in Seq(Declarations)
  BY DEF IInv, TypeOK, KeepLine
<1> QED
  BY <1>1, <1>2 DEF IInv, KeepLine, TypeOK, ResultAccepted

LEMMA RefuseStep == IInv /\ RefuseInclude => IInv'
<1> SUFFICES ASSUME IInv, RefuseInclude PROVE IInv'
  OBVIOUS
<1>1. stack' \in Seq(Frame) /\ ActiveIsStack' /\ DistinctPaths'
  BY AdvanceKeepsPaths DEF RefuseInclude
<1>2. diagnostics' \in Seq(Paths)
  BY DEF IInv, TypeOK, RefuseInclude, Diagnosed
<1> QED
  BY <1>1, <1>2 DEF IInv, RefuseInclude, TypeOK, ResultAccepted

LEMMA FollowStep == IInv /\ FollowInclude => IInv'
<1> SUFFICES ASSUME IInv, FollowInclude PROVE IInv'
  OBVIOUS
<1>1. PICK p \in Paths : /\ p \notin active /\ tree[p] # Unreadable
                         /\ stack' = Append(Advanced, Call(p, tree[p]))
                         /\ active' = active \cup {p}
  BY DEF FollowInclude, IsCycle
<1>2. /\ Advanced \in Seq(Frame)
      /\ Len(Advanced) = Len(stack) /\ DOMAIN Advanced = DOMAIN stack
      /\ \A i \in DOMAIN stack : Advanced[i].path = stack[i].path
  BY AdvancedStack DEF IInv, FollowInclude
<1>3. Call(p, tree[p]) \in Frame /\ Call(p, tree[p]).path = p
  BY <1>1 DEF IInv, TypeOK, Call, Frame
<1>4. /\ stack' \in Seq(Frame) /\ Len(stack') = Len(stack) + 1
      /\ DOMAIN stack' = DOMAIN stack \cup {Len(stack) + 1}
      /\ stack'[Len(stack) + 1].path = p
      /\ \A i \in DOMAIN stack : stack'[i].path = stack[i].path
  <2>1. stack \in Seq(Frame) /\ Len(stack) \in Nat /\ DOMAIN stack = 1 .. Len(stack)
    BY DEF IInv, TypeOK
  <2>2. \A i \in DOMAIN stack : stack'[i] = Advanced[i]
    BY <1>1, <1>2, <1>3, <2>1
  <2>3. /\ stack' \in Seq(Frame) /\ Len(stack') = Len(stack) + 1
        /\ stack'[Len(stack) + 1] = Call(p, tree[p])
    BY <1>1, <1>2, <1>3, <2>1
  <2>4. DOMAIN stack' = 1 .. Len(stack) + 1
    BY <2>3
  <2> QED
    BY <1>2, <1>3, <2>1, <2>2, <2>3, <2>4
<1>5. ActiveIsStack'
  BY <1>1, <1>4 DEF IInv, ActiveIsStack
<1>6. \A i \in DOMAIN stack : stack[i].path # p
  BY <1>1 DEF IInv, ActiveIsStack
<1>7. DistinctPaths'
  BY <1>4, <1>6 DEF IInv, DistinctPaths
<1> QED
  BY <1>1, <1>4, <1>5, <1>7 DEF IInv, FollowInclude, TypeOK, ResultAccepted

LEMMA ReturnStep == IInv /\ Return => IInv'
<1> SUFFICES ASSUME IInv, Return PROVE IInv'
  OBVIOUS
<1> DEFINE n == Len(stack)
<1>1. stack \in Seq(Frame) /\ n \in Nat \ {0} /\ DOMAIN stack = 1 .. n
  BY DEF IInv, TypeOK, Return
<1>2. /\ stack' \in Seq(Frame) /\ Len(stack') = n - 1
      /\ \A i \in 1 .. n - 1 : stack'[i] = stack[i]
  BY <1>1 DEF Return
<1>3. DOMAIN stack' = 1 .. n - 1 /\ DOMAIN stack = DOMAIN stack' \cup {n}
      /\ n \notin DOMAIN stack'
  BY <1>1, <1>2
<1>4. DistinctPaths'
  BY <1>1, <1>2, <1>3 DEF IInv, DistinctPaths
<1>5. ActiveIsStack'
  <2>1. active' = {stack[i].path : i \in DOMAIN stack} \ {stack[n].path}
    BY DEF IInv, ActiveIsStack, Return, NoLongerActive, Top
  <2>2. \A i \in DOMAIN stack' : stack[i].path # stack[n].path
    BY <1>3 DEF IInv, DistinctPaths
  <2>3. active' = {stack[i].path : i \in DOMAIN stack'}
    BY <1>3, <2>1, <2>2
  <2> QED
    BY <1>2, <1>3, <2>3 DEF ActiveIsStack
<1>6. active' \subseteq Paths
  BY DEF IInv, TypeOK, Return, NoLongerActive
<1> QED
  BY <1>2, <1>4, <1>5, <1>6 DEF IInv, Return, TypeOK, ResultAccepted

\* Analyze returns a result that the scan accepts.
LEMMA OutcomeAccepted ==
  ASSUME NEW found \in Nat, NEW refused \in Nat
  PROVE  /\ Outcome(found, refused) \in AnalyzerResult
         /\ ValidSourceAnalyzerResult(Outcome(found, refused))
<1> USE DEF Outcome, AnalyzerResult, Analysis, Presences, Extractions, Is,
            CompleteAnalysis, FailedAnalysis, ValidSourceAnalyzerResult,
            ValidSourceAnalysis
<1>1. CASE found > 0 /\ refused > 0
  BY <1>1
<1>2. CASE found = 0 /\ refused > 0
  BY <1>2
<1>3. CASE found > 0 /\ refused = 0
  BY <1>3
<1>4. CASE found = 0 /\ refused = 0
  BY <1>4
<1> QED
  BY <1>1, <1>2, <1>3, <1>4

LEMMA FinishStep == IInv /\ Finish => IInv'
<1> SUFFICES ASSUME IInv, Finish PROVE IInv'
  OBVIOUS
<1>1. Len(dependencies) \in Nat /\ Len(diagnostics) \in Nat
  BY DEF IInv, TypeOK
<1>2. result' \in AnalyzerResult /\ ValidSourceAnalyzerResult(result')
  BY <1>1, OutcomeAccepted DEF Finish
<1> QED
  BY <1>2 DEF IInv, Finish, TypeOK, ActiveIsStack, DistinctPaths, ResultAccepted

LEMMA EditStep == IInv /\ Edit => IInv'
<1> SUFFICES ASSUME IInv, Edit PROVE IInv'
  OBVIOUS
<1>1. tree' \in [Paths -> Content \cup {Unreadable}] /\ edits' \in 0 .. MaxEdits
  BY RequirementsAssumption DEF IInv, TypeOK, Edit
<1> QED
  BY <1>1 DEF IInv, Edit, TypeOK, ActiveIsStack, DistinctPaths, ResultAccepted

LEMMA NextIInv == IInv /\ [Next]_vars => IInv'
<1> SUFFICES ASSUME IInv, [Next]_vars PROVE IInv'
  OBVIOUS
<1>1. CASE UNCHANGED vars
  BY <1>1 DEF vars, IInv, TypeOK, ActiveIsStack, DistinctPaths, ResultAccepted
<1> QED
  BY <1>1, IgnoreStep, KeepStep, RefuseStep, FollowStep, ReturnStep, FinishStep,
     EditStep DEF Next, Analyze

THEOREM Invariance == Spec => []IInv
BY InitIInv, NextIInv, PTL DEF Spec

\* Type correctness of the analysis of requirements files.
THEOREM TypeCorrect == Spec => []TypeOK
BY Invariance, PTL DEF IInv

\* The active paths are those of the calls under way.
THEOREM ActiveStack == Spec => []ActiveIsStack
BY Invariance, PTL DEF IInv

\* Every result is accepted by the scan.
THEOREM AcceptedResult == Spec => []ResultAccepted
BY Invariance, PTL DEF IInv

LEMMA IInvDepth == IInv => DepthBounded
<1> SUFFICES ASSUME IInv, ~ (Len(stack) <= Cardinality(Paths)) PROVE FALSE
  BY DEF IInv, DistinctPaths, DepthBounded
<1> DEFINE f == [i \in 1 .. Len(stack) |-> stack[i].path]
<1>1. Len(stack) \in Nat /\ DOMAIN stack = 1 .. Len(stack)
      /\ \A i \in DOMAIN stack : stack[i] \in Frame
  BY DEF IInv, TypeOK
<1>2. f \in [1 .. Len(stack) -> Paths]
  BY <1>1 DEF Frame
<1>3. IsFiniteSet(1 .. Len(stack)) /\ Cardinality(1 .. Len(stack)) = Len(stack)
  BY <1>1, FS_Interval
<1>4. IsFiniteSet(Paths) /\ Cardinality(Paths) \in Nat
  BY RequirementsAssumption, FS_CardinalityType
<1>5. Cardinality(Paths) < Cardinality(1 .. Len(stack))
  BY <1>1, <1>3, <1>4
<1>6. \E i, j \in 1 .. Len(stack) : i # j /\ f[i] = f[j]
  <2> HIDE DEF f
  <2> QED
    BY <1>2, <1>3, <1>4, <1>5, FS_PigeonHole, Zenon
<1> QED
  BY <1>1, <1>6 DEF IInv, DistinctPaths

\* No file is read twice at once, and the recursion is bounded by the number
\* of files.
THEOREM BoundedDepth == Spec => []DepthBounded
BY Invariance, IInvDepth, PTL

-----------------------------------------------------------------------------
(* What a listing of places in order gains by one more place.              *)

\* What comes after all places of a set is the last of the set with it.
LEMMA LastInOrder ==
  ASSUME NEW S, NEW c, IsFiniteSet(S), c \notin S,
         \A s \in S : Before(s, c) /\ ~ Before(c, s) /\ ~ Before(s, s), ~ Before(c, c)
  PROVE  /\ IsFiniteSet(S \cup {c}) /\ Cardinality(S) \in Nat
         /\ Cardinality(S \cup {c}) = Cardinality(S) + 1
         /\ \A n \in 1 .. Cardinality(S) : InOrder(S \cup {c})[n] = InOrder(S)[n]
         /\ InOrder(S \cup {c})[Cardinality(S) + 1] = c
<1> DEFINE T == S \cup {c}
           m == Cardinality(S)
           below(A, s) == {t \in A : Before(t, s)}
<1>1. /\ IsFiniteSet(T) /\ m \in Nat /\ Cardinality(T) = m + 1
  BY FS_AddElement, FS_CardinalityType
<1>2. \A s \in S : below(T, s) = below(S, s)
  OBVIOUS
<1>3. below(T, c) = S
  OBVIOUS
<1>4. \A s \in S : Cardinality(below(S, s)) < m
  <2> SUFFICES ASSUME NEW s \in S PROVE Cardinality(below(S, s)) < m
    OBVIOUS
  <2>1. below(S, s) \in SUBSET S /\ below(S, s) # S
    OBVIOUS
  <2> HIDE DEF below
  <2>2. /\ IsFiniteSet(below(S, s)) /\ Cardinality(below(S, s)) <= m
        /\ Cardinality(below(S, s)) = m => below(S, s) = S
    BY <2>1, FS_Subset
  <2>3. Cardinality(below(S, s)) \in Nat
    BY <2>2, FS_CardinalityType
  <2> QED
    BY <1>1, <2>1, <2>2, <2>3
<1>5. \A n \in 1 .. m : InOrder(T)[n] = InOrder(S)[n]
  <2> SUFFICES ASSUME NEW n \in 1 .. m PROVE InOrder(T)[n] = InOrder(S)[n]
    OBVIOUS
  <2>1. \A s : (s \in T /\ Cardinality(below(T, s)) = n - 1)
               <=> (s \in S /\ Cardinality(below(S, s)) = n - 1)
    <3>1. n - 1 # m
      BY <1>1
    <3> HIDE DEF below
    <3> QED
      BY <1>2, <1>3, <3>1
  <2>2. (CHOOSE s \in T : Cardinality(below(T, s)) = n - 1)
          = (CHOOSE s \in S : Cardinality(below(S, s)) = n - 1)
    <3> HIDE DEF T, below
    <3> QED
      BY <2>1, Zenon
  <2>3. n \in 1 .. Cardinality(T) /\ n \in 1 .. Cardinality(S)
    BY <1>1
  <2> QED
    BY <2>2, <2>3 DEF InOrder
<1>6. InOrder(T)[m + 1] = c
  <2>1. \A s : (s \in T /\ Cardinality(below(T, s)) = m) <=> s = c
    <3> HIDE DEF below
    <3>1. \A s \in S : Cardinality(below(T, s)) # m
      BY <1>1, <1>2, <1>4
    <3> QED
      BY <1>3, <3>1
  <2>2. (CHOOSE s \in T : Cardinality(below(T, s)) = m) = c
    <3> HIDE DEF T, below
    <3> QED
      BY <2>1
  <2>3. m + 1 \in 1 .. Cardinality(T) /\ (m + 1) - 1 = m
    BY <1>1
  <2>4. InOrder(T)[m + 1] = CHOOSE s \in T : Cardinality(below(T, s)) = (m + 1) - 1
    BY <2>3 DEF InOrder
  <2> QED
    BY <2>2, <2>3, <2>4
<1> QED
  BY <1>1, <1>5, <1>6

LEMMA OneMoreDeclared ==
  ASSUME NEW S, NEW c, IsFiniteSet(S), c \notin S,
         \A s \in S : Before(s, c) /\ ~ Before(c, s) /\ ~ Before(s, s), ~ Before(c, c)
  PROVE  /\ DeclaredAt(S \cup {c}) = Append(DeclaredAt(S), LineOf(c).declare)
         /\ IncludedAt(S \cup {c}) = Append(IncludedAt(S), LineOf(c).include)
<1> DEFINE T == S \cup {c}
           m == Cardinality(S)
           declared(x) == LineOf(x).declare
           included(x) == LineOf(x).include
<1>1. /\ m \in Nat /\ Cardinality(T) = m + 1
      /\ \A n \in 1 .. m : InOrder(T)[n] = InOrder(S)[n]
      /\ InOrder(T)[m + 1] = c
  <2>1. /\ IsFiniteSet(S \cup {c}) /\ Cardinality(S) \in Nat
        /\ Cardinality(S \cup {c}) = Cardinality(S) + 1
        /\ \A n \in 1 .. Cardinality(S) : InOrder(S \cup {c})[n] = InOrder(S)[n]
        /\ InOrder(S \cup {c})[Cardinality(S) + 1] = c
    BY LastInOrder
  <2> QED
    BY <2>1
<1>2. DeclaredAt(S) = [n \in 1 .. m |-> declared(InOrder(S)[n])]
      /\ DeclaredAt(T) = [n \in 1 .. m + 1 |-> declared(InOrder(T)[n])]
      /\ IncludedAt(S) = [n \in 1 .. m |-> included(InOrder(S)[n])]
      /\ IncludedAt(T) = [n \in 1 .. m + 1 |-> included(InOrder(T)[n])]
  BY <1>1 DEF DeclaredAt, IncludedAt
<1> HIDE DEF T, m, declared, included
<1>3. [n \in 1 .. m + 1 |-> declared(InOrder(T)[n])]
        = Append([n \in 1 .. m |-> declared(InOrder(S)[n])], declared(c))
  BY <1>1
<1>4. [n \in 1 .. m + 1 |-> included(InOrder(T)[n])]
        = Append([n \in 1 .. m |-> included(InOrder(S)[n])], included(c))
  BY <1>1
<1>5. DeclaredAt(T) = Append(DeclaredAt(S), declared(c))
      /\ IncludedAt(T) = Append(IncludedAt(S), included(c))
  BY <1>2, <1>3, <1>4
<1> QED
  BY <1>5 DEF T, declared, included

-----------------------------------------------------------------------------
(* Where the analysis stands in a tree that nobody changes.                *)

\* The line of each call under way: that of its include, or that which the
\* innermost call has before it.
LineNo(i) == IF i = Len(stack) THEN stack[i].next ELSE stack[i].next - 1
Here(i) == At(stack[i].path, LineNo(i))
Cursor == [i \in 1 .. Len(stack) |-> Here(i)]
Passed(s) ==
  stack # <<>> => \E n \in DOMAIN s \cap DOMAIN stack :
                    (\A i \in 1 .. n - 1 : s[i] = Here(i)) /\ s[n].index < LineNo(n)
Done == {s \in Places : Passed(s)}
CallsInv ==
  /\ stack # <<>> => stack[1].path = Start
  /\ \A i \in DOMAIN stack : stack[i].lines = tree[stack[i].path]
  /\ \A i \in 1 .. Len(stack) - 1 :
       /\ stack[i].next - 1 \in DOMAIN stack[i].lines
       /\ stack[i].lines[stack[i].next - 1] = Include(stack[i + 1].path)
  /\ result # NoResult => stack = <<>>
\* Every call reads its file as it is, and what has been found is what the
\* places behind the innermost call declare and refuse.
FoundInv ==
  /\ IsFiniteSet(Declaring \cap Done) /\ dependencies = DeclaredAt(Declaring \cap Done)
  /\ IsFiniteSet(Refused \cap Done) /\ diagnostics = IncludedAt(Refused \cap Done)
ExpansionInv == edits = 0 => CallsInv /\ FoundInv

LEMMA PlaceFacts ==
  ASSUME TypeOK, NEW s \in Places
  PROVE  /\ Len(s) \in Nat \ {0} /\ DOMAIN s = 1 .. Len(s) /\ Leads(s)
         /\ \A i \in 1 .. Len(s) :
              /\ s[i].path \in Paths /\ tree[s[i].path] # Unreadable
              /\ s[i].index \in Nat \ {0} /\ s[i].index \in DOMAIN tree[s[i].path]
              /\ s[i] = At(s[i].path, s[i].index)
<1>1. /\ Leads(s) /\ \E n \in 1 .. Cardinality(Paths) : s \in [1 .. n -> Standing]
  BY DEF Places
<1>2. Cardinality(Paths) \in Nat
  BY RequirementsAssumption, FS_CardinalityType
<1>3. PICK n \in Nat \ {0} : s \in [1 .. n -> Standing]
  BY <1>1, <1>2
<1>4. Len(s) = n /\ DOMAIN s = 1 .. n /\ \A i \in 1 .. n : s[i] \in Standing
  BY <1>3
<1>5. ASSUME NEW x \in Standing
      PROVE  /\ x.path \in Paths /\ tree[x.path] # Unreadable
             /\ x.index \in Nat \ {0} /\ x.index \in DOMAIN tree[x.path]
             /\ x = At(x.path, x.index)
  <2>1. PICK p \in Paths : /\ tree[p] # Unreadable
                           /\ \E i \in DOMAIN tree[p] : x = At(p, i)
    BY DEF Standing
  <2>2. tree[p] \in Seq(Line)
    BY <2>1 DEF TypeOK, Content
  <2> PICK i \in DOMAIN tree[p] : x = At(p, i)
    BY <2>1
  <2>3. x.path = p /\ x.index = i
    BY DEF At
  <2> QED
    BY <2>1, <2>2, <2>3 DEF At
<1> QED
  BY <1>1, <1>3, <1>4, <1>5

\* A place that has followed all includes of the calls up to the m-th is in the
\* file of that call.
LEMMA SameFile ==
  ASSUME IInv, CallsInv, NEW s \in Places, NEW m \in 1 .. Len(s), m \in DOMAIN stack,
         \A i \in 1 .. m - 1 : s[i] = Here(i)
  PROVE  /\ s[m].path = stack[m].path
         /\ s[m].index \in Nat \ {0} /\ s[m].index \in DOMAIN stack[m].lines
         /\ s[m] = At(stack[m].path, s[m].index)
         /\ s[m].line = stack[m].lines[s[m].index]
<1>1. /\ Len(s) \in Nat \ {0} /\ DOMAIN s = 1 .. Len(s) /\ Leads(s)
      /\ s[m].index \in Nat \ {0} /\ s[m].index \in DOMAIN tree[s[m].path]
      /\ s[m] = At(s[m].path, s[m].index)
  BY PlaceFacts DEF IInv
<1>2. stack \in Seq(Frame) /\ DOMAIN stack = 1 .. Len(stack) /\ Len(stack) \in Nat
  BY DEF IInv, TypeOK
<1>3. s[m].path = stack[m].path
  <2>1. CASE m = 1
    BY <2>1, <1>1, <1>2 DEF Leads, CallsInv
  <2>2. CASE m > 1
    <3>1. m - 1 \in 1 .. Len(s) - 1 /\ m - 1 \in 1 .. m - 1 /\ m - 1 \in 1 .. Len(stack) - 1
          /\ m - 1 # Len(stack) /\ (m - 1) + 1 = m /\ m - 1 \in DOMAIN stack
      BY <2>2, <1>1, <1>2
    <3>2. s[m - 1].line = Include(s[m].path) /\ s[m - 1] = Here(m - 1)
      BY <3>1, <1>1 DEF Leads
    <3>3. Here(m - 1).line = tree[stack[m - 1].path][stack[m - 1].next - 1]
      BY <3>1 DEF Here, At, LineNo
    <3>4. /\ tree[stack[m - 1].path] = stack[m - 1].lines
          /\ stack[m - 1].lines[stack[m - 1].next - 1] = Include(stack[m].path)
      BY <3>1 DEF CallsInv
    <3>5. Include(s[m].path) = Include(stack[m].path)
      BY <3>2, <3>3, <3>4
    <3> QED
      BY <3>5 DEF Include
  <2> QED
    BY <2>1, <2>2
<1>4. tree[s[m].path] = stack[m].lines
  BY <1>3 DEF CallsInv
<1>5. s[m].line = tree[s[m].path][s[m].index]
  BY <1>1 DEF At
<1> QED
  BY <1>1, <1>3, <1>4, <1>5

\* The line before the innermost call stands at a place.
LEMMA CursorPlace ==
  ASSUME IInv, CallsInv, HasLine
  PROVE  /\ Cursor \in Places /\ Len(Cursor) = Len(stack) /\ DOMAIN Cursor = 1 .. Len(stack)
         /\ LineOf(Cursor) = CurrentLine
         /\ \A i \in 1 .. Len(stack) : Cursor[i] = Here(i) /\ Cursor[i].path = stack[i].path
                                       /\ Cursor[i].index = LineNo(i)
<1> DEFINE m == Len(stack)
<1>1. /\ stack \in Seq(Frame) /\ m \in Nat \ {0} /\ DOMAIN stack = 1 .. m
      /\ Top = stack[m] /\ stack[m].next <= Len(stack[m].lines)
      /\ \A i \in 1 .. m : stack[i] \in Frame
  BY DEF IInv, TypeOK, HasLine, Top
<1>2. \A i \in 1 .. m : /\ stack[i].path \in Paths /\ stack[i].lines \in Seq(Line)
                        /\ stack[i].next \in Nat \ {0}
  BY <1>1 DEF Frame, Content
<1>3. \A i \in 1 .. m : LineNo(i) \in DOMAIN stack[i].lines
  <2> SUFFICES ASSUME NEW i \in 1 .. m PROVE LineNo(i) \in DOMAIN stack[i].lines
    OBVIOUS
  <2>1. CASE i = m
    BY <2>1, <1>1, <1>2 DEF LineNo
  <2>2. CASE i # m
    <3>1. i \in 1 .. Len(stack) - 1
      BY <2>2, <1>1
    <3> QED
      BY <2>2, <3>1 DEF LineNo, CallsInv
  <2> QED
    BY <2>1, <2>2
<1>4. \A i \in 1 .. m : stack[i].lines = tree[stack[i].path] /\ tree[stack[i].path] # Unreadable
  <2>1. \A i \in 1 .. m : stack[i].lines \in Content
    BY <1>2 DEF Content
  <2> QED
    BY <2>1, <1>1, RequirementsAssumption DEF CallsInv
<1>5. \A i \in 1 .. m : Here(i) \in Standing
  BY <1>2, <1>3, <1>4 DEF Here, Standing
<1>6. m <= Cardinality(Paths) /\ Cardinality(Paths) \in Nat
  BY IInvDepth, RequirementsAssumption, FS_CardinalityType DEF DepthBounded
<1>7. /\ Len(Cursor) = m /\ DOMAIN Cursor = 1 .. m
      /\ \A i \in 1 .. m : Cursor[i] = Here(i)
  BY <1>1 DEF Cursor
<1>8. Cursor \in [1 .. m -> Standing]
  BY <1>5 DEF Cursor
<1>9. \A i \in 1 .. m : /\ Here(i).path = stack[i].path /\ Here(i).index = LineNo(i)
                        /\ Here(i).line = stack[i].lines[LineNo(i)]
  BY <1>4 DEF Here, At
<1>10. Leads(Cursor)
  <2>1. Cursor[1].path = Start
    BY <1>1, <1>7, <1>9 DEF CallsInv
  <2>2. \A i \in 1 .. m - 1 : Cursor[i].line = Include(Cursor[i + 1].path)
    <3> SUFFICES ASSUME NEW i \in 1 .. m - 1
                 PROVE Cursor[i].line = Include(Cursor[i + 1].path)
      OBVIOUS
    <3>1. i \in 1 .. m /\ i + 1 \in 1 .. m /\ i # m
      <4>1. m \in Nat
        BY <1>1
      <4> HIDE DEF m
      <4> QED
        BY <4>1
    <3>2. LineNo(i) = stack[i].next - 1
      BY <3>1 DEF LineNo
    <3>3. stack[i].lines[stack[i].next - 1] = Include(stack[i + 1].path)
      BY DEF CallsInv
    <3> QED
      BY <3>1, <3>2, <3>3, <1>7, <1>9
  <2>3. \A i, j \in 1 .. m : Cursor[i].path = Cursor[j].path => i = j
    BY <1>1, <1>7, <1>9 DEF IInv, DistinctPaths
  <2> QED
    BY <1>7, <2>1, <2>2, <2>3 DEF Leads
<1>11. Cursor \in Places
  BY <1>1, <1>6, <1>8, <1>10 DEF Places
<1>12. LineOf(Cursor) = CurrentLine
  BY <1>1, <1>7, <1>9 DEF LineOf, CurrentLine, LineNo
<1> QED
  BY <1>7, <1>9, <1>11, <1>12

\* The places that have gone through all includes under way and the line before
\* the innermost call.
Through == {s \in Places : /\ Len(stack) <= Len(s)
                           /\ \A i \in 1 .. Len(stack) : s[i] = Here(i)}

LEMMA BehindCursor ==
  ASSUME IInv, CallsInv, HasLine
  PROVE  /\ Cursor \notin Done /\ ~ Before(Cursor, Cursor)
         /\ \A s \in Done : Before(s, Cursor) /\ ~ Before(Cursor, s) /\ ~ Before(s, s)
<1> DEFINE c == Cursor
           m == Len(stack)
<1>1. /\ c \in Places /\ DOMAIN c = 1 .. m
      /\ \A i \in 1 .. m : c[i] = Here(i) /\ c[i].index = LineNo(i)
  BY CursorPlace
<1>2. stack # <<>> /\ m \in Nat \ {0} /\ DOMAIN stack = 1 .. m
  BY DEF HasLine, IInv, TypeOK
<1>3. \A s \in Places : /\ Len(s) \in Nat /\ DOMAIN s = 1 .. Len(s)
                        /\ \A i \in 1 .. Len(s) : s[i].index \in Nat
  BY PlaceFacts DEF IInv
<1> HIDE DEF c, m
<1>4. \A s \in Places : ~ Before(s, s)
  <2> SUFFICES ASSUME NEW s \in Places, Before(s, s) PROVE FALSE
    OBVIOUS
  <2>1. PICK n \in 1 .. Len(s) : s[n].index < s[n].index
    BY <1>3 DEF Before
  <2>2. s[n].index \in Nat
    BY <1>3
  <2> QED
    BY <2>1, <2>2
<1>5. ASSUME NEW s \in Done PROVE Before(s, c) /\ ~ Before(c, s)
  <2>1. PICK n \in 1 .. m : /\ n \in DOMAIN s /\ \A i \in 1 .. n - 1 : s[i] = c[i]
                            /\ s[n].index < c[n].index
    <3>1. PICK n \in DOMAIN s \cap 1 .. m :
            (\A i \in 1 .. n - 1 : s[i] = Here(i)) /\ s[n].index < LineNo(n)
      BY <1>2 DEF Done, Passed
    <3>2. \A i \in 1 .. n - 1 : i \in 1 .. m
      BY <1>2
    <3> QED
      BY <1>1, <3>1, <3>2
  <2>2. Before(s, c)
    BY <1>1, <2>1 DEF Before
  <2>3. ASSUME Before(c, s) PROVE FALSE
    <3>1. PICK k \in 1 .. m : /\ k \in DOMAIN s /\ \A i \in 1 .. k - 1 : c[i] = s[i]
                              /\ c[k].index < s[k].index
      BY <1>1, <2>3 DEF Before
    <3>2. s \in Places /\ s[n].index \in Nat /\ c[n].index \in Nat /\ s[k].index \in Nat
          /\ c[k].index \in Nat
      <4>1. s \in Places
        BY DEF Done
      <4>2. Len(c) = m
        BY <1>1, <1>2, <1>3
      <4> QED
        BY <1>1, <1>3, <2>1, <3>1, <4>1, <4>2
    <3>3. CASE n = k
      BY <2>1, <3>1, <3>2, <3>3
    <3>4. CASE n < k
      <4>1. n \in 1 .. k - 1
        BY <1>2, <3>4
      <4> QED
        BY <2>1, <3>1, <3>2, <4>1
    <3>5. CASE k < n
      <4>1. k \in 1 .. n - 1
        BY <1>2, <3>5
      <4> QED
        BY <2>1, <3>1, <3>2, <4>1
    <3> QED
      BY <1>2, <3>3, <3>4, <3>5
  <2> QED
    BY <2>2, <2>3
<1>6. c \notin Done
  BY <1>1, <1>4, <1>5
<1>7. Done \subseteq Places
  BY DEF Done
<1> QED
  BY <1>1, <1>4, <1>5, <1>6, <1>7 DEF c

\* Where the innermost call goes on to its next line, the places through the line
\* before it are passed, and no others.
LEMMA LinePassed ==
  ASSUME IInv, CallsInv, HasLine, stack' = Advanced, tree' = tree
  PROVE  Done' = Done \cup Through
<1>0. PICK m : m = Len(stack)
  OBVIOUS
<1>1. /\ stack \in Seq(Frame) /\ m \in Nat \ {0} /\ DOMAIN stack = 1 .. m /\ stack # <<>>
      /\ \A i \in 1 .. m : stack[i].next \in Nat
  <2>1. stack \in Seq(Frame) /\ m \in Nat /\ DOMAIN stack = 1 .. m /\ stack # <<>>
    BY <1>0 DEF IInv, TypeOK, HasLine
  <2>2. m # 0
    BY <1>0, <2>1
  <2>3. \A i \in 1 .. m : stack[i] \in Frame
    BY <2>1
  <2>4. \A i \in 1 .. m : stack[i].next \in Nat
    BY <2>3 DEF Frame
  <2> QED
    BY <2>1, <2>2, <2>4
<1>2. /\ Len(stack') = m /\ DOMAIN stack' = 1 .. m /\ stack' # <<>>
      /\ \A i \in 1 .. m : stack'[i].path = stack[i].path
      /\ \A i \in 1 .. m - 1 : stack'[i].next = stack[i].next
      /\ stack'[m].next = stack[m].next + 1
  <2>1. stack' = [stack EXCEPT ![m] = [stack[m] EXCEPT !.next = stack[m].next + 1]]
    BY <1>0 DEF Advanced
  <2>2. stack[m] \in Frame
    BY <1>1
  <2>3. [stack[m] EXCEPT !.next = stack[m].next + 1] \in Frame
    BY <1>1, <2>2 DEF Frame
  <2>4. \A i \in 1 .. m - 1 : i \in 1 .. m /\ i # m
    <3>1. m \in Nat
      BY <1>1
    <3> QED
      BY <3>1
  <2>5. /\ stack'[m] = [stack[m] EXCEPT !.next = stack[m].next + 1]
        /\ \A i \in 1 .. m - 1 : stack'[i] = stack[i]
    BY <1>1, <2>1, <2>4
  <2>6. stack'[m].next = stack[m].next + 1
    BY <2>2, <2>5 DEF Frame
  <2>7. Len(stack') = m /\ DOMAIN stack' = 1 .. m
    BY <1>1, <2>1, <2>3
  <2>8. \A i \in 1 .. m : stack'[i].path = stack[i].path
    BY <1>1, AdvancedStack DEF IInv
  <2> QED
    BY <1>1, <2>5, <2>6, <2>7, <2>8
<1>3. Places' = Places
  BY DEF Places, Leads, Standing, At
<1>4. \A i \in 1 .. m - 1 : LineNo(i)' = LineNo(i) /\ Here(i)' = Here(i)
  <2> SUFFICES ASSUME NEW i \in 1 .. m - 1 PROVE LineNo(i)' = LineNo(i) /\ Here(i)' = Here(i)
    OBVIOUS
  <2>1. i \in 1 .. m /\ i # m
    <3>1. m \in Nat
      BY <1>1
    <3> QED
      BY <3>1
  <2>2. LineNo(i)' = LineNo(i)
    BY <1>0, <1>2, <2>1 DEF LineNo
  <2>3. stack'[i].path = stack[i].path
    BY <1>2, <2>1
  <2> QED
    BY <2>2, <2>3 DEF Here, At
<1>5. LineNo(m)' = LineNo(m) + 1 /\ LineNo(m) \in Nat
  BY <1>0, <1>1, <1>2 DEF LineNo
<1>6. ASSUME NEW s \in Places
      PROVE  Passed(s)' <=> Passed(s) \/ s \in Through
  <2>1. /\ Len(s) \in Nat /\ DOMAIN s = 1 .. Len(s)
        /\ \A i \in 1 .. Len(s) : s[i].index \in Nat
    BY PlaceFacts DEF IInv
  <2> DEFINE along(n) == \A i \in 1 .. n - 1 : s[i] = Here(i)
  <2>2. Passed(s) <=> \E n \in DOMAIN s \cap 1 .. m : along(n) /\ s[n].index < LineNo(n)
    BY <1>0, <1>1 DEF Passed
  <2>3. Passed(s)' <=> \E n \in DOMAIN s \cap 1 .. m : along(n) /\ s[n].index < LineNo(n)'
    <3>1. \A n \in 1 .. m : \A i \in 1 .. n - 1 : i \in 1 .. m - 1
      BY <1>1
    <3> QED
      BY <1>2, <1>4, <3>1 DEF Passed
  <2>4. s \in Through <=> /\ m \in DOMAIN s /\ along(m) /\ s[m].index = LineNo(m)
    <3>1. ASSUME s \in Through PROVE m \in DOMAIN s /\ along(m) /\ s[m].index = LineNo(m)
      <4>1. m <= Len(s) /\ \A i \in 1 .. m : s[i] = Here(i)
        BY <1>0, <3>1 DEF Through
      <4>2. m \in 1 .. m /\ \A i \in 1 .. m - 1 : i \in 1 .. m
        BY <1>1
      <4>3. Here(m).index = LineNo(m)
        BY DEF Here, At
      <4> QED
        BY <1>1, <2>1, <4>1, <4>2, <4>3
    <3>2. ASSUME m \in DOMAIN s, along(m), s[m].index = LineNo(m) PROVE s \in Through
      <4>1. s[m] = At(stack[m].path, s[m].index)
        BY <1>1, <2>1, <3>2, SameFile
      <4>2. s[m] = Here(m)
        BY <4>1, <3>2 DEF Here
      <4>3. \A i \in 1 .. m : i = m \/ i \in 1 .. m - 1
        BY <1>1
      <4>4. m <= Len(s) /\ \A i \in 1 .. m : s[i] = Here(i)
        BY <1>1, <2>1, <3>2, <4>2, <4>3
      <4> QED
        BY <1>0, <4>4 DEF Through
    <3> QED
      BY <3>1, <3>2
  <2> HIDE DEF along
  <2>5. \A n \in DOMAIN s \cap 1 .. m :
          s[n].index < LineNo(n)' <=> s[n].index < LineNo(n) \/ (n = m /\ s[m].index = LineNo(m))
    <3> SUFFICES ASSUME NEW n \in DOMAIN s \cap 1 .. m
                 PROVE s[n].index < LineNo(n)' <=>
                         s[n].index < LineNo(n) \/ (n = m /\ s[m].index = LineNo(m))
      OBVIOUS
    <3>1. CASE n = m
      <4>1. s[m].index \in Nat /\ LineNo(m)' = LineNo(m) + 1 /\ LineNo(m) \in Nat
        BY <1>5, <2>1, <3>1
      <4>2. s[m].index < LineNo(m) + 1 <=> s[m].index < LineNo(m) \/ s[m].index = LineNo(m)
        BY <4>1
      <4>3. s[m].index < LineNo(m)' <=> s[m].index < LineNo(m) \/ s[m].index = LineNo(m)
        BY <4>1, <4>2
      <4>4. LineNo(n)' = LineNo(m)' /\ LineNo(n) = LineNo(m)
        BY <3>1 DEF LineNo
      <4> QED
        BY <3>1, <4>3, <4>4
    <3>2. CASE n # m
      <4>1. n \in 1 .. m - 1
        BY <1>1, <3>2
      <4> QED
        BY <1>4, <3>2, <4>1
    <3> QED
      BY <3>1, <3>2
  <2>6. m \in 1 .. m
    BY <1>1
  <2> QED
    BY <2>2, <2>3, <2>4, <2>5, <2>6
<1> QED
  BY <1>3, <1>6 DEF Done, Through

\* Only an include that is followed leads on to other places.
LEMMA NothingBeyond ==
  ASSUME IInv, CallsInv, HasLine,
         \A p \in Paths : CurrentLine = Include(p) =>
           p \in {stack[i].path : i \in DOMAIN stack} \/ tree[p] = Unreadable
  PROVE  Through = {Cursor}
<1> DEFINE m == Len(stack)
<1>1. /\ Cursor \in Places /\ Len(Cursor) = m /\ DOMAIN Cursor = 1 .. m
      /\ LineOf(Cursor) = CurrentLine
      /\ \A i \in 1 .. m : Cursor[i] = Here(i) /\ Here(i).path = stack[i].path
  BY CursorPlace
<1>2. m \in Nat \ {0} /\ DOMAIN stack = 1 .. m
  BY DEF HasLine, IInv, TypeOK
<1>3. Cursor \in Through
  BY <1>1, <1>2 DEF Through
<1>4. ASSUME NEW s \in Through PROVE s = Cursor
  <2>1. /\ s \in Places /\ m <= Len(s) /\ \A i \in 1 .. m : s[i] = Here(i)
    BY DEF Through
  <2>2. /\ Len(s) \in Nat /\ DOMAIN s = 1 .. Len(s) /\ Leads(s)
        /\ \A i \in 1 .. Len(s) : s[i].path \in Paths /\ tree[s[i].path] # Unreadable
    BY <2>1, PlaceFacts DEF IInv
  <2>3. ASSUME m < Len(s) PROVE FALSE
    <3>1. m \in 1 .. Len(s) - 1 /\ m + 1 \in 1 .. Len(s) /\ m \in 1 .. m
      BY <1>2, <2>2, <2>3
    <3>2. s[m].line = Include(s[m + 1].path) /\ s[m] = Here(m)
      BY <2>1, <2>2, <3>1 DEF Leads
    <3>3. Here(m).line = CurrentLine
      BY <1>1, <3>1 DEF LineOf
    <3>4. s[m + 1].path \in Paths /\ tree[s[m + 1].path] # Unreadable
      BY <2>2, <3>1
    <3>5. PICK i \in 1 .. m : stack[i].path = s[m + 1].path
      BY <1>2, <3>2, <3>3, <3>4
    <3>6. s[i].path = s[m + 1].path /\ i \in DOMAIN s /\ m + 1 \in DOMAIN s /\ i # m + 1
      BY <1>1, <1>2, <2>1, <2>2, <3>1, <3>5
    <3> QED
      BY <2>2, <3>6 DEF Leads
  <2>4. Len(s) = m
    <3>1. m \in Nat /\ Len(s) \in Nat /\ m <= Len(s)
      BY <1>2, <2>1, <2>2
    <3>2. ~ (m < Len(s))
      BY <2>3
    <3> HIDE DEF m
    <3> QED
      BY <3>1, <3>2
  <2>5. s = [i \in 1 .. m |-> s[i]]
    <3>1. PICK n \in Nat : s \in [1 .. n -> Standing]
      <4>1. \E n \in 1 .. Cardinality(Paths) : s \in [1 .. n -> Standing]
        BY <2>1 DEF Places
      <4>2. Cardinality(Paths) \in Nat
        BY RequirementsAssumption, FS_CardinalityType
      <4> QED
        BY <4>1, <4>2
    <3>2. n = m
      BY <2>4, <3>1
    <3> QED
      BY <3>1, <3>2
  <2>6. Cursor = [i \in 1 .. m |-> Here(i)]
    BY DEF Cursor
  <2> QED
    BY <2>1, <2>5, <2>6
<1> QED
  BY <1>3, <1>4

\* No line is a declaration and an include.
LEMMA KindsOfLines ==
  /\ \A p : /\ "include" \in DOMAIN Include(p) /\ "declare" \notin DOMAIN Include(p)
            /\ Include(p).include = p
  /\ \A d : /\ "declare" \in DOMAIN Declare(d) /\ "include" \notin DOMAIN Declare(d)
            /\ Declare(d).declare = d
  /\ "include" \notin DOMAIN Ignored /\ "declare" \notin DOMAIN Ignored
BY DEF Include, Declare, Ignored

\* Moving on to the next line.
LEMMA CallsAdvance ==
  ASSUME IInv, CallsInv, HasLine, stack' = Advanced, tree' = tree, result' = result
  PROVE  CallsInv'
<1> DEFINE m == Len(stack)
<1>1. /\ stack \in Seq(Frame) /\ m \in Nat \ {0} /\ DOMAIN stack = 1 .. m /\ stack # <<>>
  BY DEF IInv, TypeOK, HasLine
<1>2. stack[m] \in Frame /\ m \in 1 .. m
  BY <1>1
<1>3. stack' = [stack EXCEPT ![m] = [stack[m] EXCEPT !.next = stack[m].next + 1]]
  BY <1>1 DEF Advanced
<1>4. /\ [stack[m] EXCEPT !.next = stack[m].next + 1] \in Frame
      /\ [stack[m] EXCEPT !.next = stack[m].next + 1].lines = stack[m].lines
      /\ [stack[m] EXCEPT !.next = stack[m].next + 1].path = stack[m].path
  BY <1>2 DEF Frame
<1>5. Len(stack') = m /\ DOMAIN stack' = 1 .. m
  BY <1>1, <1>3, <1>4
<1>6. \A i \in 1 .. m : stack'[i].path = stack[i].path /\ stack'[i].lines = stack[i].lines
  <2> SUFFICES ASSUME NEW i \in 1 .. m
               PROVE stack'[i].path = stack[i].path /\ stack'[i].lines = stack[i].lines
    OBVIOUS
  <2>1. CASE i = m
    BY <1>1, <1>3, <1>4, <2>1
  <2>2. CASE i # m
    BY <1>1, <1>3, <2>2
  <2> QED
    BY <2>1, <2>2
<1>7. \A i \in 1 .. m - 1 : i \in 1 .. m /\ i + 1 \in 1 .. m /\ i # m
  <2>1. m \in Nat
    BY <1>1
  <2> HIDE DEF m
  <2> QED
    BY <2>1
<1>8. \A i \in 1 .. m - 1 : stack'[i].next = stack[i].next
  BY <1>1, <1>3, <1>7
<1>9. stack # <<>> /\ stack' # <<>> /\ 1 \in 1 .. m
  BY <1>1, <1>5
<1>10. stack'[1].path = Start
  BY <1>6, <1>9 DEF CallsInv
<1>11. \A i \in DOMAIN stack' : stack'[i].lines = tree[stack'[i].path]
  BY <1>1, <1>5, <1>6 DEF CallsInv
<1>12. \A i \in 1 .. Len(stack') - 1 :
         /\ stack'[i].next - 1 \in DOMAIN stack'[i].lines
         /\ stack'[i].lines[stack'[i].next - 1] = Include(stack'[i + 1].path)
  <2> SUFFICES ASSUME NEW i \in 1 .. m - 1
               PROVE /\ stack'[i].next - 1 \in DOMAIN stack'[i].lines
                     /\ stack'[i].lines[stack'[i].next - 1] = Include(stack'[i + 1].path)
    BY <1>5
  <2>1. /\ stack'[i].next = stack[i].next /\ stack'[i].lines = stack[i].lines
        /\ stack'[i + 1].path = stack[i + 1].path
    BY <1>6, <1>7, <1>8
  <2>2. /\ stack[i].next - 1 \in DOMAIN stack[i].lines
        /\ stack[i].lines[stack[i].next - 1] = Include(stack[i + 1].path)
    BY DEF CallsInv
  <2> QED
    BY <2>1, <2>2
<1>13. result' = NoResult
  BY <1>9 DEF CallsInv
<1> QED
  BY <1>9, <1>10, <1>11, <1>12, <1>13 DEF CallsInv, NoResult

\* What was read of a file that has not changed.
LEMMA SamePlaces ==
  ASSUME tree' = tree
  PROVE  Places' = Places /\ Declaring' = Declaring /\ Refused' = Refused
BY DEF Places, Leads, Standing, At, Declaring, Refused

LEMMA Nothing == /\ IsFiniteSet({}) /\ DeclaredAt({}) = <<>> /\ IncludedAt({}) = <<>>
<1>1. IsFiniteSet({}) /\ Cardinality({}) = 0
  BY FS_EmptySet
<1> QED
  BY <1>1 DEF DeclaredAt, IncludedAt

LEMMA InitExpansion == Init => ExpansionInv
<1> SUFFICES ASSUME Init PROVE ExpansionInv
  OBVIOUS
<1>1. IInv
  BY InitIInv
<1>2. /\ DOMAIN stack = {1} /\ Len(stack) = 1 /\ stack # <<>> /\ 1 .. Len(stack) - 1 = {}
      /\ stack[1].path = Start /\ stack[1].lines = tree[Start] /\ stack[1].next = 1
  BY DEF Init, Call
<1>3. CallsInv
  BY <1>2 DEF CallsInv, Init
<1>4. LineNo(1) = 1
  BY <1>2 DEF LineNo
<1>5. ASSUME NEW s \in Places PROVE ~ Passed(s)
  <2>1. DOMAIN s = 1 .. Len(s) /\ \A i \in 1 .. Len(s) : s[i].index \in Nat \ {0}
    BY <1>1, PlaceFacts DEF IInv
  <2> SUFFICES ASSUME Passed(s) PROVE FALSE
    OBVIOUS
  <2>2. 1 \in DOMAIN s /\ s[1].index < LineNo(1)
    BY <1>2 DEF Passed
  <2> QED
    BY <1>4, <2>1, <2>2
<1>6. Declaring \cap Done = {} /\ Refused \cap Done = {}
  BY <1>5 DEF Done, Declaring, Refused
<1>7. dependencies = <<>> /\ diagnostics = <<>>
  BY DEF Init
<1> QED
  BY <1>3, <1>6, <1>7, Nothing DEF ExpansionInv, FoundInv

\* A line that leads nowhere is one more place: what has been found of a kind is
\* what there was, or with this place.
LEMMA OneLine ==
  ASSUME IInv, CallsInv, HasLine, stack' = Advanced, tree' = tree,
         \A p \in Paths : CurrentLine = Include(p) =>
           p \in {stack[i].path : i \in DOMAIN stack} \/ tree[p] = Unreadable
  PROVE  /\ Done' = Done \cup {Cursor}
         /\ Cursor \in Places /\ Cursor \notin Done /\ ~ Before(Cursor, Cursor)
         /\ \A s \in Done : Before(s, Cursor) /\ ~ Before(Cursor, s) /\ ~ Before(s, s)
         /\ LineOf(Cursor) = CurrentLine
<1>1. Through = {Cursor}
  BY NothingBeyond
<1>2. Done' = Done \cup Through
  BY LinePassed
<1> QED
  BY <1>1, <1>2, BehindCursor, CursorPlace

LEMMA IgnoreExpansion ==
  ASSUME IInv, CallsInv, FoundInv, IgnoreLine
  PROVE  CallsInv' /\ FoundInv'
<1>1. HasLine /\ CurrentLine = Ignored /\ stack' = Advanced /\ tree' = tree /\ result' = result
  BY DEF IgnoreLine
<1>2. \A p \in Paths : CurrentLine # Include(p)
  BY <1>1, KindsOfLines
<1>3. CallsInv'
  BY <1>1, CallsAdvance
<1>4. Done' = Done \cup {Cursor} /\ LineOf(Cursor) = Ignored
  BY <1>1, <1>2, OneLine
<1>5. Cursor \notin Declaring /\ Cursor \notin Refused
  BY <1>4, KindsOfLines DEF Declaring, Refused
<1>6. (Declaring \cap Done)' = Declaring \cap Done /\ (Refused \cap Done)' = Refused \cap Done
  BY <1>1, <1>4, <1>5, SamePlaces
<1>7. FoundInv'
  BY <1>6 DEF FoundInv, IgnoreLine
<1> QED
  BY <1>3, <1>7

LEMMA KeepExpansion ==
  ASSUME IInv, CallsInv, FoundInv, KeepLine
  PROVE  CallsInv' /\ FoundInv'
<1>1. PICK d \in Declarations : CurrentLine = Declare(d) /\ dependencies' = Append(dependencies, d)
  BY DEF KeepLine
<1>2. /\ HasLine /\ stack' = Advanced /\ tree' = tree /\ result' = result
      /\ diagnostics' = diagnostics
  BY DEF KeepLine
<1>3. \A p \in Paths : CurrentLine # Include(p)
  BY <1>1, KindsOfLines
<1>4. CallsInv'
  BY <1>2, CallsAdvance
<1>5. /\ Done' = Done \cup {Cursor} /\ Cursor \in Places /\ Cursor \notin Done
      /\ ~ Before(Cursor, Cursor)
      /\ \A s \in Done : Before(s, Cursor) /\ ~ Before(Cursor, s) /\ ~ Before(s, s)
      /\ LineOf(Cursor) = Declare(d)
  BY <1>1, <1>2, <1>3, OneLine
<1>6. Cursor \in Declaring /\ Cursor \notin Refused /\ LineOf(Cursor).declare = d
  BY <1>5, KindsOfLines DEF Declaring, Refused
<1>7. /\ (Declaring \cap Done)' = Declaring \cap (Done \cup {Cursor})
      /\ (Refused \cap Done)' = Refused \cap Done
  BY <1>2, <1>5, <1>6, SamePlaces
<1>8. IsFiniteSet(Declaring \cap Done)
  BY DEF FoundInv
<1>9. /\ IsFiniteSet(Declaring \cap (Done \cup {Cursor}))
      /\ DeclaredAt(Declaring \cap (Done \cup {Cursor})) = Append(DeclaredAt(Declaring \cap Done), d)
  <2>0. PICK found, c : found = Declaring \cap Done /\ c = Cursor
    OBVIOUS
  <2>1. /\ IsFiniteSet(found) /\ c \notin found /\ ~ Before(c, c)
        /\ \A s \in found : Before(s, c) /\ ~ Before(c, s) /\ ~ Before(s, s)
    BY <1>5, <1>8, <2>0
  <2>2. IsFiniteSet(found \cup {c})
    BY <2>1, FS_AddElement
  <2>3. DeclaredAt(found \cup {c}) = Append(DeclaredAt(found), LineOf(c).declare)
    BY <2>1, OneMoreDeclared
  <2>4. Declaring \cap (Done \cup {Cursor}) = found \cup {c} /\ LineOf(c).declare = d
    BY <1>6, <2>0
  <2> QED
    BY <2>0, <2>2, <2>3, <2>4
<1>10. FoundInv'
  BY <1>1, <1>2, <1>7, <1>9 DEF FoundInv
<1> QED
  BY <1>4, <1>10

LEMMA RefuseExpansion ==
  ASSUME IInv, CallsInv, FoundInv, RefuseInclude
  PROVE  CallsInv' /\ FoundInv'
<1>1. PICK p \in Paths : /\ CurrentLine = Include(p)
                         /\ p \in active \/ tree[p] = Unreadable
                         /\ diagnostics' = Append(diagnostics, p)
  BY DEF RefuseInclude, IsCycle, Diagnosed
<1>2. /\ HasLine /\ stack' = Advanced /\ tree' = tree /\ result' = result
      /\ dependencies' = dependencies
  BY DEF RefuseInclude
<1>3. \A q \in Paths : CurrentLine = Include(q) =>
         q \in {stack[i].path : i \in DOMAIN stack} \/ tree[q] = Unreadable
  <2>1. \A q \in Paths : CurrentLine = Include(q) => q = p
    BY <1>1 DEF Include
  <2> QED
    BY <1>1, <2>1 DEF IInv, ActiveIsStack
<1>4. CallsInv'
  BY <1>2, CallsAdvance
<1>5. /\ Done' = Done \cup {Cursor} /\ Cursor \in Places /\ Cursor \notin Done
      /\ ~ Before(Cursor, Cursor)
      /\ \A s \in Done : Before(s, Cursor) /\ ~ Before(Cursor, s) /\ ~ Before(s, s)
      /\ LineOf(Cursor) = Include(p)
  BY <1>1, <1>2, <1>3, OneLine
<1>6. Cursor \notin Declaring /\ Cursor \in Refused /\ LineOf(Cursor).include = p
  <2>1. LineOf(Cursor).include = p /\ Cursor \notin Declaring /\ "include" \in DOMAIN LineOf(Cursor)
    BY <1>5, KindsOfLines DEF Declaring
  <2>2. (\E i \in DOMAIN Cursor : Cursor[i].path = p) \/ tree[p] = Unreadable
    <3>1. CASE p \in active
      <4>1. PICK i \in DOMAIN stack : stack[i].path = p
        BY <3>1 DEF IInv, ActiveIsStack
      <4>2. DOMAIN stack = 1 .. Len(stack)
        BY DEF IInv, TypeOK
      <4> QED
        BY <1>2, <4>1, <4>2, CursorPlace
    <3> QED
      BY <1>1, <3>1
  <2> QED
    BY <1>5, <2>1, <2>2 DEF Refused
<1>7. /\ (Refused \cap Done)' = Refused \cap (Done \cup {Cursor})
      /\ (Declaring \cap Done)' = Declaring \cap Done
  BY <1>2, <1>5, <1>6, SamePlaces
<1>8. IsFiniteSet(Refused \cap Done)
  BY DEF FoundInv
<1>9. /\ IsFiniteSet(Refused \cap (Done \cup {Cursor}))
      /\ IncludedAt(Refused \cap (Done \cup {Cursor})) = Append(IncludedAt(Refused \cap Done), p)
  <2>0. PICK found, c : found = Refused \cap Done /\ c = Cursor
    OBVIOUS
  <2>1. /\ IsFiniteSet(found) /\ c \notin found /\ ~ Before(c, c)
        /\ \A s \in found : Before(s, c) /\ ~ Before(c, s) /\ ~ Before(s, s)
    BY <1>5, <1>8, <2>0
  <2>2. IsFiniteSet(found \cup {c})
    BY <2>1, FS_AddElement
  <2>3. IncludedAt(found \cup {c}) = Append(IncludedAt(found), LineOf(c).include)
    BY <2>1, OneMoreDeclared
  <2>4. Refused \cap (Done \cup {Cursor}) = found \cup {c} /\ LineOf(c).include = p
    BY <1>6, <2>0
  <2> QED
    BY <2>0, <2>2, <2>3, <2>4
<1>10. FoundInv'
  BY <1>1, <1>2, <1>7, <1>9 DEF FoundInv
<1> QED
  BY <1>4, <1>10

\* What is found stays as long as the same places are passed.
LEMMA SameFound ==
  ASSUME FoundInv, tree' = tree, UNCHANGED <<dependencies, diagnostics>>,
         \A s \in Declaring \cup Refused : Passed(s)' <=> Passed(s)
  PROVE  FoundInv'
<1>1. Places' = Places /\ Declaring' = Declaring /\ Refused' = Refused
  BY SamePlaces
<1>2. Declaring \subseteq Places /\ Refused \subseteq Places
  BY DEF Declaring, Refused
<1>3. (Declaring \cap Done)' = Declaring \cap Done /\ (Refused \cap Done)' = Refused \cap Done
  BY <1>1, <1>2 DEF Done
<1> QED
  BY <1>3 DEF FoundInv

LEMMA FollowExpansion ==
  ASSUME IInv, CallsInv, FoundInv, FollowInclude
  PROVE  CallsInv' /\ FoundInv'
<1>0. PICK m : m = Len(stack)
  OBVIOUS
<1>1. PICK p \in Paths : /\ CurrentLine = Include(p) /\ tree[p] # Unreadable
                         /\ stack' = Append(Advanced, Call(p, tree[p]))
  BY DEF FollowInclude
<1>2. /\ HasLine /\ tree' = tree /\ result' = result /\ UNCHANGED <<dependencies, diagnostics>>
  BY DEF FollowInclude
<1>3. /\ stack \in Seq(Frame) /\ m \in Nat /\ DOMAIN stack = 1 .. m /\ stack # <<>>
      /\ Top = stack[m] /\ stack[m].next <= Len(stack[m].lines)
      /\ CurrentLine = stack[m].lines[stack[m].next]
  BY <1>0, <1>2 DEF IInv, TypeOK, HasLine, Top, CurrentLine
<1>4. m # 0 /\ m \in 1 .. m
  BY <1>0, <1>3
<1>5. /\ stack[m] \in Frame /\ stack[m].next \in Nat \ {0} /\ stack[m].lines \in Seq(Line)
  <2>1. stack[m] \in Frame
    BY <1>3, <1>4
  <2> QED
    BY <2>1 DEF Frame, Content
<1>6. /\ Call(p, tree[p]) \in Frame /\ Call(p, tree[p]).path = p
      /\ Call(p, tree[p]).lines = tree[p] /\ Call(p, tree[p]).next = 1
  BY <1>1 DEF IInv, TypeOK, Call, Frame
<1>7. /\ Advanced = [stack EXCEPT ![m] = [stack[m] EXCEPT !.next = stack[m].next + 1]]
      /\ [stack[m] EXCEPT !.next = stack[m].next + 1] \in Frame
      /\ [stack[m] EXCEPT !.next = stack[m].next + 1].lines = stack[m].lines
      /\ [stack[m] EXCEPT !.next = stack[m].next + 1].path = stack[m].path
      /\ [stack[m] EXCEPT !.next = stack[m].next + 1].next = stack[m].next + 1
  BY <1>0, <1>3, <1>5 DEF Advanced, Frame
<1>8. /\ Advanced \in Seq(Frame) /\ Len(Advanced) = m
      /\ \A i \in 1 .. m : /\ Advanced[i].path = stack[i].path
                           /\ Advanced[i].lines = stack[i].lines
                           /\ Advanced[i].next = IF i = m THEN stack[m].next + 1 ELSE stack[i].next
  <2>1. Advanced \in Seq(Frame) /\ Len(Advanced) = m
    BY <1>0, <1>3, <1>7
  <2>2. Advanced[m] = [stack[m] EXCEPT !.next = stack[m].next + 1]
    BY <1>3, <1>4, <1>7
  <2>3. \A i \in 1 .. m : i # m => Advanced[i] = stack[i]
    BY <1>3, <1>7
  <2> QED
    BY <1>7, <2>1, <2>2, <2>3
<1>9. /\ Len(stack') = m + 1 /\ DOMAIN stack' = 1 .. m + 1 /\ stack' # <<>>
      /\ stack'[m + 1] = Call(p, tree[p])
      /\ \A i \in 1 .. m : stack'[i] = Advanced[i]
  BY <1>1, <1>3, <1>6, <1>8
<1>10. /\ \A i \in 1 .. m : /\ stack'[i].path = stack[i].path /\ stack'[i].lines = stack[i].lines
                            /\ stack'[i].next - 1 = LineNo(i)
       /\ stack'[m + 1].path = p /\ stack'[m + 1].lines = tree[p] /\ stack'[m + 1].next = 1
  <2>1. \A i \in 1 .. m : stack'[i].path = stack[i].path /\ stack'[i].lines = stack[i].lines
    BY <1>8, <1>9
  <2>2. \A i \in 1 .. m : stack'[i].next - 1 = LineNo(i)
    <3> SUFFICES ASSUME NEW i \in 1 .. m PROVE stack'[i].next - 1 = LineNo(i)
      OBVIOUS
    <3>1. CASE i = m
      <4>1. stack'[i].next = stack[m].next + 1
        BY <1>4, <1>8, <1>9, <3>1
      <4>2. LineNo(i) = stack[m].next
        BY <1>0, <3>1 DEF LineNo
      <4> QED
        BY <1>5, <4>1, <4>2
    <3>2. CASE i # m
      <4>1. stack'[i].next = stack[i].next
        BY <1>8, <1>9, <3>2
      <4> QED
        BY <1>0, <3>2, <4>1 DEF LineNo
    <3> QED
      BY <3>1, <3>2
  <2> QED
    BY <1>6, <1>9, <2>1, <2>2
<1>11. CallsInv'
  <2>1. stack'[1].path = Start
    BY <1>3, <1>4, <1>10 DEF CallsInv
  <2>2. \A i \in 1 .. m + 1 : stack'[i].lines = tree[stack'[i].path]
    <3>1. \A i \in 1 .. m : stack'[i].lines = tree[stack'[i].path]
      BY <1>3, <1>10 DEF CallsInv
    <3>2. \A i \in 1 .. m + 1 : i \in 1 .. m \/ i = m + 1
      BY <1>3
    <3> QED
      BY <1>10, <3>1, <3>2
  <2>3. ASSUME NEW i \in 1 .. m
        PROVE  /\ stack'[i].next - 1 \in DOMAIN stack'[i].lines
               /\ stack'[i].lines[stack'[i].next - 1] = Include(stack'[i + 1].path)
    <3>1. CASE i = m
      <4>1. stack'[i].next - 1 = stack[m].next
        BY <1>0, <1>10, <3>1 DEF LineNo
      <4>2. stack[m].next \in DOMAIN stack[m].lines
        BY <1>3, <1>5
      <4> QED
        BY <1>1, <1>3, <1>10, <3>1, <4>1, <4>2
    <3>2. CASE i # m
      <4>1. i \in 1 .. m - 1 /\ i + 1 \in 1 .. m
        BY <1>3, <3>2
      <4>2. stack'[i].next - 1 = stack[i].next - 1
        BY <1>0, <1>10, <3>2 DEF LineNo
      <4> QED
        BY <1>0, <1>10, <4>1, <4>2 DEF CallsInv
    <3> QED
      BY <3>1, <3>2
  <2>4. Len(stack') - 1 = m
    BY <1>3, <1>9
  <2>5. result = NoResult
    BY <1>3 DEF CallsInv
  <2> QED
    BY <1>2, <1>9, <2>1, <2>2, <2>3, <2>4, <2>5 DEF CallsInv, NoResult
<1>12. ASSUME NEW s \in Places PROVE Passed(s)' <=> Passed(s)
  <2>1. DOMAIN s = 1 .. Len(s) /\ \A i \in 1 .. Len(s) : s[i].index \in Nat \ {0}
    BY PlaceFacts DEF IInv
  <2>2. \A i \in 1 .. m : LineNo(i)' = LineNo(i) /\ Here(i)' = Here(i)
    <3> SUFFICES ASSUME NEW i \in 1 .. m PROVE LineNo(i)' = LineNo(i) /\ Here(i)' = Here(i)
      OBVIOUS
    <3>1. i # m + 1
      BY <1>3
    <3>2. LineNo(i)' = LineNo(i)
      BY <1>9, <1>10, <3>1 DEF LineNo
    <3> QED
      BY <1>2, <1>10, <3>2 DEF Here, At
  <2>3. LineNo(m + 1)' = 1
    BY <1>9, <1>10 DEF LineNo
  <2> DEFINE along(n) == \A i \in 1 .. n - 1 : s[i] = Here(i)
  <2>4. Passed(s) <=> \E n \in DOMAIN s \cap 1 .. m : along(n) /\ s[n].index < LineNo(n)
    BY <1>3 DEF Passed
  <2>5. Passed(s)' <=> \E n \in DOMAIN s \cap 1 .. m + 1 : along(n) /\ s[n].index < LineNo(n)'
    <3>1. \A n \in 1 .. m + 1 : \A i \in 1 .. n - 1 : i \in 1 .. m
      BY <1>3
    <3> QED
      BY <1>9, <2>2, <3>1 DEF Passed
  <2> HIDE DEF along
  <2>6. \A n \in DOMAIN s \cap 1 .. m + 1 : s[n].index < LineNo(n)' => n \in 1 .. m
    <3> SUFFICES ASSUME NEW n \in DOMAIN s \cap 1 .. m + 1, s[n].index < LineNo(n)', n \notin 1 .. m
                 PROVE FALSE
      OBVIOUS
    <3>1. n = m + 1
      BY <1>3
    <3>2. LineNo(n)' = 1
      BY <1>9, <1>10, <3>1 DEF LineNo
    <3> QED
      BY <2>1, <3>2
  <2>7. \A n \in 1 .. m : n \in 1 .. m + 1
    BY <1>3
  <2> QED
    BY <2>2, <2>4, <2>5, <2>6, <2>7
<1>13. FoundInv'
  <2>1. Declaring \cup Refused \subseteq Places
    BY DEF Declaring, Refused
  <2> QED
    BY <1>2, <1>12, <2>1, SameFound
<1> QED
  BY <1>11, <1>13

LEMMA ReturnExpansion ==
  ASSUME IInv, CallsInv, FoundInv, Return
  PROVE  CallsInv' /\ FoundInv'
<1>0. PICK m : m = Len(stack)
  OBVIOUS
<1>1. /\ stack # <<>> /\ ~ HasLine /\ stack' = SubSeq(stack, 1, m - 1)
      /\ tree' = tree /\ result' = result /\ UNCHANGED <<dependencies, diagnostics>>
  BY <1>0 DEF Return
<1>2. /\ stack \in Seq(Frame) /\ m \in Nat /\ DOMAIN stack = 1 .. m
  BY <1>0 DEF IInv, TypeOK
<1>3. m # 0 /\ m \in 1 .. m
  BY <1>0, <1>1, <1>2
<1>4. \A i \in 1 .. m : /\ stack[i] \in Frame /\ stack[i].next \in Nat \ {0}
                        /\ stack[i].lines \in Seq(Line) /\ stack[i].path \in Paths
  <2>1. \A i \in 1 .. m : stack[i] \in Frame
    BY <1>2
  <2> QED
    BY <2>1 DEF Frame, Content
<1>5. Len(stack[m].lines) < stack[m].next
  <2>1. ~ (stack[m].next <= Len(stack[m].lines))
    BY <1>0, <1>1 DEF HasLine, Top
  <2>2. Len(stack[m].lines) \in Nat /\ stack[m].next \in Nat
    BY <1>3, <1>4
  <2> QED
    BY <2>1, <2>2
<1>6. /\ Len(stack') = m - 1 /\ DOMAIN stack' = 1 .. m - 1
      /\ \A i \in 1 .. m - 1 : stack'[i] = stack[i]
  BY <1>1, <1>2, <1>3
<1>7. \A i \in 1 .. m - 1 : i \in 1 .. m /\ i # m /\ i + 1 \in 1 .. m
  BY <1>2
<1>8. CallsInv'
  <2>1. stack' # <<>> => stack'[1].path = Start
    <3>1. stack' # <<>> => 1 \in 1 .. m - 1
      BY <1>2, <1>3, <1>6
    <3> QED
      BY <1>1, <1>6, <3>1 DEF CallsInv
  <2>2. \A i \in DOMAIN stack' : stack'[i].lines = tree[stack'[i].path]
    BY <1>2, <1>6, <1>7 DEF CallsInv
  <2>3. ASSUME NEW i \in 1 .. Len(stack') - 1
        PROVE  /\ stack'[i].next - 1 \in DOMAIN stack'[i].lines
               /\ stack'[i].lines[stack'[i].next - 1] = Include(stack'[i + 1].path)
    <3>1. i \in 1 .. m - 1 /\ i + 1 \in 1 .. m - 1
      BY <1>2, <1>6
    <3>2. stack'[i] = stack[i] /\ stack'[i + 1] = stack[i + 1]
      BY <1>6, <3>1
    <3> QED
      BY <1>0, <3>1, <3>2 DEF CallsInv
  <2>4. result' = NoResult
    BY <1>1 DEF CallsInv
  <2> QED
    BY <1>1, <2>1, <2>2, <2>3, <2>4 DEF CallsInv, NoResult
<1>9. ASSUME NEW s \in Places, s \in Declaring \cup Refused
      PROVE  Passed(s)' <=> Passed(s)
  <2>1. /\ Len(s) \in Nat \ {0} /\ DOMAIN s = 1 .. Len(s)
        /\ \A i \in 1 .. Len(s) : s[i].index \in Nat
    BY PlaceFacts DEF IInv
  <2> DEFINE along(n) == \A i \in 1 .. n - 1 : s[i] = Here(i)
  <2>2. Passed(s) <=> \E n \in DOMAIN s \cap 1 .. m : along(n) /\ s[n].index < LineNo(n)
    BY <1>1, <1>2 DEF Passed
  <2>3. LineNo(m) = stack[m].next
    BY <1>0 DEF LineNo
  \* The lines of the last file are all behind.
  <2>4. ASSUME m \in DOMAIN s, along(m) PROVE s[m].index < LineNo(m)
    <3>1. s[m].index \in Nat \ {0} /\ s[m].index \in DOMAIN stack[m].lines
      BY <1>2, <1>3, <2>1, <2>4, SameFile
    <3>2. stack[m].lines \in Seq(Line) /\ stack[m].next \in Nat
      BY <1>3, <1>4
    <3> QED
      BY <1>5, <2>3, <3>1, <3>2
  <2>5. CASE m = 1
    <3>1. stack' = <<>>
      BY <1>6, <2>5, <1>1, <1>2
    <3>2. Passed(s)'
      BY <3>1 DEF Passed
    <3>3. 1 \in DOMAIN s /\ 1 \in 1 .. m /\ along(1)
      BY <2>1, <2>5
    <3> HIDE DEF along
    <3>4. Passed(s)
      BY <2>2, <2>4, <2>5, <3>3
    <3> QED
      BY <3>2, <3>4
  <2>6. CASE m > 1
    <3>0. PICK l : l = m - 1
      OBVIOUS
    <3>1. l \in Nat \ {0} /\ m = l + 1 /\ l \in 1 .. m - 1 /\ l \in 1 .. m /\ l # m
      BY <1>2, <2>6, <3>0
    <3>2. stack' # <<>> /\ DOMAIN stack' = 1 .. l /\ Len(stack') = l
      BY <1>6, <3>0, <3>1
    <3>3. \A i \in 1 .. l - 1 : i \in 1 .. m - 1 /\ i # l /\ i # m
      BY <3>1
    <3>4. \A i \in 1 .. l - 1 : LineNo(i)' = LineNo(i) /\ Here(i)' = Here(i)
      <4> SUFFICES ASSUME NEW i \in 1 .. l - 1 PROVE LineNo(i)' = LineNo(i) /\ Here(i)' = Here(i)
        OBVIOUS
      <4>1. stack'[i] = stack[i] /\ i # l /\ i # m
        BY <1>6, <3>3
      <4>2. LineNo(i)' = LineNo(i)
        BY <1>0, <3>2, <4>1 DEF LineNo
      <4> QED
        BY <1>1, <4>1, <4>2 DEF Here, At
    <3>5. LineNo(l)' = stack[l].next /\ LineNo(l) = stack[l].next - 1 /\ stack[l].next \in Nat
      BY <1>0, <1>4, <1>6, <3>1, <3>2 DEF LineNo
    <3>6. Passed(s)' <=> \E n \in DOMAIN s \cap 1 .. l : along(n) /\ s[n].index < LineNo(n)'
      <4>1. \A n \in 1 .. l : \A i \in 1 .. n - 1 : i \in 1 .. l - 1
        BY <3>1
      <4> QED
        BY <3>2, <3>4, <4>1 DEF Passed
    <3>7. ASSUME Passed(s) PROVE Passed(s)'
      <4>1. PICK n \in DOMAIN s \cap 1 .. m : along(n) /\ s[n].index < LineNo(n)
        BY <2>2, <3>7
      <4>2. CASE n \in 1 .. l - 1
        <5>1. n \in 1 .. l /\ LineNo(n)' = LineNo(n)
          BY <3>1, <3>4, <4>2
        <5> QED
          BY <3>6, <4>1, <5>1
      <4>3. CASE n = l
        <5>1. s[l].index < stack[l].next
          BY <2>1, <3>5, <4>1, <4>3
        <5>2. s[l].index < LineNo(l)'
          BY <3>5, <5>1
        <5>3. l \in DOMAIN s \cap 1 .. l /\ along(l)
          BY <3>1, <4>1, <4>3
        <5> QED
          BY <3>6, <5>2, <5>3
      <4>4. CASE n = m
        <5>1. along(m) /\ m \in DOMAIN s
          BY <4>1, <4>4
        <5>2. s[l] = Here(l) /\ l \in DOMAIN s /\ along(l)
          BY <2>1, <3>1, <5>1
        <5>3. s[l].index = LineNo(l)
          BY <5>2 DEF Here, At
        <5>4. s[l].index < LineNo(l)'
          BY <3>5, <5>3
        <5>5. l \in DOMAIN s \cap 1 .. l
          BY <3>1, <5>2
        <5> QED
          BY <3>6, <5>2, <5>4, <5>5
      <4> QED
        BY <3>1, <4>1, <4>2, <4>3, <4>4
    <3>8. ASSUME Passed(s)' PROVE Passed(s)
      <4>1. PICK n \in DOMAIN s \cap 1 .. l : along(n) /\ s[n].index < LineNo(n)'
        BY <3>6, <3>8
      <4>2. CASE n # l
        <5>1. n \in 1 .. l - 1 /\ n \in 1 .. m
          BY <3>1, <4>1, <4>2
        <5>2. s[n].index < LineNo(n)
          BY <3>4, <4>1, <5>1
        <5> QED
          BY <2>2, <4>1, <5>1, <5>2
      <4>3. CASE n = l
        <5>1. l \in DOMAIN s /\ along(l)
          BY <4>1, <4>3
        <5>2. s[l].index < stack[l].next
          <6>1. LineNo(n)' = stack[l].next
            BY <1>6, <3>1, <3>2, <4>3 DEF LineNo
          <6> QED
            BY <4>1, <4>3, <6>1
        <5>3. CASE s[l].index < LineNo(l)
          BY <2>2, <3>1, <5>1, <5>3
        <5>4. CASE s[l].index = LineNo(l)
          <6>1. s[l] = Here(l)
            <7>1. s[l] = At(stack[l].path, s[l].index)
              BY <1>2, <2>1, <3>1, <5>1, SameFile
            <7> QED
              BY <7>1, <5>4 DEF Here
          <6>2. along(m)
            <7>1. \A i \in 1 .. m - 1 : i = l \/ i \in 1 .. l - 1
              BY <3>1
            <7> QED
              BY <5>1, <6>1, <7>1
          <6>3. CASE m \in DOMAIN s
            <7>1. s[m].index < LineNo(m)
              BY <2>4, <6>2, <6>3
            <7> QED
              BY <1>3, <2>2, <6>2, <6>3, <7>1
          <6>4. CASE m \notin DOMAIN s
            <7>1. Len(s) = l
              <8>1. l \in 1 .. Len(s) /\ l + 1 \notin 1 .. Len(s) /\ Len(s) \in Nat /\ l \in Nat
                BY <2>1, <3>1, <5>1, <6>4
              <8> HIDE DEF along
              <8> QED
                BY <8>1
            <7>2. Here(l).line = Include(stack[m].path)
              <8>1. l \in 1 .. Len(stack) - 1 /\ l \in DOMAIN stack
                BY <1>0, <1>2, <3>1
              <8>2. stack[l].lines[stack[l].next - 1] = Include(stack[l + 1].path)
                    /\ stack[l].lines = tree[stack[l].path]
                BY <8>1 DEF CallsInv
              <8> QED
                BY <3>1, <3>5, <8>2 DEF Here, At
            <7>3. LineOf(s) = Include(stack[m].path)
              BY <6>1, <7>1, <7>2 DEF LineOf
            <7>4. "declare" \notin DOMAIN LineOf(s) /\ LineOf(s).include = stack[m].path
              BY <7>3, KindsOfLines
            <7>5. s \in Refused
              BY <1>9, <7>4 DEF Declaring
            <7>6. tree[stack[m].path] # Unreadable
              BY <1>2, <1>3, <1>4, RequirementsAssumption DEF CallsInv, Content
            <7>7. PICK i \in DOMAIN s : s[i].path = stack[m].path
              BY <7>4, <7>5, <7>6 DEF Refused
            <7>8. i \in 1 .. m - 1 /\ i \in 1 .. m /\ i # m
              BY <1>7, <2>1, <3>1, <7>1
            <7>9. stack[i].path = stack[m].path
              <8>1. s[i] = Here(i)
                BY <6>2, <7>8
              <8> QED
                BY <7>7, <8>1 DEF Here, At
            <7> QED
              BY <1>2, <1>3, <7>8, <7>9 DEF IInv, DistinctPaths
          <6> QED
            BY <6>3, <6>4
        <5>5. s[l].index \in Nat /\ LineNo(l) = stack[l].next - 1 /\ stack[l].next \in Nat
          BY <2>1, <3>5, <5>1
        <5> QED
          BY <5>2, <5>3, <5>4, <5>5
      <4> QED
        BY <4>2, <4>3
    <3> QED
      BY <3>7, <3>8
  <2> QED
    BY <1>2, <1>3, <2>5, <2>6
<1>10. FoundInv'
  <2>1. Declaring \cup Refused \subseteq Places
    BY DEF Declaring, Refused
  <2> QED
    BY <1>1, <1>9, <2>1, SameFound
<1> QED
  BY <1>8, <1>10

LEMMA FinishExpansion ==
  ASSUME IInv, CallsInv, FoundInv, Finish
  PROVE  CallsInv' /\ FoundInv'
<1>1. stack = <<>> /\ UNCHANGED <<tree, stack, dependencies, diagnostics>>
  BY DEF Finish
<1>2. CallsInv'
  BY <1>1 DEF CallsInv
<1>3. \A s : Passed(s)' <=> Passed(s)
  BY <1>1 DEF Passed
<1>4. FoundInv'
  BY <1>1, <1>3, SameFound
<1> QED
  BY <1>2, <1>4

LEMMA NextExpansion == IInv /\ ExpansionInv /\ [Next]_vars => ExpansionInv'
<1> SUFFICES ASSUME IInv, ExpansionInv, [Next]_vars, edits' = 0 PROVE CallsInv' /\ FoundInv'
  BY DEF ExpansionInv
<1>1. CASE UNCHANGED vars
  <2>1. edits = 0 /\ UNCHANGED <<tree, stack, dependencies, diagnostics, result>>
    BY <1>1 DEF vars
  <2>2. CallsInv /\ FoundInv
    BY <2>1 DEF ExpansionInv
  <2>3. CallsInv'
    BY <2>1, <2>2 DEF CallsInv
  <2>4. \A s : Passed(s)' <=> Passed(s)
    BY <2>1 DEF Passed, Here, At, LineNo
  <2> QED
    BY <2>1, <2>2, <2>3, <2>4, SameFound
<1>2. CASE Edit
  BY <1>2 DEF Edit, IInv, TypeOK
<1>3. CASE Analyze
  <2>1. edits = 0
    BY <1>3 DEF Analyze, IgnoreLine, KeepLine, RefuseInclude, FollowInclude, Return, Finish
  <2>2. CallsInv /\ FoundInv
    BY <2>1 DEF ExpansionInv
  <2> QED
    BY <1>3, <2>2, IgnoreExpansion, KeepExpansion, RefuseExpansion, FollowExpansion,
       ReturnExpansion, FinishExpansion DEF Analyze
<1> QED
  BY <1>1, <1>2, <1>3 DEF Next

\* Whatever files there are and however they include each other: if nobody
\* changes them, the analysis returns the declarations and the refused includes
\* of the files with each include replaced by what it includes, in order.
THEOREM Expansion == Spec => []ResultIsExpansion
<1>1. IInv /\ ExpansionInv => ResultIsExpansion
  <2> SUFFICES ASSUME IInv, ExpansionInv, Undisturbed
               PROVE  dependencies = DeclaredAt(Declaring) /\ diagnostics = IncludedAt(Refused)
    BY DEF ResultIsExpansion
  <2>1. CallsInv /\ FoundInv /\ stack = <<>>
    BY DEF ExpansionInv, Undisturbed, CallsInv
  <2>2. Declaring \cap Done = Declaring /\ Refused \cap Done = Refused
    BY <2>1 DEF Done, Passed, Declaring, Refused
  <2> QED
    BY <2>1, <2>2 DEF FoundInv
<1>2. Spec => []ExpansionInv
  BY Invariance, InitExpansion, NextExpansion, PTL DEF Spec
<1> QED
  BY <1>1, <1>2, Invariance, PTL
=============================================================================
