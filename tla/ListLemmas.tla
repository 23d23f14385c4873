----------------------------- MODULE ListLemmas -----------------------------
(***************************************************************************)
(* Lemmas about the operators of AnalyzerResults on lists: which positions *)
(* Ascending lists, what FlattenSeq puts where, and what is left of pairs. *)
(***************************************************************************)
EXTENDS AnalyzerResults, SequenceTheorems, WellFoundedInduction, TLAPS

-----------------------------------------------------------------------------
(* Positions of a sequence, and lists that are put together.               *)

\* Induction on numbers goes by the least member of the set of exceptions.
LEMMA Smallest ==
  ASSUME NEW S \in SUBSET Nat, S # {}
  PROVE  \E i \in S : \A j \in S : i <= j
<1>1. PICK i \in S : \A j \in S : ~ (<<j, i>> \in OpToRel(<, Nat))
  BY NatLessThanWellFounded, WFMin
<1>2. \A j \in S : ~ (j < i)
  BY <1>1 DEF OpToRel
<1> QED
  BY <1>2

\* Numbers up to a bound have a greatest.
LEMMA Largest ==
  ASSUME NEW S \in SUBSET Nat, S # {}, NEW bound \in Nat, \A i \in S : i <= bound
  PROVE  \E i \in S : \A j \in S : j <= i
<1> DEFINE T == {bound - i : i \in S}
<1>1. T \in SUBSET Nat /\ T # {}
  <2>1. \A i \in S : bound - i \in Nat
    OBVIOUS
  <2> QED
    BY <2>1
<1>2. PICK k \in T : \A l \in T : k <= l
  BY <1>1, Smallest
<1>3. PICK i \in S : k = bound - i
  BY <1>2
<1>4. \A j \in S : bound - i <= bound - j
  BY <1>2, <1>3
<1> QED
  BY <1>4

\* f goes n steps from a base.
Recurs(f, n, base, step) ==
  f = [k \in 0 .. n |-> IF k = 0 THEN base ELSE step[<<f[k - 1], k>>]]

\* Such a recursion is a function: CHOOSE finds it.
LEMMA Recursion ==
  ASSUME NEW n \in Nat, NEW State, NEW base \in State,
         NEW step \in [State \X (1 .. n) -> State]
  PROVE  \E f \in [0 .. n -> State] : Recurs(f, n, base, step)
<1> DEFINE good(f, m) == \A k \in 0 .. m : f[k] = IF k = 0 THEN base ELSE step[<<f[k - 1], k>>]
           able(m) == \E f \in [0 .. m -> State] : good(f, m)
           bad == {m \in 0 .. n : ~ able(m)}
<1>1. able(0)
  <2> DEFINE f == [k \in 0 .. 0 |-> base]
  <2>1. f \in [0 .. 0 -> State] /\ good(f, 0)
    OBVIOUS
  <2> QED
    BY <2>1
<1>2. ASSUME NEW m \in 1 .. n, able(m - 1) PROVE able(m)
  <2>1. PICK g \in [0 .. (m - 1) -> State] : good(g, m - 1)
    BY <1>2
  <2> DEFINE f == [k \in 0 .. m |-> IF k = m THEN step[<<g[m - 1], m>>] ELSE g[k]]
  <2>2. g[m - 1] \in State /\ step[<<g[m - 1], m>>] \in State
    OBVIOUS
  <2>3. f \in [0 .. m -> State]
    BY <2>2
  <2>4. \A k \in 0 .. (m - 1) : f[k] = g[k]
    OBVIOUS
  <2>5. f[m] = step[<<f[m - 1], m>>]
    <3>1. m - 1 \in 0 .. (m - 1) /\ m \in 0 .. m
      OBVIOUS
    <3>2. f[m] = step[<<g[m - 1], m>>]
      BY <3>1
    <3> HIDE DEF f
    <3> QED
      BY <2>4, <3>1, <3>2
  <2>6. ASSUME NEW k \in 0 .. m PROVE f[k] = IF k = 0 THEN base ELSE step[<<f[k - 1], k>>]
    <3>1. CASE k = m
      BY <2>5, <3>1
    <3>2. CASE k # m
      <4>1. f[k] = g[k] /\ (k # 0 => f[k - 1] = g[k - 1])
        BY <2>4, <3>2
      <4>2. g[k] = IF k = 0 THEN base ELSE step[<<g[k - 1], k>>]
        BY <2>1, <3>2
      <4> QED
        BY <4>1, <4>2
    <3> QED
      BY <3>1, <3>2
  <2> QED
    BY <2>3, <2>6
<1> HIDE DEF able
<1>3. bad = {}
  <2> SUFFICES ASSUME bad # {} PROVE FALSE
    OBVIOUS
  <2>1. PICK m \in bad : \A j \in bad : m <= j
    <3>1. bad \in SUBSET Nat
      OBVIOUS
    <3> QED
      BY <3>1, Smallest
  <2>2. m # 0 /\ m \in 1 .. n /\ m - 1 \in 0 .. n /\ ~ (m <= m - 1)
    BY <1>1, <2>1
  <2>3. able(m - 1)
    BY <2>1, <2>2
  <2> QED
    BY <1>2, <2>1, <2>2, <2>3
<1>4. PICK f \in [0 .. n -> State] : good(f, n)
  BY <1>3 DEF able
<1>5. f = [k \in 0 .. n |-> IF k = 0 THEN base ELSE step[<<f[k - 1], k>>]]
  BY <1>4
<1> QED
  BY <1>5 DEF Recurs

\* order lists the positions of S up to n, each once and in order.
Lists(order, S, n) ==
  /\ order \in Seq(1 .. n)
  /\ {order[i] : i \in DOMAIN order} = S \cap (1 .. n)
  /\ \A i, j \in DOMAIN order : i < j => order[i] < order[j]

\* The positions of S up to n, appended one by one.
UpTo(S, n, f) ==
  f = [k \in 0 .. n |-> IF k = 0 THEN <<>>
                        ELSE IF k \in S THEN Append(f[k - 1], k) ELSE f[k - 1]]

\* They list the positions,
LEMMA UpToLists ==
  ASSUME NEW n \in Nat, NEW S, NEW f, UpTo(S, n, f)
  PROVE  Lists(f[n], S, n)
<1> DEFINE bad == {k \in 0 .. n : ~ Lists(f[k], S, k)}
<1>1. f[0] = <<>>
  BY DEF UpTo
<1>2. Lists(f[0], S, 0)
  <2>1. f[0] \in Seq(1 .. 0) /\ DOMAIN f[0] = {}
    BY <1>1
  <2> QED
    BY <2>1 DEF Lists
<1>3. ASSUME NEW k \in 1 .. n, Lists(f[k - 1], S, k - 1) PROVE Lists(f[k], S, k)
  <2>1. f[k] = IF k \in S THEN Append(f[k - 1], k) ELSE f[k - 1]
    <3>1. k \in 0 .. n /\ k # 0
      OBVIOUS
    <3> HIDE DEF bad
    <3> QED
      BY <3>1, Zenon DEF UpTo
  <2>2. PICK before : before = f[k - 1]
    OBVIOUS
  <2>3. /\ before \in Seq(1 .. (k - 1))
        /\ {before[i] : i \in DOMAIN before} = S \cap (1 .. (k - 1))
        /\ \A i, j \in DOMAIN before : i < j => before[i] < before[j]
    BY <1>3, <2>2 DEF Lists
  <2>4. CASE k \notin S
    <3>1. f[k] = before
      BY <2>1, <2>2, <2>4
    <3>2. before \in Seq(1 .. k)
      BY <2>3
    <3>3. S \cap (1 .. (k - 1)) = S \cap (1 .. k)
      BY <2>4
    <3> QED
      BY <2>3, <3>1, <3>2, <3>3 DEF Lists
  <2>5. CASE k \in S
    <3>1. PICK after : after = Append(before, k)
      OBVIOUS
    <3>2. f[k] = after
      BY <2>1, <2>2, <2>5, <3>1
    <3>3. /\ after \in Seq(1 .. k)
          /\ Len(after) = Len(before) + 1 /\ Len(before) \in Nat
          /\ DOMAIN after = 1 .. Len(before) + 1 /\ DOMAIN before = 1 .. Len(before)
          /\ \A i \in 1 .. Len(before) : after[i] = before[i]
          /\ after[Len(before) + 1] = k
      BY <2>3, <3>1
    <3>4. \A i \in DOMAIN before : before[i] \in 1 .. (k - 1)
      BY <2>3
    <3>5. ASSUME NEW i \in DOMAIN after, NEW j \in DOMAIN after, i < j
          PROVE  after[i] < after[j]
      <4>1. i \in DOMAIN before /\ after[i] = before[i]
        BY <3>3, <3>5
      <4>2. CASE j \in DOMAIN before
        <5>1. after[j] = before[j]
          BY <3>3, <4>2
        <5>2. before[i] < before[j]
          BY <2>3, <3>5, <4>1, <4>2
        <5> QED
          BY <4>1, <5>1, <5>2
      <4>3. CASE j \notin DOMAIN before
        <5>1. j = Len(before) + 1
          BY <3>3, <4>3
        <5>2. after[j] = k /\ before[i] \in 1 .. (k - 1)
          BY <3>3, <3>4, <4>1, <5>1
        <5>3. PICK x \in 1 .. (k - 1) : x = before[i]
          BY <5>2
        <5>4. x < k
          BY <2>1
        <5> QED
          BY <4>1, <5>2, <5>3, <5>4
      <4> QED
        BY <4>2, <4>3
    <3>6. \A x : x \in {after[i] : i \in DOMAIN after} <=>
                    x = k \/ x \in {before[i] : i \in DOMAIN before}
      <4>1. \A x : x \in {after[i] : i \in DOMAIN after} <=> \E i \in DOMAIN after : x = after[i]
        OBVIOUS
      <4>2. \A i : i \in DOMAIN after <=> i \in DOMAIN before \/ i = Len(before) + 1
        BY <3>3
      <4>3. \A i \in DOMAIN before : after[i] = before[i]
        BY <3>3
      <4> QED
        BY <3>3, <4>1, <4>2, <4>3, Zenon
    <3>7. \A x : x \in S \cap (1 .. k) <=> x = k \/ x \in S \cap (1 .. (k - 1))
      BY <2>5
    <3>8. {after[i] : i \in DOMAIN after} = S \cap (1 .. k)
      BY <2>3, <3>6, <3>7
    <3> QED
      BY <3>2, <3>3, <3>5, <3>8 DEF Lists
  <2> QED
    BY <2>4, <2>5
<1>4. bad = {}
  <2> SUFFICES ASSUME bad # {} PROVE FALSE
    OBVIOUS
  <2>1. PICK k \in bad : \A j \in bad : k <= j
    <3>1. bad \in SUBSET Nat
      OBVIOUS
    <3> QED
      BY <3>1, Smallest
  <2>2. k # 0 /\ k \in 1 .. n /\ k - 1 \in 0 .. n /\ ~ (k <= k - 1)
    BY <1>2, <2>1
  <2>3. Lists(f[k - 1], S, k - 1)
    BY <2>1, <2>2
  <2> QED
    BY <1>3, <2>1, <2>2, <2>3
<1> QED
  BY <1>4

\* and can be found.
LEMMA UpToExists ==
  ASSUME NEW n \in Nat, NEW S
  PROVE  \E f : UpTo(S, n, f)
<1> DEFINE step == [p \in Seq(1 .. n) \X (1 .. n) |->
                      IF p[2] \in S THEN Append(p[1], p[2]) ELSE p[1]]
<1>1. step \in [Seq(1 .. n) \X (1 .. n) -> Seq(1 .. n)]
  <2>1. ASSUME NEW p \in Seq(1 .. n) \X (1 .. n)
        PROVE  (IF p[2] \in S THEN Append(p[1], p[2]) ELSE p[1]) \in Seq(1 .. n)
    <3>1. p[1] \in Seq(1 .. n) /\ p[2] \in 1 .. n
      OBVIOUS
    <3>2. Append(p[1], p[2]) \in Seq(1 .. n)
      BY <3>1
    <3> QED
      BY <3>1, <3>2
  <2> QED
    BY <2>1
<1>2. <<>> \in Seq(1 .. n)
  OBVIOUS
<1>3. \A s \in Seq(1 .. n) : \A k \in 1 .. n :
        step[<<s, k>>] = IF k \in S THEN Append(s, k) ELSE s
  OBVIOUS
<1> HIDE DEF step
<1>4. PICK f \in [0 .. n -> Seq(1 .. n)] :
             f = [k \in 0 .. n |-> IF k = 0 THEN <<>> ELSE step[<<f[k - 1], k>>]]
  <2>1. PICK State : State = Seq(1 .. n)
    OBVIOUS
  <2>2. PICK base : base = <<>>
    OBVIOUS
  <2>3. PICK next : next = step
    OBVIOUS
  <2>4. base \in State /\ next \in [State \X (1 .. n) -> State]
    BY <1>1, <1>2, <2>1, <2>2, <2>3
  <2>5. \E f \in [0 .. n -> State] : Recurs(f, n, base, next)
    BY <2>4, Recursion
  <2> QED
    BY <2>1, <2>2, <2>3, <2>5 DEF Recurs
<1>5. ASSUME NEW k \in 0 .. n
      PROVE  f[k] = IF k = 0 THEN <<>>
                    ELSE IF k \in S THEN Append(f[k - 1], k) ELSE f[k - 1]
  <2>1. k # 0 => k - 1 \in 0 .. n /\ k \in 1 .. n
    OBVIOUS
  <2>2. k # 0 => f[k] = IF k \in S THEN Append(f[k - 1], k) ELSE f[k - 1]
    BY <1>3, <1>4, <2>1
  <2> QED
    BY <1>4, <2>2
<1>6. UpTo(S, n, f)
  BY <1>4, <1>5 DEF UpTo
<1> QED
  BY <1>6

\* Ascending lists the positions of a set, whatever its least and greatest are.
LEMMA AscendingLists ==
  ASSUME NEW n \in Nat, NEW S \in SUBSET (1 .. n)
  PROVE  Lists(Ascending(S), S, n)
<1>1. PICK m : m = IF S = {} THEN 0 ELSE Max(S)
  OBVIOUS
<1>2. m \in 0 .. n /\ S \cap (1 .. m) = S
  <2>1. CASE S = {}
    BY <1>1, <2>1
  <2>2. CASE S # {}
    <3>1. S \in SUBSET Nat /\ \A i \in S : i <= n
      OBVIOUS
    <3>2. \E x \in S : \A y \in S : y <= x
      BY <2>2, <3>1, Largest
    <3>3. \E x \in S : \A y \in S : x >= y
      BY <3>1, <3>2
    <3>4. Max(S) \in S /\ \A y \in S : Max(S) >= y
      BY <3>3 DEF Max
    <3>5. m = Max(S)
      BY <1>1, <2>2
    <3>6. m \in S /\ \A y \in S : m >= y
      BY <3>4, <3>5
    <3>7. m \in 1 .. n
      BY <3>6
    <3>8. \A y \in S : y \in 1 .. m
      BY <3>1, <3>6, <3>7
    <3>9. m \in 0 .. n
      BY <3>7
    <3>10. \A y : y \in S \cap (1 .. m) <=> y \in S
      BY <3>8
    <3>11. S \cap (1 .. m) = S
      BY <3>10
    <3> QED
      BY <3>9, <3>11
  <2> QED
    BY <2>1, <2>2
<1> DEFINE f == CHOOSE f : UpTo(S, m, f)
<1>3. Ascending(S) = f[m]
  BY <1>1 DEF Ascending, UpTo
<1>4. UpTo(S, m, f)
  <2>1. m \in Nat
    BY <1>2
  <2>2. \E g : UpTo(S, m, g)
    BY <2>1, UpToExists
  <2> QED
    BY <2>2, Zenon
<1> HIDE DEF f
<1>5. PICK g : g = f
  OBVIOUS
<1>6. Lists(g[m], S, m)
  BY <1>2, <1>4, <1>5, UpToLists
<1>7. PICK order : order = g[m]
  OBVIOUS
<1>8. /\ order \in Seq(1 .. m)
      /\ {order[i] : i \in DOMAIN order} = S
      /\ \A i, j \in DOMAIN order : i < j => order[i] < order[j]
  BY <1>2, <1>6, <1>7 DEF Lists
<1>9. order \in Seq(1 .. n)
  BY <1>2, <1>8
<1>10. Lists(order, S, n)
  BY <1>8, <1>9 DEF Lists
<1> QED
  BY <1>3, <1>5, <1>7, <1>10

\* f joins more and more of the members of s.
Joins(f, s) ==
  f = [i \in 1 .. Len(s) |-> IF i = 1 THEN s[i] ELSE f[i - 1] \o s[i]]

\* They can be joined one by one,
LEMMA JoinsExists ==
  ASSUME NEW T, NEW s \in Seq(Seq(T))
  PROVE  \E f : Joins(f, s)
<1>1. PICK n : n = Len(s)
  OBVIOUS
<1>2. n \in Nat /\ \A i \in 1 .. n : s[i] \in Seq(T)
  BY <1>1
<1>3. PICK State : State = Seq(T)
  OBVIOUS
<1>4. PICK base : base = <<>>
  OBVIOUS
<1>5. PICK step : step = [p \in State \X (1 .. n) |-> p[1] \o s[p[2]]]
  OBVIOUS
<1>6. base \in State
  BY <1>3, <1>4
<1>7. \A x \in State : \A i \in 1 .. n : step[<<x, i>>] = x \o s[i] /\ x \o s[i] \in State
  <2>1. \A x \in State : \A i \in 1 .. n : x \o s[i] \in State
    BY <1>2, <1>3
  <2>2. \A x \in State : \A i \in 1 .. n : step[<<x, i>>] = x \o s[i]
    BY <1>5
  <2> QED
    BY <2>1, <2>2
<1>8. step \in [State \X (1 .. n) -> State]
  <2>1. \A p \in State \X (1 .. n) : p[1] \o s[p[2]] \in State
    BY <1>7
  <2> QED
    BY <1>5, <2>1
<1>9. PICK g \in [0 .. n -> State] : Recurs(g, n, base, step)
  BY <1>2, <1>6, <1>8, Recursion
<1>10. \A i \in 1 .. n : g[i] = g[i - 1] \o s[i] /\ i - 1 \in 0 .. n
  <2>1. ASSUME NEW i \in 1 .. n PROVE g[i] = step[<<g[i - 1], i>>]
    <3>1. i \in 0 .. n /\ i # 0
      BY <1>2
    <3> QED
      BY <1>9, <3>1, Zenon DEF Recurs
  <2>2. \A i \in 1 .. n : i - 1 \in 0 .. n /\ g[i - 1] \in State
    BY <1>2, <1>9
  <2> QED
    BY <1>7, <2>1, <2>2
<1>11. g[0] = <<>>
  <2>1. g[0] = base
    BY <1>2, <1>9 DEF Recurs
  <2> QED
    BY <1>4, <2>1
<1> DEFINE f == [i \in 1 .. n |-> g[i]]
<1>12. ASSUME NEW i \in 1 .. n
       PROVE  f[i] = IF i = 1 THEN s[i] ELSE f[i - 1] \o s[i]
  <2>1. CASE i = 1
    <3>3. 1 \in 1 .. n /\ 1 - 1 = 0
      BY <2>1
    <3>4. g[1] = g[1 - 1] \o s[1]
      BY <1>10, <3>3
    <3>1. g[1] = g[0] \o s[1] /\ s[1] \in Seq(T)
      BY <1>2, <3>3, <3>4
    <3>2. g[1] = s[1]
      BY <1>11, <3>1
    <3> QED
      BY <2>1, <3>2
  <2>2. CASE i # 1
    <3>1. i - 1 \in 1 .. n
      BY <1>2, <2>2
    <3>2. f[i - 1] = g[i - 1] /\ f[i] = g[i]
      BY <3>1
    <3> HIDE DEF f
    <3> QED
      BY <1>10, <2>2, <3>2
  <2> QED
    BY <2>1, <2>2
<1>13. f = [i \in 1 .. n |-> IF i = 1 THEN s[i] ELSE f[i - 1] \o s[i]]
  BY <1>12
<1> HIDE DEF f
<1> QED
  BY <1>1, <1>13 DEF Joins

\* as FlattenSeq does.
LEMMA FlattenJoins ==
  ASSUME NEW T, NEW s \in Seq(Seq(T)), s # <<>>
  PROVE  \E f : Joins(f, s) /\ FlattenSeq(s) = f[Len(s)]
<1> DEFINE f == CHOOSE f : Joins(f, s)
<1>1. Joins(f, s)
  <2>1. \E g : Joins(g, s)
    BY JoinsExists
  <2> QED
    BY <2>1, Zenon
<1>2. Len(s) # 0
  OBVIOUS
<1>3. FlattenSeq(s) = f[Len(s)]
  BY <1>2 DEF FlattenSeq, Joins
<1> HIDE DEF f
<1> QED
  BY <1>1, <1>3

\* What stands in a sequence.
Members(s) == {s[i] : i \in DOMAIN s}

\* A list of two has the members of both.
LEMMA MembersOfJoin ==
  ASSUME NEW T, NEW s \in Seq(T), NEW t \in Seq(T)
  PROVE  s \o t \in Seq(T) /\ Members(s \o t) = Members(s) \cup Members(t)
<1>1. PICK u : u = s \o t
  OBVIOUS
<1>2. /\ u \in Seq(T)
      /\ DOMAIN s = 1 .. Len(s) /\ DOMAIN t = 1 .. Len(t) /\ DOMAIN u = 1 .. Len(s) + Len(t)
      /\ Len(s) \in Nat /\ Len(t) \in Nat
      /\ \A i \in 1 .. Len(s) : u[i] = s[i]
      /\ \A i \in 1 .. Len(t) : u[Len(s) + i] = t[i]
  BY <1>1
<1>3. ASSUME NEW i \in DOMAIN u PROVE u[i] \in Members(s) \cup Members(t)
  <2>1. CASE i \in 1 .. Len(s)
    BY <1>2, <2>1 DEF Members
  <2>2. CASE i \notin 1 .. Len(s)
    <3>1. i - Len(s) \in 1 .. Len(t) /\ Len(s) + (i - Len(s)) = i
      BY <1>2, <2>2
    <3>2. u[i] = t[i - Len(s)]
      BY <1>2, <3>1
    <3> QED
      BY <1>2, <3>1, <3>2 DEF Members
  <2> QED
    BY <2>1, <2>2
<1>4. ASSUME NEW i \in DOMAIN s PROVE s[i] \in Members(u)
  <2>1. i \in DOMAIN u /\ u[i] = s[i]
    BY <1>2
  <2> QED
    BY <2>1 DEF Members
<1>5. ASSUME NEW i \in DOMAIN t PROVE t[i] \in Members(u)
  <2>1. Len(s) + i \in DOMAIN u /\ u[Len(s) + i] = t[i]
    BY <1>2
  <2> QED
    BY <2>1 DEF Members
<1>6. \A x : x \in Members(u) <=> x \in Members(s) \cup Members(t)
  BY <1>3, <1>4, <1>5, Zenon DEF Members
<1>7. Members(u) = Members(s) \cup Members(t)
  BY <1>6
<1> QED
  BY <1>1, <1>2, <1>7

\* The lists of s have been put together up to the k-th.
LEMMA Flattened ==
  ASSUME NEW T, NEW s \in Seq(Seq(T))
  PROVE  /\ FlattenSeq(s) \in Seq(T)
         /\ Members(FlattenSeq(s)) = UNION {Members(s[i]) : i \in DOMAIN s}
<1>1. CASE s = <<>>
  <2>1. FlattenSeq(s) = <<>>
    BY <1>1 DEF FlattenSeq
  <2>2. Members(<<>>) = {} /\ <<>> \in Seq(T)
    BY DEF Members
  <2>3. DOMAIN s = {}
    BY <1>1
  <2> QED
    BY <2>1, <2>2, <2>3
<1>2. CASE s # <<>>
  <2>1. PICK f : Joins(f, s) /\ FlattenSeq(s) = f[Len(s)]
    BY <1>2, FlattenJoins
  <2>2. PICK n : n = Len(s)
    OBVIOUS
  <2>3. n \in Nat /\ n # 0 /\ DOMAIN s = 1 .. n /\ \A i \in 1 .. n : s[i] \in Seq(T)
    BY <1>2, <2>2
  <2>4. ASSUME NEW k \in 1 .. n
        PROVE  f[k] = IF k = 1 THEN s[k] ELSE f[k - 1] \o s[k]
    BY <2>1, <2>2, Zenon DEF Joins
  <2> DEFINE Good(k) == /\ f[k] \in Seq(T)
                        /\ Members(f[k]) = UNION {Members(s[i]) : i \in 1 .. k}
             bad == {k \in 1 .. n : ~ Good(k)}
  <2>5. Good(1)
    <3>1. 1 \in 1 .. n /\ 1 .. 1 = {1}
      BY <2>3
    <3>2. f[1] = s[1] /\ s[1] \in Seq(T)
      BY <2>3, <2>4, <3>1
    <3> QED
      BY <3>1, <3>2
  <2>6. ASSUME NEW k \in 1 .. n, k # 1, Good(k - 1) PROVE Good(k)
    <3>1. k - 1 \in 1 .. n
      BY <2>3, <2>6
    <3>2. f[k] = f[k - 1] \o s[k]
      BY <2>4, <2>6
    <3>3. PICK g : g = f[k - 1]
      OBVIOUS
    <3>4. PICK t : t = s[k]
      OBVIOUS
    <3>5. g \in Seq(T) /\ t \in Seq(T)
      BY <2>3, <2>6, <3>3, <3>4
    <3>6. g \o t \in Seq(T) /\ Members(g \o t) = Members(g) \cup Members(t)
      BY <3>5, MembersOfJoin
    <3>7. Members(g) = UNION {Members(s[i]) : i \in 1 .. (k - 1)}
      BY <2>6, <3>3
    <3>8. 1 .. k = (1 .. (k - 1)) \cup {k}
      BY <2>3
    <3>9. UNION {Members(s[i]) : i \in 1 .. k} = Members(g) \cup Members(t)
      BY <3>4, <3>7, <3>8, Zenon
    <3> QED
      BY <3>2, <3>3, <3>4, <3>6, <3>9
  <2> HIDE DEF Good
  <2>7. bad = {}
    <3> SUFFICES ASSUME bad # {} PROVE FALSE
      OBVIOUS
    <3>1. PICK k \in bad : \A j \in bad : k <= j
      <4>1. bad \in SUBSET Nat
        BY <2>3
      <4> QED
        BY <4>1, Smallest
    <3>2. k # 1 /\ k \in 1 .. n /\ k - 1 \in 1 .. n /\ ~ (k <= k - 1)
      BY <2>3, <2>5, <3>1
    <3>3. Good(k - 1)
      BY <3>1, <3>2
    <3> QED
      BY <2>6, <3>1, <3>2, <3>3
  <2>8. Good(n)
    BY <2>3, <2>7
  <2> QED
    BY <2>1, <2>2, <2>3, <2>8 DEF Good
<1> QED
  BY <1>1, <1>2

\* There is one way to list the members of a set in order.
Rises(a) == \A i, j \in DOMAIN a : i < j => a[i] < a[j]

LEMMA OneOrder ==
  ASSUME NEW a \in Seq(Nat), NEW b \in Seq(Nat), Rises(a), Rises(b), Members(a) = Members(b)
  PROVE  a = b
<1>1. /\ Len(a) \in Nat /\ DOMAIN a = 1 .. Len(a) /\ \A i \in DOMAIN a : a[i] \in Nat
      /\ Len(b) \in Nat /\ DOMAIN b = 1 .. Len(b) /\ \A i \in DOMAIN b : b[i] \in Nat
  OBVIOUS
<1>2. /\ \A i \in DOMAIN a : \E j \in DOMAIN b : b[j] = a[i]
      /\ \A i \in DOMAIN b : \E j \in DOMAIN a : a[j] = b[i]
  BY DEF Members
<1>3. /\ \A i, j \in DOMAIN a : i < j => a[i] < a[j]
      /\ \A i, j \in DOMAIN b : i < j => b[i] < b[j]
  BY DEF Rises
<1> DEFINE bad == {i \in DOMAIN a \cap DOMAIN b : a[i] # b[i]}
<1>4. bad = {}
  <2> SUFFICES ASSUME bad # {} PROVE FALSE
    OBVIOUS
  <2>1. PICK i \in bad : \A j \in bad : i <= j
    <3>1. bad \in SUBSET Nat
      BY <1>1
    <3> QED
      BY <3>1, Smallest
  <2>2. i \in DOMAIN a /\ i \in DOMAIN b /\ a[i] # b[i]
    BY <2>1
  <2>3. \A j \in DOMAIN a \cap DOMAIN b : j < i => a[j] = b[j]
    BY <1>1, <2>1
  <2> HIDE DEF bad
  <2>4. CASE a[i] < b[i]
    <3>1. PICK j \in DOMAIN b : b[j] = a[i]
      BY <1>2, <2>2
    <3>2. j < i
      <4>1. b[j] < b[i]
        BY <2>4, <3>1
      <4>2. ~ (i < j) /\ i # j
        BY <1>1, <1>3, <2>2, <3>1, <4>1
      <4> QED
        BY <1>1, <2>2, <4>2
    <3>3. j \in DOMAIN a
      BY <1>1, <2>2, <3>2
    <3>4. a[j] = a[i] /\ a[j] < a[i]
      BY <1>3, <2>2, <2>3, <3>1, <3>2, <3>3
    <3> QED
      BY <1>1, <2>2, <3>4
  <2>5. CASE b[i] < a[i]
    <3>1. PICK j \in DOMAIN a : a[j] = b[i]
      BY <1>2, <2>2
    <3>2. j < i
      <4>1. a[j] < a[i]
        BY <2>5, <3>1
      <4>2. ~ (i < j) /\ i # j
        BY <1>1, <1>3, <2>2, <3>1, <4>1
      <4> QED
        BY <1>1, <2>2, <4>2
    <3>3. j \in DOMAIN b
      BY <1>1, <2>2, <3>2
    <3>4. b[j] = b[i] /\ b[j] < b[i]
      BY <1>3, <2>2, <2>3, <3>1, <3>2, <3>3
    <3> QED
      BY <1>1, <2>2, <3>4
  <2> QED
    BY <1>1, <2>2, <2>4, <2>5
<1>5. \A i \in DOMAIN a \cap DOMAIN b : a[i] = b[i]
  BY <1>4
<1> HIDE DEF bad
<1>6. PICK m \in Nat, n \in Nat : m = Len(a) /\ n = Len(b)
  BY <1>1, Zenon
<1>7. DOMAIN a = 1 .. m /\ DOMAIN b = 1 .. n
  BY <1>1, <1>6
<1>8. ~ (m < n)
  <2> SUFFICES ASSUME m < n PROVE FALSE
    OBVIOUS
  <2>1. n \in DOMAIN b
    BY <1>6, <1>7
  <2>2. PICK j \in DOMAIN a : a[j] = b[n]
    BY <1>2, <2>1
  <2>3. j < n /\ j \in DOMAIN b
    BY <1>6, <1>7
  <2>4. b[j] < b[n] /\ a[j] = b[j]
    BY <1>3, <1>5, <2>1, <2>3
  <2>5. PICK x \in Nat : x = b[n]
    BY <1>1, <2>1
  <2>6. x < x
    BY <2>2, <2>4, <2>5
  <2> QED
    BY <2>5, <2>6
<1>9. ~ (n < m)
  <2> SUFFICES ASSUME n < m PROVE FALSE
    OBVIOUS
  <2>1. m \in DOMAIN a
    BY <1>6, <1>7
  <2>2. PICK j \in DOMAIN b : b[j] = a[m]
    BY <1>2, <2>1
  <2>3. j < m /\ j \in DOMAIN a
    BY <1>6, <1>7
  <2>4. a[j] < a[m] /\ a[j] = b[j]
    BY <1>3, <1>5, <2>1, <2>3
  <2>5. PICK x \in Nat : x = a[m]
    BY <1>1, <2>1
  <2>6. x < x
    BY <2>2, <2>4, <2>5
  <2> QED
    BY <2>5, <2>6
<1>10. m = n
  BY <1>6, <1>8, <1>9
<1>11. Len(a) = Len(b) /\ \A i \in 1 .. Len(a) : a[i] = b[i]
  BY <1>5, <1>6, <1>7, <1>10
<1> QED
  BY <1>11, SeqEqual, Zenon

\* In a list of lists that have been joined, the i-th stands after start[i].
Placed(out, s, start) ==
  /\ start \in [DOMAIN s -> Nat]
  /\ \A i \in DOMAIN s : \A j \in DOMAIN s[i] :
       start[i] + j \in DOMAIN out /\ out[start[i] + j] = s[i][j]
  /\ \A i, k \in DOMAIN s : i < k => start[i] + Len(s[i]) <= start[k]
  /\ \A p \in DOMAIN out : \E i \in DOMAIN s : \E j \in DOMAIN s[i] : p = start[i] + j

LEMMA PlaceInside ==
  ASSUME NEW before \in Nat, NEW length \in Nat, NEW end \in Nat, before + length <= end,
         NEW j \in 1 .. length
  PROVE  before + j \in 1 .. end
OBVIOUS

\* FlattenSeq places them so.
LEMMA FlattenedPlaces ==
  ASSUME NEW T, NEW s \in Seq(Seq(T))
  PROVE  \E start : Placed(FlattenSeq(s), s, start)
<1>1. CASE s = <<>>
  <2>1. FlattenSeq(s) = <<>> /\ DOMAIN s = {}
    BY <1>1 DEF FlattenSeq
  <2>2. PICK start : start = [i \in {} |-> 0]
    OBVIOUS
  <2>3. DOMAIN FlattenSeq(s) = {}
    BY <2>1
  <2>4. start \in [DOMAIN s -> Nat]
    BY <2>1, <2>2
  <2> QED
    BY <2>1, <2>3, <2>4 DEF Placed
<1>2. CASE s # <<>>
  <2>1. PICK f : Joins(f, s) /\ FlattenSeq(s) = f[Len(s)]
    BY <1>2, FlattenJoins
  <2>2. PICK n : n = Len(s)
    OBVIOUS
  <2>3. /\ n \in Nat /\ n # 0 /\ DOMAIN s = 1 .. n
        /\ \A i \in 1 .. n : s[i] \in Seq(T) /\ Len(s[i]) \in Nat /\ DOMAIN s[i] = 1 .. Len(s[i])
    BY <1>2, <2>2
  <2>4. ASSUME NEW k \in 1 .. n
        PROVE  f[k] = IF k = 1 THEN s[k] ELSE f[k - 1] \o s[k]
    BY <2>1, <2>2, Zenon DEF Joins
  <2>5. PICK start : start = [i \in 1 .. n |-> IF i = 1 THEN 0 ELSE Len(f[i - 1])]
    OBVIOUS
  <2> DEFINE Good(k) ==
               /\ f[k] \in Seq(T) /\ Len(f[k]) = start[k] + Len(s[k])
               /\ \A i \in 1 .. k : start[i] \in Nat /\ start[i] + Len(s[i]) <= Len(f[k])
               /\ \A i \in 1 .. k : \A j \in DOMAIN s[i] : f[k][start[i] + j] = s[i][j]
               /\ \A i, m \in 1 .. k : i < m => start[i] + Len(s[i]) <= start[m]
               /\ \A p \in 1 .. Len(f[k]) :
                     \E i \in 1 .. k : \E j \in DOMAIN s[i] : p = start[i] + j
             bad == {k \in 1 .. n : ~ Good(k)}
  <2>6. Good(1)
    <3>1. 1 \in 1 .. n
      BY <2>3
    <3>2. f[1] = s[1] /\ start[1] = 0
      BY <2>4, <2>5, <3>1
    <3>3. s[1] \in Seq(T) /\ Len(s[1]) \in Nat /\ DOMAIN s[1] = 1 .. Len(s[1])
      BY <2>3, <3>1
    <3>4. \A i \in 1 .. 1 : i = 1
      OBVIOUS
    <3>5. PICK t : t = s[1]
      OBVIOUS
    <3>6. /\ t \in Seq(T) /\ Len(t) \in Nat /\ DOMAIN t = 1 .. Len(t)
          /\ f[1] = t /\ s[1] = t /\ start[1] = 0
      BY <3>2, <3>3, <3>5
    <3> HIDE DEF Good, bad
    <3>7. /\ f[1] \in Seq(T) /\ Len(f[1]) = start[1] + Len(s[1])
          /\ \A i \in 1 .. 1 : start[i] \in Nat /\ start[i] + Len(s[i]) <= Len(f[1])
      BY <3>4, <3>6
    <3>8. \A i \in 1 .. 1 : \A j \in DOMAIN s[i] : f[1][start[i] + j] = s[i][j]
      BY <3>4, <3>6
    <3>9. \A i, m \in 1 .. 1 : i < m => start[i] + Len(s[i]) <= start[m]
      OBVIOUS
    <3>10. ASSUME NEW p \in 1 .. Len(f[1])
           PROVE  \E i \in 1 .. 1 : \E j \in DOMAIN s[i] : p = start[i] + j
      <4>1. p \in DOMAIN s[1] /\ p = start[1] + p /\ 1 \in 1 .. 1
        BY <3>6
      <4> QED
        BY <4>1
    <3> QED
      BY <3>7, <3>8, <3>9, <3>10 DEF Good
  <2>7. ASSUME NEW k \in 1 .. n, k # 1, Good(k - 1) PROVE Good(k)
    <3>1. k - 1 \in Nat /\ k - 1 \in 1 .. n /\ k \in Nat
      BY <2>3, <2>7
    <3>2. f[k] = f[k - 1] \o s[k] /\ start[k] = Len(f[k - 1])
      BY <2>4, <2>5, <2>7
    <3>3. PICK g : g = f[k - 1]
      OBVIOUS
    <3>4. PICK t : t = s[k]
      OBVIOUS
    <3>5. PICK u : u = g \o t
      OBVIOUS
    <3>6. g \in Seq(T) /\ t \in Seq(T)
      BY <2>3, <2>7, <3>3, <3>4
    <3>7. /\ u \in Seq(T) /\ Len(u) = Len(g) + Len(t) /\ Len(g) \in Nat /\ Len(t) \in Nat
          /\ DOMAIN t = 1 .. Len(t)
          /\ \A p \in 1 .. Len(g) : u[p] = g[p]
          /\ \A p \in 1 .. Len(t) : u[Len(g) + p] = t[p]
      BY <3>5, <3>6
    <3>8. f[k] = u /\ start[k] = Len(g) /\ s[k] = t
      BY <3>2, <3>3, <3>4, <3>5
    <3>9. \A i \in 1 .. k : i = k \/ i \in 1 .. (k - 1)
      BY <3>1
    <3>10. /\ \A i \in 1 .. (k - 1) : start[i] \in Nat /\ start[i] + Len(s[i]) <= Len(g)
           /\ \A i \in 1 .. (k - 1) : \A j \in DOMAIN s[i] : g[start[i] + j] = s[i][j]
           /\ \A i, m \in 1 .. (k - 1) : i < m => start[i] + Len(s[i]) <= start[m]
           /\ \A p \in 1 .. Len(g) : \E i \in 1 .. (k - 1) : \E j \in DOMAIN s[i] : p = start[i] + j
      BY <2>7, <3>3
    <3>11. \A i \in 1 .. k : i \in 1 .. n
      BY <2>3
    <3> HIDE DEF Good, bad
    <3>12. \A i \in 1 .. k : start[i] \in Nat /\ start[i] + Len(s[i]) <= Len(u)
      <4> TAKE i \in 1 .. k
      <4>1. Len(s[i]) \in Nat
        BY <2>3, <3>11
      <4>2. Len(u) = Len(g) + Len(t) /\ Len(g) \in Nat /\ Len(t) \in Nat
        BY <3>7
      <4>3. CASE i = k
        BY <3>8, <4>2, <4>3
      <4>4. CASE i # k
        <5>1. start[i] \in Nat /\ start[i] + Len(s[i]) <= Len(g)
          BY <3>9, <3>10, <4>4
        <5> QED
          BY <4>1, <4>2, <5>1
      <4> QED
        BY <4>3, <4>4
    <3>13. ASSUME NEW i \in 1 .. k, NEW j \in DOMAIN s[i] PROVE u[start[i] + j] = s[i][j]
      <4>1. CASE i = k
        <5>1. j \in 1 .. Len(t) /\ s[i] = t /\ start[i] = Len(g)
          BY <3>7, <3>8, <4>1
        <5>2. u[Len(g) + j] = t[j]
          BY <3>7, <5>1, Zenon
        <5> QED
          BY <5>1, <5>2, Zenon
      <4>2. CASE i # k
        <5>1. i \in 1 .. (k - 1)
          BY <3>9, <4>2
        <5>2. start[i] \in Nat /\ start[i] + Len(s[i]) <= Len(g) /\ g[start[i] + j] = s[i][j]
          BY <3>10, <5>1
        <5>3. Len(s[i]) \in Nat /\ j \in 1 .. Len(s[i])
          BY <2>3, <3>11
        <5>4. start[i] + j \in 1 .. Len(g)
          BY <3>7, <5>2, <5>3, PlaceInside, Zenon
        <5> QED
          BY <3>7, <5>2, <5>4
      <4> QED
        BY <4>1, <4>2
    <3>14. ASSUME NEW i \in 1 .. k, NEW m \in 1 .. k, i < m
           PROVE  start[i] + Len(s[i]) <= start[m]
      <4>1. i \in 1 .. (k - 1)
        BY <3>1, <3>14
      <4>2. CASE m = k
        BY <3>8, <3>10, <4>1, <4>2
      <4>3. CASE m # k
        <5>1. m \in 1 .. (k - 1)
          BY <3>9, <4>3
        <5> QED
          BY <3>10, <3>14, <4>1, <5>1
      <4> QED
        BY <4>2, <4>3
    <3>15. ASSUME NEW p \in 1 .. Len(u)
           PROVE  \E i \in 1 .. k : \E j \in DOMAIN s[i] : p = start[i] + j
      <4>1. CASE p \in 1 .. Len(g)
        <5>1. PICK i \in 1 .. (k - 1) : \E j \in DOMAIN s[i] : p = start[i] + j
          BY <3>10, <4>1
        <5>2. i \in 1 .. k
          BY <3>1
        <5> QED
          BY <5>1, <5>2
      <4>2. CASE p \notin 1 .. Len(g)
        <5>1. PICK j : j = p - Len(g)
          OBVIOUS
        <5>2. j \in 1 .. Len(t) /\ p = Len(g) + j
          BY <3>7, <4>2, <5>1
        <5>3. k \in 1 .. k
          BY <3>1
        <5>4. j \in DOMAIN s[k] /\ p = start[k] + j
          BY <3>7, <3>8, <5>2
        <5> QED
          BY <5>3, <5>4
      <4> QED
        BY <4>1, <4>2
    <3> QED
      BY <3>7, <3>8, <3>12, <3>13, <3>14, <3>15 DEF Good
  <2> HIDE DEF Good
  <2>8. bad = {}
    <3> SUFFICES ASSUME bad # {} PROVE FALSE
      OBVIOUS
    <3>1. PICK k \in bad : \A j \in bad : k <= j
      <4>1. bad \in SUBSET Nat
        BY <2>3
      <4> QED
        BY <4>1, Smallest
    <3>2. k # 1 /\ k \in 1 .. n /\ k - 1 \in 1 .. n /\ ~ (k <= k - 1)
      BY <2>3, <2>6, <3>1
    <3>3. Good(k - 1)
      BY <3>1, <3>2
    <3> QED
      BY <2>7, <3>1, <3>2, <3>3
  <2>9. Good(n)
    BY <2>3, <2>8
  <2>10. PICK out : out = FlattenSeq(s)
    OBVIOUS
  <2>11. /\ out \in Seq(T) /\ DOMAIN out = 1 .. Len(out) /\ Len(out) \in Nat
         /\ \A i \in 1 .. n : start[i] \in Nat /\ start[i] + Len(s[i]) <= Len(out)
         /\ \A i \in 1 .. n : \A j \in DOMAIN s[i] : out[start[i] + j] = s[i][j]
         /\ \A i, m \in 1 .. n : i < m => start[i] + Len(s[i]) <= start[m]
         /\ \A p \in 1 .. Len(out) : \E i \in 1 .. n : \E j \in DOMAIN s[i] : p = start[i] + j
    <3>1. f[n] = out
      BY <2>1, <2>2, <2>10
    <3>2. /\ f[n] \in Seq(T)
          /\ \A i \in 1 .. n : start[i] \in Nat /\ start[i] + Len(s[i]) <= Len(f[n])
          /\ \A i \in 1 .. n : \A j \in DOMAIN s[i] : f[n][start[i] + j] = s[i][j]
          /\ \A i, m \in 1 .. n : i < m => start[i] + Len(s[i]) <= start[m]
          /\ \A p \in 1 .. Len(f[n]) : \E i \in 1 .. n : \E j \in DOMAIN s[i] : p = start[i] + j
      BY <2>9, Zenon DEF Good
    <3>3. out \in Seq(T) /\ DOMAIN out = 1 .. Len(out) /\ Len(out) \in Nat
      BY <3>1, <3>2
    <3> QED
      BY <3>1, <3>2, <3>3, Zenon
  <2>12. start \in [DOMAIN s -> Nat]
    BY <2>3, <2>5, <2>11
  <2>13. \A i \in DOMAIN s : \A j \in DOMAIN s[i] : start[i] + j \in DOMAIN out
    <3> TAKE i \in DOMAIN s
    <3> TAKE j \in DOMAIN s[i]
    <3>1. Len(s[i]) \in Nat /\ j \in 1 .. Len(s[i])
      BY <2>3
    <3>2. start[i] \in Nat /\ start[i] + Len(s[i]) <= Len(out)
      BY <2>3, <2>11
    <3>3. Len(out) \in Nat /\ DOMAIN out = 1 .. Len(out)
      BY <2>11
    <3> QED
      BY <3>1, <3>2, <3>3, PlaceInside, Zenon
  <2>14. Placed(out, s, start)
    <3>1. DOMAIN s = 1 .. n /\ DOMAIN out = 1 .. Len(out)
      BY <2>3, <2>11
    <3>2. \A i \in DOMAIN s : \A j \in DOMAIN s[i] :
            start[i] + j \in DOMAIN out /\ out[start[i] + j] = s[i][j]
      BY <2>11, <2>13, <3>1, Zenon
    <3>3. \A i, k \in DOMAIN s : i < k => start[i] + Len(s[i]) <= start[k]
      BY <2>11, <3>1, Zenon
    <3>4. \A p \in DOMAIN out : \E i \in DOMAIN s : \E j \in DOMAIN s[i] : p = start[i] + j
      BY <2>11, <3>1, Zenon
    <3> QED
      BY <2>12, <3>2, <3>3, <3>4, Zenon DEF Placed
  <2> QED
    BY <2>10, <2>14
<1> QED
  BY <1>1, <1>2

\* Each list is empty, or a pair that has one member in W, at place c.
Pairs(s, W, c) ==
  \A i \in DOMAIN s :
    s[i] = <<>> \/ (Len(s[i]) = 2 /\ s[i][c] \in W /\ s[i][3 - c] \notin W)
Kept(s) == Ascending({i \in DOMAIN s : s[i] # <<>>})
StandIn(out, W) == AtPlaces(out, {j \in DOMAIN out : out[j] \in W})

\* Of pairs in a list of lists, those that are wanted stand in order.
LEMMA FlattenedPairs ==
  ASSUME NEW T, NEW s \in Seq(Seq(T)), NEW W, NEW c \in 1 .. 2, Pairs(s, W, c)
  PROVE  StandIn(FlattenSeq(s), W) = [m \in DOMAIN Kept(s) |-> s[Kept(s)[m]][c]]
<1>0. \A i \in DOMAIN s :
        s[i] = <<>> \/ (Len(s[i]) = 2 /\ s[i][c] \in W /\ s[i][3 - c] \notin W)
  BY DEF Pairs
<1>1. PICK out : out = FlattenSeq(s)
  OBVIOUS
<1>2. PICK G : G = {i \in DOMAIN s : s[i] # <<>>}
  OBVIOUS
<1>3. PICK Q : Q = {j \in DOMAIN out : out[j] \in W}
  OBVIOUS
<1>4. PICK kept : kept = Ascending(G)
  OBVIOUS
<1>5. PICK order : order = Ascending(Q)
  OBVIOUS
<1>6. PICK n : n = Len(s)
  OBVIOUS
<1>7. n \in Nat /\ DOMAIN s = 1 .. n /\ \A i \in 1 .. n : s[i] \in Seq(T)
  BY <1>6
<1>8. out \in Seq(T) /\ DOMAIN out = 1 .. Len(out) /\ Len(out) \in Nat
  <2>1. out \in Seq(T)
    BY <1>1, Flattened
  <2> QED
    BY <2>1
<1>9. PICK start : Placed(out, s, start)
  BY <1>1, FlattenedPlaces
<1>10. /\ \A i \in 1 .. n : start[i] \in Nat
       /\ \A i \in 1 .. n : \A j \in DOMAIN s[i] :
            start[i] + j \in DOMAIN out /\ out[start[i] + j] = s[i][j]
       /\ \A i, k \in 1 .. n : i < k => start[i] + Len(s[i]) <= start[k]
       /\ \A p \in DOMAIN out : \E i \in 1 .. n : \E j \in DOMAIN s[i] : p = start[i] + j
  <2>1. /\ start \in [DOMAIN s -> Nat]
        /\ \A i \in DOMAIN s : \A j \in DOMAIN s[i] :
             start[i] + j \in DOMAIN out /\ out[start[i] + j] = s[i][j]
        /\ \A i, k \in DOMAIN s : i < k => start[i] + Len(s[i]) <= start[k]
        /\ \A p \in DOMAIN out : \E i \in DOMAIN s : \E j \in DOMAIN s[i] : p = start[i] + j
    BY <1>9, Zenon DEF Placed
  <2>2. DOMAIN s = 1 .. n
    BY <1>7
  <2>3. \A i \in 1 .. n : start[i] \in Nat
    BY <2>1, <2>2
  <2>4. \A p \in DOMAIN out : \E i \in 1 .. n : \E j \in DOMAIN s[i] : p = start[i] + j
    <3> TAKE p \in DOMAIN out
    <3>1. PICK i \in DOMAIN s : \E j \in DOMAIN s[i] : p = start[i] + j
      BY <2>1, Zenon
    <3>2. i \in 1 .. n
      BY <2>2
    <3> QED
      BY <3>1, <3>2, Zenon
  <2>5. /\ \A i \in 1 .. n : \A j \in DOMAIN s[i] :
             start[i] + j \in DOMAIN out /\ out[start[i] + j] = s[i][j]
        /\ \A i, k \in 1 .. n : i < k => start[i] + Len(s[i]) <= start[k]
    BY <2>1, <2>2, Zenon
  <2> QED
    BY <2>3, <2>4, <2>5
<1>11. \A i \in G :
         /\ i \in 1 .. n /\ Len(s[i]) = 2 /\ DOMAIN s[i] = 1 .. 2
         /\ s[i][c] \in W /\ s[i][3 - c] \notin W
  <2> TAKE i \in G
  <2>1. /\ i \in 1 .. n /\ i \in DOMAIN s /\ s[i] # <<>>
    BY <1>2, <1>7
  <2>2. Len(s[i]) = 2 /\ s[i][c] \in W /\ s[i][3 - c] \notin W
    BY <1>0, <2>1
  <2>3. DOMAIN s[i] = 1 .. 2
    BY <1>7, <2>1, <2>2
  <2> QED
    BY <2>1, <2>2, <2>3
<1>12. Q = {start[i] + c : i \in G}
  <2>1. ASSUME NEW i \in G PROVE start[i] + c \in Q
    BY <1>3, <1>10, <1>11
  <2>2. ASSUME NEW p \in Q PROVE \E i \in G : p = start[i] + c
    <3>1. p \in DOMAIN out /\ out[p] \in W
      BY <1>3
    <3>2. PICK i \in 1 .. n : \E j \in DOMAIN s[i] : p = start[i] + j
      BY <1>10, <3>1
    <3>3. PICK j \in DOMAIN s[i] : p = start[i] + j
      BY <3>2
    <3>4. out[p] = s[i][j]
      BY <1>10, <3>3
    <3>5. s[i] # <<>>
      BY <3>3
    <3>6. i \in G
      BY <1>2, <1>7, <3>5
    <3>7. j \in 1 .. 2 /\ j # 3 - c
      BY <1>11, <3>1, <3>4, <3>6
    <3>8. j = c
      BY <3>7
    <3> QED
      BY <3>3, <3>6, <3>8
  <2> QED
    BY <2>1, <2>2
<1>13. Lists(kept, G, n) /\ Lists(order, Q, Len(out))
  <2>1. G \in SUBSET (1 .. n) /\ Q \in SUBSET (1 .. Len(out))
    BY <1>2, <1>3, <1>7, <1>8
  <2> QED
    BY <1>4, <1>5, <1>7, <1>8, <2>1, AscendingLists
<1>14. /\ kept \in Seq(1 .. n) /\ Members(kept) = G /\ Rises(kept)
       /\ order \in Seq(1 .. Len(out)) /\ Members(order) = Q /\ Rises(order)
  <2>1. G \cap (1 .. n) = G /\ Q \cap (1 .. Len(out)) = Q
    BY <1>2, <1>3, <1>7, <1>8
  <2> QED
    BY <1>13, <2>1 DEF Lists, Members, Rises
<1>15. PICK places : places = [m \in DOMAIN kept |-> start[kept[m]] + c]
  OBVIOUS
<1>16. /\ DOMAIN kept = 1 .. Len(kept) /\ Len(kept) \in Nat
       /\ \A m \in DOMAIN kept : kept[m] \in G /\ kept[m] \in Nat
  <2>1. DOMAIN kept = 1 .. Len(kept) /\ Len(kept) \in Nat
    BY <1>14
  <2>2. \A m \in DOMAIN kept : kept[m] \in G
    BY <1>14 DEF Members
  <2>3. \A i \in G : i \in Nat
    BY <1>7, <1>11
  <2> QED
    BY <2>1, <2>2, <2>3
<1>17. places \in Seq(Nat)
  <2>1. \A m \in 1 .. Len(kept) : start[kept[m]] + c \in Nat
    BY <1>10, <1>11, <1>16
  <2>2. places \in [1 .. Len(kept) -> Nat]
    BY <1>15, <1>16, <2>1
  <2> QED
    BY <1>16, <2>2
<1>18. Rises(places)
  <2> SUFFICES ASSUME NEW i \in DOMAIN kept, NEW j \in DOMAIN kept, i < j
               PROVE  places[i] < places[j]
    BY <1>15 DEF Rises
  <2>1. kept[i] < kept[j] /\ kept[i] \in G /\ kept[j] \in G
    BY <1>14, <1>16 DEF Rises
  <2>2. /\ start[kept[i]] + 2 <= start[kept[j]]
        /\ start[kept[i]] \in Nat /\ start[kept[j]] \in Nat
    BY <1>10, <1>11, <2>1
  <2>3. places[i] = start[kept[i]] + c /\ places[j] = start[kept[j]] + c
    BY <1>15
  <2> QED
    BY <2>2, <2>3
<1>19. Members(places) = Q
  <2>1. DOMAIN places = DOMAIN kept
    BY <1>15
  <2>2. \A m \in DOMAIN kept : places[m] = start[kept[m]] + c
    BY <1>15
  <2>3. \A i \in G : \E m \in DOMAIN kept : kept[m] = i
    BY <1>14 DEF Members
  <2>4. \A p : p \in Members(places) <=> p \in Q
    BY <1>12, <1>16, <2>1, <2>2, <2>3 DEF Members
  <2> QED
    BY <2>4
<1>20. order \in Seq(Nat)
  BY <1>8, <1>14
<1>21. order = places
  BY <1>14, <1>17, <1>18, <1>19, <1>20, OneOrder
<1>22. AtPlaces(out, Q) = [m \in DOMAIN order |-> out[order[m]]]
  BY <1>5 DEF AtPlaces
<1>23. \A m \in DOMAIN kept : out[places[m]] = s[kept[m]][c]
  <2> TAKE m \in DOMAIN kept
  <2>1. kept[m] \in G /\ places[m] = start[kept[m]] + c
    BY <1>15, <1>16
  <2> QED
    BY <1>10, <1>11, <2>1
<1>24. AtPlaces(out, Q) = [m \in DOMAIN kept |-> s[kept[m]][c]]
  <2>1. DOMAIN order = DOMAIN kept
    BY <1>15, <1>21
  <2> QED
    BY <1>21, <1>22, <1>23, <2>1
<1> QED
  BY <1>1, <1>2, <1>3, <1>4, <1>24, Zenon DEF Kept, StandIn
=============================================================================
