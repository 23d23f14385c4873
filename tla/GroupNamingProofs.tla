------------------------- MODULE GroupNamingProofs -------------------------
(***************************************************************************)
(* The naming loop gives distinct components to any number of groups with  *)
(* any names and locations.                                                *)
(***************************************************************************)
EXTENDS GroupNaming, TLAPS

\* What has been given out is a sequence of different components.
NamingInv == /\ Len(components) \in Nat
             /\ components = [i \in 1 .. Len(components) |-> components[i]]
             /\ DistinctComponents

LEMMA NamingInit == Init => NamingInv
BY DEF Init, NamingInv, DistinctComponents

LEMMA NamingStep == NamingInv /\ [Next]_vars => NamingInv'
<1> SUFFICES ASSUME NamingInv, [Next]_vars PROVE NamingInv'
  OBVIOUS
<1>1. CASE components' = components
  BY <1>1 DEF NamingInv, DistinctComponents
<1>2. CASE Keep
  <2> DEFINE S == Used \cup {candidate}
             n == Len(components)
  <2>1. components \in Seq(S) /\ candidate \in S
    BY DEF NamingInv, Used
  <2>2. components' = Append(components, candidate)
    BY <1>2 DEF Keep
  <2>3. /\ components' \in Seq(S) /\ Len(components') = n + 1
        /\ components'[n + 1] = candidate
        /\ \A i \in 1 .. n : components'[i] = components[i]
    BY <2>1, <2>2
  <2>4. \A i \in 1 .. n : components'[i] # candidate
    BY <1>2, <2>1, <2>3 DEF Keep, Used
  <2>5. \A i, j \in 1 .. n + 1 : components'[i] = components'[j] => i = j
    <3>1. \A i, j \in 1 .. n : components[i] = components[j] => i = j
      BY <2>1 DEF NamingInv, DistinctComponents
    <3>2. \A i \in 1 .. n + 1 : i \in 1 .. n \/ i = n + 1
      BY DEF NamingInv
    <3> QED
      BY <2>3, <2>4, <3>1, <3>2
  <2>6. DOMAIN components' = 1 .. n + 1
    BY <2>3
  <2>7. components' = [i \in 1 .. Len(components') |-> components'[i]]
    BY <2>3
  <2> QED
    BY <2>3, <2>5, <2>6, <2>7 DEF NamingInv, DistinctComponents
<1> QED
  BY <1>1, <1>2 DEF Next, Start, TryNumber, vars

\* No two groups of a source are ever given the same component.
THEOREM ComponentsDistinct == Spec => []DistinctComponents
<1>1. NamingInv => DistinctComponents
  BY DEF NamingInv
<1> QED
  BY <1>1, NamingInit, NamingStep, PTL DEF Spec
=============================================================================
