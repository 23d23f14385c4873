---------------------------- MODULE PolicyProofs ----------------------------
(***************************************************************************)
(* What the checks of a repository say, for every repository and every set *)
(* of disabled detectors.  The checks run one after the other and see only *)
(* the tree, so the inductive invariant IInv says where they are and that  *)
(* each check before has said all it has to say: every theorem is then one *)
(* about the results of the checks, ResultOf.                              *)
(***************************************************************************)
EXTENDS PolicyChecks, FiniteSetTheorems, WellFoundedInduction, TLAPS

Checks == Evaluators \cup {"codeowners"}
ResultOf(check) ==
  IF check = "codeowners" THEN EvaluateCodeowners(Sources(tree, disabled), platform)
                          ELSE Evaluate(check, tree, disabled)
Steps == Checks \cup {"catalogs"}
Order == <<"catalogs">> \o CheckOrder

RunsBefore(n) ==
  UNION {{<<Order[i], r>> : r \in ResultOf(Order[i]).runs} : i \in 2 .. n - 1}
FindingsBefore(n) ==
  UNION {{<<Order[i], r>> : r \in ResultOf(Order[i]).findings} : i \in 2 .. n - 1}
\* After n - 1 steps the checks before the n-th have added all they have to
\* say, and nothing else has.
Progress(n) ==
  /\ remaining = SubSeq(Order, n, Len(Order))
  /\ resolutions = IF n = 1 THEN {} ELSE Resolutions(Sources(tree, disabled))
  /\ runs = RunsBefore(n) /\ findings = FindingsBefore(n)
IInv ==
  /\ IsRepository(tree) /\ platform \in {"auto", "github", "gitlab"}
  /\ \E n \in 1 .. Len(Order) + 1 : Progress(n)

LEMMA Concatenated ==
  ASSUME NEW S, NEW s \in Seq(S), NEW t \in Seq(S)
  PROVE  /\ s \o t \in Seq(S) /\ Len(s \o t) = Len(s) + Len(t)
         /\ \A i \in 1 .. Len(s) : (s \o t)[i] = s[i]
         /\ \A i \in 1 .. Len(t) : (s \o t)[Len(s) + i] = t[i]
OBVIOUS

LEMMA OrderOfChecks ==
  /\ Order \in Seq(Steps) /\ Len(Order) = 11 /\ Order[1] = "catalogs"
  /\ \A i \in 2 .. 11 : Order[i] \in Checks /\ Order[i] # "catalogs"
  /\ \A check \in Checks : \E i \in 2 .. 11 : Order[i] = check
  /\ \A i, j \in 1 .. 11 : Order[i] = Order[j] => i = j
<1> DEFINE first == <<"catalogs">>
           rest == CheckOrder
<1>1. first \in Seq(Steps)
  BY DEF Steps, Checks, Evaluators
<1>2. Len(first) = 1 /\ first[1] = "catalogs"
  OBVIOUS
<1>3. rest \in Seq(Steps)
  BY DEF CheckOrder, Steps, Checks, Evaluators
<1>4. /\ Len(rest) = 10
      /\ rest[1] = "codeowners" /\ rest[2] = "go" /\ rest[3] = "conflicting"
      /\ rest[4] = "npm" /\ rest[5] = "pnpm" /\ rest[6] = "yarn" /\ rest[7] = "composer"
      /\ rest[8] = "uv" /\ rest[9] = "gemfile" /\ rest[10] = "cargo"
  BY DEF CheckOrder
<1>5. Order = first \o rest
  BY DEF Order
<1> HIDE DEF first, rest
<1>6. /\ Order \in Seq(Steps) /\ Len(Order) = Len(first) + Len(rest)
      /\ \A i \in 1 .. Len(first) : Order[i] = first[i]
      /\ \A i \in 1 .. Len(rest) : Order[Len(first) + i] = rest[i]
  BY <1>1, <1>3, <1>5, Concatenated
<1>7. Len(Order) = 11 /\ Order[1] = "catalogs" /\ \A i \in 1 .. 10 : Order[1 + i] = rest[i]
  BY <1>4, <1>2, <1>6
<1>8. /\ Order[2] = "codeowners" /\ Order[3] = "go" /\ Order[4] = "conflicting"
      /\ Order[5] = "npm" /\ Order[6] = "pnpm" /\ Order[7] = "yarn"
      /\ Order[8] = "composer" /\ Order[9] = "uv" /\ Order[10] = "gemfile"
      /\ Order[11] = "cargo"
  BY <1>4, <1>7
<1>9. \A i \in 2 .. 11 : i \in {2, 3, 4, 5, 6, 7, 8, 9, 10, 11}
  OBVIOUS
<1> QED
  <2>1. \A i \in 2 .. 11 : Order[i] \in Checks /\ Order[i] # "catalogs"
    BY <1>8, <1>9 DEF Checks, Evaluators
  <2>2. \A check \in Checks : \E i \in 2 .. 11 : Order[i] = check
    BY <1>8 DEF Checks, Evaluators
  <2>3. \A i, j \in 1 .. 11 : Order[i] = Order[j] => i = j
    BY <1>7, <1>8, <1>9
  <2> QED
    BY <1>6, <1>7, <2>1, <2>2, <2>3

\* What is left after the next check.
LEMMA Rest ==
  ASSUME NEW S, NEW s \in Seq(S), NEW n \in 1 .. Len(s) + 1
  PROVE  LET rest == SubSeq(s, n, Len(s))
         IN  /\ rest = <<>> <=> n = Len(s) + 1
             /\ n \in 1 .. Len(s) => /\ Head(rest) = s[n]
                                     /\ Tail(rest) = SubSeq(s, n + 1, Len(s))
             /\ rest \in Seq(S)
             /\ \A i \in DOMAIN rest : \E j \in n .. Len(s) : rest[i] = s[j]
<1> DEFINE rest == SubSeq(s, n, Len(s))
<1>1. rest \in Seq(S)
  OBVIOUS
<1>2. Len(rest) = Len(s) + 1 - n
  OBVIOUS
<1>3. \A i \in 1 .. Len(rest) : rest[i] = s[n + i - 1]
  OBVIOUS
<1>4. ASSUME n \in 1 .. Len(s)
      PROVE  /\ Head(rest) = s[n] /\ Tail(rest) = SubSeq(s, n + 1, Len(s))
  <2>1. /\ Len(SubSeq(s, n + 1, Len(s))) = Len(s) - n
        /\ SubSeq(s, n + 1, Len(s)) \in Seq(S)
        /\ \A i \in 1 .. Len(s) - n : SubSeq(s, n + 1, Len(s))[i] = s[n + i]
    BY <1>4
  <2> DEFINE short == SubSeq(s, n + 1, Len(s))
  <2> HIDE DEF short, rest
  <2>2. /\ Tail(rest) \in Seq(S) /\ Len(Tail(rest)) = Len(s) - n
        /\ \A i \in 1 .. Len(s) - n : Tail(rest)[i] = s[n + i]
    BY <1>1, <1>2, <1>3, <1>4
  <2>3. Tail(rest) = short
    BY <2>1, <2>2 DEF short
  <2>4. Head(rest) = s[n]
    BY <1>1, <1>2, <1>3, <1>4
  <2> QED
    BY <2>3, <2>4 DEF short, rest
<1>5. rest = <<>> <=> n = Len(s) + 1
  <2> HIDE DEF rest
  <2> QED
    BY <1>1, <1>2
<1>6. \A i \in DOMAIN rest : \E j \in n .. Len(s) : rest[i] = s[j]
  <2> HIDE DEF rest
  <2>1. \A i \in DOMAIN rest : i \in 1 .. Len(rest) /\ n + i - 1 \in n .. Len(s)
    BY <1>1, <1>2
  <2> QED
    BY <1>3, <2>1
<1> QED
  BY <1>1, <1>4, <1>5, <1>6

LEMMA OneMore ==
  ASSUME NEW n \in Nat, n >= 2
  PROVE  /\ RunsBefore(n + 1)
              = RunsBefore(n) \cup {<<Order[n], r>> : r \in ResultOf(Order[n]).runs}
         /\ FindingsBefore(n + 1)
              = FindingsBefore(n) \cup {<<Order[n], r>> : r \in ResultOf(Order[n]).findings}
<1>1. 2 .. (n + 1) - 1 = (2 .. n - 1) \cup {n}
  OBVIOUS
<1> QED
  BY <1>1 DEF RunsBefore, FindingsBefore

LEMMA NothingYet ==
  /\ RunsBefore(1) = {} /\ FindingsBefore(1) = {} /\ RunsBefore(2) = {} /\ FindingsBefore(2) = {}
<1>1. 2 .. 1 - 1 = {} /\ 2 .. 2 - 1 = {}
  OBVIOUS
<1> QED
  BY <1>1 DEF RunsBefore, FindingsBefore

LEMMA SameResults ==
  ASSUME tree' = tree, disabled' = disabled, platform' = platform
  PROVE  \A n : RunsBefore(n)' = RunsBefore(n) /\ FindingsBefore(n)' = FindingsBefore(n)
<1>1. ASSUME NEW check PROVE ResultOf(check)' = ResultOf(check)
  BY DEF ResultOf, EvaluateCodeowners
<1> QED
  BY <1>1 DEF RunsBefore, FindingsBefore

LEMMA InitIInv == Init => IInv
<1> SUFFICES ASSUME Init PROVE IInv
  OBVIOUS
<1>1. PICK s \in Scans : tree = s.tree /\ disabled = s.disabled /\ platform = s.platform
  BY DEF Init
<1>2. IsRepository(tree) /\ platform \in {"auto", "github", "gitlab"}
  BY <1>1, ScansAssumption
<1>3. Order = SubSeq(Order, 1, Len(Order))
  BY OrderOfChecks
<1>4. Progress(1)
  BY <1>3, NothingYet DEF Progress, Init, Order
<1> QED
  BY <1>2, <1>4, OrderOfChecks DEF IInv

LEMMA CheckStep ==
  ASSUME NEW n \in 1 .. Len(Order) + 1, Progress(n), EvaluateCheck
  PROVE  n \in 2 .. Len(Order) /\ Progress(n + 1)'
<1> DEFINE check == Order[n]
<1>1. n \in 1 .. 11 /\ Head(remaining) = check /\ Tail(remaining) = SubSeq(Order, n + 1, Len(Order))
  BY OrderOfChecks, Rest DEF Progress, EvaluateCheck
<1>2. check \in Checks /\ n \in 2 .. 11
  BY <1>1, OrderOfChecks DEF EvaluateCheck, Checks, Evaluators
<1>3. /\ runs' = runs \cup {<<check, r>> : r \in ResultOf(check).runs}
      /\ findings' = findings \cup {<<check, r>> : r \in ResultOf(check).findings}
      /\ remaining' = SubSeq(Order, n + 1, Len(Order))
      /\ UNCHANGED <<tree, disabled, platform, resolutions>>
  BY <1>1 DEF EvaluateCheck, ResultOf, NextChecks
<1>4. n \in Nat /\ n >= 2
  BY <1>2
<1>5. /\ RunsBefore(n + 1) = RunsBefore(n) \cup {<<check, r>> : r \in ResultOf(check).runs}
      /\ FindingsBefore(n + 1)
           = FindingsBefore(n) \cup {<<check, r>> : r \in ResultOf(check).findings}
  BY <1>4, OneMore
<1>6. RunsBefore(n + 1)' = RunsBefore(n + 1) /\ FindingsBefore(n + 1)' = FindingsBefore(n + 1)
  BY <1>3, SameResults
<1>7. resolutions' = Resolutions(Sources(tree, disabled))' /\ n + 1 # 1
  BY <1>2, <1>3 DEF Progress
<1>8. runs' = RunsBefore(n + 1)' /\ findings' = FindingsBefore(n + 1)'
  BY <1>3, <1>5, <1>6 DEF Progress
<1> QED
  BY <1>2, <1>3, <1>7, <1>8, OrderOfChecks DEF Progress

LEMMA NextIInv == IInv /\ [Next]_vars => IInv'
<1> SUFFICES ASSUME IInv, [Next]_vars PROVE IInv'
  OBVIOUS
<1>1. PICK n \in 1 .. Len(Order) + 1 : Progress(n)
  BY DEF IInv
<1>2. CASE UNCHANGED vars
  BY <1>1, <1>2, SameResults DEF vars, IInv, Progress
<1>3. CASE ResolveCatalogs
  <2>1. n \in 1 .. Len(Order) /\ Order[n] = "catalogs" /\ remaining' = SubSeq(Order, n + 1, Len(Order))
    <3>1. remaining = SubSeq(Order, n, Len(Order)) /\ remaining # <<>>
      BY <1>1, <1>3 DEF Progress, ResolveCatalogs
    <3>2. n \in 1 .. Len(Order)
      BY <3>1, OrderOfChecks, Rest
    <3>3. Order \in Seq(Steps)
      BY OrderOfChecks
    <3>4. Head(remaining) = Order[n] /\ Tail(remaining) = SubSeq(Order, n + 1, Len(Order))
      BY <3>1, <3>2, <3>3, Rest
    <3> QED
      BY <1>3, <3>2, <3>4 DEF ResolveCatalogs
  <2>2. n = 1
    <3>1. ~ n \in 2 .. 11
      BY <2>1, OrderOfChecks
    <3> QED
      BY <2>1, <3>1, OrderOfChecks
  <2>3. RunsBefore(2)' = {} /\ FindingsBefore(2)' = {} /\ runs' = {} /\ findings' = {}
    <3>1. RunsBefore(2)' = RunsBefore(2) /\ FindingsBefore(2)' = FindingsBefore(2)
      BY <1>3, SameResults DEF ResolveCatalogs
    <3>2. runs' = RunsBefore(1) /\ findings' = FindingsBefore(1)
      BY <1>1, <1>3, <2>2 DEF Progress, ResolveCatalogs
    <3> QED
      BY <3>1, <3>2, NothingYet
  <2>4. resolutions' = Resolutions(Sources(tree, disabled))'
    BY <1>3 DEF ResolveCatalogs
  <2>5. Progress(2)'
    BY <2>1, <2>2, <2>3, <2>4 DEF Progress
  <2>6. 2 \in 1 .. Len(Order) + 1
    BY OrderOfChecks
  <2>7. tree' = tree /\ platform' = platform
    BY <1>3 DEF ResolveCatalogs
  <2> QED
    BY <2>5, <2>6, <2>7 DEF IInv
<1>4. CASE EvaluateCheck
  BY <1>1, <1>4, CheckStep, OrderOfChecks DEF IInv, EvaluateCheck
<1> QED
  BY <1>2, <1>3, <1>4 DEF Next

\* After each step of evaluateChecks the checks so far have said all they have
\* to say of the tree, and the others nothing.
THEOREM Invariance == Spec => []IInv
BY InitIInv, NextIInv, PTL DEF Spec

-----------------------------------------------------------------------------
(* What a check may say, and when.                                         *)

\* Everything there is was said by a check whose turn has come, and a check says
\* all it has to say at once.
LEMMA Said ==
  ASSUME IInv
  PROVE  /\ \A p \in runs : /\ p = <<p[1], p[2]>> /\ p[1] \in Checks
                            /\ p[2] \in ResultOf(p[1]).runs
                            /\ \A i \in DOMAIN remaining : remaining[i] # p[1]
         /\ \A p \in findings : /\ p = <<p[1], p[2]>> /\ p[1] \in Checks
                                /\ p[2] \in ResultOf(p[1]).findings
                                /\ \A r \in ResultOf(p[1]).runs : <<p[1], r>> \in runs
         /\ resolutions \subseteq Resolutions(Sources(tree, disabled))
<1>1. PICK n \in 1 .. Len(Order) + 1 : Progress(n)
  BY DEF IInv
<1>2. ASSUME NEW i \in 2 .. n - 1
      PROVE  Order[i] \in Checks /\ \A j \in DOMAIN remaining : remaining[j] # Order[i]
  <2>1. i \in 2 .. 11 /\ i \in 1 .. 11
    BY OrderOfChecks
  <2>2. Order[i] \in Checks
    BY <2>1, OrderOfChecks
  <2>3. \A j \in DOMAIN remaining : \E k \in n .. Len(Order) : remaining[j] = Order[k]
    <3>1. Order \in Seq(Steps)
      BY OrderOfChecks
    <3> QED
      BY <1>1, <3>1, Rest DEF Progress
  <2>4. \A k \in n .. Len(Order) : k \in 1 .. 11 /\ k # i
    BY OrderOfChecks
  <2>5. \A k \in n .. Len(Order) : Order[k] # Order[i]
    BY <2>1, <2>4, OrderOfChecks
  <2> QED
    BY <2>2, <2>3, <2>5
<1>3. ASSUME NEW p \in runs
      PROVE  /\ p = <<p[1], p[2]>> /\ p[1] \in Checks /\ p[2] \in ResultOf(p[1]).runs
             /\ \A i \in DOMAIN remaining : remaining[i] # p[1]
  <2>1. PICK i \in 2 .. n - 1 : \E r \in ResultOf(Order[i]).runs : p = <<Order[i], r>>
    BY <1>1 DEF Progress, RunsBefore
  <2> QED
    BY <1>2, <2>1
<1>4. ASSUME NEW p \in findings
      PROVE  /\ p = <<p[1], p[2]>> /\ p[1] \in Checks /\ p[2] \in ResultOf(p[1]).findings
             /\ \A r \in ResultOf(p[1]).runs : <<p[1], r>> \in runs
  <2>1. PICK i \in 2 .. n - 1 : \E r \in ResultOf(Order[i]).findings : p = <<Order[i], r>>
    BY <1>1 DEF Progress, FindingsBefore
  <2>2. p[1] = Order[i] /\ p = <<p[1], p[2]>> /\ p[2] \in ResultOf(p[1]).findings
    BY <2>1
  <2>3. \A r \in ResultOf(Order[i]).runs : <<Order[i], r>> \in runs
    BY <1>1 DEF Progress, RunsBefore
  <2> QED
    BY <1>2, <2>2, <2>3
<1>5. resolutions \subseteq Resolutions(Sources(tree, disabled))
  BY <1>1 DEF Progress
<1> QED
  BY <1>3, <1>4, <1>5

\* At the end every check has said it.
LEMMA AllSaid ==
  ASSUME IInv, Done
  PROVE  /\ \A check \in Checks :
              /\ \A r \in ResultOf(check).runs : <<check, r>> \in runs
              /\ \A r \in ResultOf(check).findings : <<check, r>> \in findings
         /\ resolutions = Resolutions(Sources(tree, disabled))
<1>1. PICK n \in 1 .. Len(Order) + 1 : Progress(n)
  BY DEF IInv
<1>2. n = 12
  <2>1. Order \in Seq(Steps) /\ Len(Order) = 11
    BY OrderOfChecks
  <2>2. SubSeq(Order, n, Len(Order)) = <<>>
    BY <1>1 DEF Progress, Done
  <2>3. n = Len(Order) + 1
    BY <2>1, <2>2, Rest
  <2> QED
    BY <2>1, <2>3
<1>3. ASSUME NEW check \in Checks
      PROVE  /\ \A r \in ResultOf(check).runs : <<check, r>> \in runs
             /\ \A r \in ResultOf(check).findings : <<check, r>> \in findings
  <2>1. PICK i \in 2 .. 11 : Order[i] = check
    BY OrderOfChecks
  <2>2. i \in 2 .. n - 1
    BY <1>2
  <2> QED
    BY <1>1, <2>1, <2>2 DEF Progress, RunsBefore, FindingsBefore
<1>4. resolutions = Resolutions(Sources(tree, disabled))
  BY <1>1, <1>2 DEF Progress
<1> QED
  BY <1>3, <1>4

LEMMA EvaluatorsAreChecks ==
  /\ Evaluators \subseteq Checks /\ "codeowners" \in Checks
  /\ \A check \in Evaluators : ResultOf(check) = Evaluate(check, tree, disabled)
  /\ ResultOf("codeowners") = EvaluateCodeowners(Sources(tree, disabled), platform)
BY DEF Checks, Evaluators, ResultOf

-----------------------------------------------------------------------------
(* Paths and owners.                                                       *)

LEMMA Smallest ==
  ASSUME NEW S \in SUBSET Nat, S # {}
  PROVE  \E i \in S : \A j \in S : i <= j
<1>1. PICK i \in S : \A j \in S : ~ (<<j, i>> \in OpToRel(<, Nat))
  BY NatLessThanWellFounded, WFMin
<1>2. \A j \in S : ~ (j < i)
  BY <1>1 DEF OpToRel
<1> QED
  BY <1>2

LEMMA Largest ==
  ASSUME NEW S \in SUBSET Nat, S # {}, NEW bound \in Nat, \A i \in S : i <= bound
  PROVE  \E i \in S : \A j \in S : j <= i
<1> DEFINE T == {bound - i : i \in S}
<1>1. T \in SUBSET Nat /\ T # {}
  <2>1. \A i \in S : bound - i \in Nat
    OBVIOUS
  <2> QED
    BY <2>1
<1>2. PICK k \in T : \A l \in T : k <= l
  BY <1>1, Smallest
<1>3. PICK i \in S : k = bound - i
  BY <1>2
<1>4. \A j \in S : bound - i <= bound - j
  BY <1>2, <1>3
<1> QED
  BY <1>4

LEMMA AbovePath ==
  ASSUME NEW T, NEW path \in Seq(T)
  PROVE  /\ path \in Upwards(path) /\ <<>> \in Upwards(path)
         /\ \A n \in 0 .. Len(path) : /\ SubSeq(path, 1, n) \in Seq(T)
                                      /\ Len(SubSeq(path, 1, n)) = n
         /\ \A above \in Seq(T) : IsAncestorRoot(above, path) =>
              /\ Len(above) \in 0 .. Len(path) - 1
              /\ above = SubSeq(path, 1, Len(above)) /\ above \in Upwards(path)
         /\ \A n \in 0 .. Len(path) - 1 : IsAncestorRoot(SubSeq(path, 1, n), path)
<1>1. path = SubSeq(path, 1, Len(path)) /\ <<>> = SubSeq(path, 1, 0)
  OBVIOUS
<1>2. \A n \in 0 .. Len(path) : SubSeq(path, 1, n) \in Seq(T) /\ Len(SubSeq(path, 1, n)) = n
  OBVIOUS
<1>3. Len(path) \in Nat /\ \A above \in Seq(T) : Len(above) \in Nat
  OBVIOUS
<1>4. Len(path) \in 0 .. Len(path) /\ 0 \in 0 .. Len(path)
  BY <1>3
<1>5. path \in Upwards(path) /\ <<>> \in Upwards(path)
  BY <1>1, <1>4 DEF Upwards
<1>6. ASSUME NEW above \in Seq(T), IsAncestorRoot(above, path)
      PROVE  /\ Len(above) \in 0 .. Len(path) - 1
             /\ above = SubSeq(path, 1, Len(above)) /\ above \in Upwards(path)
  <2>1. Len(above) \in 0 .. Len(path) - 1 /\ Len(above) \in 0 .. Len(path)
    BY <1>3, <1>6 DEF IsAncestorRoot
  <2>2. above = SubSeq(path, 1, Len(above))
    BY <1>6 DEF IsAncestorRoot
  <2> QED
    BY <2>1, <2>2 DEF Upwards
<1>7. ASSUME NEW n \in 0 .. Len(path) - 1
      PROVE  IsAncestorRoot(SubSeq(path, 1, n), path)
  <2>1. Len(SubSeq(path, 1, n)) = n /\ n < Len(path)
    BY <1>2, <1>3
  <2> QED
    BY <2>1 DEF IsAncestorRoot
<1> QED
  BY <1>2, <1>5, <1>6, <1>7

\* The workspaces that count a project as a member, and the innermost of them.
Claims(w, project) ==
  /\ IsAncestorRoot(w.root, project)
  /\ WorkspaceMatches(Relative(w.root, project), w.patterns)

LEMMA InnermostOwner ==
  ASSUME NEW project \in Seq(STRING), NEW spaces, \A w \in spaces : w.root \in Seq(STRING)
  PROVE  LET owner == WorkspaceOwner(project, spaces)
         IN  /\ owner \in Upwards(project) /\ owner \in Seq(STRING)
             /\ \A w \in spaces : Claims(w, project) =>
                  \E v \in spaces : v.root = owner /\ Claims(v, project)
             /\ (~ \E w \in spaces : Claims(w, project)) => owner = project
             /\ \A w \in spaces : Claims(w, project) => Len(w.root) <= Len(owner)
<1> DEFINE owner == WorkspaceOwner(project, spaces)
           owners == {w.root : w \in {v \in spaces : Claims(v, project)}}
<1>1. owner = IF owners = {} THEN project ELSE Longest(owners)
  BY DEF WorkspaceOwner, Claims
<1>2. \A r \in owners : /\ r \in Seq(STRING) /\ Len(r) \in Nat /\ Len(r) <= Len(project)
                        /\ r \in Upwards(project)
  BY AbovePath DEF Claims
<1>3. CASE owners = {}
  BY <1>1, <1>3, AbovePath
<1>4. CASE owners # {}
  <2> DEFINE lengths == {Len(r) : r \in owners}
  <2>1. lengths \in SUBSET Nat /\ lengths # {} /\ \A n \in lengths : n <= Len(project)
    BY <1>2, <1>4
  <2>2. Len(project) \in Nat
    OBVIOUS
  <2>3. PICK n \in lengths : \A k \in lengths : k <= n
    <3> HIDE DEF lengths
    <3> QED
      BY <2>1, <2>2, Largest
  <2>4. \E r \in owners : \A s \in owners : Len(s) <= Len(r)
    BY <2>3
  <2>5. owner \in owners /\ \A s \in owners : Len(s) <= Len(owner)
    <3> HIDE DEF owners, owner
    <3> QED
      BY <1>1, <1>4, <2>4 DEF Longest
  <2>6. PICK v \in spaces : v.root = owner /\ Claims(v, project)
    BY <2>5
  <2> QED
    BY <1>2, <2>5, <2>6
<1> QED
  BY <1>3, <1>4

-----------------------------------------------------------------------------
(* Every run is of a project there is.                                     *)

Known(t) == UNION {Upwards(f.root) : f \in t}

LEMMA FilesKnown ==
  ASSUME NEW t, IsRepository(t), NEW f \in t
  PROVE  f.root \in Seq(STRING) /\ f.root \in Known(t) /\ Upwards(f.root) \subseteq Known(t)
<1>1. f.root \in Seq(STRING)
  BY DEF IsRepository, WellFormed
<1>2. f.root \in Upwards(f.root)
  BY <1>1, AbovePath
<1> QED
  BY <1>1, <1>2 DEF Known

\* An owner lies above what it owns.
LEMMA OwnersKnown ==
  ASSUME NEW t, IsRepository(t), NEW some, some \subseteq t, NEW f \in t
  PROVE  /\ WorkspaceOwner(f.root, JavaScriptSpaces(some)) \in Upwards(f.root)
         /\ WorkspaceOwner(f.root, ManifestSpaces(UV(t), "uv")) \in Upwards(f.root)
         /\ WorkspaceOwner(f.root, ManifestSpaces(Cargo(some), "cargo")) \in Upwards(f.root)
<1>1. \A g \in t : g.root \in Seq(STRING)
  BY FilesKnown
<1>2. \A w \in JavaScriptSpaces(some) : w.root \in Seq(STRING)
  BY <1>1 DEF JavaScriptSpaces, JavaScript, Read, Of, Workspace
<1>3. \A w \in ManifestSpaces(UV(t), "uv") : w.root \in Seq(STRING)
  BY <1>1 DEF ManifestSpaces, UV, Read, Of, Workspace
<1>4. \A w \in ManifestSpaces(Cargo(some), "cargo") : w.root \in Seq(STRING)
  BY <1>1 DEF ManifestSpaces, Cargo, Read, Of, Workspace
<1> QED
  BY <1>1, <1>2, <1>3, <1>4, InnermostOwner

LEMMA SourcesAreFiles ==
  ASSUME NEW t, NEW d
  PROVE  /\ Sources(t, d) \subseteq t
         /\ ParseErrors(t, Sources(t, d)) \subseteq t
BY DEF Sources, ParseErrors, Of

\* What a check may return: runs at known places, and findings only where it
\* has completed.
Placed(r, roots) == r.root \in roots \cup {<<>>} /\ r.status \in Statuses
Sound(result, roots) ==
  /\ \A r \in result.runs : Placed(r, roots)
  /\ \A root \in result.findings : Completed(root) \in result.runs

LEMMA PlacedRuns ==
  ASSUME NEW t, IsRepository(t), NEW errors, errors \subseteq t
  PROVE  /\ \A detector : \A r \in FailedRuns(errors, detector) : Placed(r, Known(t))
         /\ \A root \in Known(t) \cup {<<>>} :
              /\ Placed(Completed(root), Known(t))
              /\ \A reason : Placed(Skipped(root, reason), Known(t))
<1>1. \A f \in t : f.root \in Known(t)
  BY FilesKnown
<1>2. \A f \in t : Placed(Failed(f), Known(t))
  BY <1>1 DEF Placed, Failed, Statuses
<1>3. ASSUME NEW root \in Known(t) \cup {<<>>}, NEW reason
      PROVE  Placed(Completed(root), Known(t)) /\ Placed(Skipped(root, reason), Known(t))
  BY DEF Placed, Completed, Skipped, Statuses
<1>4. \A detector : \A r \in FailedRuns(errors, detector) : \E f \in t : r = Failed(f)
  BY DEF FailedRuns, Of
<1> QED
  BY <1>2, <1>3, <1>4

LEMMA ProjectRoots ==
  ASSUME NEW t, IsRepository(t), NEW some, some \subseteq t, NEW root \in DOMAIN Projects(some)
  PROVE  /\ root \in Known(t)
         /\ Projects(some)[root] = {f \in JavaScript(some) :
                                      WorkspaceOwner(f.root, JavaScriptSpaces(some)) = root}
<1> DEFINE owner == [f \in JavaScript(some) |-> WorkspaceOwner(f.root, JavaScriptSpaces(some))]
<1>1. Projects(some) = [r \in {owner[f] : f \in DOMAIN owner} |-> {f \in DOMAIN owner : owner[f] = r}]
  BY DEF Projects
<1>2. PICK f \in JavaScript(some) : root = WorkspaceOwner(f.root, JavaScriptSpaces(some))
  BY <1>1
<1>3. f \in t
  BY DEF JavaScript, Read, Of
<1>4. root \in Known(t)
  BY <1>2, <1>3, OwnersKnown, FilesKnown
<1> QED
  BY <1>1, <1>4

LEMMA SoundJavaScript ==
  ASSUME NEW t, IsRepository(t), NEW some, some \subseteq t, NEW errors, errors \subseteq t,
         NEW m \in Managers
  PROVE  Sound(JavaScriptLockfile(errors, some, m), Known(t))
<1> DEFINE result == JavaScriptLockfile(errors, some, m)
<1>1. \A r \in result.runs :
        \/ \E detector : r \in FailedRuns(errors, detector)
        \/ \E root \in DOMAIN Projects(some) :
             r = Completed(root) \/ r = Skipped(root, "ambiguous-package-manager")
  BY DEF JavaScriptLockfile, Result
<1>2. \A root \in result.findings : Completed(root) \in result.runs
  BY DEF JavaScriptLockfile, Result
<1> HIDE DEF result
<1>3. Sound(result, Known(t))
  BY <1>1, <1>2, PlacedRuns, ProjectRoots DEF Sound
<1> QED
  BY <1>3 DEF result

LEMMA SoundConflicts ==
  ASSUME NEW t, IsRepository(t), NEW some, some \subseteq t, NEW errors, errors \subseteq t
  PROVE  Sound(ConflictingLockfiles(errors, some), Known(t))
<1> DEFINE result == ConflictingLockfiles(errors, some)
<1>1. \A r \in result.runs :
        \/ \E detector : r \in FailedRuns(errors, detector)
        \/ \E root \in DOMAIN Projects(some) : r = Completed(root)
  BY DEF ConflictingLockfiles, Result
<1>2. \A root \in result.findings : Completed(root) \in result.runs
  BY DEF ConflictingLockfiles, Result
<1> HIDE DEF result
<1>3. Sound(result, Known(t))
  BY <1>1, <1>2, PlacedRuns, ProjectRoots DEF Sound
<1> QED
  BY <1>3 DEF result

LEMMA SoundUV ==
  ASSUME NEW t, IsRepository(t), NEW some, some \subseteq t, NEW errors, errors \subseteq t
  PROVE  Sound(UVLockfile(errors, t, some), Known(t))
<1> DEFINE result == UVLockfile(errors, t, some)
<1>1. \A r \in result.runs :
        \/ \E detector : r \in FailedRuns(errors, detector)
        \/ \E f \in UV(t) : r = Completed(WorkspaceOwner(f.root, ManifestSpaces(UV(t), "uv")))
  BY DEF UVLockfile, Result
<1>2. \A root \in result.findings : Completed(root) \in result.runs
  BY DEF UVLockfile, Result
<1>3. \A f \in UV(t) : WorkspaceOwner(f.root, ManifestSpaces(UV(t), "uv")) \in Known(t)
  <2>1. UV(t) \subseteq t
    BY DEF UV, Read, Of
  <2> QED
    BY <2>1, OwnersKnown, FilesKnown
<1> HIDE DEF result
<1>4. Sound(result, Known(t))
  BY <1>1, <1>2, <1>3, PlacedRuns DEF Sound
<1> QED
  BY <1>4 DEF result

LEMMA SoundCargo ==
  ASSUME NEW t, IsRepository(t), NEW some, some \subseteq t, NEW errors, errors \subseteq t
  PROVE  Sound(CargoLockfile(errors, t, some), Known(t))
<1> DEFINE result == CargoLockfile(errors, t, some)
           owner(f) == WorkspaceOwner(f.root, ManifestSpaces(Cargo(some), "cargo"))
<1>1. \A r \in result.runs :
        \/ \E detector : r \in FailedRuns(errors, detector)
        \/ \E f \in Cargo(some) : \/ r = Completed(owner(f))
                                  \/ r = Skipped(f.root, "project-role-unknown")
  BY DEF CargoLockfile, CargoOwner, Result
<1>2. \A root \in result.findings : Completed(root) \in result.runs
  BY DEF CargoLockfile, Result
<1>3. \A f \in Cargo(some) : f.root \in Known(t) /\ owner(f) \in Known(t)
  <2>1. Cargo(some) \subseteq t
    BY DEF Cargo, Read, Of
  <2> QED
    BY <2>1, OwnersKnown, FilesKnown
<1> HIDE DEF result, owner
<1>4. Sound(result, Known(t))
  BY <1>1, <1>2, <1>3, PlacedRuns DEF Sound
<1> QED
  BY <1>4 DEF result

LEMMA SoundBeside ==
  ASSUME NEW t, IsRepository(t), NEW some, some \subseteq t, NEW errors, errors \subseteq t
  PROVE  /\ Sound(GoSum(errors, some), Known(t))
         /\ Sound(ComposerLockfile(errors, some), Known(t))
         /\ Sound(GemfileLockfile(some), Known(t))
<1>1. \A detector : Read(some, detector) \subseteq t
  BY DEF Read, Of
<1>2. ASSUME NEW skipped, NEW judged, judged \subseteq t, NEW lockfile,
             \A r \in skipped : Placed(r, Known(t))
      PROVE  Sound(LockfileBeside(skipped, judged, some, lockfile), Known(t))
  <2> DEFINE result == LockfileBeside(skipped, judged, some, lockfile)
  <2>1. \A r \in result.runs : r \in skipped \/ \E f \in judged : r = Completed(f.root)
    BY DEF LockfileBeside, Result
  <2>2. \A root \in result.findings : Completed(root) \in result.runs
    BY DEF LockfileBeside, Result
  <2>3. \A f \in judged : f.root \in Known(t)
    BY <1>2, FilesKnown
  <2> HIDE DEF result
  <2>4. Sound(result, Known(t))
    BY <1>2, <2>1, <2>2, <2>3, PlacedRuns DEF Sound
  <2> QED
    BY <2>4 DEF result
<1>3. Sound(GoSum(errors, some), Known(t))
  <2> DEFINE modules == {f \in Read(some, "go-mod") : Facts(f).requirements # {}}
             judged == {f \in modules : "external" \in Facts(f).requirements}
             skipped == FailedRuns(errors, "go-mod") \cup
                          {Skipped(f.root, "local-dependencies-only") : f \in modules \ judged}
  <2>1. \A r \in skipped : Placed(r, Known(t))
    BY <1>1, PlacedRuns, FilesKnown
  <2>2. judged \subseteq t
    BY <1>1
  <2>3. GoSum(errors, some) = LockfileBeside(skipped, judged, some, "go.sum")
    BY DEF GoSum
  <2> HIDE DEF judged, skipped
  <2> QED
    BY <1>2, <2>1, <2>2, <2>3
<1>4. Sound(ComposerLockfile(errors, some), Known(t))
  <2> DEFINE manifests == {f \in Read(some, "php-composer") : Facts(f).deps}
             judged == {f \in manifests : ~ Facts(f).lockDisabled /\ Facts(f).type = "project"}
             skipped == FailedRuns(errors, "php-composer") \cup
                          {Skipped(f.root, NotLocked(f)) : f \in manifests \ judged}
  <2>1. \A r \in skipped : Placed(r, Known(t))
    BY <1>1, PlacedRuns, FilesKnown
  <2>2. judged \subseteq t
    BY <1>1
  <2>3. ComposerLockfile(errors, some) = LockfileBeside(skipped, judged, some, "composer.lock")
    BY DEF ComposerLockfile
  <2> HIDE DEF judged, skipped
  <2> QED
    BY <1>2, <2>1, <2>2, <2>3
<1>5. Sound(GemfileLockfile(some), Known(t))
  <2> DEFINE gemfiles == {f \in Read(some, "ruby-gemfile") : Facts(f).deps}
             judged == {f \in gemfiles : ~ Facts(f).gemspec}
             skipped == {Skipped(f.root, "not-application") : f \in gemfiles \ judged}
  <2>1. \A r \in skipped : Placed(r, Known(t))
    BY <1>1, PlacedRuns, FilesKnown
  <2>2. judged \subseteq t
    BY <1>1
  <2>3. GemfileLockfile(some) = LockfileBeside(skipped, judged, some, "Gemfile.lock")
    BY DEF GemfileLockfile
  <2> HIDE DEF judged, skipped
  <2> QED
    BY <1>2, <2>1, <2>2, <2>3
<1> QED
  BY <1>3, <1>4, <1>5

\* Where the runs of a skipped check are.
LEMMA SoundDisabled ==
  ASSUME NEW t, IsRepository(t), NEW some, some \subseteq t, ParseErrors(t, some) \subseteq t,
         NEW check \in Evaluators
  PROVE  Sound(Result(DisabledRuns(check, t, some), {}), Known(t))
<1> DEFINE roots == KnownRoots(check, t, some)
<1>1. \A f \in t : f.root \in Known(t)
  BY FilesKnown
<1>2. \A f \in JavaScript(some) \cup JavaScriptSpaces(some) : f.root \in Known(t)
  BY <1>1 DEF JavaScriptSpaces, JavaScript, Read, Of, Workspace
<1>3. ReadRoots(check, t, some) \subseteq Known(t)
  BY <1>1, <1>2 DEF ReadRoots, UV, Cargo, Read, Of, Evaluators
<1>4. roots \subseteq Known(t) \cup {<<>>}
  BY <1>1, <1>3 DEF KnownRoots, OrTop
<1> HIDE DEF roots
<1>5. \A r \in DisabledRuns(check, t, some) : \E root \in roots : r = Skipped(root, "detector-disabled")
  BY DEF DisabledRuns, roots
<1>6. \A r \in DisabledRuns(check, t, some) : Placed(r, Known(t))
  BY <1>4, <1>5, PlacedRuns
<1> QED
  BY <1>6 DEF Sound, Result

LEMMA SoundChecks ==
  ASSUME NEW t, IsRepository(t), NEW d, NEW check \in Evaluators
  PROVE  Sound(Evaluate(check, t, d), Known(t))
<1> DEFINE some == Sources(t, d)
           errors == ParseErrors(t, some)
<1>1. some \subseteq t /\ errors \subseteq t
  BY SourcesAreFiles
<1> HIDE DEF some
<1>2. CASE Prerequisites(check) \cap d # {}
  BY <1>1, <1>2, SoundDisabled DEF Evaluate, some
<1>3. CASE Prerequisites(check) \cap d = {}
  <2>1. CASE check \in Managers
    <3>1. Evaluate(check, t, d) = JavaScriptLockfile(errors, some, check)
      BY <1>3, <2>1 DEF Evaluate, Managers, some
    <3> QED
      BY <1>1, <2>1, <3>1, SoundJavaScript
  <2>2. CASE check = "conflicting"
    <3>1. Evaluate(check, t, d) = ConflictingLockfiles(errors, some)
      BY <1>3, <2>2 DEF Evaluate, some
    <3> QED
      BY <1>1, <3>1, SoundConflicts
  <2>3. CASE check = "uv"
    <3>1. Evaluate(check, t, d) = UVLockfile(errors, t, some)
      BY <1>3, <2>3 DEF Evaluate, some
    <3> QED
      BY <1>1, <3>1, SoundUV
  <2>4. CASE check = "cargo"
    <3>1. Evaluate(check, t, d) = CargoLockfile(errors, t, some)
      BY <1>3, <2>4 DEF Evaluate, some
    <3> QED
      BY <1>1, <3>1, SoundCargo
  <2>5. CASE check = "go"
    <3>1. Evaluate(check, t, d) = GoSum(errors, some)
      BY <1>3, <2>5 DEF Evaluate, some
    <3> QED
      BY <1>1, <3>1, SoundBeside
  <2>6. CASE check = "composer"
    <3>1. Evaluate(check, t, d) = ComposerLockfile(errors, some)
      BY <1>3, <2>6 DEF Evaluate, some
    <3> QED
      BY <1>1, <3>1, SoundBeside
  <2>7. CASE check = "gemfile"
    <3>1. Evaluate(check, t, d) = GemfileLockfile(some)
      BY <1>3, <2>7 DEF Evaluate, some
    <3> QED
      BY <1>1, <3>1, SoundBeside
  <2> QED
    BY <2>1, <2>2, <2>3, <2>4, <2>5, <2>6, <2>7 DEF Evaluators, Managers
<1> QED
  BY <1>2, <1>3

LEMMA SoundCodeowners ==
  LET result == EvaluateCodeowners(Sources(tree, disabled), platform)
  IN  /\ \A r \in result.runs : Placed(r, {})
      /\ result.findings # {} => Completed(<<>>) \in result.runs
<1> DEFINE result == EvaluateCodeowners(Sources(tree, disabled), platform)
<1>1. Placed(Skipped(<<>>, "detector-disabled"), {})
  BY DEF Placed, Skipped, Statuses
<1>2. Placed(OwnersRun("completed"), {}) /\ Placed(OwnersRun("failed"), {})
  BY DEF Placed, OwnersRun, Statuses
<1>3. OwnersRun("completed") = Completed(<<>>)
  BY DEF OwnersRun, Completed
<1>4. \/ result.runs = {Skipped(<<>>, "detector-disabled")} /\ result.findings = {}
      \/ result.runs = {OwnersRun("failed")} /\ result.findings = {}
      \/ result.runs = {OwnersRun("completed")}
  BY DEF EvaluateCodeowners, CodeownersCheck, Result
<1> HIDE DEF result
<1>5. /\ \A r \in result.runs : Placed(r, {})
      /\ result.findings # {} => Completed(<<>>) \in result.runs
  BY <1>1, <1>2, <1>3, <1>4
<1> QED
  BY <1>5 DEF result

LEMMA RunTypes ==
  ASSUME IInv, NEW p \in runs
  PROVE  /\ p[1] \in Evaluators \cup {"codeowners"}
         /\ p[2].root \in Roots \cup {<<>>} /\ p[2].status \in Statuses
         /\ \A i \in DOMAIN remaining : remaining[i] # p[1]
<1>1. /\ p[1] \in Checks /\ p[2] \in ResultOf(p[1]).runs
      /\ \A i \in DOMAIN remaining : remaining[i] # p[1]
  BY Said
<1>2. Roots = Known(tree) /\ IsRepository(tree)
  BY DEF Roots, Known, IInv
<1>3. Placed(p[2], Known(tree))
  <2>1. CASE p[1] \in Evaluators
    <3>1. p[2] \in Evaluate(p[1], tree, disabled).runs
      BY <1>1, <2>1, EvaluatorsAreChecks
    <3> QED
      BY <1>2, <2>1, <3>1, SoundChecks DEF Sound
  <2>2. CASE p[1] = "codeowners"
    <3>1. p[2] \in EvaluateCodeowners(Sources(tree, disabled), platform).runs
      BY <1>1, <2>2, EvaluatorsAreChecks
    <3>2. Placed(p[2], {})
      BY <3>1, SoundCodeowners
    <3> QED
      BY <3>2 DEF Placed
  <2> QED
    BY <1>1, <2>1, <2>2 DEF Checks
<1> QED
  BY <1>1, <1>2, <1>3 DEF Placed, Checks

LEMMA FindingTypes ==
  ASSUME IInv, NEW p \in findings
  PROVE  <<p[1], Completed(IF p[1] = "codeowners" THEN <<>> ELSE p[2])>> \in runs
<1>1. /\ p[1] \in Checks /\ p[2] \in ResultOf(p[1]).findings
      /\ \A r \in ResultOf(p[1]).runs : <<p[1], r>> \in runs
  BY Said
<1>2. CASE p[1] \in Evaluators
  <2>1. Sound(Evaluate(p[1], tree, disabled), Known(tree))
    BY <1>2, SoundChecks DEF IInv
  <2>2. Completed(p[2]) \in ResultOf(p[1]).runs
    BY <1>1, <1>2, <2>1, EvaluatorsAreChecks DEF Sound
  <2>3. p[1] # "codeowners"
    BY <1>2 DEF Evaluators
  <2> QED
    BY <1>1, <2>2, <2>3
<1>3. CASE p[1] = "codeowners"
  <2>1. ResultOf(p[1]) = EvaluateCodeowners(Sources(tree, disabled), platform)
    BY <1>3, EvaluatorsAreChecks
  <2>2. Completed(<<>>) \in ResultOf(p[1]).runs
    BY <1>1, <2>1, SoundCodeowners
  <2> QED
    BY <1>1, <1>3, <2>2
<1> QED
  BY <1>1, <1>2, <1>3 DEF Checks

LEMMA ResolutionTypes ==
  ASSUME IInv, NEW p \in resolutions
  PROVE  p[1] \in JavaScript(tree) /\ p[2].resolved \in BOOLEAN
<1>1. PICK f \in Referring(Sources(tree, disabled)) :
        p = <<f, Resolution(Sources(tree, disabled), f)>>
  BY Said DEF Resolutions
<1>2. f \in JavaScript(tree)
  BY DEF Referring, JavaScript, Read, Of, Sources
<1>3. \A some, g : \/ Resolution(some, g) = Unresolved
                   \/ \E c : Resolution(some, g) = ResolvedBy(c)
  BY DEF Resolution
<1>4. Unresolved.resolved \in BOOLEAN /\ \A c : ResolvedBy(c).resolved \in BOOLEAN
  BY DEF Unresolved, ResolvedBy
<1>5. p[1] = f /\ p[2] = Resolution(Sources(tree, disabled), f)
  BY <1>1
<1> QED
  BY <1>2, <1>3, <1>4, <1>5

\* What is left is always the end of the list of checks, which have no runs yet;
\* runs are of projects there are, and a finding comes with a completed run.
THEOREM TypeCorrect == Spec => []TypeOK
<1>1. IInv => TypeOK
  <2> SUFFICES ASSUME IInv PROVE TypeOK
    OBVIOUS
  <2>1. \E n \in 1 .. Len(CheckOrder) + 2 :
          remaining = SubSeq(<<"catalogs">> \o CheckOrder, n, Len(CheckOrder) + 1)
    <3>1. Len(CheckOrder) = 10
      BY DEF CheckOrder
    <3>2. PICK n \in 1 .. Len(Order) + 1 : remaining = SubSeq(Order, n, Len(Order))
      BY DEF IInv, Progress
    <3>3. Len(Order) = 11
      BY OrderOfChecks
    <3>4. n \in 1 .. 12 /\ 12 = Len(CheckOrder) + 2 /\ Len(Order) = Len(CheckOrder) + 1
      BY <3>1, <3>3
    <3> QED
      BY <3>2, <3>4 DEF Order
  <2> QED
    BY <2>1, RunTypes, FindingTypes, ResolutionTypes DEF TypeOK
<1> QED
  BY <1>1, Invariance, PTL

-----------------------------------------------------------------------------
(* No manifest is passed over.                                             *)

\* An answer for a manifest among some runs.
Answers(r, f) ==
  /\ r.root \in Upwards(f.root)
  /\ r.status = "completed" => ~ Unparsable(f)
  /\ r.status # "completed" => r.root = f.root

LEMMA AnswerParts ==
  ASSUME NEW f, f.root \in Seq(STRING)
  PROVE  /\ Answers(Failed(f), f)
         /\ \A reason : Answers(Skipped(f.root, reason), f)
         /\ ~ Unparsable(f) => \A root \in Upwards(f.root) : Answers(Completed(root), f)
<1>1. f.root \in Upwards(f.root)
  BY AbovePath
<1> QED
  BY <1>1 DEF Answers, Failed, Skipped, Completed

\* While its detector is on, a manifest is a source, and known to be unreadable
\* where it is.
LEMMA ManifestIsSource ==
  ASSUME NEW t, NEW d, NEW detector, detector \notin d, detector # "none", NEW f \in Of(t, detector)
  PROVE  /\ f \in Sources(t, d)
         /\ ~ Unparsable(f) => f \in Read(Sources(t, d), detector)
         /\ Unparsable(f) /\ detector \in {"js", "js-pnpm-workspace", "rust-cargo", "go-mod",
                                           "php-composer", "python-pyproject"} =>
              /\ f \in ParseErrors(t, Sources(t, d))
              /\ Failed(f) \in FailedRuns(ParseErrors(t, Sources(t, d)), detector)
<1>1. f \in Sources(t, d)
  BY DEF Sources, Of
<1>2. ~ Unparsable(f) => f \in Read(Sources(t, d), detector)
  BY <1>1 DEF Read, Of
<1>3. ASSUME Unparsable(f), detector \in {"js", "js-pnpm-workspace", "rust-cargo", "go-mod",
                                          "php-composer", "python-pyproject"}
      PROVE  f \in ParseErrors(t, Sources(t, d))
  BY <1>1, <1>3 DEF ParseErrors, Of
<1>4. \A errors : f \in errors => Failed(f) \in FailedRuns(errors, detector)
  BY DEF FailedRuns, Of
<1> QED
  BY <1>1, <1>2, <1>3, <1>4

\* The detector of the manifests a check has questions about.
Asked(check) ==
  CASE check = "conflicting" -> "js"
    [] check = "uv" -> "python-pyproject"
    [] check = "cargo" -> "rust-cargo"
    [] check = "go" -> "go-mod"
    [] check = "composer" -> "php-composer"
    [] check = "gemfile" -> "ruby-gemfile"
Asking == {"conflicting", "uv", "cargo", "go", "composer", "gemfile"}

LEMMA QuestionsAsked ==
  /\ \A check \in Evaluators \ Asking : Questions(check) = {}
  /\ \A check \in Asking : \A f \in Questions(check) :
       /\ f \in Of(tree, Asked(check)) /\ DetectorOf(f.name) = Asked(check)
       /\ Asked(check) \in Prerequisites(check)
       /\ check = "gemfile" => ~ Unparsable(f)
<1>1. ASSUME NEW check \in Evaluators \ Asking
      PROVE  Questions(check) = {}
  <2>1. check \in {"npm", "pnpm", "yarn"}
    BY DEF Evaluators, Asking
  <2> QED
    BY <2>1 DEF Questions
<1>2. ASSUME NEW check \in Asking, NEW f \in Questions(check)
      PROVE  f \in Of(tree, Asked(check)) /\ DetectorOf(f.name) = Asked(check)
  <2>1. f \in Of(tree, Asked(check))
    BY <1>2 DEF Questions, Asking, Asked, Of
  <2> QED
    BY <2>1 DEF Of
<1>3. \A check \in Asking : Asked(check) \in Prerequisites(check)
  BY DEF Asking, Asked, Prerequisites
<1>4. ASSUME NEW f \in Questions("gemfile") PROVE ~ Unparsable(f)
  <2>1. DetectorOf(f.name) = "ruby-gemfile"
    BY <1>2 DEF Asking, Asked
  <2>2. f.name = "Gemfile"
    BY <2>1 DEF DetectorOf
  <2> QED
    BY <2>2 DEF Unparsable
<1> QED
  BY <1>1, <1>2, <1>3, <1>4

LEMMA AnsweredIfDisabled ==
  ASSUME NEW check \in Asking, NEW f \in Questions(check), DetectorOf(f.name) \notin disabled,
         Prerequisites(check) \cap disabled # {}
  PROVE  Skipped(f.root, "detector-disabled") \in Evaluate(check, tree, disabled).runs
<1> DEFINE sources == Sources(tree, disabled)
<1>1. /\ f \in Of(tree, Asked(check)) /\ Asked(check) \notin disabled /\ Asked(check) # "none"
      /\ DetectorOf(f.name) \in Prerequisites(check)
  BY QuestionsAsked DEF Asking, Asked
<1>2. CASE Unparsable(f)
  <2>1. f \in ParseErrors(tree, sources)
    BY <1>1, <1>2, ManifestIsSource, QuestionsAsked DEF Asking, Asked
  <2> QED
    BY <1>1, <2>1 DEF Evaluate, Result, DisabledRuns, KnownRoots, OrTop
<1>3. CASE ~ Unparsable(f)
  <2>1. f \in Read(sources, Asked(check)) /\ f \in Read(tree, Asked(check))
    BY <1>1, <1>3, ManifestIsSource DEF Read, Of
  <2>2. f.root \in ReadRoots(check, tree, sources)
    BY <2>1 DEF ReadRoots, Asking, Asked, JavaScript, UV, Cargo
  <2> QED
    BY <2>2 DEF Evaluate, Result, DisabledRuns, KnownRoots, OrTop
<1> QED
  BY <1>2, <1>3

\* Each check that reads manifests has a failed run for those it cannot parse.
LEMMA ResultsOfAsking ==
  ASSUME NEW check \in Asking \ {"gemfile"}, Prerequisites(check) \cap disabled = {}
  PROVE  FailedRuns(ParseErrors(tree, Sources(tree, disabled)), Asked(check))
           \subseteq Evaluate(check, tree, disabled).runs
<1> DEFINE sources == Sources(tree, disabled)
           errors == ParseErrors(tree, sources)
<1>1. CASE check = "conflicting"
  BY <1>1 DEF Evaluate, Asked, ConflictingLockfiles, Result
<1>2. CASE check = "uv"
  BY <1>2 DEF Evaluate, Asked, UVLockfile, Result
<1>3. CASE check = "cargo"
  BY <1>3 DEF Evaluate, Asked, CargoLockfile, Result
<1>4. CASE check = "go"
  BY <1>4 DEF Evaluate, Asked, GoSum, LockfileBeside, Result
<1>5. CASE check = "composer"
  BY <1>5 DEF Evaluate, Asked, ComposerLockfile, LockfileBeside, Result
<1> QED
  BY <1>1, <1>2, <1>3, <1>4, <1>5 DEF Asking

LEMMA AnsweredOtherwise ==
  ASSUME IsRepository(tree), NEW check \in Asking, NEW f \in Questions(check),
         DetectorOf(f.name) \notin disabled, Prerequisites(check) \cap disabled = {}
  PROVE  \E r \in Evaluate(check, tree, disabled).runs : Answers(r, f)
<1> DEFINE sources == Sources(tree, disabled)
           errors == ParseErrors(tree, sources)
           result == Evaluate(check, tree, disabled)
<1>1. /\ f \in Of(tree, Asked(check)) /\ Asked(check) \notin disabled /\ Asked(check) # "none"
      /\ f \in tree
  BY QuestionsAsked DEF Asking, Asked, Of
<1>2. f.root \in Seq(STRING) /\ sources \subseteq tree
  BY <1>1, FilesKnown, SourcesAreFiles
<1>3. CASE Unparsable(f)
  <2>1. Failed(f) \in FailedRuns(errors, Asked(check))
    BY <1>1, <1>3, ManifestIsSource, QuestionsAsked DEF Asking, Asked
  <2>2. Failed(f) \in result.runs
    <3>1. check # "gemfile"
      BY <1>3, QuestionsAsked
    <3> HIDE DEF errors, sources
    <3> QED
      BY <2>1, <3>1, ResultsOfAsking DEF sources, errors
  <2> QED
    BY <1>2, <2>2, AnswerParts
<1>4. CASE ~ Unparsable(f)
  <2>1. f \in Read(sources, Asked(check))
    BY <1>1, <1>4, ManifestIsSource
  <2>2. CASE check = "conflicting"
    <3> DEFINE owner == WorkspaceOwner(f.root, JavaScriptSpaces(sources))
    <3>1. owner \in DOMAIN Projects(sources)
      BY <2>1, <2>2 DEF Projects, JavaScript, Asked
    <3>2. Completed(owner) \in result.runs
      BY <2>2, <3>1 DEF Evaluate, ConflictingLockfiles, Result
    <3>3. owner \in Upwards(f.root)
      BY <1>1, <1>2, OwnersKnown
    <3> QED
      BY <1>2, <1>4, <3>2, <3>3, AnswerParts
  <2>3. CASE check = "cargo"
    <3> DEFINE owner == WorkspaceOwner(f.root, ManifestSpaces(Cargo(sources), "cargo"))
    <3>1. f \in Cargo(sources) /\ Facts(f).deps /\ Facts(f).package
      BY <1>4, <2>1, <2>3 DEF Questions, Cargo, Asked
    <3>2. owner \in Upwards(f.root)
      BY <1>1, <1>2, OwnersKnown
    <3>3. Completed(owner) \in result.runs \/ Skipped(f.root, "project-role-unknown") \in result.runs
      BY <2>3, <3>1 DEF Evaluate, CargoLockfile, CargoOwner, Result
    <3> QED
      BY <1>2, <1>4, <3>2, <3>3, AnswerParts
  <2>4. ASSUME NEW reason, \/ Completed(f.root) \in result.runs
                           \/ Skipped(f.root, reason) \in result.runs
        PROVE  \E r \in result.runs : Answers(r, f)
    BY <1>2, <1>4, <2>4, AnswerParts, AbovePath
  <2>5. CASE check = "go"
    <3>1. f \in Read(sources, "go-mod") /\ Facts(f).requirements # {}
      BY <1>4, <2>1, <2>5 DEF Questions, Asked
    <3>2. \/ Completed(f.root) \in result.runs
          \/ Skipped(f.root, "local-dependencies-only") \in result.runs
      BY <2>5, <3>1 DEF Evaluate, GoSum, LockfileBeside, Result
    <3> QED
      BY <2>4, <3>2
  <2>6. CASE check = "composer"
    <3>1. f \in Read(sources, "php-composer") /\ Facts(f).deps
      BY <1>4, <2>1, <2>6 DEF Questions, Asked
    <3>2. \/ Completed(f.root) \in result.runs
          \/ Skipped(f.root, NotLocked(f)) \in result.runs
      BY <2>6, <3>1 DEF Evaluate, ComposerLockfile, LockfileBeside, Result
    <3> QED
      BY <2>4, <3>2
  <2>7. CASE check = "gemfile"
    <3>1. f \in Read(sources, "ruby-gemfile") /\ Facts(f).deps
      BY <1>4, <2>1, <2>7 DEF Questions, Asked
    <3>2. \/ Completed(f.root) \in result.runs
          \/ Skipped(f.root, "not-application") \in result.runs
      BY <2>7, <3>1 DEF Evaluate, GemfileLockfile, LockfileBeside, Result
    <3> QED
      BY <2>4, <3>2
  <2>8. check # "uv"
    BY <1>1, <1>4 DEF Questions, UV, Read, Asked
  <2> QED
    BY <2>2, <2>3, <2>5, <2>6, <2>7, <2>8 DEF Asking
<1> QED
  BY <1>3, <1>4

\* While its detector is on, every manifest that a check has to say something
\* about is answered by a run, at its own root or at that of its workspace
\* (evaluateChecks; a workspace may fail to parse or be skipped on the way).
THEOREM ManifestsAnswered == Spec => []ManifestsAreAnsweredFor
<1>1. IInv => ManifestsAreAnsweredFor
  <2> SUFFICES ASSUME IInv, Done, NEW check \in Evaluators, NEW f \in Questions(check),
                      DetectorOf(f.name) \notin disabled
               PROVE  \E p \in runs : p[1] = check /\ Answers(p[2], f)
    BY DEF ManifestsAreAnsweredFor, Answers
  <2>1. check \in Asking
    BY QuestionsAsked
  <2>2. \E r \in Evaluate(check, tree, disabled).runs : Answers(r, f)
    <3>1. CASE Prerequisites(check) \cap disabled # {}
      <4>1. f.root \in Seq(STRING)
        BY <2>1, QuestionsAsked, FilesKnown DEF IInv, Of
      <4> QED
        BY <2>1, <3>1, <4>1, AnsweredIfDisabled, AnswerParts
    <3>2. CASE Prerequisites(check) \cap disabled = {}
      BY <2>1, <3>2, AnsweredOtherwise DEF IInv
    <3> QED
      BY <3>1, <3>2
  <2>3. PICK r \in ResultOf(check).runs : Answers(r, f)
    BY <2>2, EvaluatorsAreChecks
  <2>4. <<check, r>> \in runs
    BY <2>3, AllSaid, EvaluatorsAreChecks
  <2> QED
    BY <2>3, <2>4
<1> QED
  BY <1>1, Invariance, PTL

-----------------------------------------------------------------------------
(* One verdict for a project: whoever reports a missing lockfile is the    *)
(* only manager there is any evidence of.                                  *)

\* A finding of a lockfile check is one of its evaluator.
LEMMA FindingsExplained ==
  ASSUME IInv, NEW p \in findings, p[1] \in Evaluators
  PROVE  p = <<p[1], p[2]>> /\ p[2] \in Evaluate(p[1], tree, disabled).findings /\ IsFiniteSet(tree)
<1>1. p = <<p[1], p[2]>> /\ p[2] \in ResultOf(p[1]).findings
  BY Said
<1>2. ResultOf(p[1]) = Evaluate(p[1], tree, disabled)
  BY EvaluatorsAreChecks
<1> QED
  BY <1>1, <1>2 DEF IInv, IsRepository

LEMMA ManagersFinite ==
  ASSUME NEW sources, IsFiniteSet(sources), NEW root, NEW members \in SUBSET sources
  PROVE  IsFiniteSet(ProjectManagers(sources, root, members))
<1>1. ASSUME NEW S \in SUBSET sources, NEW T, NEW f \in [S -> T], T = {f[x] : x \in S}
      PROVE  IsFiniteSet(T)
  <2>1. IsFiniteSet(S)
    BY <1>1, FS_Subset
  <2>2. f \in Surjection(S, T)
    BY <1>1 DEF Surjection
  <2> QED
    BY <2>1, <2>2, FS_Surjection
<1>2. IsFiniteSet({Facts(f).manager : f \in members})
  <2> DEFINE T == {Facts(f).manager : f \in members}
             g == [f \in members |-> Facts(f).manager]
  <2>1. g \in [members -> T] /\ T = {g[x] : x \in members}
    OBVIOUS
  <2> HIDE DEF T, g
  <2>2. IsFiniteSet(T)
    BY <2>1, <1>1
  <2> QED
    BY <2>2 DEF T
<1>3. IsFiniteSet(SpaceManagers(sources, root))
  <2> DEFINE P == {f \in Read(sources, "js-pnpm-workspace") : f.root = root}
             Y == {f \in Of(sources, "js-yarnrc") : f.root = root}
             J == {f \in JavaScript(sources) : Facts(f).workspaces # <<>> /\ f.root = root}
             T == {Facts(f).manager : f \in J}
             g == [f \in J |-> Facts(f).manager]
  <2>1. SpaceManagers(sources, root) \subseteq T \cup {"pnpm"} \cup {"yarn"}
    BY DEF SpaceManagers, JavaScriptSpaces, Workspace
  <2>2. J \in SUBSET sources
    BY DEF JavaScript, Read, Of
  <2>3. g \in [J -> T] /\ T = {g[x] : x \in J}
    OBVIOUS
  <2> HIDE DEF T, g, J
  <2>4. IsFiniteSet(T)
    BY <2>2, <2>3, <1>1
  <2>5. IsFiniteSet(T \cup {"pnpm"} \cup {"yarn"})
    BY <2>4, FS_AddElement
  <2> QED
    BY <2>1, <2>5, FS_Subset
<1>4. IsFiniteSet(LockManagers(sources, root))
  <2>1. IsFiniteSet({"npm"} \cup {"pnpm"} \cup {"yarn"})
    <3>1. IsFiniteSet({"npm"})
      BY FS_Singleton
    <3>2. IsFiniteSet({"npm"} \cup {"pnpm"})
      BY <3>1, FS_AddElement
    <3> QED
      BY <3>2, FS_AddElement
  <2>2. LockManagers(sources, root) \subseteq {"npm"} \cup {"pnpm"} \cup {"yarn"}
    BY DEF LockManagers
  <2> QED
    BY <2>1, <2>2, FS_Subset
<1>5. IsFiniteSet({Facts(f).manager : f \in members} \cup SpaceManagers(sources, root)
                  \cup LockManagers(sources, root))
  BY <1>2, <1>3, <1>4, FS_Union
<1>6. ProjectManagers(sources, root, members) \subseteq
        {Facts(f).manager : f \in members} \cup SpaceManagers(sources, root)
        \cup LockManagers(sources, root)
  BY DEF ProjectManagers
<1> QED
  BY <1>5, <1>6, FS_Subset

EvidenceAt(sources, root) == ProjectManagers(sources, root, Projects(sources)[root])

LEMMA ReportedManager ==
  ASSUME NEW t, IsFiniteSet(t), NEW d, NEW m \in Managers, NEW root,
         root \in Evaluate(m, t, d).findings
  PROVE  /\ m \notin LockManagers(Sources(t, d), root)
         /\ EvidenceAt(Sources(t, d), root) = {m}
<1> DEFINE sources == Sources(t, d)
           members == Projects(sources)[root]
           errors == ParseErrors(t, sources)
<1>1. root \in JavaScriptLockfile(errors, sources, m).findings
  BY DEF Evaluate, Managers, Result
<1>2. /\ root \in DOMAIN Projects(sources)
      /\ m \in ProjectManagers(sources, root, members)
      /\ Cardinality(ProjectManagers(sources, root, members)) = 1
      /\ ~ HasLockfile(sources, root, LockfileNames(m))
  BY <1>1 DEF JavaScriptLockfile, Result
<1>3. members \in SUBSET sources
  BY <1>2 DEF Projects, JavaScript, Read, Of
<1>4. IsFiniteSet(sources)
  BY FS_Subset DEF Sources
<1> HIDE DEF members, sources
<1>5. IsFiniteSet(ProjectManagers(sources, root, members))
  BY <1>3, <1>4, ManagersFinite
<1>6. ProjectManagers(sources, root, members) = {m}
  BY <1>2, <1>5, FS_Singleton
<1> QED
  BY <1>2, <1>6 DEF LockManagers, EvidenceAt, sources, members

LEMMA ReportedConflict ==
  ASSUME NEW t, IsFiniteSet(t), NEW d, NEW root,
         root \in Evaluate("conflicting", t, d).findings
  PROVE  Cardinality(LockManagers(Sources(t, d), root)) >= 2
BY DEF Evaluate, ConflictingLockfiles, Result

\* A JavaScript project gets at most one finding, of one manager or of a
\* conflict (evaluateJavaScriptLockfile, evaluateConflictingJavaScriptLockfiles).
THEOREM OneVerdict == Spec => []OneVerdictPerProject
<1>1. IInv => OneVerdictPerProject
  <2> SUFFICES ASSUME IInv, NEW p \in findings, NEW q \in findings,
                      {p[1], q[1]} \subseteq Managers \cup {"conflicting"}, p[2] = q[2]
               PROVE  p = q
    BY DEF OneVerdictPerProject
  <2> DEFINE locks == LockManagers(Sources(tree, disabled), p[2])
  <2>1. /\ p[2] \in Evaluate(p[1], tree, disabled).findings
        /\ p[2] \in Evaluate(q[1], tree, disabled).findings
        /\ IsFiniteSet(tree)
    <3>1. p[1] \in Evaluators /\ q[1] \in Evaluators
      BY DEF Managers, Evaluators
    <3> QED
      BY <3>1, FindingsExplained
  <2>2. ASSUME NEW m \in Managers, p[2] \in Evaluate(m, tree, disabled).findings
        PROVE  locks = {}
    <3>1. /\ m \notin locks
          /\ EvidenceAt(Sources(tree, disabled), p[2]) = {m}
      BY <2>1, <2>2, ReportedManager
    <3>2. locks \subseteq {m}
      BY <3>1 DEF EvidenceAt, ProjectManagers
    <3> QED
      BY <3>1, <3>2
  <2>3. ASSUME NEW m \in Managers, p[2] \in Evaluate(m, tree, disabled).findings,
               p[2] \in Evaluate("conflicting", tree, disabled).findings
        PROVE  FALSE
    BY <2>1, <2>2, <2>3, ReportedConflict, FS_EmptySet
  <2>4. ASSUME p[1] \in Managers, q[1] \in Managers PROVE p[1] = q[1]
    <3>1. /\ EvidenceAt(Sources(tree, disabled), p[2]) = {p[1]}
          /\ EvidenceAt(Sources(tree, disabled), p[2]) = {q[1]}
      BY <2>1, <2>4, ReportedManager
    <3> QED
      BY <3>1
  <2>5. ASSUME p[1] = "conflicting" \/ q[1] = "conflicting" PROVE p[1] = q[1]
    BY <2>1, <2>3, <2>5
  <2>6. p[1] = q[1]
    BY <2>4, <2>5
  <2>7. p = <<p[1], p[2]>> /\ q = <<q[1], q[2]>>
    BY Said
  <2> QED
    BY <2>6, <2>7
<1> QED
  BY <1>1, Invariance, PTL

-----------------------------------------------------------------------------
(* Conservative exclusions: a check that is not skipped has all it reads.  *)

LEMMA SameFiles ==
  ASSUME NEW t, NEW d, NEW detector, detector \notin d, detector # "none"
  PROVE  /\ Of(Sources(t, d), detector) = Of(Sources(t, {}), detector)
         /\ Read(Sources(t, d), detector) = Read(Sources(t, {}), detector)
BY DEF Of, Read, Sources

LEMMA SameAnswer ==
  ASSUME NEW t, NEW d, NEW name, DetectorOf(name) \notin d, NEW root
  PROVE  HasSource(Sources(t, d), root, name) <=> HasSource(Sources(t, {}), root, name)
BY DEF HasSource, Sources

\* A workspace that names no member owns nothing.
LEMMA EmptyWorkspaces ==
  ASSUME NEW project, NEW S, NEW T,
         {w \in S : w.patterns # <<>>} = {w \in T : w.patterns # <<>>}
  PROVE  WorkspaceOwner(project, S) = WorkspaceOwner(project, T)
<1>1. ASSUME NEW relative PROVE ~ WorkspaceMatches(relative, <<>>)
  BY DEF WorkspaceMatches
<1> DEFINE claims(w) == /\ IsAncestorRoot(w.root, project)
                        /\ WorkspaceMatches(Relative(w.root, project), w.patterns)
<1>2. {w \in S : claims(w)} = {w \in T : claims(w)}
  BY <1>1
<1> QED
  BY <1>2 DEF WorkspaceOwner

\* The JavaScript checks see the same lockfiles.
LEMMA SameLocks ==
  ASSUME NEW t, NEW d, JavaScriptLocks \cap d = {}, NEW root
  PROVE  /\ \A m \in Managers : HasLockfile(Sources(t, d), root, LockfileNames(m))
                                  <=> HasLockfile(Sources(t, {}), root, LockfileNames(m))
         /\ LockManagers(Sources(t, d), root) = LockManagers(Sources(t, {}), root)
<1>1. \A m \in Managers : \A n \in LockfileNames(m) : DetectorOf(n) \notin d
  BY DEF Managers, LockfileNames, DetectorOf, JavaScriptLocks
<1>2. \A m \in Managers : HasLockfile(Sources(t, d), root, LockfileNames(m))
                            <=> HasLockfile(Sources(t, {}), root, LockfileNames(m))
  BY <1>1, SameAnswer DEF HasLockfile
<1> QED
  BY <1>2 DEF LockManagers, Managers

\* Only the Yarn configurations may differ, and they own nothing.
LEMMA SameProjects ==
  ASSUME NEW t, NEW d, {"js", "js-pnpm-workspace"} \cap d = {}
  PROVE  Projects(Sources(t, d)) = Projects(Sources(t, {}))
<1> DEFINE some == Sources(t, d)
           all == Sources(t, {})
<1>1. /\ JavaScript(some) = JavaScript(all)
      /\ Read(some, "js-pnpm-workspace") = Read(all, "js-pnpm-workspace")
  BY SameFiles DEF JavaScript
<1>2. {w \in JavaScriptSpaces(some) : w.patterns # <<>>}
        = {w \in JavaScriptSpaces(all) : w.patterns # <<>>}
  BY <1>1 DEF JavaScriptSpaces, Workspace
<1>3. \A f : WorkspaceOwner(f.root, JavaScriptSpaces(some))
               = WorkspaceOwner(f.root, JavaScriptSpaces(all))
  BY <1>2, EmptyWorkspaces
<1> DEFINE owner(sources) == [f \in JavaScript(sources) |->
                                WorkspaceOwner(f.root, JavaScriptSpaces(sources))]
<1>4. owner(some) = owner(all)
  BY <1>1, <1>3
<1> HIDE DEF owner
<1>5. \A sources : Projects(sources) =
        [root \in {owner(sources)[f] : f \in DOMAIN owner(sources)} |->
           {f \in DOMAIN owner(sources) : owner(sources)[f] = root}]
  BY DEF Projects, owner
<1> QED
  BY <1>4, <1>5

LEMMA SameEvidence ==
  ASSUME NEW t, NEW d, NEW m \in Managers, Prerequisites(m) \cap d = {}, NEW root, NEW members
  PROVE  ProjectManagers(Sources(t, d), root, members)
           = ProjectManagers(Sources(t, {}), root, members)
<1>1. {"js", "js-pnpm-workspace", "js-yarnrc"} \cap d = {} /\ JavaScriptLocks \cap d = {}
  BY DEF Prerequisites, Managers
<1>2. JavaScriptSpaces(Sources(t, d)) = JavaScriptSpaces(Sources(t, {}))
  BY <1>1, SameFiles DEF JavaScriptSpaces, JavaScript
<1>3. SpaceManagers(Sources(t, d), root) = SpaceManagers(Sources(t, {}), root)
  BY <1>2 DEF SpaceManagers
<1> QED
  BY <1>1, <1>3, SameLocks DEF ProjectManagers

LEMMA SameJavaScriptFindings ==
  ASSUME NEW t, NEW d, NEW m \in Managers, Prerequisites(m) \cap d = {}
  PROVE  JavaScriptLockfile(ParseErrors(t, Sources(t, d)), Sources(t, d), m).findings
           = JavaScriptLockfile(ParseErrors(t, Sources(t, {})), Sources(t, {}), m).findings
<1> DEFINE reported(sources) ==
      {root \in DOMAIN Projects(sources) :
         LET members == Projects(sources)[root]
         IN  /\ \E f \in members : Facts(f).deps
             /\ m \in ProjectManagers(sources, root, members)
             /\ ~ \E f \in members : Facts(f).invalid
             /\ Cardinality(ProjectManagers(sources, root, members)) = 1
             /\ ~ HasLockfile(sources, root, LockfileNames(m))}
<1>1. \A errors, sources : JavaScriptLockfile(errors, sources, m).findings = reported(sources)
  BY DEF JavaScriptLockfile, Result
<1>2. {"js", "js-pnpm-workspace"} \cap d = {} /\ JavaScriptLocks \cap d = {}
  BY DEF Prerequisites, Managers
<1>3. Projects(Sources(t, d)) = Projects(Sources(t, {}))
  BY <1>2, SameProjects
<1>4. \A root, members : ProjectManagers(Sources(t, d), root, members)
                           = ProjectManagers(Sources(t, {}), root, members)
  BY SameEvidence
<1>5. \A root : HasLockfile(Sources(t, d), root, LockfileNames(m))
                  <=> HasLockfile(Sources(t, {}), root, LockfileNames(m))
  BY <1>2, SameLocks
<1>6. reported(Sources(t, d)) = reported(Sources(t, {}))
  BY <1>3, <1>4, <1>5
<1> QED
  BY <1>1, <1>6

LEMMA SameConflicts ==
  ASSUME NEW t, NEW d, Prerequisites("conflicting") \cap d = {}
  PROVE  ConflictingLockfiles(ParseErrors(t, Sources(t, d)), Sources(t, d)).findings
           = ConflictingLockfiles(ParseErrors(t, Sources(t, {})), Sources(t, {})).findings
<1>1. {"js", "js-pnpm-workspace"} \cap d = {} /\ JavaScriptLocks \cap d = {}
  BY DEF Prerequisites
<1> QED
  BY <1>1, SameProjects, SameLocks DEF ConflictingLockfiles, Result

LEMMA SameCargoFindings ==
  ASSUME NEW t, NEW d, Prerequisites("cargo") \cap d = {}
  PROVE  CargoLockfile(ParseErrors(t, Sources(t, d)), t, Sources(t, d)).findings
           = CargoLockfile(ParseErrors(t, Sources(t, {})), t, Sources(t, {})).findings
<1>1. Cargo(Sources(t, d)) = Cargo(Sources(t, {}))
  BY SameFiles DEF Prerequisites, Cargo
<1>2. \A root : HasSource(Sources(t, d), root, "Cargo.lock")
                  <=> HasSource(Sources(t, {}), root, "Cargo.lock")
  BY SameAnswer DEF Prerequisites, DetectorOf
<1> QED
  BY <1>1, <1>2 DEF CargoLockfile, Result

LEMMA SameUVFindings ==
  ASSUME NEW t, NEW d, Prerequisites("uv") \cap d = {}
  PROVE  UVLockfile(ParseErrors(t, Sources(t, d)), t, Sources(t, d)).findings
           = UVLockfile(ParseErrors(t, Sources(t, {})), t, Sources(t, {})).findings
<1>1. \A root : HasSource(Sources(t, d), root, "uv.lock")
                  <=> HasSource(Sources(t, {}), root, "uv.lock")
  BY SameAnswer DEF Prerequisites, DetectorOf
<1> QED
  BY <1>1 DEF UVLockfile, Result

\* The checks that look beside each manifest.
LEMMA SameFindingsBeside ==
  ASSUME NEW t, NEW d
  PROVE  /\ Prerequisites("go") \cap d = {} =>
              GoSum(ParseErrors(t, Sources(t, d)), Sources(t, d)).findings
                = GoSum(ParseErrors(t, Sources(t, {})), Sources(t, {})).findings
         /\ Prerequisites("composer") \cap d = {} =>
              ComposerLockfile(ParseErrors(t, Sources(t, d)), Sources(t, d)).findings
                = ComposerLockfile(ParseErrors(t, Sources(t, {})), Sources(t, {})).findings
         /\ Prerequisites("gemfile") \cap d = {} =>
              GemfileLockfile(Sources(t, d)).findings = GemfileLockfile(Sources(t, {})).findings
<1>1. ASSUME Prerequisites("go") \cap d = {}
      PROVE  GoSum(ParseErrors(t, Sources(t, d)), Sources(t, d)).findings
               = GoSum(ParseErrors(t, Sources(t, {})), Sources(t, {})).findings
  <2>1. /\ Read(Sources(t, d), "go-mod") = Read(Sources(t, {}), "go-mod")
        /\ \A root : HasSource(Sources(t, d), root, "go.sum")
             <=> HasSource(Sources(t, {}), root, "go.sum")
    BY <1>1, SameFiles, SameAnswer DEF Prerequisites, DetectorOf
  <2> QED
    BY <2>1 DEF GoSum, LockfileBeside, Result
<1>2. ASSUME Prerequisites("composer") \cap d = {}
      PROVE  ComposerLockfile(ParseErrors(t, Sources(t, d)), Sources(t, d)).findings
               = ComposerLockfile(ParseErrors(t, Sources(t, {})), Sources(t, {})).findings
  <2>1. /\ Read(Sources(t, d), "php-composer") = Read(Sources(t, {}), "php-composer")
        /\ \A root : HasSource(Sources(t, d), root, "composer.lock")
             <=> HasSource(Sources(t, {}), root, "composer.lock")
    BY <1>2, SameFiles, SameAnswer DEF Prerequisites, DetectorOf
  <2> QED
    BY <2>1 DEF ComposerLockfile, LockfileBeside, Result
<1>3. ASSUME Prerequisites("gemfile") \cap d = {}
      PROVE  GemfileLockfile(Sources(t, d)).findings = GemfileLockfile(Sources(t, {})).findings
  <2>1. /\ Read(Sources(t, d), "ruby-gemfile") = Read(Sources(t, {}), "ruby-gemfile")
        /\ \A root : HasSource(Sources(t, d), root, "Gemfile.lock")
             <=> HasSource(Sources(t, {}), root, "Gemfile.lock")
    BY <1>3, SameFiles, SameAnswer DEF Prerequisites, DetectorOf
  <2> QED
    BY <2>1 DEF GemfileLockfile, LockfileBeside, Result
<1> QED
  BY <1>1, <1>2, <1>3

\* A check whose prerequisites are all there finds what it would find if
\* nothing were disabled.
LEMMA SameFindings ==
  ASSUME NEW t, NEW d, NEW check \in Evaluators, Prerequisites(check) \cap d = {}
  PROVE  Evaluate(check, t, d).findings = Evaluate(check, t, {}).findings
<1>1. CASE check \in Managers
  BY <1>1, SameJavaScriptFindings DEF Evaluate, Managers
<1>2. CASE check = "conflicting"
  BY <1>2, SameConflicts DEF Evaluate
<1>3. CASE check = "uv"
  BY <1>3, SameUVFindings DEF Evaluate
<1>4. CASE check = "cargo"
  BY <1>4, SameCargoFindings DEF Evaluate
<1>5. CASE check \in {"go", "composer", "gemfile"}
  BY <1>5, SameFindingsBeside DEF Evaluate
<1> QED
  BY <1>1, <1>2, <1>3, <1>4, <1>5 DEF Evaluators, Managers

\* Whatever detectors are disabled, no check of lockfiles reports what it
\* would not report otherwise (evaluateChecks, detectorDisabledRuns).
THEOREM ConservativeExclusions == Spec => []ExclusionsNeverAddFindings
<1>1. IInv => ExclusionsNeverAddFindings
  <2> SUFFICES ASSUME IInv, NEW p \in LockfileFindings PROVE p \in Findings(tree, {})
    BY DEF ExclusionsNeverAddFindings
  <2>1. /\ p[1] \in Evaluators /\ p = <<p[1], p[2]>>
        /\ p[2] \in Evaluate(p[1], tree, disabled).findings
    BY FindingsExplained DEF LockfileFindings
  <2>2. Prerequisites(p[1]) \cap disabled = {}
    BY <2>1 DEF Evaluate, Result
  <2>3. p[2] \in Evaluate(p[1], tree, {}).findings
    BY <2>1, <2>2, SameFindings
  <2> QED
    BY <2>1, <2>3 DEF Findings
<1> QED
  BY <1>1, Invariance, PTL

-----------------------------------------------------------------------------
(* The platform of a CODEOWNERS file.                                      *)

\* The first place that has a file, of some places in order.
FirstOf(inputs, order) ==
  LET present == {i \in DOMAIN order : \E f \in inputs : f.root = order[i]}
  IN  {f \in inputs : present # {} /\ f.root = order[CHOOSE i \in present :
                                                       \A j \in present : i <= j]}

LEMMA FirstFound ==
  ASSUME NEW inputs, NEW S, NEW order \in Seq(S)
  PROVE  /\ \A i \in DOMAIN order :
              /\ \E f \in inputs : f.root = order[i]
              /\ \A j \in DOMAIN order : j < i => \A f \in inputs : f.root # order[j]
              => FirstOf(inputs, order) = {f \in inputs : f.root = order[i]}
         /\ (\A i \in DOMAIN order : \A f \in inputs : f.root # order[i])
              => FirstOf(inputs, order) = {}
<1> DEFINE present == {i \in DOMAIN order : \E f \in inputs : f.root = order[i]}
           first == CHOOSE i \in present : \A j \in present : i <= j
<1>1. FirstOf(inputs, order) = {f \in inputs : present # {} /\ f.root = order[first]}
  BY DEF FirstOf
<1>2. ASSUME NEW i \in DOMAIN order, \E f \in inputs : f.root = order[i],
             \A j \in DOMAIN order : j < i => \A f \in inputs : f.root # order[j]
      PROVE  FirstOf(inputs, order) = {f \in inputs : f.root = order[i]}
  <2>1. \A j \in DOMAIN order : j \in Int
    OBVIOUS
  <2>2. i \in present /\ \A j \in present : i <= j
    BY <1>2, <2>1
  <2>3. \A k \in present : (\A j \in present : k <= j) => k = i
    BY <2>1, <2>2
  <2>4. first = i
    <3> HIDE DEF present
    <3> QED
      BY <2>2, <2>3
  <2> QED
    BY <1>1, <2>2, <2>4
<1> QED
  BY <1>1, <1>2

LEMMA SamePlace ==
  ASSUME NEW inputs, NEW S, NEW g \in S, NEW r \in S, NEW d \in S, NEW l \in S,
         \A f \in inputs : f.root # g /\ f.root # l
  PROVE  /\ FirstOf(inputs, <<g, r, d>>) = FirstOf(inputs, <<r, d>>)
         /\ FirstOf(inputs, <<r, d, l>>) = FirstOf(inputs, <<r, d>>)
<1> DEFINE x == <<g, r, d>>
           y == <<r, d>>
           z == <<r, d, l>>
<1>1. x \in Seq(S) /\ y \in Seq(S) /\ z \in Seq(S)
  OBVIOUS
<1>2. /\ DOMAIN x = 1 .. 3 /\ x[1] = g /\ x[2] = r /\ x[3] = d
      /\ DOMAIN y = 1 .. 2 /\ y[1] = r /\ y[2] = d
      /\ DOMAIN z = 1 .. 3 /\ z[1] = r /\ z[2] = d /\ z[3] = l
  OBVIOUS
<1> HIDE DEF x, y, z
<1>3. \A i \in 1 .. 3 : i \in {1, 2, 3}
  OBVIOUS
<1>4. CASE \E f \in inputs : f.root = r
  <2> DEFINE files == {f \in inputs : f.root = r}
  <2>1. FirstOf(inputs, x) = files
    <3>1. 2 \in DOMAIN x /\ \A j \in DOMAIN x : j < 2 => \A f \in inputs : f.root # x[j]
      BY <1>2, <1>3
    <3> QED
      BY <1>1, <1>2, <1>4, <3>1, FirstFound
  <2>2. FirstOf(inputs, y) = files
    <3>1. 1 \in DOMAIN y /\ \A j \in DOMAIN y : ~ (j < 1)
      BY <1>2
    <3> QED
      BY <1>1, <1>2, <1>4, <3>1, FirstFound
  <2>3. FirstOf(inputs, z) = files
    <3>1. 1 \in DOMAIN z /\ \A j \in DOMAIN z : ~ (j < 1)
      BY <1>2
    <3> QED
      BY <1>1, <1>2, <1>4, <3>1, FirstFound
  <2> QED
    BY <2>1, <2>2, <2>3 DEF x, y, z
<1>5. CASE (\A f \in inputs : f.root # r) /\ \E f \in inputs : f.root = d
  <2> DEFINE files == {f \in inputs : f.root = d}
  <2>1. FirstOf(inputs, x) = files
    <3>1. 3 \in DOMAIN x /\ \A j \in DOMAIN x : j < 3 => \A f \in inputs : f.root # x[j]
      BY <1>2, <1>3, <1>5
    <3> QED
      BY <1>1, <1>2, <1>5, <3>1, FirstFound
  <2>2. FirstOf(inputs, y) = files
    <3>1. 2 \in DOMAIN y /\ \A j \in DOMAIN y : j < 2 => \A f \in inputs : f.root # y[j]
      BY <1>2, <1>3, <1>5
    <3> QED
      BY <1>1, <1>2, <1>5, <3>1, FirstFound
  <2>3. FirstOf(inputs, z) = files
    <3>1. 2 \in DOMAIN z /\ \A j \in DOMAIN z : j < 2 => \A f \in inputs : f.root # z[j]
      BY <1>2, <1>3, <1>5
    <3> QED
      BY <1>1, <1>2, <1>5, <3>1, FirstFound
  <2> QED
    BY <2>1, <2>2, <2>3 DEF x, y, z
<1>6. CASE \A f \in inputs : f.root # r /\ f.root # d
  <2>1. /\ \A i \in DOMAIN x : \A f \in inputs : f.root # x[i]
        /\ \A i \in DOMAIN y : \A f \in inputs : f.root # y[i]
        /\ \A i \in DOMAIN z : \A f \in inputs : f.root # z[i]
    BY <1>2, <1>3, <1>6
  <2>2. FirstOf(inputs, x) = {} /\ FirstOf(inputs, y) = {} /\ FirstOf(inputs, z) = {}
    BY <1>1, <2>1, FirstFound
  <2> QED
    BY <2>2 DEF x, y, z
<1> QED
  BY <1>4, <1>5, <1>6

LEMMA SameFile ==
  ASSUME NEW inputs, \A f \in inputs : f.root # <<".github">> /\ f.root # <<".gitlab">>,
         NEW other \in {"github", "gitlab"}
  PROVE  Located(inputs, other) = Located(inputs, "common")
<1> DEFINE g == <<".github">>
           r == <<>>
           d == <<"docs">>
           l == <<".gitlab">>
           S == {g, r, d, l}
<1>1. \A some : Located(inputs, some) = FirstOf(inputs, SearchOrder(some))
  BY DEF Located, FirstOf
<1>2. /\ SearchOrder("github") = <<g, r, d>> /\ SearchOrder("common") = <<r, d>>
      /\ SearchOrder("gitlab") = <<r, d, l>>
  BY DEF SearchOrder
<1>3. g \in S /\ r \in S /\ d \in S /\ l \in S /\ \A f \in inputs : f.root # g /\ f.root # l
  OBVIOUS
<1> HIDE DEF g, r, d, l, S
<1>4. /\ FirstOf(inputs, <<g, r, d>>) = FirstOf(inputs, <<r, d>>)
      /\ FirstOf(inputs, <<r, d, l>>) = FirstOf(inputs, <<r, d>>)
  BY <1>3, SamePlace
<1>5. /\ Located(inputs, "github") = Located(inputs, "common")
      /\ Located(inputs, "gitlab") = Located(inputs, "common")
  BY <1>1, <1>2, <1>4
<1> QED
  BY <1>5

\* Where the automatic choice completes, the checks of a single platform that
\* found no mark of the other give the same findings.
LEMMA SameWithoutGuess ==
  ASSUME NEW inputs, NEW paths, paths # {}, NEW other \in {"github", "gitlab"},
         OwnersRun("completed") \in CodeownersCheck(inputs, paths, "auto").runs,
         (\E f \in inputs : f.root = <<".github">>) => other = "github",
         (\E f \in inputs : f.root = <<".gitlab">>) => other = "gitlab"
  PROVE  CodeownersCheck(inputs, paths, other).findings
           = CodeownersCheck(inputs, paths, "auto").findings
<1> DEFINE content(file) == (CHOOSE f \in file : TRUE).facts
           fails(p, file) == \/ p = "ambiguous"
                             \/ \E f \in file : \/ f.status # "ok"
                                                \/ p = "common" /\ ~ Agreed(content(file), paths)
           open(p, file) == {q \in paths : file = {} \/ ~ Covers(p, content(file), q)}
<1>1. OwnersRun("completed") # OwnersRun("failed")
  BY DEF OwnersRun
<1>2. \A c : LET p == Platform(c, inputs)
                 file == Located(inputs, p)
             IN  /\ fails(p, file) => CodeownersCheck(inputs, paths, c).runs = {OwnersRun("failed")}
                 /\ ~ fails(p, file) => CodeownersCheck(inputs, paths, c).findings = open(p, file)
  BY DEF CodeownersCheck
<1> DEFINE p == Platform("auto", inputs)
           file == Located(inputs, p)
<1>3. ~ fails(p, file)
  <2> HIDE DEF fails
  <2> QED
    BY <1>1, <1>2
<1>4. Platform(other, inputs) = other
  BY DEF Platform
<1>5. CASE p = other
  <2> HIDE DEF fails, open
  <2> QED
    BY <1>2, <1>3, <1>4, <1>5
<1>6. CASE p # other
  <2>1. p = "common" /\ \A f \in inputs : f.root # <<".github">> /\ f.root # <<".gitlab">>
    BY <1>3, <1>6 DEF Platform
  <2>2. Located(inputs, other) = file
    BY <2>1, SameFile
  <2>3. ~ fails(other, file)
    BY <1>3
  <2>4. open(other, file) = open(p, file)
    <3>1. file # {} => \A q \in paths : GitHubCovers(content(file), q) <=> GitLabCovers(content(file), q)
      BY <1>3, <2>1 DEF Agreed
    <3> HIDE DEF content, file, p
    <3>2. \A q \in paths : file # {} => (Covers(other, content(file), q) <=> Covers(p, content(file), q))
      BY <2>1, <3>1 DEF Covers
    <3> QED
      BY <3>2
  <2>5. /\ CodeownersCheck(inputs, paths, "auto").findings = open(p, file)
        /\ CodeownersCheck(inputs, paths, other).findings = open(other, file)
    <3> HIDE DEF fails, open
    <3> QED
      BY <1>2, <1>3, <1>4, <2>2, <2>3
  <2> QED
    BY <2>4, <2>5
<1> QED
  BY <1>5, <1>6

\* The automatic choice of a platform guesses nothing (resolveAutomaticCodeowners,
\* evaluateDependencySourceCodeowners): where it completes, each platform whose
\* mark it has not missed would have reported the same sources.
THEOREM NothingGuessed == Spec => []NoGuessedPlatform
<1>1. IInv => NoGuessedPlatform
  <2> DEFINE sources == Sources(tree, disabled)
             inputs == Inputs(tree)
             paths == SourcePaths(sources)
             reported == {p[2] : p \in {q \in findings : q[1] = "codeowners"}}
             mark == [github |-> <<".github">>, gitlab |-> <<".gitlab">>]
             marks == {f.root : f \in inputs} \cap {mark.github, mark.gitlab}
  <2> SUFFICES ASSUME IInv, Done, platform = "auto",
                      <<"codeowners", OwnersRun("completed")>> \in runs,
                      NEW other \in {"github", "gitlab"}, marks \subseteq {mark[other]}
               PROVE  EvaluateCodeowners(sources, other).findings = reported
    BY DEF NoGuessedPlatform
  <2>1. ResultOf("codeowners") = EvaluateCodeowners(sources, "auto")
    BY EvaluatorsAreChecks
  <2>2. OwnersRun("completed") \in EvaluateCodeowners(sources, "auto").runs
    <3> DEFINE p == <<"codeowners", OwnersRun("completed")>>
    <3>1. p \in runs /\ p[1] = "codeowners" /\ p[2] = OwnersRun("completed")
      OBVIOUS
    <3> HIDE DEF p
    <3> QED
      BY <2>1, <3>1, Said
  <2>3. reported = EvaluateCodeowners(sources, "auto").findings
    <3>1. \A r \in EvaluateCodeowners(sources, "auto").findings : r \in reported
      <4>1. \A r \in EvaluateCodeowners(sources, "auto").findings : <<"codeowners", r>> \in findings
        BY <2>1, AllSaid, EvaluatorsAreChecks
      <4>2. \A r : <<"codeowners", r>> \in findings => r \in reported
        <5> SUFFICES ASSUME NEW r, <<"codeowners", r>> \in findings PROVE r \in reported
          OBVIOUS
        <5>1. <<"codeowners", r>>[1] = "codeowners" /\ <<"codeowners", r>>[2] = r
          OBVIOUS
        <5> DEFINE p == <<"codeowners", r>>
        <5> HIDE DEF p
        <5>2. p \in findings /\ p[1] = "codeowners" /\ p[2] = r
          BY <5>1 DEF p
        <5> QED
          BY <5>2
      <4> QED
        BY <4>1, <4>2
    <3>2. \A p \in findings : p[1] = "codeowners" => p[2] \in EvaluateCodeowners(sources, "auto").findings
      BY <2>1, Said
    <3> QED
      BY <3>1, <3>2
  <2>4. ~ (sources = {} /\ disabled # {})
    <3>1. OwnersRun("completed") # Skipped(<<>>, "detector-disabled")
      <4>1. OwnersRun("completed").status # Skipped(<<>>, "detector-disabled").status
        BY DEF OwnersRun, Skipped
      <4> QED
        BY <4>1
    <3> QED
      BY <2>2, <3>1 DEF EvaluateCodeowners, Result
  <2>5. \A c : EvaluateCodeowners(sources, c) = CodeownersCheck(inputs, paths, c)
    BY <2>4 DEF EvaluateCodeowners
  <2>6. CodeownersCheck(inputs, paths, other).findings = CodeownersCheck(inputs, paths, "auto").findings
    <3>1. CASE paths = {}
      BY <3>1 DEF CodeownersCheck
    <3>2. CASE paths # {}
      <4>1. mark.github = <<".github">> /\ mark.gitlab = <<".gitlab">> /\ mark.github # mark.gitlab
        OBVIOUS
      <4>2. mark[other] = IF other = "github" THEN mark.github ELSE mark.gitlab
        OBVIOUS
      <4>3. \A f \in inputs : f.root \in {mark.github, mark.gitlab} => f.root = mark[other]
        OBVIOUS
      <4> HIDE DEF mark, inputs, paths
      <4>4. /\ (\E f \in inputs : f.root = mark.github) => other = "github"
            /\ (\E f \in inputs : f.root = mark.gitlab) => other = "gitlab"
        BY <4>1, <4>2, <4>3
      <4>5. OwnersRun("completed") \in CodeownersCheck(inputs, paths, "auto").runs
        BY <2>2, <2>5
      <4> QED
        BY <3>2, <4>1, <4>4, <4>5, SameWithoutGuess
    <3> QED
      BY <3>1, <3>2
  <2> QED
    BY <2>3, <2>5, <2>6
<1> QED
  BY <1>1, Invariance, PTL

-----------------------------------------------------------------------------
(* Catalogs and lockfiles.                                                 *)

\* Two ancestors of a path lie one above the other.
LEMMA AncestorsNest ==
  ASSUME NEW T, NEW path \in Seq(T), NEW a \in Seq(T), NEW b \in Seq(T),
         IsAncestorRoot(a, path), IsAncestorRoot(b, path)
  PROVE  /\ Len(a) = Len(b) => a = b
         /\ Len(a) < Len(b) => IsAncestorRoot(a, b)
<1>1. /\ Len(a) \in Nat /\ Len(b) \in Nat /\ Len(path) \in Nat
      /\ Len(a) < Len(path) /\ Len(b) < Len(path)
      /\ a = SubSeq(path, 1, Len(a)) /\ b = SubSeq(path, 1, Len(b))
  BY DEF IsAncestorRoot
<1>2. ASSUME Len(a) < Len(b) PROVE SubSeq(b, 1, Len(a)) = a
  <2>1. \A i \in 1 .. Len(a) : a[i] = path[i]
    BY <1>1
  <2>2. \A i \in 1 .. Len(b) : b[i] = path[i]
    BY <1>1
  <2>3. /\ SubSeq(b, 1, Len(a)) \in Seq(T) /\ Len(SubSeq(b, 1, Len(a))) = Len(a)
        /\ \A i \in 1 .. Len(a) : SubSeq(b, 1, Len(a))[i] = b[i]
    BY <1>1, <1>2
  <2>4. \A i \in 1 .. Len(a) : i \in 1 .. Len(b)
    BY <1>1, <1>2
  <2>5. \A i \in 1 .. Len(a) : SubSeq(b, 1, Len(a))[i] = a[i]
    BY <2>1, <2>2, <2>3, <2>4
  <2> DEFINE c == SubSeq(b, 1, Len(a))
  <2> HIDE DEF c
  <2>6. c \in Seq(T) /\ Len(c) = Len(a) /\ \A i \in 1 .. Len(a) : c[i] = a[i]
    BY <2>3, <2>5 DEF c
  <2>7. c = a
    BY <2>6
  <2> QED
    BY <2>7 DEF c
<1> QED
  BY <1>1, <1>2 DEF IsAncestorRoot

LEMMA LongestCandidate ==
  ASSUME NEW sources, NEW root \in Seq(STRING), CandidateRoots(sources, root) # {}
  PROVE  LET longest == Longest(CandidateRoots(sources, root))
         IN  /\ longest \in CandidateRoots(sources, root)
             /\ \A r \in CandidateRoots(sources, root) : Len(r) <= Len(longest)
<1> DEFINE roots == CandidateRoots(sources, root)
           lengths == {Len(r) : r \in roots}
<1>1. \A r \in roots : Len(r) \in Nat /\ Len(r) <= Len(root)
  <2>1. \A r \in Upwards(root) : \E n \in 0 .. Len(root) : r = SubSeq(root, 1, n)
    BY DEF Upwards
  <2>2. Len(root) \in Nat
    OBVIOUS
  <2> QED
    BY <2>1, <2>2, AbovePath DEF CandidateRoots
<1>2. lengths \in SUBSET Nat /\ lengths # {} /\ \A n \in lengths : n <= Len(root)
  <2> HIDE DEF roots
  <2> QED
    BY <1>1 DEF roots
<1>3. PICK n \in lengths : \A k \in lengths : k <= n
  <2>1. Len(root) \in Nat
    OBVIOUS
  <2> HIDE DEF lengths
  <2> QED
    BY <1>2, <2>1, Largest
<1>4. \E r \in roots : \A s \in roots : Len(s) <= Len(r)
  BY <1>3
<1> HIDE DEF roots
<1>5. Longest(roots) \in roots /\ \A r \in roots : Len(r) <= Len(Longest(roots))
  BY <1>4 DEF Longest
<1> QED
  BY <1>5 DEF roots

\* What a resolved reference says of the manifest and its configuration.
LEMMA ResolvedReference ==
  ASSUME NEW sources, NEW f, Resolution(sources, f).resolved
  PROVE  \E config \in Configs(sources) :
           /\ Resolution(sources, f) = ResolvedBy(config)
           /\ CandidateRoots(sources, f.root) # {}
           /\ config.root = Longest(CandidateRoots(sources, f.root))
           /\ ~ ConfigFails(config) /\ BelongsTo(sources, f, config)
<1> DEFINE roots == CandidateRoots(sources, f.root)
           found == {c \in Configs(sources) : c.root = Longest(roots)}
           config == CHOOSE c \in found : TRUE
<1>1. Resolution(sources, f) # Unresolved
  BY DEF Unresolved
<1>2. /\ Resolution(sources, f) = ResolvedBy(config)
      /\ roots # {} /\ Cardinality(found) = 1
      /\ ~ ConfigFails(config) /\ BelongsTo(sources, f, config)
  BY <1>1 DEF Resolution
<1>3. config \in found
  <2>1. found # {}
    <3> HIDE DEF found
    <3> QED
      BY <1>2, FS_EmptySet
  <2> QED
    BY <2>1
<1> QED
  BY <1>2, <1>3

\* The configuration that resolves a reference from above is that of a workspace
\* which has the manifest as a member.
LEMMA ConfigurationClaims ==
  ASSUME NEW t, IsRepository(t), NEW sources, sources \subseteq t, NEW f \in sources,
         NEW config \in Configs(sources), IsAncestorRoot(config.root, f.root),
         ~ ConfigFails(config), BelongsTo(sources, f, config)
  PROVE  /\ \E w \in JavaScriptSpaces(sources) : w.root = config.root /\ Claims(w, f.root)
         /\ ConfigManager(config) \in SpaceManagers(sources, config.root) \ {""}
<1> DEFINE patterns == ConfigPatterns(sources, config)
           beside == ManifestsAt(sources, config.root)
<1>1. config.root # f.root
  BY FilesKnown DEF IsAncestorRoot
<1>2. WorkspaceMatches(Relative(config.root, f.root), patterns)
  BY <1>1 DEF BelongsTo
<1>3. patterns # <<>>
  BY <1>2 DEF WorkspaceMatches
<1>4. CASE ConfigManager(config) = "pnpm"
  <2>1. DetectorOf(config.name) = "js-pnpm-workspace" /\ config \in sources
    BY <1>4 DEF Configs, ConfigManager, Of
  <2>2. config \in Read(sources, "js-pnpm-workspace")
    BY <2>1 DEF Read, Of, Unparsable, ConfigFails
  <2> DEFINE w == Workspace(config.root, Facts(config).workspaces, "pnpm")
  <2>3. w \in JavaScriptSpaces(sources)
    BY <2>2 DEF JavaScriptSpaces
  <2>4. w.root = config.root /\ w.patterns = Facts(config).workspaces /\ w.manager = "pnpm"
    BY DEF Workspace
  <2>5. patterns = Facts(config).workspaces
    BY <1>4 DEF ConfigPatterns
  <2> HIDE DEF w
  <2>6. Claims(w, f.root)
    BY <1>2, <2>4, <2>5 DEF Claims
  <2>7. "pnpm" \in SpaceManagers(sources, config.root)
    BY <2>3, <2>4 DEF SpaceManagers
  <2> QED
    BY <1>4, <2>3, <2>4, <2>6, <2>7
<1>5. CASE ConfigManager(config) = "yarn"
  <2>1. DetectorOf(config.name) = "js-yarnrc" /\ config \in Of(sources, "js-yarnrc")
    BY <1>5 DEF Configs, ConfigManager, Of
  <2>2. "yarn" \in SpaceManagers(sources, config.root)
    <3> DEFINE v == Workspace(config.root, <<>>, "yarn")
    <3>1. v \in JavaScriptSpaces(sources)
      BY <2>1 DEF JavaScriptSpaces
    <3>2. v.root = config.root /\ v.manager = "yarn"
      BY DEF Workspace
    <3> HIDE DEF v
    <3> QED
      BY <3>1, <3>2 DEF SpaceManagers
  <2> DEFINE g == CHOOSE h \in beside : TRUE
  <2>3. beside # {} /\ patterns = Facts(g).workspaces
    BY <1>3, <1>5 DEF ConfigPatterns
  <2>4. g \in JavaScript(sources) /\ g.root = config.root
    BY <2>3 DEF ManifestsAt
  <2> HIDE DEF g
  <2> DEFINE w == Workspace(g.root, Facts(g).workspaces, Facts(g).manager)
  <2>5. w \in JavaScriptSpaces(sources)
    BY <1>3, <2>3, <2>4 DEF JavaScriptSpaces
  <2>6. w.root = config.root /\ w.patterns = Facts(g).workspaces
    BY <2>4 DEF Workspace
  <2> HIDE DEF w
  <2>7. Claims(w, f.root)
    BY <1>2, <2>3, <2>6 DEF Claims
  <2> QED
    BY <1>5, <2>2, <2>5, <2>6, <2>7
<1> QED
  BY <1>4, <1>5 DEF ConfigManager

\* No workspace further down has the manifest as a member.
LEMMA NothingBetween ==
  ASSUME NEW t, IsRepository(t), NEW sources, sources \subseteq t, NEW f \in sources,
         NEW config \in Configs(sources), IsAncestorRoot(config.root, f.root),
         \A r \in CandidateRoots(sources, f.root) : Len(r) <= Len(config.root),
         BelongsTo(sources, f, config),
         NEW w \in JavaScriptSpaces(sources), Claims(w, f.root)
  PROVE  Len(w.root) <= Len(config.root)
<1>1. /\ config \in t /\ config.root \in Seq(STRING) /\ f.root \in Seq(STRING)
      /\ Len(config.root) \in Nat
  BY FilesKnown DEF Configs, Of
<1>2. IsAncestorRoot(w.root, f.root) /\ WorkspaceMatches(Relative(w.root, f.root), w.patterns)
  BY DEF Claims
<1>3. CASE \E h \in Read(sources, "js-pnpm-workspace") :
             w = Workspace(h.root, Facts(h).workspaces, "pnpm")
  <2>1. PICK h \in Read(sources, "js-pnpm-workspace") :
          w = Workspace(h.root, Facts(h).workspaces, "pnpm")
    BY <1>3
  <2>2. w.root = h.root /\ h \in Configs(sources) /\ h \in t
    BY <2>1 DEF Workspace, Configs, Read, Of
  <2>3. h.root \in Upwards(f.root)
    BY <1>1, <1>2, <2>2, FilesKnown, AbovePath
  <2>4. h.root \in CandidateRoots(sources, f.root)
    BY <2>2, <2>3 DEF CandidateRoots
  <2> QED
    BY <2>2, <2>4
<1>4. CASE \E h \in Of(sources, "js-yarnrc") : w = Workspace(h.root, <<>>, "yarn")
  <2>1. w.patterns = <<>>
    BY <1>4 DEF Workspace
  <2> QED
    BY <1>2, <2>1 DEF WorkspaceMatches
<1>5. CASE \E h \in JavaScript(sources) : /\ Facts(h).workspaces # <<>>
                                         /\ w = Workspace(h.root, Facts(h).workspaces, Facts(h).manager)
  <2>1. PICK h \in JavaScript(sources) :
          /\ Facts(h).workspaces # <<>>
          /\ w = Workspace(h.root, Facts(h).workspaces, Facts(h).manager)
    BY <1>5
  <2>2. w.root = h.root /\ h \in t
    BY <2>1 DEF Workspace, JavaScript, Read, Of
  <2>3. h.root \in Seq(STRING) /\ Len(h.root) \in Nat /\ IsAncestorRoot(h.root, f.root)
    BY <1>2, <2>2, FilesKnown
  <2>4. ~ IsAncestorRoot(config.root, h.root)
    <3>1. config.root # f.root
      BY <1>1 DEF IsAncestorRoot
    <3>2. IsAncestorRoot(config.root, h.root) => ~ Nested(h, config, ConfigPatterns(sources, config))
      BY <2>3, <3>1 DEF BelongsTo
    <3> QED
      BY <2>1, <3>2 DEF Nested
  <2>5. ~ (Len(config.root) < Len(h.root))
    BY <1>1, <2>3, <2>4, AncestorsNest
  <2> QED
    BY <1>1, <2>2, <2>3, <2>5
<1> QED
  BY <1>3, <1>4, <1>5 DEF JavaScriptSpaces

\* Where a catalog reference resolves through a configuration above its manifest,
\* the lockfile checks look for a lockfile of the same manager at the same root
\* (javascriptCatalogOwner against javascriptWorkspaceOwner).
THEOREM CatalogsAgree == Spec => []CatalogsAgreeWithLockfiles
<1>1. IInv => CatalogsAgreeWithLockfiles
  <2> DEFINE sources == Sources(tree, disabled)
  <2> SUFFICES ASSUME IInv, NEW p \in resolutions, p[2].resolved, p[2].root # p[1].root
               PROVE  /\ WorkspaceOwner(p[1].root, JavaScriptSpaces(sources)) = p[2].root
                      /\ \A m \in Managers \ {p[2].manager} : <<m, p[2].root>> \notin findings
    BY DEF CatalogsAgreeWithLockfiles
  <2>1. PICK f \in Referring(sources) : p = <<f, Resolution(sources, f)>>
    BY Said DEF Resolutions
  <2>2. p[1] = f /\ p[2] = Resolution(sources, f)
    BY <2>1
  <2>3. IsRepository(tree) /\ sources \subseteq tree /\ f \in sources
    BY SourcesAreFiles DEF IInv, Referring, JavaScript, Read, Of
  <2> HIDE DEF sources
  <2>4. PICK config \in Configs(sources) :
          /\ Resolution(sources, f) = ResolvedBy(config)
          /\ CandidateRoots(sources, f.root) # {}
          /\ config.root = Longest(CandidateRoots(sources, f.root))
          /\ ~ ConfigFails(config) /\ BelongsTo(sources, f, config)
    BY <2>2, ResolvedReference
  <2>5. p[2].root = config.root /\ p[2].manager = ConfigManager(config)
    BY <2>2, <2>4 DEF ResolvedBy
  <2>6. f.root \in Seq(STRING) /\ config.root \in Seq(STRING)
    BY <2>3, FilesKnown DEF Configs, Of
  <2>7. /\ config.root \in CandidateRoots(sources, f.root)
        /\ \A r \in CandidateRoots(sources, f.root) : Len(r) <= Len(config.root)
    BY <2>4, <2>6, LongestCandidate
  <2>8. IsAncestorRoot(config.root, f.root)
    <3>1. PICK n \in 0 .. Len(f.root) : config.root = SubSeq(f.root, 1, n)
      BY <2>7 DEF CandidateRoots, Upwards
    <3>2. n # Len(f.root)
      BY <2>2, <2>5, <2>6, <3>1
    <3>3. n \in 0 .. Len(f.root) - 1
      BY <2>6, <3>2
    <3> QED
      BY <2>6, <3>1, <3>3, AbovePath
  <2>9. /\ \E w \in JavaScriptSpaces(sources) : w.root = config.root /\ Claims(w, f.root)
        /\ ConfigManager(config) \in SpaceManagers(sources, config.root) \ {""}
    BY <2>3, <2>4, <2>8, ConfigurationClaims
  <2>10. \A w \in JavaScriptSpaces(sources) : Claims(w, f.root) => Len(w.root) <= Len(config.root)
    BY <2>3, <2>4, <2>7, <2>8, NothingBetween
  <2>11. WorkspaceOwner(f.root, JavaScriptSpaces(sources)) = config.root
    <3> DEFINE spaces == JavaScriptSpaces(sources)
               owner == WorkspaceOwner(f.root, spaces)
    <3>1. \A w \in spaces : w.root \in Seq(STRING)
      <4>1. \A g \in tree : g.root \in Seq(STRING)
        BY <2>3, FilesKnown
      <4> QED
        BY <2>3, <4>1 DEF JavaScriptSpaces, JavaScript, Read, Of, Workspace
    <3> HIDE DEF spaces
    <3>2. PICK w \in spaces : w.root = config.root /\ Claims(w, f.root)
      BY <2>9 DEF spaces
    <3>3. PICK v \in spaces : v.root = owner /\ Claims(v, f.root)
      BY <2>6, <3>1, <3>2, InnermostOwner
    <3>4. Len(config.root) <= Len(owner) /\ owner \in Seq(STRING)
      BY <2>6, <3>1, <3>2, InnermostOwner
    <3>5. Len(owner) <= Len(config.root)
      BY <2>10, <3>3 DEF spaces
    <3>6. Len(owner) = Len(config.root)
      <4>1. Len(owner) \in Nat /\ Len(config.root) \in Nat
        BY <2>6, <3>4
      <4> QED
        BY <3>4, <3>5, <4>1
    <3>7. owner = config.root
      BY <2>6, <2>8, <3>3, <3>4, <3>6, AncestorsNest DEF Claims
    <3> QED
      BY <3>7 DEF spaces
  <2>12. ASSUME NEW m \in Managers, <<m, config.root>> \in findings
         PROVE  m = ConfigManager(config)
    <3> DEFINE q == <<m, config.root>>
    <3>1. q \in findings /\ q[1] = m /\ q[2] = config.root
      BY <2>12
    <3> HIDE DEF q
    <3>2. m \in Evaluators
      BY DEF Managers, Evaluators
    <3>3. config.root \in Evaluate(m, tree, disabled).findings /\ IsFiniteSet(tree)
      BY <3>1, <3>2, FindingsExplained
    <3>4. EvidenceAt(sources, config.root) = {m}
      BY <3>3, ReportedManager DEF sources
    <3>5. ConfigManager(config) \in EvidenceAt(sources, config.root)
      BY <2>9 DEF EvidenceAt, ProjectManagers
    <3> QED
      BY <3>4, <3>5
  <2> QED
    BY <2>2, <2>5, <2>11, <2>12
<1> QED
  BY <1>1, Invariance, PTL

-----------------------------------------------------------------------------
(* Doing what a finding asks for.                                          *)

LockDetectors == JavaScriptLocks \cup
  {"python-uv", "rust-cargo-lock", "go-sum", "php-composer-lock", "ruby-gemfile-lock"}
\* The checks that judge one manifest, or one workspace, by one lockfile.
Alone == {"uv", "cargo", "go", "composer", "gemfile"}
LockOf(check) ==
  CASE check = "uv" -> "uv.lock" [] check = "cargo" -> "Cargo.lock"
    [] check = "go" -> "go.sum" [] check = "composer" -> "composer.lock"
    [] check = "gemfile" -> "Gemfile.lock"

LEMMA LockNames ==
  /\ Evaluators = Managers \cup Alone \cup {"conflicting"}
  /\ \A check \in Managers \cup Alone : \A name \in Accepted(check) :
       /\ DetectorOf(name) \in Prerequisites(check) /\ DetectorOf(name) \in LockDetectors
       /\ DetectorOf(name) # "none"
  /\ \A check \in Alone : Accepted(check) = {LockOf(check)}
  /\ \A m \in Managers : Accepted(m) = LockfileNames(m)
  /\ \A a, b \in Managers \cup Alone : a # b => Accepted(a) \cap Accepted(b) = {}
<1>1. Evaluators = Managers \cup Alone \cup {"conflicting"}
  BY DEF Evaluators, Managers, Alone
<1>2. ASSUME NEW check \in Managers \cup Alone, NEW name \in Accepted(check)
      PROVE  /\ DetectorOf(name) \in Prerequisites(check) /\ DetectorOf(name) \in LockDetectors
             /\ DetectorOf(name) # "none"
  BY <1>2 DEF Managers, Alone, Accepted, DetectorOf, Prerequisites, LockDetectors, JavaScriptLocks
<1>3. \A check \in Alone : Accepted(check) = {LockOf(check)}
  BY DEF Alone, Accepted, LockOf
<1>4. \A m \in Managers : Accepted(m) = LockfileNames(m)
  BY DEF Managers, Accepted, LockfileNames
<1>5. \A a, b \in Managers \cup Alone : a # b => Accepted(a) \cap Accepted(b) = {}
  BY DEF Managers, Alone, Accepted
<1> QED
  BY <1>1, <1>2, <1>3, <1>4, <1>5

\* Two repositories that differ in lockfiles alone.
SameApartFromLocks(t, u) == \A f : DetectorOf(f.name) \notin LockDetectors => (f \in t <=> f \in u)

LEMMA SameManifests ==
  ASSUME NEW t, NEW u, SameApartFromLocks(t, u), NEW d
  PROVE  /\ \A detector : detector \notin LockDetectors =>
              /\ Of(Sources(t, d), detector) = Of(Sources(u, d), detector)
              /\ Read(Sources(t, d), detector) = Read(Sources(u, d), detector)
         /\ JavaScript(Sources(t, d)) = JavaScript(Sources(u, d))
         /\ JavaScriptSpaces(Sources(t, d)) = JavaScriptSpaces(Sources(u, d))
         /\ Projects(Sources(t, d)) = Projects(Sources(u, d))
         /\ UV(t) = UV(u) /\ Cargo(Sources(t, d)) = Cargo(Sources(u, d))
         /\ \A root : HasSource(t, root, "main.rs") <=> HasSource(u, root, "main.rs")
<1>1. \A f : DetectorOf(f.name) \notin LockDetectors =>
               (f \in Sources(t, d) <=> f \in Sources(u, d))
  BY DEF SameApartFromLocks, Sources
<1>2. ASSUME NEW detector, detector \notin LockDetectors
      PROVE  /\ Of(Sources(t, d), detector) = Of(Sources(u, d), detector)
             /\ Read(Sources(t, d), detector) = Read(Sources(u, d), detector)
             /\ Read(t, detector) = Read(u, detector)
  <2>1. Of(Sources(t, d), detector) = Of(Sources(u, d), detector)
    <3> DEFINE S == Sources(t, d)
               R == Sources(u, d)
    <3> HIDE DEF S, R
    <3>1. \A f : f \in Of(S, detector) <=> f \in Of(R, detector)
      BY <1>1, <1>2 DEF Of, S, R
    <3>2. Of(S, detector) = Of(R, detector)
      BY <3>1 DEF Of
    <3> QED
      BY <3>2 DEF S, R
  <2>2. Of(t, detector) = Of(u, detector)
    <3>1. \A f : f \in Of(t, detector) <=> f \in Of(u, detector)
      BY <1>2 DEF Of, SameApartFromLocks
    <3> QED
      BY <3>1 DEF Of
  <2> QED
    BY <2>1, <2>2 DEF Read
<1>3. {"js", "js-pnpm-workspace", "js-yarnrc", "python-pyproject", "rust-cargo", "none"}
        \cap LockDetectors = {}
  BY DEF LockDetectors, JavaScriptLocks
<1>4. JavaScript(Sources(t, d)) = JavaScript(Sources(u, d))
  BY <1>2, <1>3 DEF JavaScript
<1>5. JavaScriptSpaces(Sources(t, d)) = JavaScriptSpaces(Sources(u, d))
  BY <1>2, <1>3, <1>4 DEF JavaScriptSpaces
<1>6. Projects(Sources(t, d)) = Projects(Sources(u, d))
  BY <1>4, <1>5 DEF Projects
<1>7. UV(t) = UV(u) /\ Cargo(Sources(t, d)) = Cargo(Sources(u, d))
  BY <1>2, <1>3 DEF UV, Cargo
<1>8. \A root : HasSource(t, root, "main.rs") <=> HasSource(u, root, "main.rs")
  <2>1. DetectorOf("main.rs") \notin LockDetectors
    BY DEF DetectorOf, LockDetectors, JavaScriptLocks
  <2> QED
    BY <2>1 DEF HasSource, SameApartFromLocks
<1> QED
  BY <1>2, <1>4, <1>5, <1>6, <1>7, <1>8

\* The roots that are judged on their own.
Judged(check, t, sources) ==
  CASE check = "uv" ->
         {WorkspaceOwner(f.root, ManifestSpaces(UV(t), "uv")) : f \in
            {g \in UV(t) : /\ Facts(g).deps
                           /\ \E h \in UV(t) :
                                /\ h.root = WorkspaceOwner(g.root, ManifestSpaces(UV(t), "uv"))
                                /\ Facts(h).managed}}
    [] check = "cargo" ->
         {WorkspaceOwner(f.root, ManifestSpaces(Cargo(sources), "cargo")) : f \in
            {g \in Cargo(sources) : /\ Facts(g).deps
                                    /\ Facts(g).package \/ Facts(g).workspaces = <<>>
                                    /\ IsApplication(t, g)}}
    [] check = "go" ->
         {f.root : f \in {g \in Read(sources, "go-mod") :
                            Facts(g).requirements # {} /\ "external" \in Facts(g).requirements}}
    [] check = "composer" ->
         {f.root : f \in {g \in Read(sources, "php-composer") :
                            /\ Facts(g).deps
                            /\ ~ Facts(g).lockDisabled /\ Facts(g).type = "project"}}
    [] check = "gemfile" ->
         {f.root : f \in {g \in Read(sources, "ruby-gemfile") : Facts(g).deps /\ ~ Facts(g).gemspec}}

\* What a check completes on.
CompletesOn(runs_, roots) ==
  /\ \A root \in roots : Completed(root) \in runs_
  /\ \A r \in runs_ : r.status = "completed" => r.root \in roots

LEMMA OtherRuns ==
  /\ \A root : Completed(root).status = "completed" /\ Completed(root).root = root
  /\ \A root, reason : Skipped(root, reason).status # "completed"
  /\ \A errors, detector : \A r \in FailedRuns(errors, detector) : r.status # "completed"
<1>1. \A f : Failed(f).status # "completed"
  BY DEF Failed
<1>2. \A errors, detector : \A r \in FailedRuns(errors, detector) : \E f : r = Failed(f)
  BY DEF FailedRuns
<1>3. \A root : Completed(root).status = "completed" /\ Completed(root).root = root
  BY DEF Completed
<1>4. \A root, reason : Skipped(root, reason).status # "completed"
  BY DEF Skipped
<1> QED
  BY <1>1, <1>2, <1>3, <1>4

LEMMA CompletedRuns ==
  ASSUME NEW others, NEW roots, \A r \in others : r.status # "completed"
  PROVE  CompletesOn(others \cup {Completed(root) : root \in roots}, roots)
BY OtherRuns DEF CompletesOn

LEMMA JudgedRoots ==
  ASSUME NEW t, NEW d, NEW check \in Alone, Prerequisites(check) \cap d = {}
  PROVE  LET sources == Sources(t, d)
             result == Evaluate(check, t, d)
         IN  /\ result.findings = {root \in Judged(check, t, sources) :
                                     ~ HasSource(sources, root, LockOf(check))}
             /\ CompletesOn(result.runs, Judged(check, t, sources))
<1> DEFINE sources == Sources(t, d)
           errors == ParseErrors(t, sources)
           result == Evaluate(check, t, d)
           roots == Judged(check, t, sources)
           failed(detector) == FailedRuns(errors, detector)
           answer == /\ result.findings = {root \in roots : ~ HasSource(sources, root, LockOf(check))}
                     /\ CompletesOn(result.runs, roots)
<1>1. \A detector : \A r \in failed(detector) : r.status # "completed"
  BY OtherRuns
<1>2. CASE check = "uv"
  <2>1. /\ result.findings = {root \in roots : ~ HasSource(sources, root, "uv.lock")}
        /\ result.runs = failed("python-pyproject") \cup {Completed(root) : root \in roots}
    <3>1. result = UVLockfile(errors, t, sources)
      BY <1>2 DEF Evaluate
    <3>2. roots = {WorkspaceOwner(f.root, ManifestSpaces(UV(t), "uv")) : f \in
            {g \in UV(t) : /\ Facts(g).deps
                           /\ \E h \in UV(t) :
                                /\ h.root = WorkspaceOwner(g.root, ManifestSpaces(UV(t), "uv"))
                                /\ Facts(h).managed}}
      BY <1>2 DEF Judged
    <3> HIDE DEF result, roots, sources, errors
    <3> QED
      BY <3>1, <3>2 DEF UVLockfile, Result
  <2>2. LockOf(check) = "uv.lock"
    BY <1>2 DEF LockOf
  <2>3. CompletesOn(result.runs, roots)
    <3> DEFINE others == failed("python-pyproject")
    <3>1. \A r \in others : r.status # "completed"
      BY <1>1
    <3> HIDE DEF result, roots, others
    <3> QED
      BY <2>1, <3>1, CompletedRuns DEF others
  <2>4. answer
    BY <2>1, <2>2, <2>3
  <2> QED
    BY <2>4
<1>3. CASE check = "cargo"
  <2> DEFINE packages == {f \in Cargo(sources) : /\ Facts(f).deps
                                                 /\ Facts(f).package \/ Facts(f).workspaces = <<>>}
             skipped == {Skipped(f.root, "project-role-unknown") :
                           f \in {g \in packages : ~ IsApplication(t, g)}}
  <2>1. /\ result.findings = {root \in roots : ~ HasSource(sources, root, "Cargo.lock")}
        /\ result.runs = failed("rust-cargo") \cup skipped \cup {Completed(root) : root \in roots}
    <3>1. result = CargoLockfile(errors, t, sources)
      BY <1>3 DEF Evaluate
    <3>2. roots = {WorkspaceOwner(f.root, ManifestSpaces(Cargo(sources), "cargo")) :
                     f \in {g \in packages : IsApplication(t, g)}}
      BY <1>3 DEF Judged
    <3>3. packages \ {g \in packages : IsApplication(t, g)} = {g \in packages : ~ IsApplication(t, g)}
      OBVIOUS
    <3> HIDE DEF result, roots, sources, errors
    <3> QED
      BY <3>1, <3>2, <3>3 DEF CargoLockfile, CargoOwner, Result
  <2>2. LockOf(check) = "Cargo.lock"
    BY <1>3 DEF LockOf
  <2>3. CompletesOn(result.runs, roots)
    <3>1. \A r \in skipped : r.status # "completed"
      BY OtherRuns
    <3> DEFINE others == failed("rust-cargo") \cup skipped
    <3>2. \A r \in others : r.status # "completed"
      BY <1>1, <3>1
    <3> HIDE DEF result, roots, others
    <3> QED
      BY <2>1, <3>2, CompletedRuns DEF others
  <2>4. answer
    BY <2>1, <2>2, <2>3
  <2> QED
    BY <2>4
<1>4. ASSUME NEW judged, NEW skipped, NEW lockfile,
             \A r \in skipped : r.status # "completed",
             result = LockfileBeside(skipped, judged, sources, lockfile),
             lockfile = LockOf(check), roots = {f.root : f \in judged}
      PROVE  answer
  <2>1. /\ result.runs = skipped \cup {Completed(root) : root \in {f.root : f \in judged}}
        /\ result.findings = {root \in {f.root : f \in judged} : ~ HasSource(sources, root, lockfile)}
    <3> HIDE DEF sources, roots
    <3> QED
      BY <1>4 DEF LockfileBeside, Result
  <2>2. CompletesOn(result.runs, roots)
    <3> HIDE DEF result, roots
    <3> QED
      BY <1>4, <2>1, CompletedRuns
  <2> QED
    BY <1>4, <2>1, <2>2
<1>5. CASE check = "go"
  <2> DEFINE modules == {f \in Read(sources, "go-mod") : Facts(f).requirements # {}}
             judged == {f \in modules : "external" \in Facts(f).requirements}
             skipped == failed("go-mod") \cup
                          {Skipped(f.root, "local-dependencies-only") : f \in modules \ judged}
  <2>1. result = LockfileBeside(skipped, judged, sources, "go.sum")
    BY <1>5 DEF Evaluate, GoSum
  <2>2. LockOf(check) = "go.sum" /\ roots = {f.root : f \in judged}
    BY <1>5 DEF LockOf, Judged
  <2>3. \A r \in skipped : r.status # "completed"
    BY OtherRuns
  <2> HIDE DEF judged, skipped, roots, result
  <2>4. answer
    BY <1>4, <2>1, <2>2, <2>3
  <2> QED
    BY <2>4 DEF result, roots
<1>6. CASE check = "composer"
  <2> DEFINE manifests == {f \in Read(sources, "php-composer") : Facts(f).deps}
             judged == {f \in manifests : ~ Facts(f).lockDisabled /\ Facts(f).type = "project"}
             skipped == failed("php-composer") \cup
                          {Skipped(f.root, NotLocked(f)) : f \in manifests \ judged}
  <2>1. result = LockfileBeside(skipped, judged, sources, "composer.lock")
    BY <1>6 DEF Evaluate, ComposerLockfile
  <2>2. LockOf(check) = "composer.lock" /\ roots = {f.root : f \in judged}
    BY <1>6 DEF LockOf, Judged
  <2>3. \A r \in skipped : r.status # "completed"
    BY OtherRuns
  <2> HIDE DEF judged, skipped, roots, result
  <2>4. answer
    BY <1>4, <2>1, <2>2, <2>3
  <2> QED
    BY <2>4 DEF result, roots
<1>7. CASE check = "gemfile"
  <2> DEFINE gemfiles == {f \in Read(sources, "ruby-gemfile") : Facts(f).deps}
             judged == {f \in gemfiles : ~ Facts(f).gemspec}
             skipped == {Skipped(f.root, "not-application") : f \in gemfiles \ judged}
  <2>1. result = LockfileBeside(skipped, judged, sources, "Gemfile.lock")
    BY <1>7 DEF Evaluate, GemfileLockfile
  <2>2. LockOf(check) = "Gemfile.lock" /\ roots = {f.root : f \in judged}
    BY <1>7 DEF LockOf, Judged
  <2>3. \A r \in skipped : r.status # "completed"
    BY OtherRuns
  <2> HIDE DEF judged, skipped, roots, result
  <2>4. answer
    BY <1>4, <2>1, <2>2, <2>3
  <2> QED
    BY <2>4 DEF result, roots
<1> QED
  BY <1>2, <1>3, <1>5, <1>6, <1>7 DEF Alone

\* The projects where a manager is the only one there is evidence of.
Clear(m, sources) ==
  {root \in DOMAIN Projects(sources) :
     /\ \E f \in Projects(sources)[root] : Facts(f).deps
     /\ ~ \E f \in Projects(sources)[root] : Facts(f).invalid
     /\ m \in EvidenceAt(sources, root) /\ Cardinality(EvidenceAt(sources, root)) = 1}

LEMMA ClearRoots ==
  ASSUME NEW t, NEW d, NEW m \in Managers, Prerequisites(m) \cap d = {}
  PROVE  LET sources == Sources(t, d)
             result == Evaluate(m, t, d)
         IN  /\ result.findings = {root \in Clear(m, sources) :
                                     ~ HasLockfile(sources, root, LockfileNames(m))}
             /\ CompletesOn(result.runs, Clear(m, sources))
<1> DEFINE sources == Sources(t, d)
           errors == ParseErrors(t, sources)
           result == Evaluate(m, t, d)
           clear == Clear(m, sources)
           selected == {root \in DOMAIN Projects(sources) :
                          /\ \E f \in Projects(sources)[root] : Facts(f).deps
                          /\ m \in EvidenceAt(sources, root)}
           ambiguous == {root \in selected : \/ \E f \in Projects(sources)[root] : Facts(f).invalid
                                             \/ Cardinality(EvidenceAt(sources, root)) # 1}
           others == FailedRuns(errors, "js")
             \cup (IF m = "pnpm" THEN FailedRuns(errors, "js-pnpm-workspace") ELSE {})
             \cup {Skipped(root, "ambiguous-package-manager") : root \in ambiguous}
<1>1. result = JavaScriptLockfile(errors, sources, m)
  BY DEF Evaluate, Managers
<1>2. clear = selected \ ambiguous
  BY DEF Clear
<1>3. \A r \in others : r.status # "completed"
  BY OtherRuns
<1> HIDE DEF sources, result, clear
<1>4. /\ result.runs = others \cup {Completed(root) : root \in clear}
      /\ result.findings = {root \in clear : ~ HasLockfile(sources, root, LockfileNames(m))}
  BY <1>1, <1>2 DEF JavaScriptLockfile, EvidenceAt, Result
<1> HIDE DEF others
<1>5. CompletesOn(result.runs, clear)
  BY <1>3, <1>4, CompletedRuns
<1> QED
  BY <1>4, <1>5 DEF sources, result, clear

LEMMA ConflictRoots ==
  ASSUME NEW t, NEW d, Prerequisites("conflicting") \cap d = {}
  PROVE  LET sources == Sources(t, d)
             result == Evaluate("conflicting", t, d)
         IN  /\ result.findings = {root \in DOMAIN Projects(sources) :
                                     Cardinality(LockManagers(sources, root)) >= 2}
             /\ CompletesOn(result.runs, DOMAIN Projects(sources))
<1> DEFINE sources == Sources(t, d)
           result == Evaluate("conflicting", t, d)
           others == FailedRuns(ParseErrors(t, sources), "js")
           roots == DOMAIN Projects(sources)
<1>1. /\ result.runs = others \cup {Completed(root) : root \in roots}
      /\ result.findings = {root \in roots : Cardinality(LockManagers(sources, root)) >= 2}
  BY DEF Evaluate, ConflictingLockfiles, Result
<1>2. \A r \in others : r.status # "completed"
  BY OtherRuns
<1> HIDE DEF result, others, roots
<1>3. CompletesOn(result.runs, roots)
  BY <1>1, <1>2, CompletedRuns
<1> QED
  BY <1>1, <1>3 DEF result, roots

LEMMA SameJudged ==
  ASSUME NEW t, NEW u, SameApartFromLocks(t, u), NEW d, NEW check \in Alone
  PROVE  Judged(check, t, Sources(t, d)) = Judged(check, u, Sources(u, d))
<1>1. {"go-mod", "php-composer", "ruby-gemfile"} \cap LockDetectors = {}
  BY DEF LockDetectors, JavaScriptLocks
<1>2. \A f : IsApplication(t, f) <=> IsApplication(u, f)
  BY SameManifests DEF IsApplication
<1>3. /\ UV(t) = UV(u) /\ Cargo(Sources(t, d)) = Cargo(Sources(u, d))
      /\ Read(Sources(t, d), "go-mod") = Read(Sources(u, d), "go-mod")
      /\ Read(Sources(t, d), "php-composer") = Read(Sources(u, d), "php-composer")
      /\ Read(Sources(t, d), "ruby-gemfile") = Read(Sources(u, d), "ruby-gemfile")
  BY <1>1, SameManifests
<1> QED
  BY <1>2, <1>3 DEF Judged, Alone

\* A lockfile that is committed is the only thing that changes.
LEMMA Committed ==
  ASSUME NEW t, NEW d, NEW check \in Managers \cup Alone, NEW name \in Accepted(check),
         NEW root, Prerequisites(check) \cap d = {}
  PROVE  LET u == t \cup {File(root, name, "ok", NoFacts)}
         IN  /\ SameApartFromLocks(t, u)
             /\ \A r, n : HasSource(Sources(u, d), r, n)
                             <=> HasSource(Sources(t, d), r, n) \/ (r = root /\ n = name)
<1> DEFINE lock == File(root, name, "ok", NoFacts)
           u == t \cup {lock}
<1>1. /\ DetectorOf(name) \in Prerequisites(check) /\ DetectorOf(name) \in LockDetectors
      /\ DetectorOf(name) # "none"
  BY LockNames
<1>2. lock.root = root /\ lock.name = name
  BY DEF File
<1> HIDE DEF lock
<1>3. SameApartFromLocks(t, u)
  BY <1>1, <1>2 DEF SameApartFromLocks
<1>4. Sources(u, d) = Sources(t, d) \cup {lock}
  BY <1>1, <1>2 DEF Sources
<1>5. \A r, n : HasSource(Sources(u, d), r, n)
                  <=> HasSource(Sources(t, d), r, n) \/ (r = root /\ n = name)
  BY <1>2, <1>4 DEF HasSource
<1> QED
  BY <1>3, <1>5 DEF lock

LEMMA FoundWhereAble ==
  ASSUME NEW t, NEW d, NEW check, NEW root \in Evaluate(check, t, d).findings
  PROVE  Prerequisites(check) \cap d = {}
BY DEF Evaluate, Result

\* What a committed lockfile changes for the managers.
LEMMA CommittedLocks ==
  ASSUME NEW t, NEW d, NEW check \in Managers \cup Alone, NEW name \in Accepted(check),
         NEW root, Prerequisites(check) \cap d = {}, NEW r
  PROVE  LET u == t \cup {File(root, name, "ok", NoFacts)}
         IN  /\ \A m \in Managers :
                  HasLockfile(Sources(u, d), r, LockfileNames(m))
                    <=> HasLockfile(Sources(t, d), r, LockfileNames(m)) \/ (r = root /\ m = check)
             /\ LockManagers(Sources(u, d), r) = LockManagers(Sources(t, d), r)
                  \cup (IF r = root /\ check \in Managers THEN {check} ELSE {})
<1> DEFINE u == t \cup {File(root, name, "ok", NoFacts)}
<1>1. \A n : HasSource(Sources(u, d), r, n)
               <=> HasSource(Sources(t, d), r, n) \/ (r = root /\ n = name)
  BY Committed
<1>2. ASSUME NEW m \in Managers
      PROVE  name \in LockfileNames(m) <=> m = check
  <2>1. m # check => Accepted(m) \cap Accepted(check) = {}
    BY LockNames
  <2>2. LockfileNames(m) = Accepted(m)
    BY LockNames
  <2> QED
    BY <2>1, <2>2
<1> HIDE DEF u
<1>3. \A m \in Managers :
        HasLockfile(Sources(u, d), r, LockfileNames(m))
          <=> HasLockfile(Sources(t, d), r, LockfileNames(m)) \/ (r = root /\ m = check)
  BY <1>1, <1>2 DEF HasLockfile
<1>4. \A m : m \in LockManagers(Sources(u, d), r)
               <=> m \in LockManagers(Sources(t, d), r) \/ (r = root /\ m = check /\ m \in Managers)
  BY <1>3 DEF LockManagers, Managers
<1>5. LockManagers(Sources(u, d), r) = LockManagers(Sources(t, d), r)
        \cup (IF r = root /\ check \in Managers THEN {check} ELSE {})
  BY <1>4
<1> QED
  BY <1>3, <1>5 DEF u

LEMMA ClearThere ==
  ASSUME NEW t, NEW u, SameApartFromLocks(t, u), NEW d, NEW m, NEW root,
         EvidenceAt(Sources(u, d), root) = EvidenceAt(Sources(t, d), root)
  PROVE  root \in Clear(m, Sources(u, d)) <=> root \in Clear(m, Sources(t, d))
<1>1. Projects(Sources(t, d)) = Projects(Sources(u, d))
  BY SameManifests
<1> QED
  BY <1>1 DEF Clear

\* The lockfile that a finding asks for settles it, and brings up no other.
LEMMA CommittedSettles ==
  ASSUME NEW t, IsFiniteSet(t), NEW d, NEW check \in Managers \cup Alone,
         NEW name \in Accepted(check), NEW root \in Evaluate(check, t, d).findings
  PROVE  LET u == t \cup {File(root, name, "ok", NoFacts)}
         IN  /\ root \notin Evaluate(check, u, d).findings
             /\ Completed(root) \in Evaluate(check, u, d).runs
             /\ \A c \in Evaluators : Evaluate(c, u, d).findings \subseteq Evaluate(c, t, d).findings
<1> DEFINE u == t \cup {File(root, name, "ok", NoFacts)}
           old == Sources(t, d)
           new == Sources(u, d)
<1>1. Prerequisites(check) \cap d = {}
  BY FoundWhereAble
<1>2. /\ SameApartFromLocks(t, u)
      /\ \A r, n : HasSource(new, r, n) <=> HasSource(old, r, n) \/ (r = root /\ n = name)
  BY <1>1, Committed
<1>3. /\ \A r : \A m \in Managers :
           HasLockfile(new, r, LockfileNames(m))
             <=> HasLockfile(old, r, LockfileNames(m)) \/ (r = root /\ m = check)
      /\ \A r : LockManagers(new, r) = LockManagers(old, r)
           \cup (IF r = root /\ check \in Managers THEN {check} ELSE {})
  BY <1>1, CommittedLocks
<1> HIDE DEF u
<1>4. ASSUME check \in Managers
      PROVE  LockManagers(old, root) = {} /\ EvidenceAt(old, root) = {check}
  <2>1. check \notin LockManagers(old, root) /\ EvidenceAt(old, root) = {check}
    BY <1>4, ReportedManager
  <2>2. LockManagers(old, root) \subseteq EvidenceAt(old, root)
    BY DEF EvidenceAt, ProjectManagers
  <2> QED
    BY <2>1, <2>2
<1>5. \A r : EvidenceAt(new, r) = EvidenceAt(old, r)
  <2> SUFFICES ASSUME NEW r PROVE EvidenceAt(new, r) = EvidenceAt(old, r)
    OBVIOUS
  <2>1. LockManagers(new, r) = LockManagers(old, r)
          \cup (IF r = root /\ check \in Managers THEN {check} ELSE {})
    BY <1>3
  <2>2. Projects(old) = Projects(new) /\ SpaceManagers(old, r) = SpaceManagers(new, r)
    BY <1>2, SameManifests DEF SpaceManagers
  <2>3. EvidenceAt(new, r) = EvidenceAt(old, r)
           \cup (IF r = root /\ check \in Managers THEN {check} ELSE {})
    BY <2>1, <2>2 DEF EvidenceAt, ProjectManagers
  <2> QED
    BY <1>4, <2>3
<1>6. \A m, r : r \in Clear(m, new) <=> r \in Clear(m, old)
  BY <1>2, <1>5, ClearThere
<1>7. ASSUME NEW c \in Evaluators, Prerequisites(c) \cap d = {}
      PROVE  Evaluate(c, u, d).findings \subseteq Evaluate(c, t, d).findings
  <2>1. CASE c \in Managers
    <3>1. /\ Evaluate(c, u, d).findings = {r \in Clear(c, new) : ~ HasLockfile(new, r, LockfileNames(c))}
          /\ Evaluate(c, t, d).findings = {r \in Clear(c, old) : ~ HasLockfile(old, r, LockfileNames(c))}
      BY <1>7, <2>1, ClearRoots
    <3> QED
      BY <1>3, <1>6, <2>1, <3>1
  <2>2. CASE c \in Alone
    <3>1. /\ Evaluate(c, u, d).findings = {r \in Judged(c, u, new) : ~ HasSource(new, r, LockOf(c))}
          /\ Evaluate(c, t, d).findings = {r \in Judged(c, t, old) : ~ HasSource(old, r, LockOf(c))}
      BY <1>7, <2>2, JudgedRoots
    <3>2. Judged(c, u, new) = Judged(c, t, old)
      BY <1>2, <2>2, SameJudged
    <3> QED
      BY <1>2, <3>1, <3>2
  <2>3. CASE c = "conflicting"
    <3> DEFINE many(sources, r) == Cardinality(LockManagers(sources, r)) >= 2
    <3>1. /\ Evaluate(c, u, d).findings = {r \in DOMAIN Projects(new) : many(new, r)}
          /\ Evaluate(c, t, d).findings = {r \in DOMAIN Projects(old) : many(old, r)}
      BY <1>7, <2>3, ConflictRoots
    <3>2. Projects(new) = Projects(old)
      BY <1>2, SameManifests
    <3>3. ASSUME NEW r, many(new, r) PROVE many(old, r)
      <4>1. CASE LockManagers(new, r) = LockManagers(old, r)
        BY <3>3, <4>1
      <4>2. CASE r = root /\ check \in Managers
        <5>1. LockManagers(new, r) = {check}
          BY <1>3, <1>4, <4>2
        <5>2. Cardinality(LockManagers(new, r)) = 1
          BY <5>1, FS_Singleton
        <5> QED
          BY <3>3, <5>2
      <4> QED
        BY <1>3, <4>1, <4>2
    <3> HIDE DEF many
    <3> QED
      BY <3>1, <3>2, <3>3
  <2> QED
    BY <2>1, <2>2, <2>3, LockNames
<1>8. ASSUME NEW c \in Evaluators PROVE Evaluate(c, u, d).findings \subseteq Evaluate(c, t, d).findings
  <2>1. CASE Prerequisites(c) \cap d = {}
    BY <1>7, <2>1
  <2>2. CASE Prerequisites(c) \cap d # {}
    BY <2>2, FoundWhereAble
  <2> QED
    BY <2>1, <2>2
<1>9. root \notin Evaluate(check, u, d).findings /\ Completed(root) \in Evaluate(check, u, d).runs
  <2>1. CASE check \in Managers
    <3>1. /\ Evaluate(check, u, d).findings
               = {r \in Clear(check, new) : ~ HasLockfile(new, r, LockfileNames(check))}
          /\ CompletesOn(Evaluate(check, u, d).runs, Clear(check, new))
          /\ Evaluate(check, t, d).findings
               = {r \in Clear(check, old) : ~ HasLockfile(old, r, LockfileNames(check))}
      BY <1>1, <2>1, ClearRoots
    <3>2. root \in Clear(check, old) /\ HasLockfile(new, root, LockfileNames(check))
      BY <1>3, <2>1, <3>1
    <3> QED
      BY <1>6, <3>1, <3>2 DEF CompletesOn
  <2>2. CASE check \in Alone
    <3>1. /\ Evaluate(check, u, d).findings
               = {r \in Judged(check, u, new) : ~ HasSource(new, r, LockOf(check))}
          /\ CompletesOn(Evaluate(check, u, d).runs, Judged(check, u, new))
          /\ Evaluate(check, t, d).findings
               = {r \in Judged(check, t, old) : ~ HasSource(old, r, LockOf(check))}
      BY <1>1, <2>2, JudgedRoots
    <3>2. Judged(check, u, new) = Judged(check, t, old)
      BY <1>2, <2>2, SameJudged
    <3>3. name = LockOf(check)
      BY <2>2, LockNames
    <3>4. root \in Judged(check, u, new) /\ HasSource(new, root, LockOf(check))
      BY <1>2, <3>1, <3>2, <3>3
    <3> QED
      BY <3>1, <3>4 DEF CompletesOn
  <2> QED
    BY <2>1, <2>2
<1> QED
  BY <1>8, <1>9 DEF u

\* What is left once the lockfiles of one manager are kept.
OthersRemoved(t, root, kept) ==
  {f \in t : ~ (f.root = root /\ \E m \in Managers \ {kept} : f.name \in Accepted(m))}

LEMMA Removed ==
  ASSUME NEW t, NEW d, NEW root, Prerequisites("conflicting") \cap d = {},
         NEW kept \in LockManagers(t, root)
  PROVE  LET u == OthersRemoved(t, root, kept)
         IN  /\ SameApartFromLocks(t, u)
             /\ \A r, n : /\ HasSource(Sources(u, d), r, n) => HasSource(Sources(t, d), r, n)
                          /\ (\A m \in Managers : n \notin Accepted(m)) =>
                               (HasSource(Sources(u, d), r, n) <=> HasSource(Sources(t, d), r, n))
             /\ \A m \in Managers : \A r :
                  HasLockfile(Sources(u, d), r, LockfileNames(m))
                    <=> HasLockfile(Sources(t, d), r, LockfileNames(m)) /\ (r # root \/ m = kept)
             /\ LockManagers(Sources(u, d), root) = {kept}
             /\ \A r : r # root => LockManagers(Sources(u, d), r) = LockManagers(Sources(t, d), r)
<1> DEFINE u == OthersRemoved(t, root, kept)
           old == Sources(t, d)
           new == Sources(u, d)
<1>1. \A m \in Managers : \A n \in Accepted(m) : /\ DetectorOf(n) \in LockDetectors
                                                /\ DetectorOf(n) \notin d \cup {"none"}
  <2>1. \A m \in Managers : \A n \in Accepted(m) : DetectorOf(n) \in JavaScriptLocks
    BY DEF Managers, Accepted, DetectorOf, JavaScriptLocks
  <2>2. JavaScriptLocks \cap (d \cup {"none"}) = {}
    BY DEF Prerequisites, JavaScriptLocks
  <2> QED
    BY <2>1, <2>2 DEF LockDetectors
<1>2. kept \in Managers /\ HasLockfile(t, root, LockfileNames(kept))
  BY DEF LockManagers, Managers
<1>3. \A m \in Managers : \A n \in Accepted(m) : \A k \in Managers : n \in Accepted(k) <=> k = m
  BY LockNames
<1>4. SameApartFromLocks(t, u)
  BY <1>1 DEF SameApartFromLocks, OthersRemoved
<1>5. \A f : f \in new <=> /\ f \in old
                           /\ ~ (f.root = root /\ \E m \in Managers \ {kept} : f.name \in Accepted(m))
  BY DEF Sources, OthersRemoved
<1>6. \A r, n : HasSource(new, r, n) <=>
        /\ HasSource(old, r, n)
        /\ ~ (r = root /\ \E m \in Managers \ {kept} : n \in Accepted(m))
  <2> HIDE DEF old, new
  <2> QED
    BY <1>5 DEF HasSource
<1> HIDE DEF u
<1>7. \A m \in Managers : \A r :
        HasLockfile(new, r, LockfileNames(m))
          <=> HasLockfile(old, r, LockfileNames(m)) /\ (r # root \/ m = kept)
  <2> SUFFICES ASSUME NEW m \in Managers, NEW r
               PROVE  HasLockfile(new, r, LockfileNames(m))
                        <=> HasLockfile(old, r, LockfileNames(m)) /\ (r # root \/ m = kept)
    OBVIOUS
  <2>1. LockfileNames(m) = Accepted(m)
    BY LockNames
  <2>2. \A n \in Accepted(m) : (\E k \in Managers \ {kept} : n \in Accepted(k)) <=> m # kept
    BY <1>3
  <2> QED
    BY <1>6, <2>1, <2>2 DEF HasLockfile
<1>8. HasLockfile(old, root, LockfileNames(kept))
  <2>1. PICK n \in Accepted(kept) : HasSource(t, root, n)
    BY <1>2, LockNames DEF HasLockfile
  <2>2. HasSource(old, root, n)
    BY <1>1, <1>2, <2>1 DEF HasSource, Sources
  <2> QED
    BY <1>2, <2>2, LockNames DEF HasLockfile
<1>9. LockManagers(new, root) = {kept}
  BY <1>2, <1>7, <1>8 DEF LockManagers, Managers
<1>10. \A r : r # root => LockManagers(new, r) = LockManagers(old, r)
  BY <1>7 DEF LockManagers, Managers
<1> QED
  BY <1>4, <1>6, <1>7, <1>9, <1>10 DEF u

\* Keeping the lockfiles of one manager settles a conflict, and brings up
\* nothing else.
LEMMA RemovedSettles ==
  ASSUME NEW t, IsFiniteSet(t), NEW d, NEW root \in Evaluate("conflicting", t, d).findings,
         NEW kept \in LockManagers(t, root)
  PROVE  LET u == OthersRemoved(t, root, kept)
         IN  /\ root \notin Evaluate("conflicting", u, d).findings
             /\ Completed(root) \in Evaluate("conflicting", u, d).runs
             /\ \A c \in Evaluators : Evaluate(c, u, d).findings \subseteq Evaluate(c, t, d).findings
<1> DEFINE u == OthersRemoved(t, root, kept)
           old == Sources(t, d)
           new == Sources(u, d)
           many(sources, r) == Cardinality(LockManagers(sources, r)) >= 2
<1>1. Prerequisites("conflicting") \cap d = {}
  BY FoundWhereAble
<1>2. /\ SameApartFromLocks(t, u)
      /\ \A r, n : (\A m \in Managers : n \notin Accepted(m)) =>
                      (HasSource(new, r, n) <=> HasSource(old, r, n))
      /\ \A m \in Managers : \A r :
           HasLockfile(new, r, LockfileNames(m))
             <=> HasLockfile(old, r, LockfileNames(m)) /\ (r # root \/ m = kept)
      /\ LockManagers(new, root) = {kept}
      /\ \A r : r # root => LockManagers(new, r) = LockManagers(old, r)
  BY <1>1, Removed
<1>3. IsFiniteSet(u)
  BY FS_Subset DEF OthersRemoved
<1> HIDE DEF u
<1>4. ~ many(new, root)
  <2>1. Cardinality({kept}) = 1
    BY FS_Singleton
  <2> QED
    BY <1>2, <2>1
<1>5. Projects(new) = Projects(old)
  BY <1>2, SameManifests
<1>6. /\ Evaluate("conflicting", u, d).findings = {r \in DOMAIN Projects(new) : many(new, r)}
      /\ Evaluate("conflicting", t, d).findings = {r \in DOMAIN Projects(old) : many(old, r)}
      /\ CompletesOn(Evaluate("conflicting", u, d).runs, DOMAIN Projects(new))
  BY <1>1, ConflictRoots
<1>7. \A r : many(new, r) => many(old, r)
  BY <1>2, <1>4
<1>8. ASSUME NEW c \in Evaluators, Prerequisites(c) \cap d = {}
      PROVE  Evaluate(c, u, d).findings \subseteq Evaluate(c, t, d).findings
  <2>1. CASE c \in Managers
    <3> SUFFICES ASSUME NEW r \in Evaluate(c, u, d).findings
                 PROVE  r \in Evaluate(c, t, d).findings
      OBVIOUS
    <3>1. c \notin LockManagers(new, r) /\ EvidenceAt(new, r) = {c}
      BY <1>3, <2>1, ReportedManager
    <3>2. r # root
      <4>1. LockManagers(new, r) \subseteq EvidenceAt(new, r)
        BY DEF EvidenceAt, ProjectManagers
      <4> QED
        BY <1>2, <3>1, <4>1
    <3>3. EvidenceAt(new, r) = EvidenceAt(old, r)
      <4>1. LockManagers(new, r) = LockManagers(old, r)
        BY <1>2, <3>2
      <4>2. SpaceManagers(new, r) = SpaceManagers(old, r)
        BY <1>2, SameManifests DEF SpaceManagers
      <4> QED
        BY <1>5, <4>1, <4>2 DEF EvidenceAt, ProjectManagers
    <3>4. /\ Evaluate(c, u, d).findings = {s \in Clear(c, new) : ~ HasLockfile(new, s, LockfileNames(c))}
          /\ Evaluate(c, t, d).findings = {s \in Clear(c, old) : ~ HasLockfile(old, s, LockfileNames(c))}
      BY <1>8, <2>1, ClearRoots
    <3>5. r \in Clear(c, old)
      BY <1>2, <3>3, <3>4, ClearThere
    <3> QED
      BY <1>2, <2>1, <3>2, <3>4, <3>5
  <2>2. CASE c \in Alone
    <3>1. /\ Evaluate(c, u, d).findings = {r \in Judged(c, u, new) : ~ HasSource(new, r, LockOf(c))}
          /\ Evaluate(c, t, d).findings = {r \in Judged(c, t, old) : ~ HasSource(old, r, LockOf(c))}
      BY <1>8, <2>2, JudgedRoots
    <3>2. Judged(c, u, new) = Judged(c, t, old)
      BY <1>2, <2>2, SameJudged
    <3>3. \A m \in Managers : LockOf(c) \notin Accepted(m)
      <4>1. \A m \in Managers : m # c
        BY <2>2 DEF Managers, Alone
      <4>2. LockOf(c) \in Accepted(c)
        BY <2>2, LockNames
      <4>3. \A m \in Managers : Accepted(m) \cap Accepted(c) = {}
        BY <2>2, <4>1, LockNames
      <4> QED
        BY <4>2, <4>3
    <3> QED
      BY <1>2, <3>1, <3>2, <3>3
  <2>3. CASE c = "conflicting"
    <3> HIDE DEF many
    <3> QED
      BY <1>5, <1>6, <1>7, <2>3
  <2> QED
    BY <2>1, <2>2, <2>3, LockNames
<1>9. ASSUME NEW c \in Evaluators PROVE Evaluate(c, u, d).findings \subseteq Evaluate(c, t, d).findings
  <2>1. CASE Prerequisites(c) \cap d = {}
    BY <1>8, <2>1
  <2>2. CASE Prerequisites(c) \cap d # {}
    BY <2>2, FoundWhereAble
  <2> QED
    BY <2>1, <2>2
<1>10. root \notin Evaluate("conflicting", u, d).findings /\ Completed(root) \in Evaluate("conflicting", u, d).runs
  <2> HIDE DEF many
  <2> QED
    BY <1>4, <1>5, <1>6 DEF CompletesOn
<1> QED
  BY <1>9, <1>10 DEF u

\* Committing the lockfile that a finding misses, or keeping those of one manager
\* where they conflict, completes the check there without the finding and brings
\* up no other (evaluateChecks, evaluateJavaScriptLockfile and its siblings).
THEOREM Remediation == Spec => []RemediationSettles
<1>1. IInv => RemediationSettles
  <2> SUFFICES ASSUME IInv, Done, NEW p \in LockfileFindings, NEW t \in Repaired(p[1], p[2])
               PROVE  /\ Findings(t, disabled) \subseteq findings \ {p}
                      /\ <<p[1], Completed(p[2])>> \in Runs(t, disabled)
    BY DEF RemediationSettles
  <2>1. /\ p[1] \in Evaluators /\ p = <<p[1], p[2]>>
        /\ p[2] \in Evaluate(p[1], tree, disabled).findings /\ IsFiniteSet(tree)
    BY FindingsExplained DEF LockfileFindings
  <2> DEFINE check == p[1]
             root == p[2]
  <2>2. /\ root \notin Evaluate(check, t, disabled).findings
        /\ Completed(root) \in Evaluate(check, t, disabled).runs
        /\ \A c \in Evaluators :
             Evaluate(c, t, disabled).findings \subseteq Evaluate(c, tree, disabled).findings
    <3>1. CASE check # "conflicting"
      <4>1. PICK name \in Accepted(check) : t = tree \cup {File(root, name, "ok", NoFacts)}
        BY <3>1 DEF Repaired
      <4>2. check \in Managers \cup Alone
        BY <2>1, <3>1, LockNames
      <4> HIDE DEF check, root
      <4>3. root \in Evaluate(check, tree, disabled).findings
        BY <2>1 DEF check, root
      <4> QED
        BY <2>1, <4>1, <4>2, <4>3, CommittedSettles
    <3>2. CASE check = "conflicting"
      <4>1. PICK kept \in LockManagers(tree, root) : t = OthersRemoved(tree, root, kept)
        BY <3>2 DEF Repaired, OthersRemoved
      <4> HIDE DEF check, root
      <4>2. root \in Evaluate("conflicting", tree, disabled).findings
        BY <2>1, <3>2 DEF check, root
      <4> QED
        BY <2>1, <3>2, <4>1, <4>2, RemovedSettles
    <3> QED
      BY <3>1, <3>2
  <2>3. ASSUME NEW q \in Findings(t, disabled) PROVE q \in findings /\ q # p
    <3>1. PICK c \in Evaluators : \E r \in Evaluate(c, t, disabled).findings : q = <<c, r>>
      BY DEF Findings
    <3>2. PICK r \in Evaluate(c, t, disabled).findings : q = <<c, r>>
      BY <3>1
    <3>3. r \in Evaluate(c, tree, disabled).findings
      BY <2>2
    <3>4. <<c, r>> \in findings
      BY <3>3, AllSaid, EvaluatorsAreChecks
    <3>5. ~ (c = check /\ r = root)
      BY <2>2, <3>2
    <3>6. q[1] = c /\ q[2] = r
      BY <3>2
    <3> QED
      BY <3>2, <3>4, <3>5, <3>6
  <2>4. <<check, Completed(root)>> \in Runs(t, disabled)
    BY <2>1, <2>2 DEF Runs
  <2> QED
    BY <2>3, <2>4
<1> QED
  BY <1>1, Invariance, PTL

-----------------------------------------------------------------------------
(* The members of a workspace.                                             *)

\* Going through the patterns in order comes to the same as the last that hits.
LEMMA ExpansionMember ==
  ASSUME NEW T, NEW patterns \in Seq(T), NEW rel
  PROVE  rel \in Expansion(patterns, {rel}) <=> WorkspaceMatches(rel, patterns)
<1> DEFINE n == Len(patterns)
           match(i) == PathGlobMatches(patterns[i].segments, rel)
           named(i) == {p \in {rel} : PathGlobMatches(patterns[i].segments, p)}
           body(u, i) == IF i = 0 THEN {}
                         ELSE IF patterns[i].exclude THEN u[i - 1] \ named(i) ELSE u[i - 1] \cup named(i)
           upto == CHOOSE u : u = [i \in 0 .. n |-> body(u, i)]
           hits(k) == {i \in 1 .. k : match(i)}
           g == [i \in 0 .. n |-> IF hits(i) = {} \/ patterns[DecidingHit(hits(i))].exclude
                                    THEN {} ELSE {rel}]
<1>1. n \in Nat /\ DOMAIN patterns = 1 .. n
  OBVIOUS
<1>2. Expansion(patterns, {rel}) = upto[n]
  BY DEF Expansion
<1>3. ASSUME NEW i \in 0 .. n PROVE g[i] = body(g, i)
  <2>1. CASE i = 0
    <3>1. hits(0) = {}
      OBVIOUS
    <3> QED
      BY <2>1, <3>1
  <2>2. CASE i # 0
    <3>1. i \in 1 .. n /\ i - 1 \in 0 .. n /\ i \in Nat /\ \A j \in 1 .. i : j \in 1 .. i - 1 \/ j = i
      BY <1>1, <2>2
    <3>2. CASE match(i)
      <4>1. i \in hits(i) /\ \A j \in hits(i) : j <= i
        BY <3>1, <3>2
      <4>2. DecidingHit(hits(i)) = i
        <5> DEFINE H == hits(i)
        <5>1. H \subseteq Nat
          BY <3>1
        <5> HIDE DEF H
        <5>2. i \in H /\ \A j \in H : j <= i
          BY <4>1 DEF H
        <5>3. \A k \in H : (\A j \in H : j <= k) => k = i
          BY <3>1, <5>1, <5>2
        <5>4. DecidingHit(H) = i
          BY <5>2, <5>3 DEF DecidingHit
        <5> QED
          BY <5>4 DEF H
      <4>3. named(i) = {rel}
        BY <3>2
      <4>4. g[i] = IF patterns[i].exclude THEN {} ELSE {rel}
        BY <4>1, <4>2
      <4>5. g[i - 1] \subseteq {rel}
        BY <3>1
      <4> HIDE DEF g, named
      <4> QED
        BY <2>2, <4>3, <4>4, <4>5
    <3>3. CASE ~ match(i)
      <4>1. hits(i) = hits(i - 1)
        BY <3>1, <3>3
      <4>2. named(i) = {}
        BY <3>3
      <4>3. g[i] = g[i - 1]
        BY <3>1, <4>1
      <4> HIDE DEF g, named
      <4> QED
        BY <2>2, <4>2, <4>3
    <3> QED
      BY <3>2, <3>3
  <2> QED
    BY <2>1, <2>2
<1>4. upto = [i \in 0 .. n |-> body(upto, i)]
  <2>1. g = [i \in 0 .. n |-> body(g, i)]
    <3>1. DOMAIN g = 0 .. n /\ \A i \in 0 .. n : g[i] = body(g, i)
      BY <1>3
    <3>2. g = [i \in 0 .. n |-> g[i]]
      OBVIOUS
    <3> HIDE DEF g, body
    <3> QED
      BY <3>1, <3>2
  <2>2. \E u : u = [i \in 0 .. n |-> body(u, i)]
    <3> HIDE DEF g, body
    <3> QED
      BY <2>1
  <2> HIDE DEF body
  <2> QED
    BY <2>2
<1> HIDE DEF upto, g
<1>5. \A i \in 0 .. n : upto[i] = g[i]
  <2> SUFFICES ASSUME NEW k \in 0 .. n, upto[k] # g[k] PROVE FALSE
    OBVIOUS
  <2> DEFINE bad == {i \in 0 .. n : upto[i] # g[i]}
  <2>1. bad \in SUBSET Nat /\ bad # {}
    OBVIOUS
  <2>2. PICK i \in bad : \A j \in bad : i <= j
    BY <2>1, Smallest
  <2>3. upto[i] = body(upto, i) /\ g[i] = body(g, i)
    <3> HIDE DEF body
    <3> QED
      BY <1>3, <1>4, <2>2
  <2>4. i # 0 => upto[i - 1] = g[i - 1]
    <3>1. i # 0 => i - 1 \in 0 .. n /\ ~ (i <= i - 1)
      BY <1>1, <2>2
    <3> QED
      BY <2>2, <3>1
  <2>5. body(upto, i) = body(g, i)
    BY <2>4
  <2> QED
    BY <2>2, <2>3, <2>5
<1>6. upto[n] = g[n] /\ n \in 0 .. n
  BY <1>1, <1>5
<1>7. hits(n) = {i \in DOMAIN patterns : PathGlobMatches(patterns[i].segments, rel)}
  BY <1>1
<1>8. WorkspaceMatches(rel, patterns) <=> hits(n) # {} /\ ~ patterns[DecidingHit(hits(n))].exclude
  <2> DEFINE H == hits(n)
  <2> HIDE DEF H
  <2>1. H = {i \in DOMAIN patterns : PathGlobMatches(patterns[i].segments, rel)}
    BY <1>7 DEF H
  <2>2. WorkspaceMatches(rel, patterns) <=> H # {} /\ ~ patterns[DecidingHit(H)].exclude
    BY <2>1 DEF WorkspaceMatches
  <2> QED
    BY <2>2 DEF H
<1>9. rel \in g[n] <=> hits(n) # {} /\ ~ patterns[DecidingHit(hits(n))].exclude
  BY <1>6 DEF g
<1> QED
  BY <1>2, <1>6, <1>8, <1>9

\* Walking up from a root finds the same owner as comparing all the workspaces.
LEMMA OwnersFound ==
  ASSUME NEW root \in Seq(STRING), NEW spaces,
         \A w \in spaces : w.root \in Seq(STRING) /\ w.patterns \in Seq(Pattern)
  PROVE  Owners(root, spaces) = WorkspaceOwner(root, spaces)
<1> DEFINE rest(n) == SubSeq(root, n + 1, Len(root))
           ahead == {n \in 0 .. Len(root) - 1 :
                       \E w \in spaces : /\ w.root = SubSeq(root, 1, n)
                                         /\ rest(n) \in Expansion(w.patterns, {rest(n)})}
           owner == WorkspaceOwner(root, spaces)
           last == CHOOSE n \in ahead : \A k \in ahead : k <= n
<1>1. Owners(root, spaces) = IF ahead = {} THEN root ELSE SubSeq(root, 1, last)
  BY DEF Owners
<1>2. ASSUME NEW n \in ahead
      PROVE  \E w \in spaces : Claims(w, root) /\ Len(w.root) = n
  <2>1. n \in 0 .. Len(root) - 1
    OBVIOUS
  <2>2. PICK w \in spaces : /\ w.root = SubSeq(root, 1, n)
                            /\ rest(n) \in Expansion(w.patterns, {rest(n)})
    OBVIOUS
  <2>3. Len(w.root) = n /\ IsAncestorRoot(w.root, root)
    <3>1. n \in 0 .. Len(root)
      BY <2>1
    <3> QED
      BY <2>1, <2>2, <3>1, AbovePath
  <2>4. Relative(w.root, root) = rest(n)
    BY <2>3 DEF Relative
  <2>5. WorkspaceMatches(rest(n), w.patterns)
    BY <2>2, ExpansionMember
  <2> QED
    BY <2>3, <2>4, <2>5 DEF Claims
<1>3. ASSUME NEW w \in spaces, Claims(w, root) PROVE Len(w.root) \in ahead
  <2>1. Len(w.root) \in 0 .. Len(root) - 1 /\ w.root = SubSeq(root, 1, Len(w.root))
    BY <1>3, AbovePath DEF Claims
  <2>2. WorkspaceMatches(rest(Len(w.root)), w.patterns)
    BY <1>3 DEF Claims, Relative
  <2>3. rest(Len(w.root)) \in Expansion(w.patterns, {rest(Len(w.root))})
    BY <2>2, ExpansionMember
  <2> QED
    BY <2>1, <2>3
<1>4. ahead \subseteq Nat
  OBVIOUS
<1> HIDE DEF ahead
<1>5. CASE ahead = {}
  <2>1. ~ \E w \in spaces : Claims(w, root)
    BY <1>3, <1>5
  <2>2. owner = root
    BY <2>1, InnermostOwner
  <2> QED
    BY <1>1, <1>5, <2>2
<1>6. CASE ahead # {}
  <2>1. PICK w \in spaces : Claims(w, root)
    BY <1>2, <1>6
  <2>2. PICK v \in spaces : v.root = owner /\ Claims(v, root)
    BY <2>1, InnermostOwner
  <2>3. \A u \in spaces : Claims(u, root) => Len(u.root) <= Len(owner)
    BY InnermostOwner
  <2>4. Len(owner) \in ahead
    BY <1>3, <2>2
  <2>5. \A k \in ahead : k <= Len(owner)
    BY <1>2, <2>3
  <2>6. \A n \in ahead : (\A k \in ahead : k <= n) => n = Len(owner)
    BY <1>4, <2>4, <2>5
  <2>7. last = Len(owner)
    BY <2>4, <2>5, <2>6
  <2>8. SubSeq(root, 1, Len(owner)) = owner
    BY <2>2 DEF Claims, IsAncestorRoot
  <2> QED
    BY <1>1, <1>6, <2>7, <2>8
<1> QED
  BY <1>5, <1>6

LEMMA SpacesTyped ==
  ASSUME NEW t, IsRepository(t), NEW sources, sources \subseteq t
  PROVE  /\ \A w \in JavaScriptSpaces(sources) : w.root \in Seq(STRING) /\ w.patterns \in Seq(Pattern)
         /\ \A w \in ManifestSpaces(UV(t), "uv") : w.root \in Seq(STRING) /\ w.patterns \in Seq(Pattern)
         /\ \A w \in ManifestSpaces(Cargo(sources), "cargo") :
              w.root \in Seq(STRING) /\ w.patterns \in Seq(Pattern)
<1>1. \A root, patterns, manager :
        LET w == Workspace(root, patterns, manager) IN w.root = root /\ w.patterns = patterns
  BY DEF Workspace
<1>2. <<>> \in Seq(Pattern)
  OBVIOUS
<1>3. ASSUME NEW f \in t, DetectorOf(f.name) \in {"js", "js-pnpm-workspace", "python-pyproject", "rust-cargo"}
      PROVE  Facts(f).workspaces \in Seq(Pattern)
  <2>1. f.name # "CODEOWNERS"
    <3>1. DetectorOf("CODEOWNERS") = "none"
      BY DEF DetectorOf
    <3> QED
      BY <1>3, <3>1
  <2>2. f.facts \in FactsOf(DetectorOf(f.name))
    BY <2>1 DEF IsRepository, WellFormed
  <2>3. f.facts.workspaces \in Seq(Pattern) /\ "workspaces" \in DOMAIN f.facts
    BY <1>3, <2>2 DEF FactsOf
  <2>4. Emptied(f.facts).workspaces = <<>>
    BY <2>3 DEF Emptied
  <2> QED
    BY <1>2, <2>3, <2>4 DEF Facts
<1>4. \A f \in t : f.root \in Seq(STRING)
  BY FilesKnown
<1>5. \A w \in JavaScriptSpaces(sources) : w.root \in Seq(STRING) /\ w.patterns \in Seq(Pattern)
  <2>1. \A w \in JavaScriptSpaces(sources) :
          \E f \in t : \E manager :
            \/ w = Workspace(f.root, <<>>, manager)
            \/ /\ w = Workspace(f.root, Facts(f).workspaces, manager)
               /\ DetectorOf(f.name) \in {"js", "js-pnpm-workspace"}
    BY DEF JavaScriptSpaces, JavaScript, Read, Of
  <2> SUFFICES ASSUME NEW w \in JavaScriptSpaces(sources)
               PROVE  w.root \in Seq(STRING) /\ w.patterns \in Seq(Pattern)
    OBVIOUS
  <2>2. PICK f \in t : \E manager :
            \/ w = Workspace(f.root, <<>>, manager)
            \/ /\ w = Workspace(f.root, Facts(f).workspaces, manager)
               /\ DetectorOf(f.name) \in {"js", "js-pnpm-workspace"}
    BY <2>1
  <2>3. /\ w.root = f.root
        /\ \/ w.patterns = <<>>
           \/ /\ w.patterns = Facts(f).workspaces
              /\ DetectorOf(f.name) \in {"js", "js-pnpm-workspace"}
    BY <1>1, <2>2
  <2>4. w.root \in Seq(STRING)
    BY <1>4, <2>3
  <2>5. w.patterns \in Seq(Pattern)
    <3>1. CASE w.patterns = <<>>
      BY <1>2, <3>1
    <3>2. CASE w.patterns = Facts(f).workspaces /\ DetectorOf(f.name) \in {"js", "js-pnpm-workspace"}
      BY <1>3, <3>2
    <3> QED
      BY <2>3, <3>1, <3>2
  <2> QED
    BY <2>4, <2>5
<1>6. \A w \in ManifestSpaces(UV(t), "uv") : w.root \in Seq(STRING) /\ w.patterns \in Seq(Pattern)
  BY <1>1, <1>3, <1>4 DEF ManifestSpaces, UV, Read, Of
<1>7. \A w \in ManifestSpaces(Cargo(sources), "cargo") :
        w.root \in Seq(STRING) /\ w.patterns \in Seq(Pattern)
  BY <1>1, <1>3, <1>4 DEF ManifestSpaces, Cargo, Read, Of
<1> QED
  BY <1>5, <1>6, <1>7

\* A lockfile check completes on the innermost workspace around a manifest that
\* has it as a member, and on no member in its own right
\* (javascriptWorkspaceOwner, which the other ecosystems share).
THEOREM NearestOwner == Spec => []VerdictsAtNearestOwner
<1>1. IInv => VerdictsAtNearestOwner
  <2> DEFINE sources == Sources(tree, disabled)
  <2> SUFFICES ASSUME IInv, Done, NEW p \in runs, p[1] \in Evaluators, p[2].status = "completed"
               PROVE  p[2].root \in EcosystemRoots(p[1], sources)
    BY DEF VerdictsAtNearestOwner
  <2> DEFINE check == p[1]
             root == p[2].root
             result == Evaluate(check, tree, disabled)
  <2>1. p[2] \in result.runs
    BY Said, EvaluatorsAreChecks
  <2>2. IsRepository(tree) /\ sources \subseteq tree
    BY SourcesAreFiles DEF IInv
  <2>3. Prerequisites(check) \cap disabled = {}
    <3>1. ASSUME Prerequisites(check) \cap disabled # {} PROVE FALSE
      <4>1. result.runs = DisabledRuns(check, tree, sources)
        BY <3>1 DEF Evaluate, Result
      <4>2. \A r \in DisabledRuns(check, tree, sources) : \E s : r = Skipped(s, "detector-disabled")
        BY DEF DisabledRuns
      <4>3. \E s : p[2] = Skipped(s, "detector-disabled")
        BY <2>1, <4>1, <4>2
      <4> QED
        BY <4>3, OtherRuns
    <3> QED
      BY <3>1
  <2>4. \A f \in tree : f.root \in Seq(STRING)
    BY <2>2, FilesKnown
  <2>5. /\ \A f \in JavaScript(sources) : f \in tree /\
             Owners(f.root, JavaScriptSpaces(sources)) = WorkspaceOwner(f.root, JavaScriptSpaces(sources))
        /\ \A f \in UV(tree) : f \in tree /\
             Owners(f.root, ManifestSpaces(UV(tree), "uv")) = WorkspaceOwner(f.root, ManifestSpaces(UV(tree), "uv"))
        /\ \A f \in Cargo(sources) : f \in tree /\
             Owners(f.root, ManifestSpaces(Cargo(sources), "cargo"))
               = WorkspaceOwner(f.root, ManifestSpaces(Cargo(sources), "cargo"))
    <3>1. /\ \A f \in JavaScript(sources) : f \in tree
          /\ \A f \in UV(tree) : f \in tree
          /\ \A f \in Cargo(sources) : f \in tree
      BY <2>2 DEF JavaScript, UV, Cargo, Read, Of
    <3> HIDE DEF sources
    <3> QED
      BY <2>2, <2>4, <3>1, SpacesTyped, OwnersFound
  <2>6. CASE check \in Managers \cup {"conflicting"}
    <3>1. root \in DOMAIN Projects(sources)
      <4>1. CASE check \in Managers
        <5>1. CompletesOn(result.runs, Clear(check, sources))
          BY <2>3, <4>1, ClearRoots
        <5> QED
          BY <2>1, <5>1 DEF CompletesOn, Clear
      <4>2. CASE check = "conflicting"
        <5>1. CompletesOn(result.runs, DOMAIN Projects(sources))
          BY <2>3, <4>2, ConflictRoots
        <5> QED
          BY <2>1, <5>1 DEF CompletesOn
      <4> QED
        BY <2>6, <4>1, <4>2
    <3>2. \E f \in JavaScript(sources) : root = WorkspaceOwner(f.root, JavaScriptSpaces(sources))
      BY <3>1 DEF Projects
    <3>3. EcosystemRoots(check, sources)
            = {Owners(f.root, JavaScriptSpaces(sources)) : f \in JavaScript(sources)}
      <4> HIDE DEF sources, check
      <4> QED
        BY <2>6 DEF EcosystemRoots, Managers
    <3> QED
      BY <2>5, <3>2, <3>3
  <2>7. CASE check \in Alone
    <3>1. root \in Judged(check, tree, sources)
      <4>1. CompletesOn(result.runs, Judged(check, tree, sources))
        BY <2>3, <2>7, JudgedRoots
      <4> QED
        BY <2>1, <4>1 DEF CompletesOn
    <3>2. CASE check = "uv"
      <4>1. \E f \in UV(tree) : root = WorkspaceOwner(f.root, ManifestSpaces(UV(tree), "uv"))
        BY <3>1, <3>2 DEF Judged
      <4>2. EcosystemRoots(check, sources)
              = {Owners(f.root, ManifestSpaces(UV(tree), "uv")) : f \in UV(tree)}
        BY <3>2 DEF EcosystemRoots, Managers
      <4> QED
        BY <2>5, <4>1, <4>2
    <3>3. CASE check = "cargo"
      <4>1. \E f \in Cargo(sources) : root = WorkspaceOwner(f.root, ManifestSpaces(Cargo(sources), "cargo"))
        BY <3>1, <3>3 DEF Judged
      <4>2. EcosystemRoots(check, sources)
              = {Owners(f.root, ManifestSpaces(Cargo(sources), "cargo")) : f \in Cargo(sources)}
        BY <3>3 DEF EcosystemRoots, Managers
      <4> QED
        BY <2>5, <4>1, <4>2
    <3>4. CASE check \in {"go", "composer", "gemfile"}
      <4>1. \E f \in sources : root = f.root
        BY <3>1, <3>4 DEF Judged, Read, Of
      <4>2. root \in Roots
        <5>1. Roots = Known(tree)
          BY DEF Roots, Known
        <5> HIDE DEF sources
        <5> QED
          BY <2>2, <4>1, <5>1, FilesKnown
      <4>3. EcosystemRoots(check, sources) = Roots
        BY <3>4 DEF EcosystemRoots, Managers
      <4> QED
        BY <4>2, <4>3
    <3> QED
      BY <2>7, <3>2, <3>3, <3>4 DEF Alone
  <2> QED
    BY <2>6, <2>7, LockNames
<1> QED
  BY <1>1, Invariance, PTL

-----------------------------------------------------------------------------
(* Folding over lines.                                                     *)

LEMMA LargestMember ==
  ASSUME NEW k \in Nat, NEW s \in SUBSET (1 .. k), s # {}
  PROVE  Max(s) \in s /\ \A x \in s : x <= Max(s)
<1>1. s \in SUBSET Nat /\ \A i \in s : i <= k
  OBVIOUS
<1>2. \E i \in s : \A j \in s : j <= i
  BY <1>1, Largest
<1>3. \E i \in s : \A j \in s : i >= j
  BY <1>1, <1>2
<1> QED
  BY <1>1, <1>3 DEF Max

\* F folds n steps: each set of them, the largest of the set last.
Folds(F, n, base, step) ==
  \A s \in SUBSET (1 .. n) :
    F[s] = IF s = {} THEN base ELSE step[<<F[s \ {Max(s)}], Max(s)>>]

LEMMA FoldSteps ==
  ASSUME NEW n, n \in Nat, NEW State, NEW base, base \in State,
         NEW step, step \in [State \X (1 .. n) -> State]
  PROVE  \E F \in [SUBSET (1 .. n) -> State] : Folds(F, n, base, step)
<1> DEFINE good(F, k) ==
      \A s \in SUBSET (1 .. k) : F[s] = IF s = {} THEN base ELSE step[<<F[s \ {Max(s)}], Max(s)>>]
           able(k) == \E F \in [SUBSET (1 .. k) -> State] : good(F, k)
           bad == {k \in 0 .. n : ~ able(k)}
<1>1. able(0)
  <2> DEFINE F == [s \in SUBSET (1 .. 0) |-> base]
  <2>1. F \in [SUBSET (1 .. 0) -> State]
    OBVIOUS
  <2>2. \A s \in SUBSET (1 .. 0) : s = {}
    OBVIOUS
  <2>3. good(F, 0)
    BY <2>2
  <2> QED
    BY <2>1, <2>3
<1>2. ASSUME NEW k \in 1 .. n, able(k - 1) PROVE able(k)
  <2>1. PICK G \in [SUBSET (1 .. k - 1) -> State] : good(G, k - 1)
    BY <1>2
  <2> DEFINE before(s) == s \ {k}
             F == [s \in SUBSET (1 .. k) |->
                     IF k \in s THEN step[<<G[before(s)], k>>] ELSE G[s]]
  <2>2. \A s \in SUBSET (1 .. k) : before(s) \in SUBSET (1 .. k - 1) /\ (k \notin s => before(s) = s)
    OBVIOUS
  <2>3. F \in [SUBSET (1 .. k) -> State]
    <3>1. \A s \in SUBSET (1 .. k) : G[before(s)] \in State
      BY <2>2
    <3>2. \A s \in SUBSET (1 .. k) : k \notin s => G[s] \in State
      BY <2>2, <3>1
    <3> QED
      BY <3>1, <3>2
  <2>4. ASSUME NEW s \in SUBSET (1 .. k)
        PROVE  F[s] = IF s = {} THEN base ELSE step[<<F[s \ {Max(s)}], Max(s)>>]
    <3>1. CASE k \in s
      <4>1. Max(s) = k
        <5>1. k \in Nat /\ s # {}
          BY <3>1
        <5>2. Max(s) \in s /\ k <= Max(s)
          BY <3>1, <5>1, LargestMember
        <5>3. Max(s) \in 1 .. k
          BY <5>2
        <5> HIDE DEF F
        <5> QED
          BY <5>1, <5>2, <5>3
      <4>2. before(s) \in SUBSET (1 .. k) /\ k \notin before(s)
        OBVIOUS
      <4>3. F[before(s)] = G[before(s)]
        BY <4>2
      <4> QED
        BY <3>1, <4>1, <4>3
    <3>2. CASE k \notin s
      <4>1. s \in SUBSET (1 .. k - 1) /\ F[s] = G[s]
        BY <2>2, <3>2
      <4>2. G[s] = IF s = {} THEN base ELSE step[<<G[s \ {Max(s)}], Max(s)>>]
        BY <2>1, <4>1
      <4>3. s # {} => F[s \ {Max(s)}] = G[s \ {Max(s)}]
        <5>1. s \ {Max(s)} \in SUBSET (1 .. k) /\ k \notin s \ {Max(s)}
          BY <3>2
        <5> QED
          BY <5>1
      <4> QED
        BY <4>1, <4>2, <4>3
    <3> QED
      BY <3>1, <3>2
  <2>5. good(F, k)
    BY <2>4
  <2> HIDE DEF F, good
  <2> QED
    BY <2>3, <2>5
<1> HIDE DEF able
<1>3. bad = {}
  <2> SUFFICES ASSUME bad # {} PROVE FALSE
    OBVIOUS
  <2>1. bad \in SUBSET Nat
    OBVIOUS
  <2>2. PICK k \in bad : \A j \in bad : k <= j
    BY <2>1, Smallest
  <2>3. k # 0 /\ k \in 1 .. n /\ k - 1 \in 0 .. n /\ ~ (k <= k - 1)
    BY <1>1, <2>2
  <2>4. able(k - 1)
    BY <2>2, <2>3
  <2> QED
    BY <1>2, <2>2, <2>3, <2>4
<1>4. able(n)
  BY <1>3
<1> QED
  BY <1>4 DEF able, Folds

\* The parser of CODEOWNERS files for GitLab, line by line.
SectionNames == STRING \cup {""}
OwnersEntry == [section : SectionNames, paths : SUBSET Seq(STRING), exclude : BOOLEAN, owned : BOOLEAN]
Parser == [section : SectionNames, default : BOOLEAN, entries : Seq(OwnersEntry)]
Beginning == [section |-> "", default |-> FALSE, entries |-> <<>>]

LEMMA EntryTyped ==
  ASSUME NEW state \in Parser, NEW line \in OwnersLine, line.kind # "section"
  PROVE  Entry(state.section, line, state.default) \in OwnersEntry
<1>1. line.paths \in SUBSET Seq(STRING)
  BY DEF OwnersLine
<1> QED
  BY <1>1 DEF Entry, OwnersEntry, Parser, ValidForGitLab

LEMMA ParserStep ==
  ASSUME NEW state \in Parser, NEW line \in OwnersLine
  PROVE  ParseLine(state, line) \in Parser
<1>1. CASE line.kind = "section"
  <2>1. line.key \in STRING
    BY <1>1 DEF OwnersLine
  <2>2. OpenSection(state, line) \in Parser
    <3> DEFINE key == line.key
               default == ValidForGitLab(line.owners)
    <3>0. \A x \in STRING : x \in SectionNames
      BY DEF SectionNames
    <3>4. key \in SectionNames
      BY <2>1, <3>0
    <3>5. default \in BOOLEAN
      BY DEF ValidForGitLab
    <3>1. key \in SectionNames /\ default \in BOOLEAN
      BY <3>4, <3>5
    <3>2. OpenSection(state, line) = [state EXCEPT !.section = key, !.default = default]
      BY DEF OpenSection
    <3> HIDE DEF key, default
    <3>3. [state EXCEPT !.section = key, !.default = default] \in Parser
      BY <3>1 DEF Parser
    <3> QED
      BY <3>2, <3>3
  <2> QED
    BY <1>1, <2>2 DEF ParseLine
<1>2. CASE line.kind # "section"
  <2>1. Entry(state.section, line, state.default) \in OwnersEntry
    BY <1>2, EntryTyped
  <2>2. Append(state.entries, Entry(state.section, line, state.default)) \in Seq(OwnersEntry)
    BY <2>1 DEF Parser
  <2>3. [state EXCEPT !.entries = Append(@, Entry(state.section, line, state.default))] \in Parser
    BY <2>2 DEF Parser
  <2> QED
    BY <1>2, <2>3 DEF ParseLine
<1> QED
  BY <1>1, <1>2

\* g lists the states of the parser.
Parsing(g, content) ==
  /\ g \in [0 .. Len(content.lines) -> Parser] /\ g[0] = Beginning
  /\ \A k \in 1 .. Len(content.lines) : g[k] = ParseLine(g[k - 1], content.lines[k])
  /\ GitLabEntries(content) = g[Len(content.lines)].entries

LEMMA ParsedLines ==
  ASSUME NEW content, content.lines \in Seq(OwnersLine)
  PROVE  \E g : Parsing(g, content)
<1> DEFINE lines == content.lines
           n == Len(lines)
           step == [p \in Parser \X (1 .. n) |-> ParseLine(p[1], lines[p[2]])]
           body(it, s) == IF s = {} THEN Beginning ELSE ParseLine(it[s \ {Max(s)}], lines[Max(s)])
           iter == CHOOSE it : it = [s \in SUBSET (DOMAIN lines) |-> body(it, s)]
<1>1. n \in Nat /\ DOMAIN lines = 1 .. n /\ \A i \in 1 .. n : lines[i] \in OwnersLine
  OBVIOUS
<1>2. Beginning \in Parser
  <2> DEFINE none == <<>>
             name == ""
  <2>1. none \in Seq(OwnersEntry)
    OBVIOUS
  <2>2. name \in SectionNames
    BY DEF SectionNames
  <2>3. Beginning = [section |-> name, default |-> FALSE, entries |-> none]
    BY DEF Beginning
  <2> HIDE DEF none, name
  <2> QED
    BY <2>1, <2>3, <2>2 DEF Parser
<1>3. step \in [Parser \X (1 .. n) -> Parser]
  <2>1. \A p \in Parser \X (1 .. n) : ParseLine(p[1], lines[p[2]]) \in Parser
    BY <1>1, ParserStep
  <2> QED
    BY <2>1
<1>4. PICK F \in [SUBSET (1 .. n) -> Parser] : Folds(F, n, Beginning, step)
  <2>1. n \in Nat
    OBVIOUS
  <2> HIDE DEF step, n, lines, iter, body
  <2> QED
    BY <1>2, <1>3, <2>1, FoldSteps
<1>5. \A s \in SUBSET (1 .. n) :
        F[s] = IF s = {} THEN Beginning ELSE step[<<F[s \ {Max(s)}], Max(s)>>]
  <2> HIDE DEF step, n, lines, iter, body
  <2> QED
    BY <1>4 DEF Folds
<1>6. FoldLeft(ParseLine, Beginning, lines) = iter[DOMAIN lines]
  BY DEF FoldLeft, MapThenFoldSet
<1>7. \A k \in Nat : \A s \in SUBSET (1 .. k) : s # {} => Max(s) \in s /\ \A x \in s : x <= Max(s)
  BY LargestMember
<1>8. iter = [s \in SUBSET (DOMAIN lines) |-> body(iter, s)]
  <2>1. \A s \in SUBSET (1 .. n) : F[s] = body(F, s)
    <3> SUFFICES ASSUME NEW s \in SUBSET (1 .. n) PROVE F[s] = body(F, s)
      OBVIOUS
    <3>1. CASE s = {}
      BY <1>5, <3>1
    <3>2. CASE s # {}
      <4>1. Max(s) \in 1 .. n /\ s \ {Max(s)} \in SUBSET (1 .. n)
        BY <1>1, <1>7, <3>2
      <4>2. F[s \ {Max(s)}] \in Parser
        BY <4>1
      <4>3. step[<<F[s \ {Max(s)}], Max(s)>>] = ParseLine(F[s \ {Max(s)}], lines[Max(s)])
        BY <4>1, <4>2
      <4> HIDE DEF step
      <4> QED
        BY <1>5, <3>2, <4>3
    <3> QED
      BY <3>1, <3>2
  <2>2. F = [s \in SUBSET (DOMAIN lines) |-> body(F, s)]
    <3>1. F = [s \in SUBSET (1 .. n) |-> F[s]]
      OBVIOUS
    <3> HIDE DEF body
    <3> QED
      BY <1>1, <2>1, <3>1
  <2> HIDE DEF body
  <2> QED
    BY <2>2
<1> HIDE DEF iter
<1>9. /\ iter[{}] = Beginning
      /\ \A k \in 1 .. n : iter[1 .. k] = ParseLine(iter[1 .. k - 1], lines[k])
  <2>1. \A s \in SUBSET (1 .. n) : iter[s] = body(iter, s)
    <3> HIDE DEF body
    <3> QED
      BY <1>1, <1>8
  <2>2. iter[{}] = Beginning
    BY <2>1
  <2>3. ASSUME NEW k \in 1 .. n
        PROVE  iter[1 .. k] = ParseLine(iter[1 .. k - 1], lines[k])
    <3>0. n \in Nat
      OBVIOUS
    <3> HIDE DEF n, lines, body
    <3>4. k \in Nat /\ 1 <= k /\ k <= n
      BY <3>0
    <3>1. 1 .. k \in SUBSET (1 .. n) /\ 1 .. k # {} /\ (1 .. k) \ {k} = 1 .. k - 1 /\ k \in Nat
      <4>1. 1 .. k \in SUBSET (1 .. n)
        BY <3>0, <3>4
      <4>2. 1 .. k # {}
        <5>1. k \in 1 .. k
          BY <3>4
        <5> QED
          BY <5>1
      <4>3. (1 .. k) \ {k} = 1 .. k - 1
        BY <3>4
      <4> QED
        BY <3>4, <4>1, <4>2, <4>3
    <3>2. Max(1 .. k) = k
      <4>1. Max(1 .. k) \in 1 .. k /\ \A x \in 1 .. k : x <= Max(1 .. k)
        BY <3>1, LargestMember
      <4>2. k \in 1 .. k
        BY <3>1
      <4> QED
        BY <3>1, <4>1, <4>2
    <3>3. iter[1 .. k] = body(iter, 1 .. k)
      BY <2>1, <3>1
    <3> QED
      BY <3>1, <3>2, <3>3 DEF body
  <2> QED
    BY <2>2, <2>3
<1> DEFINE g == [k \in 0 .. n |-> iter[1 .. k]]
<1>10. g[0] = Beginning /\ \A k \in 1 .. n : g[k] = ParseLine(g[k - 1], lines[k])
  <2>1. 1 .. 0 = {} /\ 0 \in 0 .. n /\ \A k \in 1 .. n : k \in 0 .. n /\ k - 1 \in 0 .. n
    BY <1>1
  <2> QED
    BY <1>9, <2>1
<1>11. \A k \in 0 .. n : g[k] \in Parser
  <2> DEFINE bad == {k \in 0 .. n : g[k] \notin Parser}
  <2> HIDE DEF g
  <2> SUFFICES ASSUME bad # {} PROVE FALSE
    OBVIOUS
  <2>1. bad \in SUBSET Nat
    OBVIOUS
  <2>2. PICK k \in bad : \A j \in bad : k <= j
    BY <2>1, Smallest
  <2>3. k # 0 /\ k \in 1 .. n /\ k - 1 \in 0 .. n /\ ~ (k <= k - 1)
    BY <1>1, <1>2, <1>10, <2>2
  <2>4. g[k - 1] \in Parser
    BY <2>2, <2>3
  <2> QED
    BY <1>1, <1>10, <2>2, <2>3, <2>4, ParserStep
<1>12. GitLabEntries(content) = g[n].entries
  <2>1. GitLabEntries(content) = FoldLeft(ParseLine, Beginning, lines).entries
    BY DEF GitLabEntries, Beginning
  <2>2. n \in 0 .. n
    BY <1>1
  <2> QED
    BY <1>1, <1>6, <2>1, <2>2
<1>13. g \in [0 .. n -> Parser]
  <2>1. g = [k \in 0 .. n |-> g[k]]
    OBVIOUS
  <2> HIDE DEF g
  <2> QED
    BY <1>11, <2>1
<1> HIDE DEF g
<1>14. Parsing(g, content)
  BY <1>10, <1>12, <1>13 DEF Parsing
<1> QED
  BY <1>14

\* What the entries of a section say about a path, one entry after the other.
Ownership == [excluded : BOOLEAN, owned : BOOLEAN]
Unseen == [excluded |-> FALSE, owned |-> FALSE]
SeenIn(entries, section, path) ==
  FoldLeft(LAMBDA state, entry : SeeEntry(section, path, state, entry), Unseen, entries)

LEMMA SeeStep ==
  ASSUME NEW section, NEW path, NEW state \in Ownership, NEW entry \in OwnersEntry
  PROVE  SeeEntry(section, path, state, entry) \in Ownership
BY DEF SeeEntry, Ownership, OwnersEntry

\* g lists the states that lead to it.
Seeing(g, entries, section, path) ==
  /\ g \in [0 .. Len(entries) -> Ownership] /\ g[0] = Unseen
  /\ \A k \in 1 .. Len(entries) : g[k] = SeeEntry(section, path, g[k - 1], entries[k])
  /\ SeenIn(entries, section, path) = g[Len(entries)]

LEMMA SeenEntries ==
  ASSUME NEW section, NEW path, NEW entries \in Seq(OwnersEntry)
  PROVE  \E g : Seeing(g, entries, section, path)
<1> DEFINE n == Len(entries)
           step == [p \in Ownership \X (1 .. n) |-> SeeEntry(section, path, p[1], entries[p[2]])]
           body(it, s) == IF s = {} THEN Unseen ELSE SeeEntry(section, path, it[s \ {Max(s)}], entries[Max(s)])
           iter == CHOOSE it : it = [s \in SUBSET (DOMAIN entries) |-> body(it, s)]
<1>1. n \in Nat /\ DOMAIN entries = 1 .. n /\ \A i \in 1 .. n : entries[i] \in OwnersEntry
  OBVIOUS
<1>2. Unseen \in Ownership
  BY DEF Unseen, Ownership
<1>3. step \in [Ownership \X (1 .. n) -> Ownership]
  <2>1. \A p \in Ownership \X (1 .. n) : SeeEntry(section, path, p[1], entries[p[2]]) \in Ownership
    BY <1>1, SeeStep
  <2> QED
    BY <2>1
<1>4. PICK F \in [SUBSET (1 .. n) -> Ownership] : Folds(F, n, Unseen, step)
  <2>1. n \in Nat
    OBVIOUS
  <2> HIDE DEF step, n, iter, body
  <2> QED
    BY <1>2, <1>3, <2>1, FoldSteps
<1>5. \A s \in SUBSET (1 .. n) :
        F[s] = IF s = {} THEN Unseen ELSE step[<<F[s \ {Max(s)}], Max(s)>>]
  <2> HIDE DEF step, n, iter, body
  <2> QED
    BY <1>4 DEF Folds
<1>6. SeenIn(entries, section, path) = iter[DOMAIN entries]
  BY DEF SeenIn, FoldLeft, MapThenFoldSet
<1>7. \A k \in Nat : \A s \in SUBSET (1 .. k) : s # {} => Max(s) \in s /\ \A x \in s : x <= Max(s)
  BY LargestMember
<1>8. iter = [s \in SUBSET (DOMAIN entries) |-> body(iter, s)]
  <2>1. \A s \in SUBSET (1 .. n) : F[s] = body(F, s)
    <3> SUFFICES ASSUME NEW s \in SUBSET (1 .. n) PROVE F[s] = body(F, s)
      OBVIOUS
    <3>1. CASE s = {}
      BY <1>5, <3>1
    <3>2. CASE s # {}
      <4>1. Max(s) \in 1 .. n /\ s \ {Max(s)} \in SUBSET (1 .. n)
        BY <1>1, <1>7, <3>2
      <4>2. F[s \ {Max(s)}] \in Ownership
        BY <4>1
      <4>3. step[<<F[s \ {Max(s)}], Max(s)>>] = SeeEntry(section, path, F[s \ {Max(s)}], entries[Max(s)])
        BY <4>1, <4>2
      <4> HIDE DEF step
      <4> QED
        BY <1>5, <3>2, <4>3
    <3> QED
      BY <3>1, <3>2
  <2>2. F = [s \in SUBSET (DOMAIN entries) |-> body(F, s)]
    <3>1. F = [s \in SUBSET (1 .. n) |-> F[s]]
      OBVIOUS
    <3> HIDE DEF body
    <3> QED
      BY <1>1, <2>1, <3>1
  <2> HIDE DEF body
  <2> QED
    BY <2>2
<1> HIDE DEF iter
<1>9. /\ iter[{}] = Unseen
      /\ \A k \in 1 .. n : iter[1 .. k] = SeeEntry(section, path, iter[1 .. k - 1], entries[k])
  <2>1. \A s \in SUBSET (1 .. n) : iter[s] = body(iter, s)
    <3> HIDE DEF body
    <3> QED
      BY <1>1, <1>8
  <2>2. iter[{}] = Unseen
    BY <2>1
  <2>3. ASSUME NEW k \in 1 .. n
        PROVE  iter[1 .. k] = SeeEntry(section, path, iter[1 .. k - 1], entries[k])
    <3>0. n \in Nat
      OBVIOUS
    <3> HIDE DEF n, body
    <3>4. k \in Nat /\ 1 <= k /\ k <= n
      BY <3>0
    <3>1. 1 .. k \in SUBSET (1 .. n) /\ 1 .. k # {} /\ (1 .. k) \ {k} = 1 .. k - 1 /\ k \in Nat
      <4>1. 1 .. k \in SUBSET (1 .. n)
        BY <3>0, <3>4
      <4>2. 1 .. k # {}
        <5>1. k \in 1 .. k
          BY <3>4
        <5> QED
          BY <5>1
      <4>3. (1 .. k) \ {k} = 1 .. k - 1
        BY <3>4
      <4> QED
        BY <3>4, <4>1, <4>2, <4>3
    <3>2. Max(1 .. k) = k
      <4>1. Max(1 .. k) \in 1 .. k /\ \A x \in 1 .. k : x <= Max(1 .. k)
        BY <3>1, LargestMember
      <4>2. k \in 1 .. k
        BY <3>1
      <4> QED
        BY <3>1, <4>1, <4>2
    <3>3. iter[1 .. k] = body(iter, 1 .. k)
      BY <2>1, <3>1
    <3> QED
      BY <3>1, <3>2, <3>3 DEF body
  <2> QED
    BY <2>2, <2>3
<1> DEFINE g == [k \in 0 .. n |-> iter[1 .. k]]
<1>10. g[0] = Unseen /\ \A k \in 1 .. n : g[k] = SeeEntry(section, path, g[k - 1], entries[k])
  <2>1. 1 .. 0 = {} /\ 0 \in 0 .. n /\ \A k \in 1 .. n : k \in 0 .. n /\ k - 1 \in 0 .. n
    BY <1>1
  <2> QED
    BY <1>9, <2>1
<1>11. \A k \in 0 .. n : g[k] \in Ownership
  <2> DEFINE bad == {k \in 0 .. n : g[k] \notin Ownership}
  <2> HIDE DEF g
  <2> SUFFICES ASSUME bad # {} PROVE FALSE
    OBVIOUS
  <2>1. bad \in SUBSET Nat
    OBVIOUS
  <2>2. PICK k \in bad : \A j \in bad : k <= j
    BY <2>1, Smallest
  <2>3. k # 0 /\ k \in 1 .. n /\ k - 1 \in 0 .. n /\ ~ (k <= k - 1)
    BY <1>1, <1>2, <1>10, <2>2
  <2>4. g[k - 1] \in Ownership
    BY <2>2, <2>3
  <2> QED
    BY <1>1, <1>10, <2>2, <2>3, <2>4, SeeStep
<1>12. SeenIn(entries, section, path) = g[n]
  <2>1. n \in 0 .. n
    BY <1>1
  <2> QED
    BY <1>1, <1>6, <2>1
<1>13. g \in [0 .. n -> Ownership]
  <2>1. g = [k \in 0 .. n |-> g[k]]
    OBVIOUS
  <2> HIDE DEF g
  <2> QED
    BY <1>11, <2>1
<1> HIDE DEF g
<1>14. Seeing(g, entries, section, path)
  BY <1>10, <1>12, <1>13 DEF Seeing
<1> QED
  BY <1>14

LEMMA SeenNothing ==
  ASSUME NEW section, NEW path
  PROVE  SeenIn(<<>>, section, path) = Unseen
<1> DEFINE none == <<>>
<1>1. none \in Seq(OwnersEntry) /\ Len(none) = 0
  OBVIOUS
<1> HIDE DEF none
<1>2. PICK g : Seeing(g, none, section, path)
  BY <1>1, SeenEntries
<1> QED
  BY <1>1, <1>2 DEF none, Seeing

LEMMA SeenOneMore ==
  ASSUME NEW section, NEW path, NEW entries \in Seq(OwnersEntry), NEW entry \in OwnersEntry
  PROVE  SeenIn(Append(entries, entry), section, path)
           = SeeEntry(section, path, SeenIn(entries, section, path), entry)
<1> DEFINE more == Append(entries, entry)
           n == Len(entries)
<1>1. /\ more \in Seq(OwnersEntry) /\ n \in Nat /\ Len(more) = n + 1
      /\ more[n + 1] = entry /\ \A k \in 1 .. n : more[k] = entries[k]
  OBVIOUS
<1> HIDE DEF more, n
<1>2. PICK v : Seeing(v, entries, section, path)
  BY SeenEntries
<1>3. /\ v[0] = Unseen
      /\ \A k \in 1 .. n : v[k] = SeeEntry(section, path, v[k - 1], entries[k])
      /\ SeenIn(entries, section, path) = v[n]
  BY <1>2 DEF Seeing, n
<1>4. PICK w : Seeing(w, more, section, path)
  BY <1>1, SeenEntries
<1>5. /\ w[0] = Unseen
      /\ \A k \in 1 .. n + 1 : w[k] = SeeEntry(section, path, w[k - 1], more[k])
      /\ SeenIn(more, section, path) = w[n + 1]
  BY <1>1, <1>4 DEF Seeing
<1>6. \A k \in 0 .. n : v[k] = w[k]
  <2> DEFINE bad == {k \in 0 .. n : v[k] # w[k]}
  <2> SUFFICES ASSUME bad # {} PROVE FALSE
    OBVIOUS
  <2>1. bad \in SUBSET Nat
    BY <1>1
  <2>2. PICK k \in bad : \A j \in bad : k <= j
    BY <2>1, Smallest
  <2>3. k # 0 /\ k \in 1 .. n /\ k - 1 \in 0 .. n /\ ~ (k <= k - 1) /\ k \in 1 .. n + 1
    BY <1>1, <1>3, <1>5, <2>2
  <2>4. v[k - 1] = w[k - 1]
    BY <2>2, <2>3
  <2> QED
    BY <1>1, <1>3, <1>5, <2>2, <2>3, <2>4
<1>7. n + 1 \in 1 .. n + 1 /\ n + 1 - 1 = n /\ n \in 0 .. n
  BY <1>1
<1>8. w[n + 1] = SeeEntry(section, path, w[n], more[n + 1])
  BY <1>5, <1>7
<1> QED
  BY <1>1, <1>3, <1>5, <1>6, <1>7, <1>8 DEF more

LEMMA HeaderSteps ==
  ASSUME NEW lines \in Seq(OwnersLine)
  PROVE  /\ HeaderOf(lines, 1) = Section("", "none")
         /\ \A k \in 1 .. Len(lines) :
              HeaderOf(lines, k + 1) = IF lines[k].kind = "section" THEN lines[k] ELSE HeaderOf(lines, k)
<1> DEFINE header(j) == lines[j].kind = "section"
           before(i) == {j \in 1 .. i - 1 : header(j)}
           last(i) == CHOOSE j \in before(i) : \A k \in before(i) : k <= j
<1>1. \A i : HeaderOf(lines, i) = IF before(i) = {} THEN Section("", "none") ELSE lines[last(i)]
  BY DEF HeaderOf
<1> HIDE DEF header
<1>2. before(1) = {}
  OBVIOUS
<1>3. ASSUME NEW k \in 1 .. Len(lines)
      PROVE  HeaderOf(lines, k + 1) = IF header(k) THEN lines[k] ELSE HeaderOf(lines, k)
  <2>1. k \in Nat /\ k >= 1
    OBVIOUS
  <2>2. CASE header(k)
    <3>1. k \in before(k + 1) /\ \A j \in before(k + 1) : j \in Nat /\ j <= k
      BY <2>1, <2>2
    <3> HIDE DEF before
    <3>2. last(k + 1) = k
      <4>1. last(k + 1) \in before(k + 1) /\ \A j \in before(k + 1) : j <= last(k + 1)
        BY <3>1
      <4> HIDE DEF last
      <4> QED
        BY <2>1, <3>1, <4>1
    <3> HIDE DEF last
    <3> QED
      BY <1>1, <2>2, <3>1, <3>2
  <2>3. CASE ~ header(k)
    <3>1. before(k + 1) = before(k)
      BY <2>1, <2>3
    <3> HIDE DEF before
    <3> QED
      BY <1>1, <2>3, <3>1
  <2> QED
    BY <2>2, <2>3
<1> HIDE DEF before, last
<1> QED
  BY <1>1, <1>2, <1>3 DEF header

\* v goes through n lines: hits count, until one is barred.
Owning(v, n, hits, barred, good) ==
  /\ v[0] = Unseen
  /\ \A k \in 1 .. n :
       v[k] = IF k \notin hits \/ v[k - 1].excluded THEN v[k - 1]
              ELSE [excluded |-> k \in barred, owned |-> k \notin barred /\ k \in good]
LastGood(hits, barred, good) ==
  /\ hits # {} /\ \A i \in hits : i \notin barred
  /\ (CHOOSE i \in hits : \A j \in hits : j <= i) \in good

LEMMA LastDecides ==
  ASSUME NEW n \in Nat, NEW hits \in SUBSET (1 .. n), NEW barred, NEW good,
         NEW v, Owning(v, n, hits, barred, good)
  PROVE  v[n].owned <=> LastGood(hits, barred, good)
<1> DEFINE excluded(k) == \E i \in hits : i <= k /\ i \in barred
           last(l, k) == l \in hits /\ l <= k /\ \A j \in hits : j <= k => j <= l
           right(k) == /\ v[k].excluded <=> excluded(k)
                       /\ v[k].owned <=> ~ excluded(k) /\ \E l \in hits : last(l, k) /\ l \in good
           bad == {k \in 0 .. n : ~ right(k)}
<1>1. /\ v[0] = Unseen
      /\ \A k \in 1 .. n :
           v[k] = IF k \notin hits \/ v[k - 1].excluded THEN v[k - 1]
                  ELSE [excluded |-> k \in barred, owned |-> k \notin barred /\ k \in good]
  BY DEF Owning
<1>2. right(0)
  BY <1>1 DEF Unseen
<1>3. ASSUME NEW k \in 1 .. n, right(k - 1) PROVE right(k)
  <2>1. k \in Nat /\ k - 1 \in Nat /\ hits \subseteq Nat
    OBVIOUS
  <2>2. CASE k \notin hits
    <3>1. \A j \in hits : j <= k <=> j <= k - 1
      BY <2>1, <2>2
    <3>2. (excluded(k) <=> excluded(k - 1)) /\ \A l : last(l, k) <=> last(l, k - 1)
      BY <3>1
    <3>3. v[k] = v[k - 1]
      BY <1>1, <2>2
    <3> HIDE DEF excluded, last
    <3> QED
      BY <1>3, <3>2, <3>3
  <2>3. CASE k \in hits /\ excluded(k - 1)
    <3>1. excluded(k)
      BY <2>1, <2>3
    <3>2. v[k] = v[k - 1]
      <4>1. v[k - 1].excluded
        BY <1>3, <2>3
      <4> QED
        BY <1>1, <4>1
    <3> HIDE DEF excluded, last
    <3> QED
      BY <1>3, <2>3, <3>1, <3>2
  <2>4. CASE k \in hits /\ ~ excluded(k - 1)
    <3>1. v[k] = [excluded |-> k \in barred, owned |-> k \notin barred /\ k \in good]
      <4>1. ~ v[k - 1].excluded
        BY <1>3, <2>4
      <4> QED
        BY <1>1, <2>4, <4>1
    <3>2. excluded(k) <=> k \in barred
      <4>1. ASSUME NEW i \in hits, i <= k PROVE i <= k - 1 \/ i = k
        <5>1. i \in Nat
          BY <2>1
        <5> QED
          BY <2>1, <4>1, <5>1
      <4> QED
        BY <2>1, <2>4, <4>1
    <3>3. last(k, k) /\ \A l : last(l, k) => l = k
      <4>1. last(k, k)
        BY <2>1, <2>4
      <4>2. ASSUME NEW l, last(l, k) PROVE l = k
        <5>1. l \in Nat /\ l <= k /\ k <= l
          BY <2>1, <2>4, <4>2
        <5> QED
          BY <2>1, <5>1
      <4> HIDE DEF last
      <4> QED
        BY <4>1, <4>2
    <3> HIDE DEF excluded, last
    <3>4. v[k].excluded = (k \in barred) /\ v[k].owned = (k \notin barred /\ k \in good)
      BY <3>1
    <3> QED
      BY <2>4, <3>2, <3>3, <3>4
  <2> QED
    BY <2>2, <2>3, <2>4
<1> HIDE DEF right
<1>4. bad = {}
  <2> SUFFICES ASSUME bad # {} PROVE FALSE
    OBVIOUS
  <2>1. bad \in SUBSET Nat
    OBVIOUS
  <2>2. PICK k \in bad : \A j \in bad : k <= j
    BY <2>1, Smallest
  <2>3. k # 0 /\ k \in 1 .. n /\ k - 1 \in 0 .. n /\ ~ (k <= k - 1)
    BY <1>2, <2>2
  <2>4. right(k - 1)
    BY <2>2, <2>3
  <2> QED
    BY <1>3, <2>2, <2>3, <2>4
<1>5. right(n)
  BY <1>4
<1>6. \A i \in hits : i <= n
  OBVIOUS
<1> DEFINE chosen == CHOOSE i \in hits : \A j \in hits : j <= i
<1>7. excluded(n) <=> ~ \A i \in hits : i \notin barred
  BY <1>6
<1>8. (\E l \in hits : last(l, n) /\ l \in good) <=> hits # {} /\ chosen \in good
  <2>1. ASSUME hits # {} PROVE last(chosen, n) /\ \A l : last(l, n) => l = chosen
    <3>1. hits \in SUBSET Nat
      OBVIOUS
    <3>2. \E i \in hits : \A j \in hits : j <= i
      BY <1>6, <2>1, <3>1, Largest
    <3>3. chosen \in hits /\ \A j \in hits : j <= chosen
      BY <3>2
    <3> HIDE DEF chosen
    <3>4. last(chosen, n)
      BY <1>6, <3>3
    <3>5. ASSUME NEW l, last(l, n) PROVE l = chosen
      <4>1. l \in Nat /\ chosen \in Nat /\ chosen <= l /\ l <= chosen
        BY <3>1, <3>3, <3>4, <3>5
      <4> QED
        BY <4>1
    <3> HIDE DEF last
    <3> QED
      BY <3>4, <3>5
  <2>2. (\E l : last(l, n)) => hits # {}
    OBVIOUS
  <2>3. \A l : last(l, n) => l \in hits
    OBVIOUS
  <2> HIDE DEF last, chosen
  <2> QED
    BY <2>1, <2>2, <2>3
<1> HIDE DEF excluded, last
<1> QED
  BY <1>5, <1>7, <1>8 DEF right, LastGood

\* The lines that say something about a path in a section.
Hits(lines, key, path) ==
  {i \in DOMAIN lines : /\ lines[i].kind # "section" /\ path \in lines[i].paths
                        /\ HeaderOf(lines, i).key = key}
OwnerIn(lines, i) == ValidForGitLab(lines[i].owners) \/ ValidForGitLab(HeaderOf(lines, i).owners)
CoveredIn(lines, key, path) ==
  /\ Hits(lines, key, path) # {} /\ \A i \in Hits(lines, key, path) : lines[i].kind = "rule"
  /\ OwnerIn(lines, CHOOSE i \in Hits(lines, key, path) : \A j \in Hits(lines, key, path) : j <= i)

\* Where the parser stands is where a line is: below the last header before it.
Standing(state, header) == state.section = header.key /\ state.default = ValidForGitLab(header.owners)

LEMMA ParserPlace ==
  ASSUME NEW content, content.lines \in Seq(OwnersLine), NEW g, Parsing(g, content)
  PROVE  \A k \in 0 .. Len(content.lines) : Standing(g[k], HeaderOf(content.lines, k + 1))
<1> DEFINE lines == content.lines
           n == Len(lines)
           header(k) == HeaderOf(lines, k)
           bad == {k \in 0 .. n : ~ Standing(g[k], header(k + 1))}
<1>1. n \in Nat /\ \A k \in 1 .. n : lines[k] \in OwnersLine
  OBVIOUS
<1>2. /\ header(1) = Section("", "none")
      /\ \A k \in 1 .. n : header(k + 1) = IF lines[k].kind = "section" THEN lines[k] ELSE header(k)
  BY HeaderSteps
<1>3. g[0] = Beginning /\ \A k \in 1 .. n : g[k] = ParseLine(g[k - 1], lines[k])
  BY DEF Parsing
<1>4. g \in [0 .. n -> Parser]
  BY DEF Parsing
<1> HIDE DEF header, lines, n
<1>5. Standing(g[0], header(1))
  <2>1. Beginning.section = "" /\ Beginning.default = FALSE
    BY DEF Beginning
  <2>2. Section("", "none").key = "" /\ Section("", "none").owners = "none"
    BY DEF Section
  <2>3. ValidForGitLab("none") = FALSE
    BY DEF ValidForGitLab
  <2> QED
    BY <1>2, <1>3, <2>1, <2>2, <2>3 DEF Standing
<1>6. ASSUME NEW k \in 1 .. n, Standing(g[k - 1], header(k)) PROVE Standing(g[k], header(k + 1))
  <2>1. CASE lines[k].kind = "section"
    <3>1. g[k] = OpenSection(g[k - 1], lines[k]) /\ header(k + 1) = lines[k]
      BY <1>2, <1>3, <2>1 DEF ParseLine
    <3>2. g[k - 1] \in Parser
      BY <1>1, <1>4
    <3>3. \A p \in Parser : \A l : Standing(OpenSection(p, l), l)
      BY DEF OpenSection, Parser, Standing
    <3> QED
      BY <3>1, <3>2, <3>3
  <2>2. CASE lines[k].kind # "section"
    <3>1. g[k] = ParseLine(g[k - 1], lines[k]) /\ header(k + 1) = header(k)
      BY <1>2, <1>3, <2>2
    <3>2. g[k - 1] \in Parser
      BY <1>1, <1>4
    <3>3. \A p \in Parser : \A l : l.kind # "section" =>
            ParseLine(p, l).section = p.section /\ ParseLine(p, l).default = p.default
      BY DEF ParseLine, Parser
    <3> QED
      BY <1>6, <2>2, <3>1, <3>2, <3>3 DEF Standing
  <2> QED
    BY <2>1, <2>2
<1>7. bad = {}
  <2> SUFFICES ASSUME bad # {} PROVE FALSE
    OBVIOUS
  <2>1. bad \in SUBSET Nat
    BY <1>1
  <2>2. PICK k \in bad : \A j \in bad : k <= j
    BY <2>1, Smallest
  <2>3. k # 0 /\ k \in 1 .. n /\ k - 1 \in 0 .. n /\ ~ (k <= k - 1) /\ k - 1 + 1 = k
    BY <1>1, <1>5, <2>2
  <2>4. Standing(g[k - 1], header(k))
    BY <2>2, <2>3
  <2> QED
    BY <1>6, <2>2, <2>3, <2>4
<1> QED
  BY <1>7 DEF n, header, lines

\* One line more, as a section sees it.
NextSeen(seen, lines, k, key, path) ==
  IF k \notin Hits(lines, key, path) \/ seen.excluded THEN seen
  ELSE [excluded |-> lines[k].kind # "rule", owned |-> lines[k].kind = "rule" /\ OwnerIn(lines, k)]

LEMMA SeenLine ==
  ASSUME NEW content, content.lines \in Seq(OwnersLine), NEW g, Parsing(g, content),
         NEW key, NEW path, NEW k \in 1 .. Len(content.lines)
  PROVE  SeenIn(g[k].entries, key, path)
           = NextSeen(SeenIn(g[k - 1].entries, key, path), content.lines, k, key, path)
<1> DEFINE lines == content.lines
           line == lines[k]
           old == g[k - 1]
           head == HeaderOf(lines, k)
           seen == SeenIn(old.entries, key, path)
           entry == Entry(old.section, line, old.default)
           hits == Hits(lines, key, path)
           next == [excluded |-> line.kind # "rule", owned |-> line.kind = "rule" /\ OwnerIn(lines, k)]
<1>1. line \in OwnersLine /\ k \in DOMAIN lines /\ k - 1 \in 0 .. Len(lines) /\ k - 1 + 1 = k
  OBVIOUS
<1>2. old \in Parser /\ g[k] = ParseLine(old, line)
  BY <1>1 DEF Parsing
<1>3. Standing(old, head)
  BY <1>1, ParserPlace
<1> HIDE DEF old, lines
<1>4. k \in hits <=> line.kind # "section" /\ path \in line.paths /\ head.key = key
  BY <1>1 DEF Hits
<1> HIDE DEF head, hits
<1>5. ASSUME line.kind = "section"
      PROVE  SeenIn(g[k].entries, key, path) = IF k \notin hits \/ seen.excluded THEN seen ELSE next
  <2>1. g[k] = OpenSection(old, line)
    BY <1>2, <1>5 DEF ParseLine
  <2>2. \A p \in Parser : \A l : OpenSection(p, l).entries = p.entries
    BY DEF OpenSection, Parser
  <2>3. g[k].entries = old.entries
    BY <1>2, <2>1, <2>2
  <2>4. k \notin hits
    BY <1>4, <1>5
  <2> HIDE DEF line, next
  <2> QED
    BY <2>3, <2>4
<1>6. ASSUME line.kind # "section"
      PROVE  SeenIn(g[k].entries, key, path) = IF k \notin hits \/ seen.excluded THEN seen ELSE next
  <2>1. g[k].entries = Append(old.entries, entry)
    <3>1. \A p \in Parser : \A l : l.kind # "section" =>
            ParseLine(p, l).entries = Append(p.entries, Entry(p.section, l, p.default))
      BY DEF ParseLine, Parser
    <3> HIDE DEF line
    <3> QED
      BY <1>2, <1>6, <3>1
  <2>2. entry \in OwnersEntry
    <3> HIDE DEF line
    <3> QED
      BY <1>1, <1>2, <1>6, EntryTyped
  <2>3. old.entries \in Seq(OwnersEntry)
    BY <1>2 DEF Parser
  <2> HIDE DEF entry, seen
  <2>4. SeenIn(g[k].entries, key, path) = SeeEntry(key, path, seen, entry)
    BY <2>1, <2>2, <2>3, SeenOneMore DEF seen
  <2>5. /\ entry.section = head.key /\ entry.paths = line.paths
        /\ entry.exclude = (line.kind = "exclusion")
        /\ entry.owned = (line.kind = "rule" /\ (old.default \/ ValidForGitLab(line.owners)))
    BY <1>3 DEF Standing, Entry, entry
  <2>6. line.kind = "exclusion" <=> line.kind # "rule"
    BY <1>1, <1>6 DEF OwnersLine
  <2>7. old.default \/ ValidForGitLab(line.owners) <=> OwnerIn(lines, k)
    BY <1>3 DEF Standing, OwnerIn, head
  <2>8. k \notin hits <=> path \notin line.paths \/ head.key # key
    BY <1>4, <1>6
  <2>9. SeeEntry(key, path, seen, entry) = IF k \notin hits \/ seen.excluded THEN seen ELSE next
    <3>1. SeeEntry(key, path, seen, entry)
            = IF seen.excluded \/ entry.section # key \/ path \notin entry.paths THEN seen
              ELSE [excluded |-> entry.exclude, owned |-> ~ entry.exclude /\ entry.owned]
      BY DEF SeeEntry
    <3>2. entry.exclude = (line.kind # "rule")
      BY <2>5, <2>6
    <3>3. (~ entry.exclude /\ entry.owned) = (line.kind = "rule" /\ OwnerIn(lines, k))
      BY <2>5, <2>6, <2>7
    <3>4. (seen.excluded \/ entry.section # key \/ path \notin entry.paths) <=> (k \notin hits \/ seen.excluded)
      BY <2>5, <2>8
    <3> HIDE DEF line
    <3> QED
      BY <3>1, <3>2, <3>3, <3>4
  <2> HIDE DEF next
  <2> QED
    BY <2>4, <2>9
<1> HIDE DEF next, line, seen
<1>7. SeenIn(g[k].entries, key, path) = IF k \notin hits \/ seen.excluded THEN seen ELSE next
  BY <1>5, <1>6
<1>8. NextSeen(seen, lines, k, key, path) = IF k \notin hits \/ seen.excluded THEN seen ELSE next
  BY DEF NextSeen, next, hits, line
<1> QED
  BY <1>7, <1>8 DEF seen, old, lines

LEMMA SectionRules ==
  ASSUME NEW content, content.lines \in Seq(OwnersLine), NEW key, NEW path
  PROVE  SeenIn(GitLabEntries(content), key, path).owned <=> CoveredIn(content.lines, key, path)
<1> DEFINE lines == content.lines
           n == Len(lines)
           hits == Hits(lines, key, path)
           barred == {i \in 1 .. n : lines[i].kind # "rule"}
           good == {i \in 1 .. n : OwnerIn(lines, i)}
<1>1. n \in Nat /\ DOMAIN lines = 1 .. n
  OBVIOUS
<1>2. PICK g : Parsing(g, content)
  BY ParsedLines
<1> DEFINE v == [k \in 0 .. n |-> SeenIn(g[k].entries, key, path)]
<1>3. hits \in SUBSET (1 .. n)
  BY <1>1 DEF Hits
<1>4. v[0] = Unseen
  <2>1. g[0] = Beginning
    BY <1>2 DEF Parsing
  <2>2. Beginning.entries = <<>>
    BY DEF Beginning
  <2>3. g[0].entries = <<>>
    BY <2>1, <2>2
  <2>4. v[0] = SeenIn(g[0].entries, key, path)
    BY <1>1
  <2> QED
    BY <2>3, <2>4, SeenNothing
<1>5. ASSUME NEW k \in 1 .. n
      PROVE  v[k] = IF k \notin hits \/ v[k - 1].excluded THEN v[k - 1]
                    ELSE [excluded |-> k \in barred, owned |-> k \notin barred /\ k \in good]
  <2>1. v[k] = SeenIn(g[k].entries, key, path) /\ v[k - 1] = SeenIn(g[k - 1].entries, key, path)
    BY <1>1
  <2>2. /\ (lines[k].kind # "rule") = (k \in barred)
        /\ (lines[k].kind = "rule" /\ OwnerIn(lines, k)) = (k \notin barred /\ k \in good)
    OBVIOUS
  <2> HIDE DEF v, hits, barred, good
  <2>3. v[k] = NextSeen(v[k - 1], lines, k, key, path)
    <3>1. SeenIn(g[k].entries, key, path)
            = NextSeen(SeenIn(g[k - 1].entries, key, path), lines, k, key, path)
      BY <1>2, SeenLine
    <3> QED
      BY <2>1, <3>1
  <2>4. v[k] = IF k \notin hits \/ v[k - 1].excluded THEN v[k - 1]
               ELSE [excluded |-> lines[k].kind # "rule",
                     owned |-> lines[k].kind = "rule" /\ OwnerIn(lines, k)]
    BY <2>3 DEF NextSeen, hits
  <2> HIDE DEF lines
  <2> QED
    BY <2>2, <2>4
<1>6. SeenIn(GitLabEntries(content), key, path) = v[n]
  <2>1. n \in 0 .. n
    BY <1>1
  <2> QED
    BY <1>2, <2>1 DEF Parsing
<1> HIDE DEF v, barred, good, hits, n
<1>7. Owning(v, n, hits, barred, good)
  BY <1>4, <1>5 DEF Owning
<1>8. v[n].owned <=> LastGood(hits, barred, good)
  BY <1>1, <1>3, <1>7, LastDecides
<1>9. v[n].owned <=> /\ hits # {} /\ \A i \in hits : i \notin barred
                     /\ (CHOOSE i \in hits : \A j \in hits : j <= i) \in good
  BY <1>8 DEF LastGood
<1>10. \A i \in hits : i \notin barred <=> lines[i].kind = "rule"
  BY <1>3 DEF barred
<1>11. ASSUME hits # {}
       PROVE  (CHOOSE i \in hits : \A j \in hits : j <= i) \in good
                <=> OwnerIn(lines, CHOOSE i \in hits : \A j \in hits : j <= i)
  <2>1. hits \in SUBSET Nat /\ \A i \in hits : i <= n
    BY <1>1, <1>3
  <2>2. \E i \in hits : \A j \in hits : j <= i
    BY <1>1, <1>11, <2>1, Largest
  <2>3. (CHOOSE i \in hits : \A j \in hits : j <= i) \in hits
    BY <2>2
  <2> QED
    BY <1>3, <2>3 DEF good
<1> HIDE DEF lines
<1> QED
  BY <1>6, <1>9, <1>10, <1>11 DEF CoveredIn, hits, lines

\* Each rule is among the entries, in the section of its header.
LEMMA EveryLine ==
  ASSUME NEW content, content.lines \in Seq(OwnersLine),
         NEW i \in DOMAIN content.lines, content.lines[i].kind # "section"
  PROVE  \E e \in DOMAIN GitLabEntries(content) :
           GitLabEntries(content)[e].section = HeaderOf(content.lines, i).key
<1> DEFINE lines == content.lines
           n == Len(lines)
           key == HeaderOf(lines, i).key
<1>1. n \in Nat /\ i \in 1 .. n /\ i - 1 \in 0 .. n /\ i - 1 + 1 = i
  OBVIOUS
<1>2. PICK g : Parsing(g, content)
  BY ParsedLines
<1>3. g \in [0 .. n -> Parser] /\ \A k \in 1 .. n : g[k] = ParseLine(g[k - 1], lines[k])
  BY <1>2 DEF Parsing
<1>4. GitLabEntries(content) = g[n].entries
  BY <1>2 DEF Parsing
<1> DEFINE among(k) == \E e \in DOMAIN g[k].entries : g[k].entries[e].section = key
           bad == {k \in i .. n : ~ among(k)}
<1>5. among(i)
  <2> DEFINE old == g[i - 1]
             entry == Entry(old.section, lines[i], old.default)
  <2>1. old \in Parser /\ old.section = key
    <3>1. Standing(g[i - 1], HeaderOf(lines, i))
      BY <1>1, <1>2, ParserPlace
    <3> QED
      BY <1>1, <1>3, <3>1 DEF Standing
  <2>2. \A p \in Parser : \A l : l.kind # "section" =>
          ParseLine(p, l).entries = Append(p.entries, Entry(p.section, l, p.default))
    BY DEF ParseLine, Parser
  <2>3. g[i].entries = Append(old.entries, entry)
    BY <1>1, <1>3, <2>1, <2>2
  <2>4. entry.section = key
    BY <2>1 DEF Entry
  <2>5. old.entries \in Seq(OwnersEntry)
    BY <2>1 DEF Parser
  <2> HIDE DEF entry, old, key
  <2> DEFINE last == Len(old.entries) + 1
  <2>6. last \in DOMAIN Append(old.entries, entry) /\ Append(old.entries, entry)[last] = entry
    BY <2>5
  <2> QED
    BY <2>3, <2>4, <2>6
<1>6. ASSUME NEW k \in i + 1 .. n, among(k - 1) PROVE among(k)
  <2>1. k \in 1 .. n /\ k - 1 \in 0 .. n
    BY <1>1
  <2>2. g[k - 1] \in Parser /\ g[k] = ParseLine(g[k - 1], lines[k])
    BY <1>3, <2>1
  <2>3. \A p \in Parser : p.entries \in Seq(OwnersEntry)
    BY DEF Parser
  <2>4. \A p \in Parser : \A l : \/ ParseLine(p, l).entries = p.entries
                                \/ \E x : ParseLine(p, l).entries = Append(p.entries, x)
    BY DEF ParseLine, Parser, OpenSection
  <2>5. \A s \in Seq(OwnersEntry) : \A x : \A e \in DOMAIN s :
          e \in DOMAIN Append(s, x) /\ Append(s, x)[e] = s[e]
    OBVIOUS
  <2> DEFINE old == g[k - 1].entries
             new == g[k].entries
  <2>6. old \in Seq(OwnersEntry) /\ (new = old \/ \E x : new = Append(old, x))
    <3>1. old \in Seq(OwnersEntry)
      BY <2>2, <2>3
    <3>2. \A l : \/ ParseLine(g[k - 1], l).entries = old
                \/ \E x : ParseLine(g[k - 1], l).entries = Append(old, x)
      BY <2>2, <2>4
    <3>3. new = ParseLine(g[k - 1], lines[k]).entries
      BY <2>2
    <3> HIDE DEF old, new, lines
    <3> QED
      BY <3>1, <3>2, <3>3
  <2>7. \A e \in DOMAIN old : e \in DOMAIN new /\ new[e] = old[e]
    <3> HIDE DEF old, new
    <3> QED
      BY <2>5, <2>6
  <2> HIDE DEF key, lines
  <2>8. PICK e \in DOMAIN old : old[e].section = key
    BY <1>6
  <2> HIDE DEF old
  <2>9. e \in DOMAIN new /\ new[e].section = key
    BY <2>7, <2>8
  <2> QED
    BY <2>9
<1> HIDE DEF among
<1>7. bad = {}
  <2> SUFFICES ASSUME bad # {} PROVE FALSE
    OBVIOUS
  <2>1. bad \in SUBSET Nat
    BY <1>1
  <2>2. PICK k \in bad : \A j \in bad : k <= j
    BY <2>1, Smallest
  <2>3. k # i /\ k \in i + 1 .. n /\ k - 1 \in i .. n /\ ~ (k <= k - 1)
    BY <1>1, <1>5, <2>2
  <2>4. among(k - 1)
    BY <2>2, <2>3
  <2> QED
    BY <1>6, <2>2, <2>3, <2>4
<1>8. among(n)
  BY <1>1, <1>7
<1> QED
  BY <1>4, <1>8 DEF among

LEMMA KeysOfHeaders ==
  ASSUME NEW lines \in Seq(OwnersLine), NEW i \in DOMAIN lines
  PROVE  HeaderOf(lines, i).key \in
           {""} \cup {lines[j].key : j \in {k \in DOMAIN lines : lines[k].kind = "section"}}
<1> DEFINE header(j) == lines[j].kind = "section"
           before == {j \in 1 .. i - 1 : header(j)}
           last == CHOOSE j \in before : \A k \in before : k <= j
<1>1. HeaderOf(lines, i) = IF before = {} THEN Section("", "none") ELSE lines[last]
  BY DEF HeaderOf
<1>2. Section("", "none").key = ""
  BY DEF Section
<1> HIDE DEF header
<1>3. ASSUME before # {} PROVE last \in DOMAIN lines /\ header(last)
  <2>1. before \in SUBSET Nat /\ i \in Nat /\ \A j \in before : j <= i
    OBVIOUS
  <2>2. \E j \in before : \A k \in before : k <= j
    BY <1>3, <2>1, Largest
  <2>3. last \in before
    BY <2>2
  <2> HIDE DEF last
  <2> QED
    BY <2>3
<1> HIDE DEF before, last
<1> QED
  BY <1>1, <1>2, <1>3 DEF header

LEMMA GitLabRules ==
  ASSUME NEW content, content.lines \in Seq(OwnersLine), NEW path
  PROVE  GitLabCovers(content, path) <=> OwnedSomewhere(content.lines, path)
<1> DEFINE lines == content.lines
           entries == GitLabEntries(content)
           keys == {""} \cup {lines[i].key : i \in {j \in DOMAIN lines : lines[j].kind = "section"}}
<1>1. GitLabCovers(content, path) <=>
        \E e \in DOMAIN entries : SeenIn(entries, entries[e].section, path).owned
  BY DEF GitLabCovers, SectionCovers, SeenIn, Unseen
<1>2. OwnedSomewhere(lines, path) <=> \E key \in keys : CoveredIn(lines, key, path)
  BY DEF OwnedSomewhere, CoveredIn, Hits, OwnerIn
<1>3. \A key : SeenIn(entries, key, path).owned <=> CoveredIn(lines, key, path)
  BY SectionRules
<1>4. ASSUME NEW key, CoveredIn(lines, key, path)
      PROVE  key \in keys /\ \E e \in DOMAIN entries : entries[e].section = key
  <2>1. PICK i \in DOMAIN lines : lines[i].kind # "section" /\ HeaderOf(lines, i).key = key
    BY <1>4 DEF CoveredIn, Hits
  <2>2. key \in keys
    BY <2>1, KeysOfHeaders
  <2>3. \E e \in DOMAIN entries : entries[e].section = key
    BY <2>1, EveryLine
  <2> QED
    BY <2>2, <2>3
<1> HIDE DEF keys, entries, lines
<1> QED
  BY <1>1, <1>2, <1>3, <1>4 DEF lines

\* On GitLab the one file that is found decides, if it could be read.
LEMMA GitLabVerdicts ==
  ASSUME NEW inputs, NEW paths, paths # {}, NEW f \in Located(inputs, "gitlab"),
         \A g \in Located(inputs, "gitlab") : g = f, f.status = "ok"
  PROVE  CodeownersCheck(inputs, paths, "gitlab").findings
           = {p \in paths : ~ GitLabCovers(f.facts, p)}
<1> DEFINE file == Located(inputs, "gitlab")
           content == (CHOOSE g \in file : TRUE).facts
           fails == \/ "gitlab" = "ambiguous"
                    \/ \E g \in file : \/ g.status # "ok"
                                       \/ "gitlab" = "common" /\ ~ Agreed(content, paths)
           open == {p \in paths : file = {} \/ ~ Covers("gitlab", content, p)}
<1>1. Platform("gitlab", inputs) = "gitlab"
  BY DEF Platform
<1>2. ~ fails => CodeownersCheck(inputs, paths, "gitlab").findings = open
  BY <1>1 DEF CodeownersCheck
<1>3. ~ fails
  OBVIOUS
<1>4. content = f.facts
  <2>1. (CHOOSE g \in file : TRUE) \in file
    OBVIOUS
  <2>2. (CHOOSE g \in file : TRUE) = f
    BY <2>1
  <2> QED
    BY <2>2
<1>5. \A p : Covers("gitlab", content, p) <=> GitLabCovers(content, p)
  BY DEF Covers
<1> HIDE DEF fails, content, file
<1> QED
  BY <1>2, <1>3, <1>4, <1>5 DEF file

\* A repository has at most one file in each place.
LEMMA OneFile ==
  ASSUME IsRepository(tree), NEW f \in Located(Inputs(tree), "gitlab")
  PROVE  /\ f \in tree /\ f.name = "CODEOWNERS"
         /\ \A g \in Located(Inputs(tree), "gitlab") : g = f
<1>1. \A g \in Located(Inputs(tree), "gitlab") :
        g \in tree /\ g.name = "CODEOWNERS" /\ g.root = f.root
  BY DEF Located, Inputs
<1> QED
  BY <1>1 DEF IsRepository

LEMMA OwnersLines ==
  ASSUME IsRepository(tree), NEW f \in tree, f.name = "CODEOWNERS"
  PROVE  f.facts.lines \in Seq(OwnersLine)
<1>1. WellFormed(f)
  BY DEF IsRepository
<1>2. f.facts \in OwnersContent
  BY <1>1 DEF WellFormed
<1> QED
  BY <1>2 DEF OwnersContent

\* A source is reported on GitLab exactly if no section covers it
\* (newGitLabCodeownersMatcher, gitLabCodeownersSection.ownership): the pass over
\* the entries of each section, which goes on where an earlier header of the
\* same name stopped, decides by the last rule and by no exclusion.
THEOREM SectionsDecide == Spec => []SectionsDecideTogether
<1>1. IInv => SectionsDecideTogether
  <2> DEFINE sources == Sources(tree, disabled)
             inputs == Inputs(tree)
             paths == SourcePaths(sources)
  <2> SUFFICES ASSUME IInv, Done, platform = "gitlab", sources # {},
                      NEW f \in Located(inputs, "gitlab"), f.status = "ok", NEW p \in paths
               PROVE  <<"codeowners", p>> \in findings <=> ~ OwnedSomewhere(f.facts.lines, p)
    BY DEF SectionsDecideTogether
  <2>1. ResultOf("codeowners") = EvaluateCodeowners(sources, "gitlab")
    BY EvaluatorsAreChecks
  <2>2. <<"codeowners", p>> \in findings <=> p \in EvaluateCodeowners(sources, "gitlab").findings
    <3>1. p \in EvaluateCodeowners(sources, "gitlab").findings => <<"codeowners", p>> \in findings
      BY <2>1, AllSaid, EvaluatorsAreChecks
    <3>2. <<"codeowners", p>> \in findings => p \in EvaluateCodeowners(sources, "gitlab").findings
      <4> DEFINE pair == <<"codeowners", p>>
      <4>1. pair[1] = "codeowners" /\ pair[2] = p
        OBVIOUS
      <4> HIDE DEF pair
      <4>2. pair \in findings => pair[2] \in EvaluateCodeowners(sources, "gitlab").findings
        BY <2>1, <4>1, Said
      <4> QED
        BY <4>1, <4>2 DEF pair
    <3> QED
      BY <3>1, <3>2
  <2>3. EvaluateCodeowners(sources, "gitlab") = CodeownersCheck(inputs, paths, "gitlab")
    BY DEF EvaluateCodeowners
  <2>4. IsRepository(tree)
    BY DEF IInv
  <2>5. /\ f \in tree /\ f.name = "CODEOWNERS"
        /\ \A g \in Located(inputs, "gitlab") : g = f
    BY <2>4, OneFile
  <2>6. f.facts.lines \in Seq(OwnersLine)
    BY <2>4, <2>5, OwnersLines
  <2>7. CodeownersCheck(inputs, paths, "gitlab").findings = {q \in paths : ~ GitLabCovers(f.facts, q)}
    <3>1. paths # {}
      OBVIOUS
    <3> HIDE DEF paths, inputs, sources
    <3> QED
      BY <2>5, <3>1, GitLabVerdicts
  <2>8. GitLabCovers(f.facts, p) <=> OwnedSomewhere(f.facts.lines, p)
    BY <2>6, GitLabRules
  <2> HIDE DEF paths, inputs, sources
  <2> QED
    BY <2>2, <2>3, <2>7, <2>8
<1> QED
  BY <1>1, Invariance, PTL
=============================================================================
