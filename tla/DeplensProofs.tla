---------------------------- MODULE DeplensProofs ----------------------------
(***************************************************************************)
(* Theorems about a run of the program, for all arguments, rule documents  *)
(* and trees.                                                              *)
(***************************************************************************)
EXTENDS Deplens, FiniteSetTheorems, TLAPS

\* The theorems about Scan, which name its definitions once more.
Scans == INSTANCE ScanProofs

\* What is known at each stage: before the report nothing is printed, and
\* nothing is written but by a generation that found no source blocked.
Configuring == {"arguments", "base", "extensions", "start"}
AllWritten == Format # "none" => Selected("blocked") = {} /\ generated = Selected("files")
StageInv ==
  /\ stage \in Stages /\ command \in DOMAIN Commands
  /\ stage # "exited" => printed = "nothing"
  /\ stage \in Configuring \cup {"scan", "generation"} => generated = {}
  /\ stage \in Configuring => outcome = "idle"
  /\ stage = "generation" => outcome = "done" /\ Format # "none"
  /\ stage = "report" => outcome = "done" /\ AllWritten /\ (generated # {} => Format # "none")
  /\ ExitStatusTellsTruth

LEMMA SameSelection ==
  ASSUME UNCHANGED <<sources, composed, command>>
  PROVE  Format' = Format /\ \A effect : Selected(effect)' = Selected(effect)
BY DEF Format, Config, Configs, Selected, Effect

LEMMA Verdicts == command \in DOMAIN Commands => Config.verdict \in {"help", "error", "run"}
<1>1. \A args : Verdict(args) \in {"help", "error", "run"}
  BY DEF Verdict
<1>2. command \in DOMAIN Commands => Config.verdict = Verdict(Commands[command])
  BY DEF Config, Configs, ParseArgs
<1> QED
  BY <1>1, <1>2

LEMMA InitStageInv == Init => StageInv
BY DEF Init, Scanner!Init, StageInv, Stages, Configuring, ExitStatusTellsTruth

\* Reading the arguments and the rules either goes on or fails, or prints the
\* usage.
LEMMA ConfigureStep ==
  ASSUME StageInv, Configure
  PROVE  StageInv'
<1>1. /\ stage \in Configuring /\ printed = "nothing" /\ generated = {} /\ outcome = "idle"
      /\ UNCHANGED <<scan, command, generated>>
  BY DEF StageInv, Configure, ReadArguments, LoadBase, LoadExtension, ExcludeRules, Configuring
<1>2. outcome' = "idle" /\ generated' = {}
  BY <1>1 DEF scan
<1>3. \/ stage' \in Configuring /\ printed' = "nothing"
      \/ stage' = "exited" /\ status' = 0 /\ printed' = "usage"
      \/ stage' = "exited" /\ status' = 1 /\ printed' = "nothing"
  <2>1. CASE ReadArguments
    <3>1. Config.verdict \in {"help", "error", "run"}
      BY Verdicts DEF StageInv
    <3> QED
      BY <1>1, <2>1, <3>1 DEF ReadArguments, Proceed, Report, Exit, Continue, Configuring
  <2>2. CASE LoadBase
    BY <1>1, <2>2 DEF LoadBase, TakeBase, Exit, Continue, Configuring
  <2>3. CASE LoadExtension
    BY <1>1, <2>3 DEF LoadExtension, TakeExtension, Exit, Continue, Configuring
  <2>4. CASE ExcludeRules
    BY <1>1, <2>4 DEF ExcludeRules, TakeAway, Exit, Continue, Configuring
  <2> QED
    BY <2>1, <2>2, <2>3, <2>4 DEF Configure
<1> QED
  BY <1>1, <1>2, <1>3 DEF StageInv, Stages, Configuring, ExitStatusTellsTruth

LEMMA ScanningStep ==
  ASSUME StageInv, StartScan \/ ScanStep \/ EndScan \/ OthersEdit
  PROVE  StageInv'
<1>1. /\ stage \in {"start", "scan"} /\ printed = "nothing" /\ generated = {}
      /\ printed' = "nothing" /\ generated' = {} /\ UNCHANGED <<command, composed>>
  BY DEF StageInv, StartScan, ScanStep, EndScan, OthersEdit, Configuring, run
<1>2. CASE EndScan
  <2>1. UNCHANGED <<sources, outcome>> /\ Format' = Format
    BY <1>1, <1>2, SameSelection DEF EndScan, scan
  <2>2. \/ outcome = "aborted" /\ stage' = "exited" /\ status' = 1
        \/ outcome = "crashed" /\ stage' = "exited" /\ status' = 2
        \/ outcome = "done" /\ stage' = IF Format = "none" THEN "report" ELSE "generation"
    BY <1>2 DEF EndScan, Exit, Continue
  <2> QED
    BY <1>1, <2>1, <2>2 DEF StageInv, Stages, Configuring, AllWritten, ExitStatusTellsTruth
<1>3. CASE StartScan \/ ScanStep \/ OthersEdit
  <2>1. stage' = "scan"
    BY <1>3 DEF StartScan, ScanStep, OthersEdit
  <2> QED
    BY <1>1, <2>1 DEF StageInv, Stages, Configuring, ExitStatusTellsTruth
<1> QED
  BY <1>2, <1>3

LEMMA GenerationStep ==
  ASSUME StageInv, GenerateFiles
  PROVE  StageInv'
<1>1. /\ printed' = "nothing" /\ outcome' = "done" /\ Format # "none" /\ generated = {}
      /\ UNCHANGED <<sources, composed, command>>
  BY DEF StageInv, GenerateFiles, scan
<1>2. Format' = Format /\ \A effect : Selected(effect)' = Selected(effect)
  BY <1>1, SameSelection
<1>3. \/ stage' = "exited" /\ status' = 1 /\ generated' = {}
      \/ /\ Selected("blocked") = {}
         /\ \/ stage' = "report" /\ generated' = Selected("files")
            \/ stage' = "exited" /\ status' = 1
  BY <1>1 DEF GenerateFiles, GiveUp, Exit, Continue
<1> QED
  BY <1>1, <1>2, <1>3 DEF StageInv, Stages, Configuring, AllWritten, ExitStatusTellsTruth

LEMMA ReportStep ==
  ASSUME StageInv, PrintReport
  PROVE  StageInv'
<1>1. /\ stage = "report" /\ printed = "nothing" /\ outcome = "done" /\ AllWritten
      /\ generated # {} => Format # "none"
      /\ stage' = "exited" /\ UNCHANGED <<sources, outcome, composed, command, generated>>
  BY DEF StageInv, PrintReport, Report, Exit, scan
<1>2. Format' = Format /\ \A effect : Selected(effect)' = Selected(effect)
  BY <1>1, SameSelection
<1>3. \/ printed' = "report" /\ status' = 0
      \/ printed' = "nothing" /\ status' = 1
  BY <1>1 DEF PrintReport, Report, Exit
<1> QED
  BY <1>1, <1>2, <1>3 DEF StageInv, Stages, Configuring, AllWritten, ExitStatusTellsTruth

LEMMA NextStageInv == StageInv /\ [Next]_vars => StageInv'
<1> SUFFICES ASSUME StageInv, [Next]_vars PROVE StageInv'
  OBVIOUS
<1>1. CASE UNCHANGED vars
  <2>1. UNCHANGED <<stage, status, printed, generated, outcome, sources, composed, command>>
    BY <1>1 DEF vars, scan, run
  <2>2. Format' = Format /\ \A effect : Selected(effect)' = Selected(effect)
    BY <2>1, SameSelection
  <2> QED
    BY <2>1, <2>2 DEF StageInv, AllWritten, ExitStatusTellsTruth
<1>2. CASE Next
  BY <1>2, ConfigureStep, ScanningStep, GenerationStep, ReportStep DEF Next, Work
<1> QED
  BY <1>1, <1>2

\* Whatever the arguments, the documents and the tree: the program exits with
\* success exactly if it has printed its usage, or a report on a complete scan
\* after it has written all the files it was asked for.
THEOREM TruthfulExit == Spec => []ExitStatusTellsTruth
<1>1. StageInv => ExitStatusTellsTruth
  BY DEF StageInv
<1> QED
  BY <1>1, InitStageInv, NextStageInv, PTL DEF Spec

-----------------------------------------------------------------------------
(* Lists, and what is chosen of them.                                      *)

\* Numbers have an order, in which each member of a finite set has its place.
LEMMA InTheirOrder ==
  ASSUME NEW S \in SUBSET Nat, IsFiniteSet(S)
  PROVE  /\ Cardinality(S) \in Nat
         /\ \A k \in 1 .. Cardinality(S) : Nth(S, k) \in S
         /\ \A k, l \in 1 .. Cardinality(S) : k < l => Nth(S, k) < Nth(S, l)
         /\ \A i \in S : \E k \in 1 .. Cardinality(S) : Nth(S, k) = i
<1> DEFINE upto(i) == {j \in S : j <= i}
           n == Cardinality(S)
           rank == [i \in S |-> Cardinality(upto(i))]
<1>1. n \in Nat
  BY FS_CardinalityType
<1>2. ASSUME NEW i \in S
      PROVE  IsFiniteSet(upto(i)) /\ rank[i] \in 1 .. n
  <2>1. upto(i) \in SUBSET S /\ i \in upto(i)
    OBVIOUS
  <2>2. IsFiniteSet(upto(i)) /\ Cardinality(upto(i)) <= n
    BY <2>1, FS_Subset
  <2>3. Cardinality(upto(i)) \in Nat /\ Cardinality(upto(i)) # 0
    BY <2>1, <2>2, FS_CardinalityType, FS_EmptySet
  <2> QED
    BY <1>1, <2>2, <2>3
<1>3. ASSUME NEW i \in S, NEW j \in S, i < j
      PROVE  rank[i] < rank[j]
  <2>1. upto(i) \in SUBSET upto(j) /\ upto(i) # upto(j)
    <3>1. i \in Nat /\ j \in Nat
      OBVIOUS
    <3>2. j \in upto(j) /\ j \notin upto(i)
      BY <1>3, <3>1
    <3>3. \A x \in Nat : x <= i => x <= j
      BY <1>3, <3>1
    <3>4. upto(i) \in SUBSET upto(j)
      BY <3>3
    <3> QED
      BY <3>2, <3>4
  <2>2. Cardinality(upto(i)) <= Cardinality(upto(j)) /\ Cardinality(upto(i)) # Cardinality(upto(j))
    BY <1>2, <2>1, FS_Subset
  <2>3. rank[i] \in Nat /\ rank[j] \in Nat
    BY <1>1, <1>2
  <2> QED
    BY <2>2, <2>3
<1>4. rank \in Injection(S, 1 .. n)
  <2>1. \A i, j \in S : rank[i] = rank[j] => i = j
    <3> SUFFICES ASSUME NEW i \in S, NEW j \in S, rank[i] = rank[j], i # j PROVE FALSE
      OBVIOUS
    <3>1. i < j \/ j < i
      OBVIOUS
    <3>2. rank[i] < rank[j] \/ rank[j] < rank[i]
      BY <1>3, <3>1
    <3>3. rank[i] \in Nat /\ rank[j] \in Nat
      BY <1>1, <1>2
    <3> QED
      BY <3>2, <3>3
  <2>2. rank \in [S -> 1 .. n]
    BY <1>2
  <2> HIDE DEF rank
  <2> QED
    BY <2>1, <2>2 DEF Injection, IsInjective
<1>5. \A k \in 1 .. n : \E i \in S : rank[i] = k
  <2>1. IsFiniteSet(1 .. n) /\ Cardinality(1 .. n) = n
    <3>1. 1 \in Int /\ n \in Int
      BY <1>1
    <3> QED
      BY <1>1, <3>1, FS_Interval
  <2> HIDE DEF rank
  <2>2. rank \in Surjection(S, 1 .. n)
    BY <1>4, <2>1, FS_Injection
  <2> QED
    BY <2>2 DEF Surjection
<1>6. ASSUME NEW k \in 1 .. n
      PROVE  Nth(S, k) \in S /\ rank[Nth(S, k)] = k
  BY <1>5 DEF Nth
<1>7. ASSUME NEW k \in 1 .. n, NEW l \in 1 .. n, k < l
      PROVE  Nth(S, k) < Nth(S, l)
  <2>1. PICK i \in S : i = Nth(S, k) /\ rank[i] = k
    BY <1>6
  <2>2. PICK j \in S : j = Nth(S, l) /\ rank[j] = l
    BY <1>6
  <2>3. i # j /\ ~ (rank[j] < rank[i])
    BY <1>1, <1>7, <2>1, <2>2
  <2>4. ~ (j < i)
    BY <1>3, <2>3
  <2>5. i \in Nat /\ j \in Nat
    OBVIOUS
  <2> QED
    BY <2>1, <2>2, <2>3, <2>4, <2>5
<1>8. ASSUME NEW i \in S
      PROVE  \E k \in 1 .. n : Nth(S, k) = i
  <2>1. PICK k \in 1 .. n : k = rank[i]
    BY <1>2
  <2>2. PICK j \in S : j = Nth(S, k) /\ rank[j] = k
    BY <1>6
  <2>3. j = i
    <3> HIDE DEF rank
    <3> QED
      BY <1>4, <2>1, <2>2 DEF Injection, IsInjective
  <2> QED
    BY <2>2, <2>3
<1> QED
  BY <1>1, <1>6, <1>7, <1>8

\* What is chosen of a list is a list, in the same order, of what was chosen.
LEMMA ChosenOfList ==
  ASSUME NEW T, NEW s \in Seq(T), NEW positions \in SUBSET (DOMAIN s)
  PROVE  LET chosen == Chosen(s, positions)
             at(k) == Nth(positions, k)
         IN  /\ chosen \in Seq(T) /\ DOMAIN chosen = 1 .. Cardinality(positions)
             /\ Cardinality(positions) \in Nat
             /\ \A k \in DOMAIN chosen : at(k) \in positions /\ chosen[k] = s[at(k)]
             /\ \A k, l \in DOMAIN chosen : k < l => at(k) < at(l)
             /\ \A i \in positions : \E k \in DOMAIN chosen : at(k) = i
<1> DEFINE n == Cardinality(positions)
<1>1. positions \in SUBSET Nat /\ IsFiniteSet(positions)
  <2>1. Len(s) \in Nat /\ DOMAIN s = 1 .. Len(s)
    OBVIOUS
  <2>2. 1 \in Int /\ Len(s) \in Int
    BY <2>1
  <2>3. IsFiniteSet(1 .. Len(s))
    BY <2>2, FS_Interval
  <2>4. IsFiniteSet(positions)
    BY <2>1, <2>3, FS_Subset
  <2> QED
    BY <2>1, <2>4
<1>2. /\ n \in Nat
      /\ \A k \in 1 .. n : Nth(positions, k) \in positions
      /\ \A k, l \in 1 .. n : k < l => Nth(positions, k) < Nth(positions, l)
      /\ \A i \in positions : \E k \in 1 .. n : Nth(positions, k) = i
  BY <1>1, InTheirOrder
<1>3. /\ DOMAIN Chosen(s, positions) = 1 .. n
      /\ \A k \in 1 .. n : Chosen(s, positions)[k] = s[Nth(positions, k)]
  BY DEF Chosen
<1>4. Chosen(s, positions) \in Seq(T)
  <2>1. \A i \in DOMAIN s : s[i] \in T
    OBVIOUS
  <2>2. \A k \in 1 .. n : s[Nth(positions, k)] \in T
    BY <1>2, <2>1
  <2> HIDE DEF n
  <2>3. [k \in 1 .. n |-> s[Nth(positions, k)]] \in Seq(T)
    BY <1>2, <2>2
  <2> QED
    BY <2>3 DEF Chosen, n
<1> QED
  BY <1>2, <1>3, <1>4

-----------------------------------------------------------------------------
(* The rules of a command.                                                 *)

\* A list of members of one set is one of members of a larger one.
LEMMA WiderLists ==
  ASSUME NEW A, NEW B, A \subseteq B, NEW s \in Seq(A)
  PROVE  s \in Seq(B)
OBVIOUS

\* What makes a document one that is accepted.
Accepted(document) ==
  /\ Unique(document.rules) /\ Unique(document.checks)
  /\ \A i \in DOMAIN document.rules : ValidRule(document.rules[i])
  /\ \A i \in DOMAIN document.checks : ValidCheck(document.checks[i])

PathOf(config, k) == IF k = 0 THEN config.base ELSE config.extensions[k]
Fields == {"rules", "checks"}
Detectors(config, n) == {Detector(Definition(config, p, "rules")) : p \in PlacesIn(config, n, "rules")}
Checks(config, n) == {Check(Definition(config, p, "checks")) : p \in PlacesIn(config, n, "checks")}

\* The first documents of a command can be loaded and are accepted, and no
\* two of them define the same identifier.
Loads(config, k) == IF k = 0 THEN Load(config.base, FALSE).ok ELSE Load(config.extensions[k], TRUE).ok
Joinable(config, n) ==
  /\ \A k \in 0 .. n : Loads(config, k)
  /\ \A k \in 0 .. n : PathOf(config, k) \in DOMAIN Documents /\ Accepted(DocumentOf(config, k))
  /\ \A f \in Fields : \A p, q \in PlacesIn(config, n, f) :
       Definition(config, p, f).id = Definition(config, q, f).id => p = q
InOrder(detectors, config, n) ==
  \A i, j \in DOMAIN detectors : i < j =>
    \A p, q \in PlacesIn(config, n, "rules") :
      Definition(config, p, "rules").id = detectors[i].id
        /\ Definition(config, q, "rules").id = detectors[j].id => Precedes(p, q)
Sorted(checks) ==
  \A i, j \in DOMAIN checks : i < j => Position(checks[i].id) < Position(checks[j].id)

\* Rules that hold what the first documents of a command define, but for some
\* identifiers.
Holds(held, config, n, removed, disabled) ==
  /\ held.detectors \in Seq(Detectors(config, n)) /\ InOrder(held.detectors, config, n)
  /\ IDs(held.detectors) = DefinedIDs(config, n, "rules") \ removed
  /\ held.checks \in Seq(Checks(config, n)) /\ Sorted(held.checks)
  /\ IDs(held.checks) = DefinedIDs(config, n, "checks") \ disabled
Composes(held, config, n) == Joinable(config, n) /\ Holds(held, config, n, {}, {})

LEMMA Documented ==
  ASSUME NEW path \in DOMAIN Documents
  PROVE  /\ Documents[path].rules \in Seq(Range(Documents[path].rules))
         /\ Documents[path].checks \in Seq(Range(Documents[path].checks))
         /\ \A i \in DOMAIN Documents[path].rules :
              ValidID(Documents[path].rules[i].id) =>
                Documents[path].rules[i].id \in Range(Alphabetical)
         /\ \A i \in DOMAIN Documents[path].checks :
              ValidID(Documents[path].checks[i].id) =>
                Documents[path].checks[i].id \in Range(Alphabetical)
BY DeplensAssumption DEF IsList, IDs

\* What loading a document returns.
LEMMA LoadedDocument ==
  ASSUME NEW path, NEW extension \in BOOLEAN, Load(path, extension).ok
  PROVE  /\ path \in DOMAIN Documents /\ Accepted(Documents[path])
         /\ LET document == Documents[path]
            IN  Load(path, extension) =
                  [ok |-> TRUE,
                   checks |-> ByID([i \in DOMAIN document.checks |-> Check(document.checks[i])]),
                   detectors |-> [i \in DOMAIN document.rules |-> Detector(document.rules[i])]]
<1>1. ~ Invalid.ok
  BY DEF Invalid
<1>2. path \in DOMAIN Documents /\ Load(path, extension) = LoadRulesDocument(Documents[path], extension)
  BY <1>1 DEF Load, At, Loaded, LoadAll
<1> QED
  BY <1>1, <1>2 DEF LoadRulesDocument, Accepted

\* Identifiers have positions in the alphabet.
LEMMA Positions ==
  /\ Alphabetical \in Seq(Range(Alphabetical))
  /\ \A p \in DOMAIN Alphabetical : p \in Nat /\ Position(Alphabetical[p]) = p
  /\ \A id \in Range(Alphabetical) :
       Position(id) \in DOMAIN Alphabetical /\ Alphabetical[Position(id)] = id
<1>1. Alphabetical \in Seq(Range(Alphabetical))
  BY DeplensAssumption DEF IsList
<1>2. \A p \in DOMAIN Alphabetical : p \in Nat
  BY <1>1
<1>3. \A p, q \in DOMAIN Alphabetical : Alphabetical[p] = Alphabetical[q] => p = q
  BY DeplensAssumption
<1>4. \A id \in Range(Alphabetical) : \E p \in DOMAIN Alphabetical : Alphabetical[p] = id
  BY DEF Range
<1>5. \A id \in Range(Alphabetical) :
        Position(id) \in DOMAIN Alphabetical /\ Alphabetical[Position(id)] = id
  BY <1>4 DEF Position
<1>6. \A p \in DOMAIN Alphabetical : Alphabetical[p] \in Range(Alphabetical)
  BY DEF Range
<1> QED
  BY <1>1, <1>2, <1>3, <1>5, <1>6

\* Sorting by identifiers keeps the checks and puts them in order.
LEMMA SortedByID ==
  ASSUME NEW T, NEW checks \in Seq(T), IDs(checks) \subseteq Range(Alphabetical)
  PROVE  ByID(checks) \in Seq(T) /\ IDs(ByID(checks)) = IDs(checks) /\ Sorted(ByID(checks))
<1> DEFINE ids == {checks[i].id : i \in DOMAIN checks}
           at == {p \in DOMAIN Alphabetical : Alphabetical[p] \in ids}
           sorted == Chosen(Alphabetical, at)
           n == Cardinality(at)
           chosen(k) == CHOOSE c \in Range(checks) : c.id = sorted[k]
<1>1. ids = IDs(checks) /\ ids \subseteq Range(Alphabetical)
  BY DEF IDs
<1>2. /\ sorted \in Seq(Range(Alphabetical)) /\ DOMAIN sorted = 1 .. n /\ n \in Nat
      /\ \A k \in DOMAIN sorted : Nth(at, k) \in at /\ sorted[k] = Alphabetical[Nth(at, k)]
      /\ \A k, l \in DOMAIN sorted : k < l => Nth(at, k) < Nth(at, l)
      /\ \A i \in at : \E k \in DOMAIN sorted : Nth(at, k) = i
  <2>1. at \in SUBSET (DOMAIN Alphabetical)
    OBVIOUS
  <2>2. Alphabetical \in Seq(Range(Alphabetical))
    BY Positions
  <2> HIDE DEF at
  <2> QED
    BY <2>1, <2>2, ChosenOfList
<1>3. ASSUME NEW k \in 1 .. n
      PROVE  sorted[k] \in ids /\ Position(sorted[k]) = Nth(at, k)
  <2>1. Nth(at, k) \in at /\ sorted[k] = Alphabetical[Nth(at, k)]
    BY <1>2
  <2> HIDE DEF sorted
  <2> QED
    BY <2>1, Positions
<1>4. ASSUME NEW k \in 1 .. n
      PROVE  chosen(k) \in T /\ chosen(k).id = sorted[k]
  <2>1. \E c \in Range(checks) : c.id = sorted[k]
    BY <1>3 DEF Range
  <2>2. Range(checks) \subseteq T
    BY DEF Range
  <2> HIDE DEF sorted
  <2> QED
    BY <2>1, <2>2
<1>5. ByID(checks) = [k \in 1 .. n |-> chosen(k)]
  <2> HIDE DEF n
  <2> QED
    BY <1>2 DEF ByID
<1>6. ByID(checks) \in Seq(T) /\ DOMAIN ByID(checks) = 1 .. n
      /\ \A k \in 1 .. n : ByID(checks)[k].id = sorted[k]
  <2> HIDE DEF n, chosen, sorted
  <2> QED
    BY <1>2, <1>4, <1>5
<1>7. Sorted(ByID(checks))
  <2> HIDE DEF n, sorted, at
  <2> QED
    BY <1>2, <1>3, <1>6 DEF Sorted
<1>8. IDs(ByID(checks)) = ids
  <2>1. ASSUME NEW id \in ids
        PROVE  \E k \in 1 .. n : sorted[k] = id
    <3>1. PICK p \in DOMAIN Alphabetical : Alphabetical[p] = id
      BY <1>1 DEF Range
    <3>2. p \in at
      BY <3>1
    <3> HIDE DEF sorted, n, at
    <3> QED
      BY <1>2, <3>1, <3>2
  <2> HIDE DEF n, sorted, ids, chosen
  <2>2. IDs(ByID(checks)) = {ByID(checks)[k].id : k \in 1 .. n}
    BY <1>6 DEF IDs
  <2>3. \A k \in 1 .. n : ByID(checks)[k].id = sorted[k] /\ sorted[k] \in ids
    BY <1>3, <1>6
  <2> QED
    BY <2>1, <2>2, <2>3
<1> QED
  BY <1>1, <1>6, <1>7, <1>8

\* What a document defines, as lists of detectors and of checks.
LEMMA DefinedLists ==
  ASSUME NEW path \in DOMAIN Documents, Accepted(Documents[path])
  PROVE  LET document == Documents[path]
             detectors == [i \in DOMAIN document.rules |-> Detector(document.rules[i])]
             checks == [i \in DOMAIN document.checks |-> Check(document.checks[i])]
         IN  /\ detectors \in Seq({Detector(document.rules[i]) : i \in DOMAIN document.rules})
             /\ checks \in Seq({Check(document.checks[i]) : i \in DOMAIN document.checks})
             /\ DOMAIN detectors = DOMAIN document.rules
             /\ \A i \in DOMAIN detectors : i \in Nat /\ detectors[i].id = document.rules[i].id
             /\ IDs(detectors) = IDs(document.rules) /\ IDs(checks) = IDs(document.checks)
             /\ IDs(detectors) \cup IDs(checks) \subseteq Range(Alphabetical)
<1> DEFINE document == Documents[path]
           detectors == [i \in DOMAIN document.rules |-> Detector(document.rules[i])]
           checks == [i \in DOMAIN document.checks |-> Check(document.checks[i])]
<1>1. document.rules \in Seq(Range(document.rules)) /\ document.checks \in Seq(Range(document.checks))
  BY Documented
<1>2. /\ Len(document.rules) \in Nat /\ DOMAIN document.rules = 1 .. Len(document.rules)
      /\ Len(document.checks) \in Nat /\ DOMAIN document.checks = 1 .. Len(document.checks)
  <2> HIDE DEF document
  <2> QED
    BY <1>1
<1>3. \A rule : Detector(rule).id = rule.id
  BY DEF Detector
<1>4. \A check : Check(check).id = check.id
  BY DEF Check
<1>5. \A i \in DOMAIN document.rules : document.rules[i].id \in Range(Alphabetical)
  <2>1. \A i \in DOMAIN document.rules : ValidID(document.rules[i].id)
    BY DEF Accepted, ValidRule
  <2> QED
    BY <2>1, Documented
<1>6. \A i \in DOMAIN document.checks : document.checks[i].id \in Range(Alphabetical)
  <2>1. \A i \in DOMAIN document.checks : ValidID(document.checks[i].id)
    BY DEF Accepted, ValidCheck
  <2> QED
    BY <2>1, Documented
<1> HIDE DEF document
<1>7. detectors \in Seq({Detector(document.rules[i]) : i \in DOMAIN document.rules})
  BY <1>2
<1>8. checks \in Seq({Check(document.checks[i]) : i \in DOMAIN document.checks})
  BY <1>2
<1>9. /\ DOMAIN detectors = DOMAIN document.rules
      /\ \A i \in DOMAIN detectors : i \in Nat /\ detectors[i].id = document.rules[i].id
  BY <1>2, <1>3
<1>10. IDs(detectors) = IDs(document.rules)
  BY <1>9 DEF IDs
<1>11. IDs(checks) = IDs(document.checks)
  BY <1>4 DEF IDs
<1>12. IDs(document.rules) \cup IDs(document.checks) \subseteq Range(Alphabetical)
  BY <1>5, <1>6 DEF IDs
<1> QED
  BY <1>7, <1>8, <1>9, <1>10, <1>11, <1>12 DEF document

\* The places of the definitions of the first documents.
LEMMA PlaceIn ==
  ASSUME NEW config, NEW n \in Nat, NEW field, NEW p \in PlacesIn(config, n, field)
  PROVE  \E k \in 0 .. n : \E i \in DOMAIN DocumentOf(config, k)[field] : p = <<k, i>>
BY DEF PlacesIn

LEMMA PlaceOfDefinition ==
  ASSUME NEW config, NEW n \in Nat, NEW field,
         NEW k \in 0 .. n, NEW i \in DOMAIN DocumentOf(config, k)[field]
  PROVE  /\ <<k, i>> \in PlacesIn(config, n, field)
         /\ Definition(config, <<k, i>>, field) = DocumentOf(config, k)[field][i]
BY DEF PlacesIn, Definition

\* What the first document defines, and what one more adds.
LEMMA FirstPlaces ==
  ASSUME NEW config, NEW field
  PROVE  PlacesIn(config, 0, field) = {0} \X DOMAIN DocumentOf(config, 0)[field]
<1>1. 0 .. 0 = {0}
  OBVIOUS
<1> QED
  BY <1>1 DEF PlacesIn

LEMMA MorePlaces ==
  ASSUME NEW config, NEW n \in Nat, NEW field
  PROVE  PlacesIn(config, n + 1, field) =
           PlacesIn(config, n, field) \cup ({n + 1} \X DOMAIN DocumentOf(config, n + 1)[field])
<1>1. 0 .. (n + 1) = (0 .. n) \cup {n + 1}
  OBVIOUS
<1> QED
  BY <1>1 DEF PlacesIn

LEMMA IDsOfDocument ==
  ASSUME NEW config, NEW k, NEW field
  PROVE  {Definition(config, p, field).id : p \in {k} \X DOMAIN DocumentOf(config, k)[field]}
           = IDs(DocumentOf(config, k)[field])
<1> DEFINE D == DOMAIN DocumentOf(config, k)[field]
           new == {Definition(config, p, field).id : p \in {k} \X D}
<1>1. ASSUME NEW id \in new PROVE id \in {DocumentOf(config, k)[field][i].id : i \in D}
  <2>1. PICK p \in {k} \X D : id = Definition(config, p, field).id
    OBVIOUS
  <2>2. PICK i \in D : p = <<k, i>>
    BY <2>1
  <2> QED
    BY <2>1, <2>2 DEF Definition
<1>2. ASSUME NEW i \in D PROVE DocumentOf(config, k)[field][i].id \in new
  <2>1. <<k, i>> \in {k} \X D
    OBVIOUS
  <2>2. Definition(config, <<k, i>>, field) = DocumentOf(config, k)[field][i]
    BY DEF Definition
  <2> QED
    BY <2>1, <2>2
<1> HIDE DEF new, D
<1>3. new = {DocumentOf(config, k)[field][i].id : i \in D}
  BY <1>1, <1>2
<1> QED
  BY <1>3 DEF IDs, D, new

LEMMA FirstIDs ==
  ASSUME NEW config, NEW field
  PROVE  DefinedIDs(config, 0, field) = IDs(DocumentOf(config, 0)[field])
<1>1. {Definition(config, p, field).id : p \in {0} \X DOMAIN DocumentOf(config, 0)[field]}
        = IDs(DocumentOf(config, 0)[field])
  BY IDsOfDocument
<1>2. PlacesIn(config, 0, field) = {0} \X DOMAIN DocumentOf(config, 0)[field]
  BY FirstPlaces
<1> QED
  BY <1>1, <1>2 DEF DefinedIDs

LEMMA MoreIDs ==
  ASSUME NEW config, NEW n \in Nat, NEW field
  PROVE  DefinedIDs(config, n + 1, field) =
           DefinedIDs(config, n, field) \cup IDs(DocumentOf(config, n + 1)[field])
<1> DEFINE old == PlacesIn(config, n, field)
           new == {n + 1} \X DOMAIN DocumentOf(config, n + 1)[field]
<1>1. {Definition(config, p, field).id : p \in new} = IDs(DocumentOf(config, n + 1)[field])
  BY IDsOfDocument
<1>2. PlacesIn(config, n + 1, field) = old \cup new
  BY MorePlaces
<1> HIDE DEF old, new
<1>3. {Definition(config, p, field).id : p \in old \cup new} =
        {Definition(config, p, field).id : p \in old} \cup {Definition(config, p, field).id : p \in new}
  OBVIOUS
<1> QED
  BY <1>1, <1>2, <1>3 DEF DefinedIDs, old

\* One document more, or the first: its definitions have other identifiers
\* than those before it.
LEMMA JoinsMore ==
  ASSUME NEW config, NEW n \in Nat, NEW k \in 0 .. n, k = n,
         n = 0 \/ (n - 1 \in Nat /\ Joinable(config, n - 1)),
         Loads(config, n), PathOf(config, n) \in DOMAIN Documents, Accepted(DocumentOf(config, n)),
         n # 0 => \A f \in Fields :
           DefinedIDs(config, n - 1, f) \cap IDs(DocumentOf(config, n)[f]) = {}
  PROVE  Joinable(config, n)
<1>1. \A j \in 0 .. n : j = n \/ (n # 0 /\ j \in 0 .. n - 1)
  OBVIOUS
<1>2. \A j \in 0 .. n : /\ Loads(config, j) /\ PathOf(config, j) \in DOMAIN Documents
                         /\ Accepted(DocumentOf(config, j))
  BY <1>1 DEF Joinable
<1>3. ASSUME NEW f \in Fields, NEW p \in PlacesIn(config, n, f), NEW q \in PlacesIn(config, n, f),
             Definition(config, p, f).id = Definition(config, q, f).id
      PROVE  p = q
  <2> DEFINE new == {n} \X DOMAIN DocumentOf(config, n)[f]
  <2>1. ASSUME NEW r \in PlacesIn(config, n, f)
        PROVE  \/ r \in new
               \/ n # 0 /\ r \in PlacesIn(config, n - 1, f)
    <3>1. CASE n = 0
      BY <3>1, FirstPlaces
    <3>2. CASE n # 0
      <4>1. n - 1 \in Nat /\ (n - 1) + 1 = n
        BY <3>2
      <4>2. PICK l \in Nat : l = n - 1 /\ l + 1 = n
        BY <4>1
      <4>3. PlacesIn(config, l + 1, f) =
              PlacesIn(config, l, f) \cup ({l + 1} \X DOMAIN DocumentOf(config, l + 1)[f])
        BY MorePlaces
      <4> QED
        BY <3>2, <4>2, <4>3
    <3> QED
      BY <3>1, <3>2
  <2>2. ASSUME NEW r \in new
        PROVE  \E i \in DOMAIN DocumentOf(config, n)[f] :
                 r = <<n, i>> /\ Definition(config, r, f) = DocumentOf(config, n)[f][i]
    <3>1. PICK i \in DOMAIN DocumentOf(config, n)[f] : r = <<n, i>>
      OBVIOUS
    <3> QED
      BY <3>1 DEF Definition
  <2>3. CASE p \in new /\ q \in new
    <3>1. PICK i \in DOMAIN DocumentOf(config, n)[f] :
            p = <<n, i>> /\ Definition(config, p, f) = DocumentOf(config, n)[f][i]
      BY <2>2, <2>3
    <3>2. PICK j \in DOMAIN DocumentOf(config, n)[f] :
            q = <<n, j>> /\ Definition(config, q, f) = DocumentOf(config, n)[f][j]
      BY <2>2, <2>3
    <3>3. Unique(DocumentOf(config, n)[f])
      BY DEF Accepted, Fields
    <3>4. i = j
      BY <1>3, <3>1, <3>2, <3>3 DEF Unique
    <3> QED
      BY <3>1, <3>2, <3>4
  <2>4. ASSUME NEW r \in new, NEW s \in PlacesIn(config, n - 1, f), n # 0
        PROVE  Definition(config, r, f).id # Definition(config, s, f).id
    <3>1. Definition(config, s, f).id \in DefinedIDs(config, n - 1, f)
      BY DEF DefinedIDs
    <3>2. Definition(config, r, f).id \in IDs(DocumentOf(config, n)[f])
      BY <2>2 DEF IDs
    <3> QED
      BY <2>4, <3>1, <3>2
  <2>5. CASE n # 0 /\ p \in PlacesIn(config, n - 1, f) /\ q \in PlacesIn(config, n - 1, f)
    BY <1>3, <2>5 DEF Joinable
  <2> HIDE DEF new
  <2> QED
    BY <1>3, <2>1, <2>3, <2>4, <2>5
<1> QED
  BY <1>2, <1>3 DEF Joinable

\* What is composed after one document more holds in order.
LEMMA HoldsMore ==
  ASSUME NEW config, NEW n \in Nat, Joinable(config, n), NEW ds, NEW i, NEW j,
         NEW p \in PlacesIn(config, n, "rules"), NEW q \in PlacesIn(config, n, "rules"),
         Definition(config, p, "rules").id = ds[i].id,
         Definition(config, q, "rules").id = ds[j].id, Precedes(p, q)
  PROVE  \A r, s \in PlacesIn(config, n, "rules") :
           Definition(config, r, "rules").id = ds[i].id
             /\ Definition(config, s, "rules").id = ds[j].id => Precedes(r, s)
<1>1. "rules" \in Fields
  BY DEF Fields
<1>2. \A r, s \in PlacesIn(config, n, "rules") :
        Definition(config, r, "rules").id = Definition(config, s, "rules").id => r = s
  BY <1>1 DEF Joinable
<1>3. \A r \in PlacesIn(config, n, "rules") : Definition(config, r, "rules").id = ds[i].id => r = p
  BY <1>2
<1>4. \A s \in PlacesIn(config, n, "rules") : Definition(config, s, "rules").id = ds[j].id => s = q
  BY <1>2
<1> SUFFICES ASSUME NEW r \in PlacesIn(config, n, "rules"), NEW s \in PlacesIn(config, n, "rules"),
                    Definition(config, r, "rules").id = ds[i].id,
                    Definition(config, s, "rules").id = ds[j].id
             PROVE  Precedes(r, s)
  OBVIOUS
<1>5. r = p
  BY <1>3
<1>6. s = q
  BY <1>4
<1> QED
  BY <1>5, <1>6

LEMMA BaseComposes ==
  ASSUME NEW config, Load(config.base, FALSE).ok
  PROVE  Composes([NoRules EXCEPT !.detectors = Load(config.base, FALSE).detectors,
                                  !.checks = Load(config.base, FALSE).checks], config, 0)
<1> DEFINE path == config.base
           document == Documents[path]
           base == Load(path, FALSE)
           ds == [i \in DOMAIN document.rules |-> Detector(document.rules[i])]
           cs == [i \in DOMAIN document.checks |-> Check(document.checks[i])]
           held == [NoRules EXCEPT !.detectors = base.detectors, !.checks = base.checks]
<1>1. /\ path \in DOMAIN Documents /\ Accepted(document)
      /\ base = [ok |-> TRUE, checks |-> ByID(cs), detectors |-> ds]
  BY LoadedDocument
<1>2. /\ ds \in Seq({Detector(document.rules[i]) : i \in DOMAIN document.rules})
      /\ cs \in Seq({Check(document.checks[i]) : i \in DOMAIN document.checks})
      /\ DOMAIN ds = DOMAIN document.rules
      /\ \A i \in DOMAIN ds : i \in Nat /\ ds[i].id = document.rules[i].id
      /\ IDs(ds) = IDs(document.rules) /\ IDs(cs) = IDs(document.checks)
      /\ IDs(cs) \subseteq Range(Alphabetical)
  <2>1. path \in DOMAIN Documents /\ Accepted(Documents[path])
    BY <1>1
  <2> HIDE DEF path
  <2> QED
    BY <2>1, DefinedLists
<1>3. held.detectors = ds /\ held.checks = ByID(cs)
  <2> HIDE DEF base, ds, cs, document, path
  <2>1. base.detectors = ds /\ base.checks = ByID(cs)
    BY <1>1
  <2> QED
    BY <2>1 DEF NoRules
<1>4. DocumentOf(config, 0) = document /\ PathOf(config, 0) = path
  BY DEF DocumentOf, PathOf
<1>5. Joinable(config, 0)
  <2>1. 0 \in Nat /\ 0 \in 0 .. 0
    OBVIOUS
  <2>2. Loads(config, 0)
    BY DEF Loads
  <2> HIDE DEF path, document
  <2> QED
    BY <1>1, <1>4, <2>1, <2>2, JoinsMore
<1>6. /\ \A i \in DOMAIN document.rules :
           <<0, i>> \in PlacesIn(config, 0, "rules") /\ Definition(config, <<0, i>>, "rules") = document.rules[i]
      /\ \A i \in DOMAIN document.checks :
           <<0, i>> \in PlacesIn(config, 0, "checks") /\ Definition(config, <<0, i>>, "checks") = document.checks[i]
  <2>1. 0 \in Nat /\ 0 \in 0 .. 0
    OBVIOUS
  <2> HIDE DEF document
  <2> QED
    BY <1>4, <2>1, PlaceOfDefinition
<1>7. ds \in Seq(Detectors(config, 0))
  <2>1. {Detector(document.rules[i]) : i \in DOMAIN document.rules} \subseteq Detectors(config, 0)
    BY <1>6 DEF Detectors
  <2> HIDE DEF ds
  <2> QED
    BY <1>2, <2>1
<1>8. cs \in Seq(Checks(config, 0))
  <2>1. {Check(document.checks[i]) : i \in DOMAIN document.checks} \subseteq Checks(config, 0)
    BY <1>6 DEF Checks
  <2> HIDE DEF cs
  <2> QED
    BY <1>2, <2>1
<1> HIDE DEF ds, cs, held, document, path
<1>9. ByID(cs) \in Seq(Checks(config, 0)) /\ IDs(ByID(cs)) = IDs(cs) /\ Sorted(ByID(cs))
  BY <1>2, <1>8, SortedByID
<1>10. InOrder(ds, config, 0)
  <2> SUFFICES ASSUME NEW i \in DOMAIN ds, NEW j \in DOMAIN ds, i < j
               PROVE  \A p, q \in PlacesIn(config, 0, "rules") :
                        Definition(config, p, "rules").id = ds[i].id
                          /\ Definition(config, q, "rules").id = ds[j].id => Precedes(p, q)
    BY DEF InOrder
  <2>1. PICK p \in PlacesIn(config, 0, "rules") : p = <<0, i>> /\ Definition(config, p, "rules").id = ds[i].id
    BY <1>2, <1>6
  <2>2. PICK q \in PlacesIn(config, 0, "rules") : q = <<0, j>> /\ Definition(config, q, "rules").id = ds[j].id
    BY <1>2, <1>6
  <2>3. Precedes(p, q)
    BY <2>1, <2>2 DEF Precedes
  <2>4. 0 \in Nat
    OBVIOUS
  <2> QED
    BY <1>5, <2>1, <2>2, <2>3, <2>4, HoldsMore
<1>11. /\ IDs(ds) = DefinedIDs(config, 0, "rules") \ {}
       /\ IDs(cs) = DefinedIDs(config, 0, "checks") \ {}
  <2>1. /\ DefinedIDs(config, 0, "rules") = IDs(DocumentOf(config, 0)["rules"])
        /\ DefinedIDs(config, 0, "checks") = IDs(DocumentOf(config, 0)["checks"])
    BY FirstIDs
  <2> QED
    BY <1>2, <1>4, <2>1
<1>12. Holds(held, config, 0, {}, {})
  BY <1>3, <1>7, <1>9, <1>10, <1>11 DEF Holds
<1> QED
  BY <1>5, <1>12 DEF Composes, held, path

\* Two lists one behind the other.
LEMMA JoinedLists ==
  ASSUME NEW T, NEW U, NEW ds \in Seq(T), NEW es \in Seq(T), NEW cs \in Seq(U), NEW bs \in Seq(U)
  PROVE  LET more == ds \o es
         IN  /\ more \in Seq(T) /\ cs \o bs \in Seq(U)
             /\ IDs(more) = IDs(ds) \cup IDs(es) /\ IDs(cs \o bs) = IDs(cs) \cup IDs(bs)
             /\ \A i, j \in DOMAIN more : i < j =>
                  \/ i \in DOMAIN ds /\ j \in DOMAIN ds /\ more[i] = ds[i] /\ more[j] = ds[j]
                  \/ i \in DOMAIN ds /\ more[i] = ds[i] /\ \E l \in DOMAIN es : more[j] = es[l]
                  \/ \E k, l \in DOMAIN es : k < l /\ more[i] = es[k] /\ more[j] = es[l]
<1>1. ASSUME NEW V, NEW s \in Seq(V), NEW t \in Seq(V)
      PROVE  /\ s \o t \in Seq(V)
             /\ \A i \in DOMAIN (s \o t) : \/ i \in DOMAIN s /\ (s \o t)[i] = s[i]
                                         \/ /\ i \notin DOMAIN s /\ i > Len(s)
                                            /\ i - Len(s) \in DOMAIN t /\ (s \o t)[i] = t[i - Len(s)]
             /\ \A i \in DOMAIN s : i \in DOMAIN (s \o t) /\ (s \o t)[i] = s[i]
             /\ \A i \in DOMAIN t : i + Len(s) \in DOMAIN (s \o t) /\ (s \o t)[i + Len(s)] = t[i]
             /\ Len(s) \in Nat /\ DOMAIN s = 1 .. Len(s) /\ \A i \in DOMAIN (s \o t) : i \in Nat
  OBVIOUS
<1>2. ASSUME NEW V, NEW s \in Seq(V), NEW t \in Seq(V)
      PROVE  IDs(s \o t) = IDs(s) \cup IDs(t)
  <2>1. ASSUME NEW i \in DOMAIN (s \o t) PROVE (s \o t)[i].id \in IDs(s) \cup IDs(t)
    <3>1. \/ i \in DOMAIN s /\ (s \o t)[i] = s[i]
          \/ i - Len(s) \in DOMAIN t /\ (s \o t)[i] = t[i - Len(s)]
      BY <1>1
    <3> QED
      BY <3>1 DEF IDs
  <2>2. ASSUME NEW i \in DOMAIN s PROVE s[i].id \in IDs(s \o t)
    <3>1. i \in DOMAIN (s \o t) /\ (s \o t)[i] = s[i]
      BY <1>1
    <3> QED
      BY <3>1 DEF IDs
  <2>3. ASSUME NEW i \in DOMAIN t PROVE t[i].id \in IDs(s \o t)
    <3>1. i + Len(s) \in DOMAIN (s \o t) /\ (s \o t)[i + Len(s)] = t[i]
      BY <1>1
    <3> QED
      BY <3>1 DEF IDs
  <2>4. IDs(s \o t) \subseteq IDs(s) \cup IDs(t)
    BY <2>1 DEF IDs
  <2>5. IDs(s) \subseteq IDs(s \o t)
    BY <2>2 DEF IDs
  <2>6. IDs(t) \subseteq IDs(s \o t)
    BY <2>3 DEF IDs
  <2> QED
    BY <2>4, <2>5, <2>6
<1> DEFINE more == ds \o es
<1>3. ASSUME NEW i \in DOMAIN more, NEW j \in DOMAIN more, i < j
      PROVE  \/ i \in DOMAIN ds /\ j \in DOMAIN ds /\ more[i] = ds[i] /\ more[j] = ds[j]
             \/ i \in DOMAIN ds /\ more[i] = ds[i] /\ \E l \in DOMAIN es : more[j] = es[l]
             \/ \E k, l \in DOMAIN es : k < l /\ more[i] = es[k] /\ more[j] = es[l]
  <2>1. /\ \/ i \in DOMAIN ds /\ more[i] = ds[i]
           \/ i > Len(ds) /\ i - Len(ds) \in DOMAIN es /\ more[i] = es[i - Len(ds)]
        /\ \/ j \in DOMAIN ds /\ more[j] = ds[j]
           \/ j > Len(ds) /\ j - Len(ds) \in DOMAIN es /\ more[j] = es[j - Len(ds)]
        /\ i \in Nat /\ j \in Nat /\ Len(ds) \in Nat /\ DOMAIN ds = 1 .. Len(ds)
    BY <1>1
  <2>2. i > Len(ds) => j \notin DOMAIN ds /\ i - Len(ds) < j - Len(ds)
    BY <1>3, <2>1
  <2> HIDE DEF more
  <2> QED
    BY <2>1, <2>2
<1>4. more \in Seq(T) /\ cs \o bs \in Seq(U)
  OBVIOUS
<1>5. IDs(more) = IDs(ds) \cup IDs(es) /\ IDs(cs \o bs) = IDs(cs) \cup IDs(bs)
  BY <1>2
<1> QED
  BY <1>3, <1>4, <1>5

\* Definitions that were accepted have identifiers with a position.
LEMMA DefinedInAlphabet ==
  ASSUME NEW config, NEW n \in Nat, Joinable(config, n), NEW field \in Fields
  PROVE  DefinedIDs(config, n, field) \subseteq Range(Alphabetical)
<1> SUFFICES ASSUME NEW p \in PlacesIn(config, n, field)
             PROVE  Definition(config, p, field).id \in Range(Alphabetical)
  BY DEF DefinedIDs
<1>1. PICK k \in 0 .. n : \E i \in DOMAIN DocumentOf(config, k)[field] : p = <<k, i>>
  BY PlaceIn
<1>2. PICK i \in DOMAIN DocumentOf(config, k)[field] : p = <<k, i>>
  BY <1>1
<1>3. Definition(config, p, field) = DocumentOf(config, k)[field][i]
  BY <1>2 DEF Definition
<1>4. PICK path \in DOMAIN Documents : path = PathOf(config, k)
  BY DEF Joinable
<1>5. DocumentOf(config, k) = Documents[path] /\ Accepted(Documents[path])
  BY <1>4 DEF Joinable, DocumentOf, PathOf
<1>6. IDs(Documents[path].rules) \cup IDs(Documents[path].checks) \subseteq Range(Alphabetical)
  BY <1>5, DefinedLists
<1>7. DocumentOf(config, k)[field][i].id \in IDs(Documents[path].rules) \cup IDs(Documents[path].checks)
  <2>1. CASE field = "rules"
    BY <1>2, <1>5, <2>1 DEF IDs
  <2>2. CASE field = "checks"
    BY <1>2, <1>5, <2>2 DEF IDs
  <2> QED
    BY <2>1, <2>2 DEF Fields
<1> QED
  BY <1>3, <1>6, <1>7

LEMMA ExtensionComposes ==
  ASSUME NEW config, NEW n \in Nat, NEW held, Composes(held, config, n),
         held = [detectors |-> held.detectors, checks |-> held.checks, disabled |-> held.disabled],
         Load(config.extensions[n + 1], TRUE).ok,
         Disjoint(held, Load(config.extensions[n + 1], TRUE))
  PROVE  Composes(Extend(held, Load(config.extensions[n + 1], TRUE)), config, n + 1)
<1> DEFINE path == config.extensions[n + 1]
           document == Documents[path]
           extension == Load(path, TRUE)
           ds == [i \in DOMAIN document.rules |-> Detector(document.rules[i])]
           cs == [i \in DOMAIN document.checks |-> Check(document.checks[i])]
           more == held.detectors \o ds
           moreChecks == held.checks \o ByID(cs)
           m == n + 1
<1>1. /\ path \in DOMAIN Documents /\ Accepted(document)
      /\ extension.detectors = ds /\ extension.checks = ByID(cs)
  <2>1. TRUE \in BOOLEAN
    OBVIOUS
  <2>2. /\ path \in DOMAIN Documents /\ Accepted(document)
        /\ extension = [ok |-> TRUE, checks |-> ByID(cs), detectors |-> ds]
    BY <2>1, LoadedDocument
  <2> HIDE DEF extension, ds, cs, document, path
  <2> QED
    BY <2>2
<1>2. /\ ds \in Seq({Detector(document.rules[i]) : i \in DOMAIN document.rules})
      /\ cs \in Seq({Check(document.checks[i]) : i \in DOMAIN document.checks})
      /\ DOMAIN ds = DOMAIN document.rules
      /\ \A i \in DOMAIN ds : i \in Nat /\ ds[i].id = document.rules[i].id
      /\ IDs(ds) = IDs(document.rules) /\ IDs(cs) = IDs(document.checks)
      /\ IDs(cs) \subseteq Range(Alphabetical)
  <2>1. path \in DOMAIN Documents /\ Accepted(Documents[path])
    BY <1>1
  <2> HIDE DEF path
  <2> QED
    BY <2>1, DefinedLists
<1>3. m \in Nat /\ m # 0 /\ m - 1 = n /\ m \in 0 .. m /\ DocumentOf(config, m) = document /\ PathOf(config, m) = path
  BY DEF DocumentOf, PathOf
<1>4. /\ Joinable(config, n)
      /\ held.detectors \in Seq(Detectors(config, n)) /\ InOrder(held.detectors, config, n)
      /\ IDs(held.detectors) = DefinedIDs(config, n, "rules")
      /\ held.checks \in Seq(Checks(config, n)) /\ Sorted(held.checks)
      /\ IDs(held.checks) = DefinedIDs(config, n, "checks")
  BY DEF Composes, Holds
<1>5. ASSUME NEW f
      PROVE  /\ \A i \in DOMAIN document[f] :
                  <<m, i>> \in PlacesIn(config, m, f) /\ Definition(config, <<m, i>>, f) = document[f][i]
             /\ PlacesIn(config, n, f) \subseteq PlacesIn(config, m, f)
             /\ DefinedIDs(config, m, f) = DefinedIDs(config, n, f) \cup IDs(document[f])
  <2>1. \A i \in DOMAIN DocumentOf(config, m)[f] :
          /\ <<m, i>> \in PlacesIn(config, m, f)
          /\ Definition(config, <<m, i>>, f) = DocumentOf(config, m)[f][i]
    <3> HIDE DEF document, m
    <3> QED
      BY <1>3, PlaceOfDefinition
  <2>2. /\ PlacesIn(config, m, f) =
             PlacesIn(config, n, f) \cup ({m} \X DOMAIN DocumentOf(config, m)[f])
        /\ DefinedIDs(config, m, f) = DefinedIDs(config, n, f) \cup IDs(DocumentOf(config, m)[f])
    BY MorePlaces, MoreIDs
  <2> HIDE DEF document, m
  <2> QED
    BY <1>3, <2>1, <2>2
<1>6. /\ \A i \in DOMAIN document.rules :
           <<m, i>> \in PlacesIn(config, m, "rules") /\ Definition(config, <<m, i>>, "rules") = document.rules[i]
      /\ \A i \in DOMAIN document.checks :
           <<m, i>> \in PlacesIn(config, m, "checks") /\ Definition(config, <<m, i>>, "checks") = document.checks[i]
      /\ PlacesIn(config, n, "rules") \subseteq PlacesIn(config, m, "rules")
      /\ PlacesIn(config, n, "checks") \subseteq PlacesIn(config, m, "checks")
      /\ DefinedIDs(config, m, "rules") = DefinedIDs(config, n, "rules") \cup IDs(document.rules)
      /\ DefinedIDs(config, m, "checks") = DefinedIDs(config, n, "checks") \cup IDs(document.checks)
  <2> HIDE DEF document, m
  <2> QED
    BY <1>5
<1>7. ds \in Seq(Detectors(config, m))
  <2> HIDE DEF ds, document, m
  <2>1. {Detector(document.rules[i]) : i \in DOMAIN document.rules} \subseteq Detectors(config, m)
    BY <1>6 DEF Detectors
  <2> QED
    BY <1>2, <2>1, WiderLists
<1>8. cs \in Seq(Checks(config, m))
  <2> HIDE DEF cs, document, m
  <2>1. {Check(document.checks[i]) : i \in DOMAIN document.checks} \subseteq Checks(config, m)
    BY <1>6 DEF Checks
  <2> QED
    BY <1>2, <2>1, WiderLists
<1> HIDE DEF ds, cs, document, path, extension, m
<1>9. ByID(cs) \in Seq(Checks(config, m)) /\ IDs(ByID(cs)) = IDs(cs)
  BY <1>2, <1>8, SortedByID
<1>10. /\ IDs(held.detectors) \cap IDs(ds) = {}
       /\ IDs(held.checks) \cap IDs(ByID(cs)) = {}
  BY <1>1 DEF Disjoint, extension, path
<1>11. Joinable(config, m)
  <2>1. DefinedIDs(config, n, "rules") \cap IDs(document.rules) = {}
    BY <1>2, <1>4, <1>10
  <2>2. DefinedIDs(config, n, "checks") \cap IDs(document.checks) = {}
    BY <1>2, <1>4, <1>9, <1>10
  <2>3. \A f \in Fields : DefinedIDs(config, n, f) \cap IDs(DocumentOf(config, m)[f]) = {}
    BY <1>3, <2>1, <2>2 DEF Fields
  <2>4. Loads(config, m)
    BY <1>3 DEF Loads, m
  <2> QED
    BY <1>1, <1>3, <1>4, <2>3, <2>4, JoinsMore
<1>12. /\ held.detectors \in Seq(Detectors(config, m)) /\ held.checks \in Seq(Checks(config, m))
  <2>1. Detectors(config, n) \subseteq Detectors(config, m) /\ Checks(config, n) \subseteq Checks(config, m)
    BY <1>6 DEF Detectors, Checks
  <2> QED
    BY <1>4, <2>1
<1>13. /\ more \in Seq(Detectors(config, m)) /\ moreChecks \in Seq(Checks(config, m))
       /\ IDs(more) = IDs(held.detectors) \cup IDs(ds)
       /\ IDs(moreChecks) = IDs(held.checks) \cup IDs(ByID(cs))
       /\ \A i, j \in DOMAIN more : i < j =>
            \/ i \in DOMAIN held.detectors /\ j \in DOMAIN held.detectors
               /\ more[i] = held.detectors[i] /\ more[j] = held.detectors[j]
            \/ i \in DOMAIN held.detectors /\ more[i] = held.detectors[i]
               /\ \E l \in DOMAIN ds : more[j] = ds[l]
            \/ \E k, l \in DOMAIN ds : k < l /\ more[i] = ds[k] /\ more[j] = ds[l]
  BY <1>9, <1>12, <1>7, JoinedLists
<1>14. InOrder(more, config, m)
  <2> SUFFICES ASSUME NEW i \in DOMAIN more, NEW j \in DOMAIN more, i < j
               PROVE  \A p, q \in PlacesIn(config, m, "rules") :
                        Definition(config, p, "rules").id = more[i].id
                          /\ Definition(config, q, "rules").id = more[j].id => Precedes(p, q)
    BY DEF InOrder
  <2>1. ASSUME NEW l \in DOMAIN ds
        PROVE  \E q \in PlacesIn(config, m, "rules") :
                 q = <<m, l>> /\ Definition(config, q, "rules").id = ds[l].id
    BY <1>2, <1>6
  <2>2. ASSUME NEW l \in DOMAIN held.detectors
        PROVE  \E q \in PlacesIn(config, m, "rules") :
                 /\ q \in PlacesIn(config, n, "rules")
                 /\ q[1] \in 0 .. n /\ Definition(config, q, "rules").id = held.detectors[l].id
    <3>1. held.detectors[l].id \in DefinedIDs(config, n, "rules")
      BY <1>4 DEF IDs
    <3>2. PICK q \in PlacesIn(config, n, "rules") :
            Definition(config, q, "rules").id = held.detectors[l].id
      BY <3>1 DEF DefinedIDs
    <3>3. q[1] \in 0 .. n
      <4>1. \E k \in 0 .. n : \E x \in DOMAIN DocumentOf(config, k)["rules"] : q = <<k, x>>
        BY PlaceIn
      <4> QED
        BY <4>1
    <3> QED
      BY <1>6, <3>2, <3>3
  <2>3. \E p \in PlacesIn(config, m, "rules") : \E q \in PlacesIn(config, m, "rules") :
          /\ Definition(config, p, "rules").id = more[i].id
          /\ Definition(config, q, "rules").id = more[j].id /\ Precedes(p, q)
    <3>1. CASE /\ i \in DOMAIN held.detectors /\ j \in DOMAIN held.detectors
               /\ more[i] = held.detectors[i] /\ more[j] = held.detectors[j]
      <4>1. PICK p \in PlacesIn(config, n, "rules") :
              p \in PlacesIn(config, m, "rules") /\ Definition(config, p, "rules").id = more[i].id
        BY <2>2, <3>1
      <4>2. PICK q \in PlacesIn(config, n, "rules") :
              q \in PlacesIn(config, m, "rules") /\ Definition(config, q, "rules").id = more[j].id
        BY <2>2, <3>1
      <4>3. Precedes(p, q)
        BY <1>4, <3>1, <4>1, <4>2 DEF InOrder
      <4> QED
        BY <4>1, <4>2, <4>3
    <3>2. CASE i \in DOMAIN held.detectors /\ more[i] = held.detectors[i]
               /\ \E l \in DOMAIN ds : more[j] = ds[l]
      <4>1. PICK p \in PlacesIn(config, m, "rules") :
              p[1] \in 0 .. n /\ Definition(config, p, "rules").id = more[i].id
        BY <2>2, <3>2
      <4>2. PICK l \in DOMAIN ds : more[j] = ds[l]
        BY <3>2
      <4>3. PICK q \in PlacesIn(config, m, "rules") :
              q = <<m, l>> /\ Definition(config, q, "rules").id = more[j].id
        BY <2>1, <4>2
      <4>4. p[1] < q[1]
        BY <1>3, <4>1, <4>3
      <4> QED
        BY <4>1, <4>3, <4>4 DEF Precedes
    <3>3. CASE \E k, l \in DOMAIN ds : k < l /\ more[i] = ds[k] /\ more[j] = ds[l]
      <4>1. PICK k \in DOMAIN ds, l \in DOMAIN ds : k < l /\ more[i] = ds[k] /\ more[j] = ds[l]
        BY <3>3
      <4>2. PICK p \in PlacesIn(config, m, "rules") :
              p = <<m, k>> /\ Definition(config, p, "rules").id = more[i].id
        BY <2>1, <4>1
      <4>3. PICK q \in PlacesIn(config, m, "rules") :
              q = <<m, l>> /\ Definition(config, q, "rules").id = more[j].id
        BY <2>1, <4>1
      <4>4. Precedes(p, q)
        BY <4>1, <4>2, <4>3 DEF Precedes
      <4> QED
        BY <4>2, <4>3, <4>4
    <3> HIDE DEF more
    <3> QED
      BY <1>13, <3>1, <3>2, <3>3
  <2> HIDE DEF more
  <2> QED
    BY <1>3, <1>11, <2>3, HoldsMore
<1>15. /\ ByID(moreChecks) \in Seq(Checks(config, m)) /\ IDs(ByID(moreChecks)) = IDs(moreChecks)
       /\ Sorted(ByID(moreChecks))
  <2>1. IDs(held.checks) \subseteq Range(Alphabetical)
    <3>1. "checks" \in Fields
      BY DEF Fields
    <3> QED
      BY <1>4, <3>1, DefinedInAlphabet
  <2>2. IDs(moreChecks) \subseteq Range(Alphabetical)
    BY <1>2, <1>9, <1>13, <2>1
  <2> HIDE DEF moreChecks
  <2> QED
    BY <1>13, <2>2, SortedByID
<1>16. /\ Extend(held, extension).detectors = more
       /\ Extend(held, extension).checks = ByID(moreChecks)
  BY <1>1 DEF Extend
<1>17. /\ IDs(more) = DefinedIDs(config, m, "rules") \ {}
       /\ IDs(ByID(moreChecks)) = DefinedIDs(config, m, "checks") \ {}
  BY <1>2, <1>4, <1>9, <1>13, <1>6, <1>15
<1> HIDE DEF more, moreChecks
<1>18. Holds(Extend(held, extension), config, m, {}, {})
  BY <1>13, <1>14, <1>15, <1>16, <1>17 DEF Holds
<1> QED
  BY <1>11, <1>18 DEF Composes, extension, path, m

\* What is chosen of a list has the identifiers of what was chosen.
LEMMA ChosenIDs ==
  ASSUME NEW T, NEW s \in Seq(T), NEW positions \in SUBSET (DOMAIN s)
  PROVE  IDs(Chosen(s, positions)) = {s[i].id : i \in positions}
<1> DEFINE chosen == Chosen(s, positions)
<1>1. /\ chosen \in Seq(T) /\ DOMAIN chosen = 1 .. Cardinality(positions)
      /\ Cardinality(positions) \in Nat
      /\ \A k \in DOMAIN chosen : Nth(positions, k) \in positions /\ chosen[k] = s[Nth(positions, k)]
      /\ \A k, l \in DOMAIN chosen : k < l => Nth(positions, k) < Nth(positions, l)
      /\ \A i \in positions : \E k \in DOMAIN chosen : Nth(positions, k) = i
  BY ChosenOfList
<1> HIDE DEF chosen
<1>2. ASSUME NEW k \in DOMAIN chosen PROVE chosen[k].id \in {s[i].id : i \in positions}
  <2>1. PICK i \in positions : chosen[k] = s[i]
    BY <1>1
  <2> QED
    BY <2>1
<1>3. ASSUME NEW i \in positions PROVE s[i].id \in IDs(chosen)
  <2>1. PICK k \in DOMAIN chosen : chosen[k] = s[i]
    BY <1>1
  <2>2. chosen[k].id \in IDs(chosen)
    BY DEF IDs
  <2> QED
    BY <2>1, <2>2
<1>4. IDs(chosen) \subseteq {s[i].id : i \in positions}
  BY <1>2 DEF IDs
<1> QED
  BY <1>3, <1>4 DEF chosen

\* What is left of a list of definitions, and what is taken away.
LEMMA WithoutIDs ==
  ASSUME NEW T, NEW s \in Seq(T), NEW ids
  PROVE  /\ IDs(Without(s, ids)) = IDs(s) \ ids
         /\ IDs(Chosen(s, WithID(s, ids))) = IDs(s) \cap ids
<1> DEFINE out == WithID(s, ids)
           rest == DOMAIN s \ out
<1>1. out \in SUBSET (DOMAIN s) /\ rest \in SUBSET (DOMAIN s)
  BY DEF WithID
<1>2. IDs(Chosen(s, out)) = {s[i].id : i \in out}
  BY <1>1, ChosenIDs
<1>3. IDs(Chosen(s, rest)) = {s[i].id : i \in rest}
  BY <1>1, ChosenIDs
<1>4. {s[i].id : i \in out} = IDs(s) \cap ids
  BY DEF WithID, IDs
<1>5. {s[i].id : i \in rest} = IDs(s) \ ids
  BY DEF WithID, IDs
<1> QED
  BY <1>2, <1>3, <1>4, <1>5 DEF Without

\* What is left keeps its order.
LEMMA LeftInOrder ==
  ASSUME NEW config, NEW n \in Nat, NEW ds \in Seq(Detectors(config, n)), InOrder(ds, config, n),
         NEW positions \in SUBSET (DOMAIN ds)
  PROVE  InOrder(Chosen(ds, positions), config, n)
<1> DEFINE left == Chosen(ds, positions)
<1>1. /\ \A k \in DOMAIN left : Nth(positions, k) \in positions /\ left[k] = ds[Nth(positions, k)]
      /\ \A k, l \in DOMAIN left : k < l => Nth(positions, k) < Nth(positions, l)
  BY ChosenOfList
<1> HIDE DEF left
<1>2. ASSUME NEW k \in DOMAIN left, NEW l \in DOMAIN left, k < l
      PROVE  \E i, j \in DOMAIN ds : i < j /\ left[k] = ds[i] /\ left[l] = ds[j]
  BY <1>1, <1>2
<1> SUFFICES ASSUME NEW k \in DOMAIN left, NEW l \in DOMAIN left, k < l,
                    NEW p \in PlacesIn(config, n, "rules"), NEW q \in PlacesIn(config, n, "rules"),
                    Definition(config, p, "rules").id = left[k].id,
                    Definition(config, q, "rules").id = left[l].id
             PROVE  Precedes(p, q)
  BY DEF InOrder, left
<1>3. PICK i, j \in DOMAIN ds : i < j /\ left[k] = ds[i] /\ left[l] = ds[j]
  BY <1>2
<1>4. Definition(config, p, "rules").id = ds[i].id /\ Definition(config, q, "rules").id = ds[j].id
  BY <1>3
<1> QED
  BY <1>3, <1>4 DEF InOrder

LEMMA LeftSorted ==
  ASSUME NEW T, NEW cs \in Seq(T), Sorted(cs), NEW positions \in SUBSET (DOMAIN cs)
  PROVE  Sorted(Chosen(cs, positions))
<1> DEFINE left == Chosen(cs, positions)
<1>1. /\ \A k \in DOMAIN left : Nth(positions, k) \in positions /\ left[k] = cs[Nth(positions, k)]
      /\ \A k, l \in DOMAIN left : k < l => Nth(positions, k) < Nth(positions, l)
  BY ChosenOfList
<1> HIDE DEF left
<1> SUFFICES ASSUME NEW k \in DOMAIN left, NEW l \in DOMAIN left, k < l
             PROVE  Position(left[k].id) < Position(left[l].id)
  BY DEF Sorted, left
<1>2. PICK i, j \in DOMAIN cs : i < j /\ left[k] = cs[i] /\ left[l] = cs[j]
  BY <1>1
<1>3. Position(cs[i].id) < Position(cs[j].id)
  BY <1>2 DEF Sorted
<1> QED
  BY <1>2, <1>3

\* What the exclusions of a command leave of the rules that its documents
\* define, and what they take away.
RemovedBy(config) == config.rules \cup UNION {CoveragePresets[p] : p \in config.presets}
LEMMA ExclusionHolds ==
  ASSUME NEW config, NEW n \in Nat, NEW held, Composes(held, config, n)
  PROVE  /\ Holds(Exclude(held, config), config, n, RemovedBy(config), config.checks)
         /\ IDs(Exclude(held, config).disabled) = DefinedIDs(config, n, "rules") \cap RemovedBy(config)
<1> DEFINE removed == config.rules \cup PresetExclusions(config.presets, held.detectors)
           left == Without(held.detectors, removed)
           leftChecks == Without(held.checks, config.checks)
           disabled == Chosen(held.detectors, WithID(held.detectors, removed))
<1>1. /\ Exclude(held, config).detectors = left
      /\ Exclude(held, config).checks = leftChecks
      /\ Exclude(held, config).disabled = disabled
  <2> HIDE DEF left, leftChecks, disabled
  <2>1. Exclude(held, config) = [detectors |-> left, checks |-> leftChecks, disabled |-> disabled]
    BY DEF Exclude, left, leftChecks, disabled
  <2> QED
    BY <2>1
<1>2. /\ held.detectors \in Seq(Detectors(config, n)) /\ InOrder(held.detectors, config, n)
      /\ IDs(held.detectors) = DefinedIDs(config, n, "rules")
      /\ held.checks \in Seq(Checks(config, n)) /\ Sorted(held.checks)
      /\ IDs(held.checks) = DefinedIDs(config, n, "checks")
  BY DEF Composes, Holds
<1>3. /\ IDs(held.detectors) \ removed = IDs(held.detectors) \ RemovedBy(config)
      /\ IDs(held.detectors) \cap removed = IDs(held.detectors) \cap RemovedBy(config)
  BY DEF PresetExclusions, RemovedBy
<1> HIDE DEF removed
<1>4. IDs(left) = IDs(held.detectors) \ removed /\ IDs(disabled) = IDs(held.detectors) \cap removed
  BY <1>2, WithoutIDs
<1>5. IDs(leftChecks) = IDs(held.checks) \ config.checks
  BY <1>2, WithoutIDs
<1>6. left \in Seq(Detectors(config, n)) /\ InOrder(left, config, n)
  <2> DEFINE rest == DOMAIN held.detectors \ WithID(held.detectors, removed)
  <2>1. rest \in SUBSET (DOMAIN held.detectors) /\ left = Chosen(held.detectors, rest)
    BY DEF Without
  <2> HIDE DEF rest, left
  <2>2. Chosen(held.detectors, rest) \in Seq(Detectors(config, n))
    BY <1>2, <2>1, ChosenOfList
  <2>3. InOrder(Chosen(held.detectors, rest), config, n)
    BY <1>2, <2>1, LeftInOrder
  <2> QED
    BY <2>1, <2>2, <2>3
<1>7. leftChecks \in Seq(Checks(config, n)) /\ Sorted(leftChecks)
  <2> DEFINE rest == DOMAIN held.checks \ WithID(held.checks, config.checks)
  <2>1. rest \in SUBSET (DOMAIN held.checks) /\ leftChecks = Chosen(held.checks, rest)
    BY DEF Without
  <2> HIDE DEF rest, leftChecks
  <2>2. Chosen(held.checks, rest) \in Seq(Checks(config, n))
    BY <1>2, <2>1, ChosenOfList
  <2>3. Sorted(Chosen(held.checks, rest))
    BY <1>2, <2>1, LeftSorted
  <2> QED
    BY <2>1, <2>2, <2>3
<1> HIDE DEF left, leftChecks, disabled
<1> QED
  BY <1>1, <1>2, <1>3, <1>4, <1>5, <1>6, <1>7 DEF Holds

-----------------------------------------------------------------------------
(* The rules of a run, from its arguments to its scan.                     *)

\* The values of a flag are a list.
LEMMA FlagValues ==
  ASSUME NEW c \in DOMAIN Commands, NEW flag
  PROVE  Len(Values(Commands[c], flag)) \in Nat
<1> DEFINE args == Commands[c]
           paths == {i \in DOMAIN args : args[i].flag = "path"}
           positions == {i \in DOMAIN Parsed(args) : args[i].flag = flag}
           given == Chosen(args, positions)
<1>1. args \in Seq(Range(args)) /\ DOMAIN args = 1 .. Len(args) /\ Len(args) \in Nat
  <2>1. args \in Seq(Range(args))
    BY DeplensAssumption DEF IsList
  <2> HIDE DEF args
  <2> QED
    BY <2>1
<1> HIDE DEF args
<1>2. FirstPath(args) = 0 \/ FirstPath(args) \in DOMAIN args
  <2>1. CASE paths = {}
    BY <2>1 DEF FirstPath, Least, None
  <2>2. CASE paths # {}
    <3>1. paths \in SUBSET Nat
      BY <1>1
    <3> HIDE DEF paths
    <3>2. \E i \in paths : \A j \in paths : i <= j
      BY <2>2, <3>1, Scans!Smallest
    <3>3. Min(paths) \in paths
      BY <3>2 DEF Min
    <3>4. FirstPath(args) = Min(paths)
      BY <2>2 DEF FirstPath, Least, paths
    <3> QED
      BY <3>3, <3>4 DEF paths
  <2> QED
    BY <2>1, <2>2
<1>3. DOMAIN Parsed(args) \subseteq DOMAIN args
  <2>1. CASE FirstPath(args) = 0
    BY <2>1 DEF Parsed, None
  <2>2. CASE FirstPath(args) # 0
    <3>1. PICK m \in 1 .. Len(args) : m = FirstPath(args)
      BY <1>1, <1>2, <2>2
    <3>2. Parsed(args) = SubSeq(args, 1, m - 1)
      BY <2>2, <3>1 DEF Parsed, None
    <3>3. DOMAIN SubSeq(args, 1, m - 1) \subseteq 1 .. Len(args)
      BY <1>1
    <3> QED
      BY <1>1, <3>2, <3>3
  <2> QED
    BY <2>1, <2>2
<1>4. positions \in SUBSET (DOMAIN args)
  BY <1>3
<1> HIDE DEF positions
<1>5. DOMAIN given = 1 .. Cardinality(positions) /\ Cardinality(positions) \in Nat
  BY <1>1, <1>4, ChosenOfList
<1>6. Values(args, flag) = [i \in DOMAIN given |-> given[i].value]
  BY DEF Values, positions
<1> HIDE DEF given
<1>7. Len([i \in 1 .. Cardinality(positions) |-> given[i].value]) = Cardinality(positions)
  BY <1>5
<1> QED
  BY <1>5, <1>6, <1>7 DEF args

LEMMA ExtensionCount == command \in DOMAIN Commands => Len(Config.extensions) \in Nat
BY FlagValues DEF Config, Configs, ParseArgs

\* What is held has identifiers with a position.
LEMMA HoldsInAlphabet ==
  ASSUME NEW config, NEW n \in Nat, Joinable(config, n), NEW held, NEW removed, NEW disabled,
         Holds(held, config, n, removed, disabled)
  PROVE  IDs(held.detectors) \cup IDs(held.checks) \subseteq Range(Alphabetical)
<1>1. "rules" \in Fields /\ "checks" \in Fields
  BY DEF Fields
<1>2. /\ DefinedIDs(config, n, "rules") \subseteq Range(Alphabetical)
      /\ DefinedIDs(config, n, "checks") \subseteq Range(Alphabetical)
  BY <1>1, DefinedInAlphabet
<1>3. /\ IDs(held.detectors) \subseteq DefinedIDs(config, n, "rules")
      /\ IDs(held.checks) \subseteq DefinedIDs(config, n, "checks")
  BY DEF Holds
<1> QED
  BY <1>2, <1>3

\* Detectors that were accepted are detectors for the dispatch.
LEMMA RulesValid ==
  ASSUME NEW config, NEW n \in Nat, Joinable(config, n), NEW p \in PlacesIn(config, n, "rules")
  PROVE  ValidRule(Definition(config, p, "rules"))
<1>1. PICK k \in 0 .. n : \E i \in DOMAIN DocumentOf(config, k)["rules"] : p = <<k, i>>
  BY PlaceIn
<1>2. PICK i \in DOMAIN DocumentOf(config, k).rules : p = <<k, i>>
  BY <1>1
<1>3. Accepted(DocumentOf(config, k))
  BY DEF Joinable
<1>4. Definition(config, p, "rules") = DocumentOf(config, k).rules[i]
  BY <1>2 DEF Definition
<1> QED
  BY <1>3, <1>4 DEF Accepted

LEMMA MatchesOfRule ==
  ASSUME NEW rule, ValidRule(rule)
  PROVE  Matches(Detector(rule)) =
           {n \in Nodes : /\ rule.regex # <<>> => n \in RegexMatches[rule.regex]
                          /\ rule.glob # <<>> => n \in GlobMatches[rule.glob]}
<1>1. Detector(rule).regex = rule.regex /\ Detector(rule).glob = rule.glob
  BY DEF Detector
<1>2. rule.regex # <<>> => RegexMatches[rule.regex] \subseteq Nodes
  BY DeplensAssumption DEF ValidRule, Compiles
<1>3. rule.regex # <<>> \/ rule.glob # <<>>
  BY DEF ValidRule
<1> QED
  BY <1>1, <1>2, <1>3 DEF Matches

LEMMA DispatchedDetector ==
  ASSUME NEW rule, ValidRule(rule)
  PROVE  Dispatched(Detector(rule)) \in Scanner!Detector
<1>1. PICK d : d = Detector(rule)
  OBVIOUS
<1>2. Matches(d) \in SUBSET Nodes
  BY <1>1, MatchesOfRule
<1>3. d.analyzer # <<>> => d.analyzer \in AnalyzerTypes
  <2> SUFFICES ASSUME d.analyzer # <<>> PROVE d.analyzer \in AnalyzerTypes
    OBVIOUS
  <2>1. rule.analyzer # <<>> /\ d.analyzer = TypeIn(rule.analyzer[1])
    BY <1>1 DEF Detector
  <2>2. CompileSourceAnalyzer(rule.analyzer[1])
    BY <2>1 DEF ValidRule
  <2> QED
    BY <2>1, <2>2 DEF CompileSourceAnalyzer, AnalyzerTypes
<1>4. d.analyzer # <<>> => Behaviour[d.analyzer].verdict \in [Contents -> Scanner!Verdicts]
  BY <1>3, DeplensAssumption
<1>5. [c \in Contents |-> "other"] \in [Contents -> Scanner!Verdicts]
  BY DEF Scanner!Verdicts
<1>6. PICK verdict \in [Contents -> Scanner!Verdicts] :
        verdict = IF d.analyzer = <<>> THEN [c \in Contents |-> "other"]
                                       ELSE Behaviour[d.analyzer].verdict
  BY <1>4, <1>5
<1>7. Dispatched(d) = [matches |-> Matches(d), analyzer |-> d.analyzer # <<>>,
                       policyContent |-> d.id \in NeedsPolicyContent, verdict |-> verdict]
  BY <1>6 DEF Dispatched
<1> QED
  BY <1>1, <1>2, <1>7 DEF Scanner!Detector

\* What the scan is given, which are rules as the dispatch knows them.
HandedOn == [detectors |-> [i \in DOMAIN composed.detectors |-> Dispatched(composed.detectors[i])],
             uv |-> HasEvaluator(<<"uv-lockfile-missing">>),
             ignored |-> {n \in Nodes : BaseName[n] \in Config.ignored}]
Handed == rules \in Scanner!Ruleset

\* The rules at each stage: all that the documents so far define, until the
\* exclusions have been applied to them; from then on, and in particular after
\* a scan has begun, all but those that are excluded.
KnownIn(config, n) ==
  /\ config.presets \subseteq DOMAIN CoveragePresets
  /\ config.rules \subseteq DefinedIDs(config, n, "rules")
  /\ config.checks \subseteq DefinedIDs(config, n, "checks")
Settled ==
  /\ loaded = Len(Config.extensions)
  /\ Joinable(Config, loaded)
  /\ Holds(composed, Config, loaded, RemovedBy(Config), Config.checks)
  /\ IDs(composed.disabled) = DefinedIDs(Config, loaded, "rules") \cap RemovedBy(Config)
  /\ KnownIn(Config, loaded)
Ordered ==
  /\ composed = [detectors |-> composed.detectors, checks |-> composed.checks,
                 disabled |-> composed.disabled]
  /\ \A f \in {"detectors", "checks", "disabled"} : IDs(composed[f]) \subseteq Range(Alphabetical)
RuleInv ==
  /\ loaded \in 0 .. Len(Config.extensions) /\ Ordered
  /\ stage \in {"arguments", "base"} => composed = NoRules /\ loaded = 0
  /\ stage = "extensions" => composed.disabled = <<>> /\ Composes(composed, Config, loaded)
  /\ stage \in {"base", "extensions", "start"} \/ outcome # "idle" => Config.verdict = "run"
  /\ stage = "start" \/ outcome # "idle" => Settled
  /\ outcome # "idle" => rules = HandedOn
  /\ Handed

LEMMA InitRuleInv == Init => RuleInv
<1> SUFFICES ASSUME Init PROVE RuleInv
  OBVIOUS
<1>1. /\ loaded = 0 /\ composed = NoRules /\ stage = "arguments" /\ outcome = "idle"
      /\ rules = [detectors |-> <<>>, uv |-> FALSE, ignored |-> {}] /\ command \in DOMAIN Commands
  BY DEF Init, Scanner!Init
<1>2. Ordered
  <2>1. IDs(<<>>) = {}
    BY DEF IDs
  <2> QED
    BY <1>1, <2>1 DEF Ordered, NoRules
<1>3. Handed
  <2>1. <<>> \in Seq(Scanner!Detector)
    OBVIOUS
  <2> QED
    BY <1>1, <2>1 DEF Handed, Scanner!Ruleset
<1>4. loaded \in 0 .. Len(Config.extensions)
  BY <1>1, ExtensionCount
<1> QED
  BY <1>1, <1>2, <1>3, <1>4 DEF RuleInv

\* Steps that leave the rules alone.
LEMMA Unmoved ==
  ASSUME RuleInv, UNCHANGED <<command, loaded, composed, rules>>,
         stage' \in {"arguments", "base", "extensions", "start"} =>
           \/ stage' = stage
           \/ stage = "arguments" /\ stage' = "base" /\ Config.verdict = "run",
         outcome' # "idle" => outcome # "idle"
  PROVE  RuleInv'
<1>1. Config' = Config
  BY DEF Config, Configs
<1>2. Settled' = Settled /\ HandedOn' = HandedOn /\ Ordered' = Ordered
  BY <1>1 DEF Settled, HandedOn, Ordered, HasEvaluator
<1>3. Composes(composed, Config, loaded)' = Composes(composed, Config, loaded)
  BY <1>1
<1> QED
  BY <1>1, <1>2, <1>3 DEF RuleInv, Handed

LEMMA BaseStep ==
  ASSUME StageInv, RuleInv, LoadBase
  PROVE  RuleInv'
<1>1. /\ stage = "base" /\ loaded = 0 /\ outcome = "idle" /\ composed = NoRules
      /\ UNCHANGED <<rules, outcome, command, loaded>>
  BY DEF LoadBase, RuleInv, StageInv, Configuring, scan
<1>2. Config' = Config
  BY <1>1 DEF Config, Configs
<1>3. CASE UNCHANGED composed /\ stage' = "exited"
  BY <1>1, <1>3, Unmoved
<1>4. CASE ~ (UNCHANGED composed /\ stage' = "exited")
  <2>1. PICK config : config = Config
    OBVIOUS
  <2>2. PICK next : next = [NoRules EXCEPT !.detectors = Load(config.base, FALSE).detectors,
                                           !.checks = Load(config.base, FALSE).checks]
    OBVIOUS
  <2>3. Load(config.base, FALSE).ok /\ composed' = next /\ stage' = "extensions"
    BY <1>4, <2>1, <2>2 DEF LoadBase, TakeBase, Continue, Exit
  <2>4. Composes(next, config, 0)
    BY <2>2, <2>3, BaseComposes
  <2>5. next.disabled = <<>> /\ next = [detectors |-> next.detectors, checks |-> next.checks,
                                        disabled |-> next.disabled]
    BY <2>2 DEF NoRules
  <2>6. IDs(next.detectors) \cup IDs(next.checks) \subseteq Range(Alphabetical)
    BY <2>4, HoldsInAlphabet DEF Composes
  <2>7. IDs(next.disabled) = {}
    BY <2>5 DEF IDs
  <2>8. Ordered'
    BY <2>3, <2>5, <2>6, <2>7 DEF Ordered
  <2>9. Composes(composed', Config', loaded')
    BY <1>1, <1>2, <2>1, <2>3, <2>4
  <2>10. loaded' \in 0 .. Len(Config'.extensions) /\ Handed'
    BY <1>1, <1>2 DEF RuleInv, Handed
  <2> QED
    BY <1>1, <1>2, <2>3, <2>5, <2>8, <2>9, <2>10 DEF RuleInv
<1> QED
  BY <1>3, <1>4

LEMMA ExtensionStep ==
  ASSUME StageInv, RuleInv, LoadExtension
  PROVE  RuleInv'
<1>1. /\ stage = "extensions" /\ outcome = "idle" /\ loaded < Len(Config.extensions)
      /\ UNCHANGED <<rules, outcome, command>>
  BY DEF LoadExtension, StageInv, Configuring, scan
<1>2. Config' = Config
  BY <1>1 DEF Config, Configs
<1>3. CASE UNCHANGED <<composed, loaded>> /\ stage' = "exited"
  BY <1>1, <1>3, Unmoved
<1>4. CASE ~ (UNCHANGED <<composed, loaded>> /\ stage' = "exited")
  <2>1. PICK config : config = Config
    OBVIOUS
  <2>2. PICK n \in Nat : n = loaded
    BY DEF RuleInv
  <2>3. PICK held : held = composed
    OBVIOUS
  <2>4. PICK extension : extension = Load(config.extensions[n + 1], TRUE)
    OBVIOUS
  <2>5. PICK next : next = Extend(held, extension)
    OBVIOUS
  <2>6. /\ extension.ok /\ Disjoint(held, extension)
        /\ composed' = next /\ loaded' = n + 1 /\ stage' = "extensions"
    BY <1>4, <2>1, <2>2, <2>3, <2>4, <2>5 DEF LoadExtension, TakeExtension, Fits, Continue, Exit
  <2>7. /\ Composes(held, config, n) /\ held.disabled = <<>>
        /\ held = [detectors |-> held.detectors, checks |-> held.checks, disabled |-> held.disabled]
    BY <1>1, <2>1, <2>2, <2>3 DEF RuleInv, Ordered
  <2>8. Composes(next, config, n + 1)
    BY <2>4, <2>5, <2>6, <2>7, ExtensionComposes
  <2>9. /\ next.disabled = <<>>
        /\ next = [detectors |-> next.detectors, checks |-> next.checks, disabled |-> next.disabled]
    BY <2>5, <2>7 DEF Extend
  <2>10. IDs(next.detectors) \cup IDs(next.checks) \subseteq Range(Alphabetical)
    BY <2>8, HoldsInAlphabet DEF Composes
  <2>11. IDs(next.disabled) = {}
    BY <2>9 DEF IDs
  <2>12. Ordered'
    BY <2>6, <2>9, <2>10, <2>11 DEF Ordered
  <2>13. Composes(composed', Config', loaded')
    BY <1>2, <2>1, <2>6, <2>8
  <2>14. loaded' \in 0 .. Len(Config'.extensions) /\ Handed'
    BY <1>1, <1>2, <2>2, <2>6 DEF RuleInv, Handed
  <2> QED
    BY <1>1, <1>2, <2>6, <2>9, <2>12, <2>13, <2>14 DEF RuleInv
<1> QED
  BY <1>3, <1>4

LEMMA ExclusionStep ==
  ASSUME StageInv, RuleInv, ExcludeRules
  PROVE  RuleInv'
<1>1. /\ stage = "extensions" /\ outcome = "idle" /\ loaded = Len(Config.extensions)
      /\ UNCHANGED <<rules, outcome, command, loaded>>
  BY DEF ExcludeRules, StageInv, Configuring, scan
<1>2. Config' = Config
  BY <1>1 DEF Config, Configs
<1>3. CASE UNCHANGED composed /\ stage' = "exited"
  BY <1>1, <1>3, Unmoved
<1>4. CASE ~ (UNCHANGED composed /\ stage' = "exited")
  <2>1. PICK config : config = Config
    OBVIOUS
  <2>2. PICK n \in Nat : n = loaded
    BY DEF RuleInv
  <2>3. PICK held : held = composed
    OBVIOUS
  <2>4. PICK next : next = Exclude(held, config)
    OBVIOUS
  <2>5. composed' = next /\ stage' = "start" /\ Known(held, config)
    BY <1>4, <2>1, <2>3, <2>4 DEF ExcludeRules, TakeAway, Continue, Exit
  <2>6. Composes(held, config, n)
    BY <1>1, <2>1, <2>2, <2>3 DEF RuleInv
  <2>7. /\ Holds(next, config, n, RemovedBy(config), config.checks) /\ Joinable(config, n)
        /\ IDs(next.disabled) = DefinedIDs(config, n, "rules") \cap RemovedBy(config)
    BY <2>4, <2>6, ExclusionHolds DEF Composes
  <2>8. next = [detectors |-> next.detectors, checks |-> next.checks, disabled |-> next.disabled]
    BY <2>4 DEF Exclude
  <2>9. IDs(next.detectors) \cup IDs(next.checks) \subseteq Range(Alphabetical)
    BY <2>7, HoldsInAlphabet
  <2>10. IDs(next.disabled) \subseteq Range(Alphabetical)
    <3>1. "rules" \in Fields
      BY DEF Fields
    <3>2. DefinedIDs(config, n, "rules") \subseteq Range(Alphabetical)
      BY <2>7, <3>1, DefinedInAlphabet
    <3> QED
      BY <2>7, <3>2
  <2>11. Ordered'
    BY <2>5, <2>8, <2>9, <2>10 DEF Ordered
  <2>12. KnownIn(config, n)
    BY <2>5, <2>6 DEF Known, KnownIn, Composes, Holds
  <2>13. Settled'
    BY <1>1, <1>2, <2>1, <2>2, <2>5, <2>7, <2>12 DEF Settled
  <2>14. loaded' \in 0 .. Len(Config'.extensions) /\ Handed'
    BY <1>1, <1>2 DEF RuleInv, Handed
  <2> QED
    BY <1>1, <1>2, <2>5, <2>11, <2>13, <2>14 DEF RuleInv
<1> QED
  BY <1>3, <1>4

\* Rules that are settled are rules for the dispatch.
LEMMA SettledHanded ==
  ASSUME RuleInv, Settled
  PROVE  HandedOn \in Scanner!Ruleset
<1>1. PICK config : config = Config
  OBVIOUS
<1>2. PICK n \in Nat : n = loaded
  BY DEF RuleInv
<1>3. PICK ds \in Seq(Detectors(config, n)) : ds = composed.detectors
  BY <1>1, <1>2 DEF Settled, Holds
<1>4. Joinable(config, n)
  BY <1>1, <1>2 DEF Settled
<1>5. ASSUME NEW d \in Detectors(config, n)
      PROVE  Dispatched(d) \in Scanner!Detector
  <2>1. PICK p \in PlacesIn(config, n, "rules") : d = Detector(Definition(config, p, "rules"))
    BY DEF Detectors
  <2> QED
    BY <1>4, <2>1, RulesValid, DispatchedDetector
<1>6. \A i \in DOMAIN ds : Dispatched(ds[i]) \in Scanner!Detector
  BY <1>5
<1>7. [i \in DOMAIN ds |-> Dispatched(ds[i])] \in Seq(Scanner!Detector)
  <2>1. Len(ds) \in Nat /\ DOMAIN ds = 1 .. Len(ds)
    OBVIOUS
  <2> QED
    BY <1>6, <2>1
<1>8. HasEvaluator(<<"uv-lockfile-missing">>) \in BOOLEAN
  BY DEF HasEvaluator
<1> QED
  BY <1>3, <1>7, <1>8 DEF HandedOn, Scanner!Ruleset

LEMMA StartStep ==
  ASSUME StageInv, RuleInv, StartScan
  PROVE  RuleInv'
<1>1. /\ stage = "start" /\ Settled /\ stage' = "scan"
      /\ outcome' \in {"walking", "aborted"} /\ rules' = HandedOn
      /\ UNCHANGED <<command, loaded, composed>>
  BY DEF StartScan, RuleInv, Scanner!Start, HandedOn, run
<1>2. Config' = Config
  BY <1>1 DEF Config, Configs
<1>3. Settled' = Settled /\ HandedOn' = HandedOn /\ Ordered' = Ordered
  BY <1>1, <1>2 DEF Settled, HandedOn, Ordered, HasEvaluator
<1>4. Handed'
  BY <1>1, SettledHanded DEF Handed
<1> QED
  BY <1>1, <1>2, <1>3, <1>4 DEF RuleInv

LEMMA NextRuleInv == StageInv /\ RuleInv /\ [Next]_vars => RuleInv'
<1> SUFFICES ASSUME StageInv, RuleInv, [Next]_vars PROVE RuleInv'
  OBVIOUS
<1>1. CASE UNCHANGED vars
  BY <1>1, Unmoved DEF vars, scan, run
<1>2. CASE ReadArguments
  <2>1. UNCHANGED <<command, loaded, composed, rules, outcome>> /\ stage = "arguments"
    BY <1>2 DEF ReadArguments, scan
  <2>2. Config.verdict \in {"help", "error", "run"}
    BY Verdicts DEF StageInv
  <2>3. stage' = "exited" \/ (stage' = "base" /\ Config.verdict = "run")
    BY <1>2, <2>2 DEF ReadArguments, Proceed, Report, Exit, Continue
  <2> QED
    BY <2>1, <2>3, Unmoved
<1>3. CASE ScanStep \/ OthersEdit
  <2>1. UNCHANGED <<command, loaded, composed, rules, stage>> /\ outcome # "idle" /\ stage = "scan"
    BY <1>3 DEF ScanStep, OthersEdit, run, Scanner!Work, Scanner!Walk, Scanner!Dispatch,
                Scanner!SkipDirectory, Scanner!EnterDirectory, Scanner!FailDirectory, Scanner!SkipFile,
                Scanner!OpenFile, Scanner!Visiting, Scanner!WaitForWriter, Scanner!CollectPyproject, Scanner!Identify,
                Scanner!AskAnalyzer, Scanner!LeaveUnclaimed, Scanner!Asking, Scanner!Analyzing,
                Scanner!Finish, Scanner!Edit
  <2> QED
    BY <2>1, Unmoved
<1>4. CASE EndScan \/ GenerateFiles \/ PrintReport
  BY <1>4, Unmoved DEF EndScan, GenerateFiles, PrintReport, Report, GiveUp, Exit, Continue, scan
<1> QED
  BY <1>1, <1>2, <1>3, <1>4, BaseStep, ExtensionStep, ExclusionStep, StartStep
  DEF Next, Work, Configure

\* The inductive invariant of the rules, and that the scan is handed rules.
LEMMA RulesInvariant == Spec => [](StageInv /\ RuleInv)
BY InitStageInv, NextStageInv, InitRuleInv, NextRuleInv, PTL DEF Spec

-----------------------------------------------------------------------------
(* The scan of a run is a scan.                                            *)

LEMMA ScanNext == [Next]_vars /\ Handed' => [Scanner!Next]_(Scanner!vars)
<1> SUFFICES ASSUME [Next]_vars, Handed' PROVE [Scanner!Next]_(Scanner!vars)
  OBVIOUS
<1>1. CASE UNCHANGED vars
  BY <1>1 DEF vars, scan, Scanner!vars
<1>2. CASE Configure \/ EndScan \/ GenerateFiles \/ PrintReport
  BY <1>2 DEF Configure, ReadArguments, LoadBase, LoadExtension, ExcludeRules, EndScan,
              GenerateFiles, PrintReport, scan, Scanner!vars
<1>3. CASE StartScan
  BY <1>3 DEF StartScan, Handed, Scanner!Next, Scanner!Begin, Scanner!Start
<1>4. CASE ScanStep \/ OthersEdit
  BY <1>4 DEF ScanStep, OthersEdit, Scanner!Next
<1> QED
  BY <1>1, <1>2, <1>3, <1>4 DEF Next, Work

\* Whatever else a run of the program does, what it does to its scan is a
\* behaviour of Scan: no stage before or after disturbs it, and nothing of it
\* happens outside its stage.
THEOREM RunsTheScan == Spec => Scanner!Spec
<1>1. Init => Scanner!Init
  BY DEF Init
<1>2. RuleInv => Handed
  BY DEF RuleInv
<1> QED
  BY <1>1, <1>2, RulesInvariant, ScanNext, PTL DEF Spec, Scanner!Spec

-----------------------------------------------------------------------------
(* What is proved of Scan holds of the scan of a run.                      *)


LEMMA SameState ==
  /\ Scanner!Parameters <=> Scans!Parameters
  /\ Scanner!vars = Scans!vars /\ (Scanner!Init <=> Scans!Init)
<1>1. Scanner!Parameters <=> Scans!Parameters
  BY DEF Scanner!Parameters, Scans!Parameters, Scanner!PathsFormTree, Scans!PathsFormTree,
       Scanner!Chain, Scans!Chain, Scanner!Above, Scans!Above,
       Scanner!Contains, Scans!Contains, Scanner!Entry, Scans!Entry,
       Scanner!Plain, Scans!Plain, Scanner!Regular, Scans!Regular,
       Scanner!Directory, Scans!Directory, Scanner!Special, Scans!Special,
       Scanner!Gone, Scans!Gone, Scanner!Link, Scans!Link
<1>2. Scanner!vars = Scans!vars /\ (Scanner!Init <=> Scans!Init)
  BY DEF Scanner!vars, Scans!vars, Scanner!Init, Scans!Init, Scanner!NoFile, Scans!NoFile
<1> QED
  BY <1>1, <1>2

LEMMA SameWalk == Scanner!Walk <=> Scans!Walk
<1>1. Scanner!SkipDirectory <=> Scans!SkipDirectory
  BY DEF Scanner!SkipDirectory, Scans!SkipDirectory, Scanner!Visiting, Scans!Visiting,
       Scanner!Current, Scans!Current, Scanner!Skipped, Scans!Skipped
<1>2. Scanner!EnterDirectory <=> Scans!EnterDirectory
  BY DEF Scanner!EnterDirectory, Scans!EnterDirectory, Scanner!Visiting, Scans!Visiting,
       Scanner!Current, Scans!Current, Scanner!Skipped, Scans!Skipped,
       Scanner!Directory, Scans!Directory, Scanner!Listing, Scans!Listing,
       Scanner!Listed, Scans!Listed
<1>3. Scanner!FailDirectory <=> Scans!FailDirectory
  BY DEF Scanner!FailDirectory, Scans!FailDirectory, Scanner!Visiting, Scans!Visiting,
       Scanner!Current, Scans!Current, Scanner!Skipped, Scans!Skipped,
       Scanner!Directory, Scans!Directory
<1>4. Scanner!SkipFile <=> Scans!SkipFile
  BY DEF Scanner!SkipFile, Scans!SkipFile, Scanner!Visiting, Scans!Visiting,
       Scanner!Current, Scans!Current, Scanner!Eligible, Scans!Eligible,
       Scanner!Target, Scans!Target
<1>5. Scanner!OpenFile <=> Scans!OpenFile
  BY DEF Scanner!OpenFile, Scans!OpenFile, Scanner!Visiting, Scans!Visiting,
       Scanner!Current, Scans!Current, Scanner!Eligible, Scans!Eligible,
       Scanner!Target, Scans!Target, Scanner!File, Scans!File
<1> QED
  BY <1>1, <1>2, <1>3, <1>4, <1>5 DEF Scanner!Walk, Scans!Walk

LEMMA SameDispatch == Scanner!Dispatch <=> Scans!Dispatch
<1>a. /\ Scanner!Matching = Scans!Matching /\ Scanner!Asked = Scans!Asked
      /\ \A n : Scanner!Target(n) = Scans!Target(n)
  BY DEF Scanner!Matching, Scans!Matching, Scanner!Asked, Scans!Asked,
       Scanner!First, Scans!First, Scanner!Target, Scans!Target
<1>b. Scanner!AtPipe <=> Scans!AtPipe
  BY <1>a DEF Scanner!AtPipe, Scans!AtPipe, Scanner!Reads, Scans!Reads
<1>0. Scanner!WaitForWriter <=> Scans!WaitForWriter
  BY <1>b DEF Scanner!WaitForWriter, Scans!WaitForWriter, Scanner!Analyzing, Scans!Analyzing
<1>1. Scanner!CollectPyproject <=> Scans!CollectPyproject
  BY <1>b DEF Scanner!CollectPyproject, Scans!CollectPyproject,
       Scanner!Analyzing, Scans!Analyzing, Scanner!Collected, Scans!Collected,
       Scanner!Read, Scans!Read, Scanner!Target, Scans!Target
<1>2. Scanner!Identify <=> Scans!Identify
  BY <1>b DEF Scanner!Identify, Scans!Identify, Scanner!Asking, Scans!Asking,
       Scanner!Analyzing, Scans!Analyzing, Scanner!Matching, Scans!Matching,
       Scanner!Asked, Scans!Asked, Scanner!First, Scans!First, Scanner!Read, Scans!Read,
       Scanner!Target, Scans!Target, Scanner!Claim, Scans!Claim,
       Scanner!Source, Scans!Source, Scanner!Close, Scans!Close,
       Scanner!NoFile, Scans!NoFile
<1>3. Scanner!AskAnalyzer <=> Scans!AskAnalyzer
  BY <1>b DEF Scanner!AskAnalyzer, Scans!AskAnalyzer, Scanner!Asking, Scans!Asking,
       Scanner!Analyzing, Scans!Analyzing, Scanner!Matching, Scans!Matching,
       Scanner!Asked, Scans!Asked, Scanner!First, Scans!First, Scanner!Read, Scans!Read,
       Scanner!Target, Scans!Target, Scanner!Claim, Scans!Claim,
       Scanner!ClaimFailed, Scans!ClaimFailed, Scanner!Source, Scans!Source,
       Scanner!Close, Scans!Close, Scanner!NoFile, Scans!NoFile
<1>4. Scanner!LeaveUnclaimed <=> Scans!LeaveUnclaimed
  BY DEF Scanner!LeaveUnclaimed, Scans!LeaveUnclaimed, Scanner!Analyzing, Scans!Analyzing,
       Scanner!Matching, Scans!Matching, Scanner!Close, Scans!Close,
       Scanner!NoFile, Scans!NoFile
<1> QED
  BY <1>0, <1>1, <1>2, <1>3, <1>4 DEF Scanner!Dispatch, Scans!Dispatch

LEMMA SameScan == Scanner!Spec => Scans!Spec
<1>1. Scanner!Begin <=> Scans!Begin
  BY DEF Scanner!Begin, Scans!Begin, Scanner!Start, Scans!Start,
       Scanner!Ruleset, Scans!Ruleset, Scanner!Detector, Scans!Detector,
       Scanner!Verdicts, Scans!Verdicts, Scanner!Listed, Scans!Listed,
       Scanner!Target, Scans!Target
<1>2. Scanner!Finish <=> Scans!Finish
  BY DEF Scanner!Finish, Scans!Finish
<1>3. Scanner!Edit <=> Scans!Edit
  BY DEF Scanner!Edit, Scans!Edit, Scanner!Above, Scans!Above, Scanner!Contains, Scans!Contains,
       Scanner!Gone, Scans!Gone, Scanner!Cardinality, Scans!Cardinality
<1>4. [Scanner!Next]_(Scanner!vars) => [Scans!Next]_(Scans!vars)
  BY <1>1, <1>2, <1>3, SameWalk, SameDispatch
  DEF Scanner!vars, Scans!vars, Scanner!Next, Scans!Next, Scanner!Work, Scans!Work
<1> QED
  BY <1>4, SameState, PTL DEF Scanner!Spec, Scans!Spec

\* In a run of the program, whatever its rules and however others change the
\* tree: a scan that succeeds reports each file that they leave alone, once,
\* for the first detector that claims it.
THEOREM FilesReported == Spec => []UndisturbedFilesReported
<1>1. Scans!UndisturbedFilesReported => UndisturbedFilesReported
  BY DEF UndisturbedFilesReported,
         Scanner!UndisturbedFilesReported, Scans!UndisturbedFilesReported,
         Scanner!Undisturbed, Scans!Undisturbed, Scanner!Above, Scans!Above,
         Scanner!Contains, Scans!Contains, Scanner!Reported, Scans!Reported,
         Scanner!Expected, Scans!Expected, Scanner!Visible, Scans!Visible,
         Scanner!Skipped, Scans!Skipped,
         Scanner!Claiming, Scans!Claiming, Scanner!StateBy, Scans!StateBy,
         Scanner!Eligible, Scans!Eligible, Scanner!Listed, Scans!Listed,
         Scanner!Target, Scans!Target, Scanner!Read, Scans!Read
<1>2. Scans!Spec => []Scans!UndisturbedFilesReported
  BY DeplensAssumption, SameState, Scans!FilesReported
<1> QED
  BY <1>1, <1>2, RunsTheScan, SameScan, PTL

\* In a run of the program the checks are given no other bytes of a file than
\* its analysis went by, however often it changes.
THEOREM BytesAgree == Spec => []ChecksSeeAnalyzedBytes
<1>1. Scans!ChecksSeeAnalyzedBytes => ChecksSeeAnalyzedBytes
  BY DEF ChecksSeeAnalyzedBytes, Scanner!ChecksSeeAnalyzedBytes, Scans!ChecksSeeAnalyzedBytes
<1>2. Scans!Spec => []Scans!ChecksSeeAnalyzedBytes
  BY DeplensAssumption, SameState, Scans!BytesAgree
<1> QED
  BY <1>1, <1>2, RunsTheScan, SameScan, PTL

\* In a run of the program no file ends the scan, whatever it holds and however
\* others change it.
THEOREM FilesHarmless == Spec => []FilesNeverAbort
<1>1. Scans!Unlistable(Scans!Current) => Scanner!Unlistable(Scanner!Current)
  BY DEF Scanner!Unlistable, Scans!Unlistable, Scanner!Current, Scans!Current,
         Scanner!Skipped, Scans!Skipped, Scanner!Directory, Scans!Directory,
         Scanner!Undisturbed, Scans!Undisturbed, Scanner!Above, Scans!Above,
         Scanner!Contains, Scans!Contains
<1>2. Scans!Broken(file.node) => Scanner!Broken(file.node)
  BY DEF Scanner!Broken, Scans!Broken, Scanner!Breaks, Scans!Breaks,
         Scanner!Undisturbed, Scans!Undisturbed, Scanner!Above, Scans!Above,
         Scanner!Contains, Scans!Contains, Scanner!Claiming, Scans!Claiming,
         Scanner!Read, Scans!Read, Scanner!Target, Scans!Target
<1>3. Scans!FilesNeverAbort => FilesNeverAbort
  <2>1. Scans!Waiting => Scanner!Waiting
    BY DEF Scanner!Waiting, Scans!Waiting, Scanner!Undisturbed, Scans!Undisturbed,
           Scanner!Above, Scans!Above, Scanner!Contains, Scans!Contains
  <2>2. Scanner!Target(Root) = Scans!Target(Root)
    BY DEF Scanner!Target, Scans!Target
  <2> QED
    BY <1>1, <1>2, <2>1, <2>2 DEF FilesNeverAbort, Scanner!FilesNeverAbort, Scans!FilesNeverAbort
<1>4. Scans!Spec => []Scans!FilesNeverAbort
  BY DeplensAssumption, SameState, Scans!FilesHarmless
<1> QED
  BY <1>3, <1>4, RunsTheScan, SameScan, PTL

-----------------------------------------------------------------------------
(* The rules in force, and the types.                                      *)

LEMMA PlaceOfRule ==
  ASSUME Joinable(Config, Len(Config.extensions)),
         NEW p \in PlacesIn(Config, Len(Config.extensions), "rules"), NEW id,
         Definition(Config, p, "rules").id = id
  PROVE  PlaceOf(id, "rules") = p
<1>1. "rules" \in Fields
  BY DEF Fields
<1>2. \A q \in Places("rules") : Definition(Config, q, "rules").id = id => q = p
  BY <1>1 DEF Joinable, Places
<1>3. p \in Places("rules")
  BY DEF Places
<1> QED
  BY <1>2, <1>3 DEF PlaceOf

LEMMA DetectorsSettled ==
  ASSUME StageInv, RuleInv, Settled, rules = HandedOn
  PROVE  DetectorsInForce
<1> DEFINE n == Len(Config.extensions)
<1>1. n \in Nat /\ loaded = n
  BY ExtensionCount DEF Settled, StageInv
<1>2. /\ Joinable(Config, n)
      /\ composed.detectors \in Seq(Detectors(Config, n)) /\ InOrder(composed.detectors, Config, n)
      /\ IDs(composed.detectors) = DefinedIDs(Config, n, "rules") \ RemovedBy(Config)
  BY <1>1 DEF Settled, Holds
<1>3. rules.detectors = [i \in DOMAIN composed.detectors |-> Dispatched(composed.detectors[i])]
  BY DEF HandedOn
<1>4. IDs(composed.detectors) = Defined("rules") \ Excluded("rules")
  BY <1>2 DEF Defined, Excluded, RemovedBy
<1>5. /\ DOMAIN composed.detectors = 1 .. Len(composed.detectors) /\ Len(composed.detectors) \in Nat
      /\ \A i \in DOMAIN composed.detectors : composed.detectors[i] \in Detectors(Config, n)
  BY <1>2
<1>6. Len(rules.detectors) = Len(composed.detectors)
  BY <1>3, <1>5
<1>7. ASSUME NEW i \in DOMAIN composed.detectors
      PROVE  LET place == PlaceOf(composed.detectors[i].id, "rules")
             IN  /\ place \in PlacesIn(Config, n, "rules")
                 /\ composed.detectors[i] = Detector(Definition(Config, place, "rules"))
                 /\ composed.detectors[i].id = Definition(Config, place, "rules").id
  <2>1. PICK p \in PlacesIn(Config, n, "rules") :
          composed.detectors[i] = Detector(Definition(Config, p, "rules"))
    BY <1>5 DEF Detectors
  <2>2. composed.detectors[i].id = Definition(Config, p, "rules").id
    BY <2>1 DEF Detector
  <2>3. PlaceOf(composed.detectors[i].id, "rules") = p
    BY <1>2, <2>2, PlaceOfRule
  <2> QED
    BY <2>1, <2>2, <2>3
<1>8. ASSUME NEW i \in DOMAIN composed.detectors, NEW rule,
             rule = Definition(Config, PlaceOf(composed.detectors[i].id, "rules"), "rules")
      PROVE  rules.detectors[i].matches =
               {m \in Nodes : /\ rule.regex # <<>> => m \in RegexMatches[rule.regex]
                              /\ rule.glob # <<>> => m \in GlobMatches[rule.glob]}
  <2>1. ValidRule(rule)
    BY <1>1, <1>2, <1>7, <1>8, RulesValid
  <2>2. rules.detectors[i] = Dispatched(Detector(rule))
    BY <1>3, <1>7, <1>8
  <2>3. rules.detectors[i].matches = Matches(Detector(rule))
    BY <2>2 DEF Dispatched
  <2> QED
    BY <2>1, <2>3, MatchesOfRule
<1>9. ASSUME NEW i \in DOMAIN composed.detectors, NEW j \in 1 .. (i - 1)
      PROVE  Precedes(PlaceOf(composed.detectors[j].id, "rules"), PlaceOf(composed.detectors[i].id, "rules"))
  <2>1. j \in DOMAIN composed.detectors /\ j < i
    BY <1>5
  <2> QED
    BY <1>2, <1>7, <2>1 DEF InOrder
<1> QED
  BY <1>4, <1>6, <1>8, <1>9 DEF DetectorsInForce

LEMMA ChecksSettled ==
  ASSUME StageInv, RuleInv, Settled
  PROVE  ChecksInForce
<1> DEFINE n == Len(Config.extensions)
<1>1. n \in Nat /\ loaded = n
  BY ExtensionCount DEF Settled, StageInv
<1>2. /\ composed.checks \in Seq(Checks(Config, n)) /\ Sorted(composed.checks)
      /\ IDs(composed.checks) = DefinedIDs(Config, n, "checks") \ Config.checks
  BY <1>1 DEF Settled, Holds
<1>3. IDs(composed.checks) = Defined("checks") \ Excluded("checks")
  BY <1>2 DEF Defined, Excluded
<1>4. ASSUME NEW i \in DOMAIN composed.checks, NEW j \in 1 .. (i - 1)
      PROVE  Position(composed.checks[j].id) < Position(composed.checks[i].id)
  <2>1. j \in DOMAIN composed.checks /\ j < i
    BY <1>2
  <2> QED
    BY <1>2, <2>1 DEF Sorted
<1> QED
  BY <1>3, <1>4 DEF ChecksInForce

\* Whatever documents a command extends and excludes, in whatever order they
\* define their rules: a scan goes by exactly the detectors that are defined
\* and not excluded, in the order of their definitions, by exactly the checks
\* that are left, in the order of their identifiers, and knows what was taken
\* away.
THEOREM RulesTakeForce == Spec => []RulesInForce
<1>1. StageInv /\ RuleInv => RulesInForce
  <2> SUFFICES ASSUME StageInv, RuleInv, outcome # "idle"
               PROVE  /\ DetectorsInForce /\ ChecksInForce
                      /\ IDs(composed.disabled) = Defined("rules") \cap Excluded("rules")
    BY DEF RulesInForce
  <2>1. Settled /\ rules = HandedOn
    BY DEF RuleInv
  <2>2. IDs(composed.disabled) = Defined("rules") \cap Excluded("rules")
    BY <2>1 DEF Settled, Defined, Excluded, RemovedBy
  <2> QED
    BY <2>1, <2>2, DetectorsSettled, ChecksSettled
<1> QED
  BY <1>1, RulesInvariant, PTL

\* A fault in the arguments, in any document, between two documents or in an
\* exclusion keeps a command from its scan.
FaultlessRules ==
  outcome # "idle" =>
    /\ Config.verdict = "run"
    /\ \A k \in 0 .. Len(Config.extensions) : Loads(Config, k)
    /\ \A f \in Fields : \A p, q \in Places(f) :
         Definition(Config, p, f).id = Definition(Config, q, f).id => p = q
    /\ KnownIn(Config, Len(Config.extensions))
THEOREM FaultsPreventScan == Spec => []FaultlessRules
<1>1. RuleInv => FaultlessRules
  BY DEF RuleInv, Settled, Joinable, Places, FaultlessRules
<1> QED
  BY <1>1, RulesInvariant, PTL

\* What is written and printed.
OutputInv == /\ generated \subseteq Nodes
             /\ printed \in {"nothing", "usage", "report"} /\ status \in 0 .. 2

LEMMA NextOutputInv == StageInv /\ Scanner!TypeOK /\ OutputInv /\ [Next]_vars => OutputInv'
<1> SUFFICES ASSUME StageInv, Scanner!TypeOK, OutputInv, [Next]_vars PROVE OutputInv'
  OBVIOUS
<1>1. CASE UNCHANGED vars \/ StartScan \/ ScanStep \/ OthersEdit
  BY <1>1 DEF OutputInv, vars, run, StartScan, ScanStep, OthersEdit
<1>2. CASE Configure \/ EndScan \/ PrintReport
  <2>1. generated' = generated
    BY <1>2 DEF Configure, ReadArguments, LoadBase, LoadExtension, ExcludeRules, EndScan, PrintReport
  <2>2. printed' \in {"usage", "report"} \/ printed' = printed
    <3>1. Config.verdict \in {"help", "error", "run"}
      BY Verdicts DEF StageInv
    <3> QED
      BY <1>2, <3>1 DEF Configure, ReadArguments, Proceed, LoadBase, LoadExtension, ExcludeRules,
                        EndScan, PrintReport, Report, Continue, Exit
  <2>3. status' \in {0, 1, 2} \/ status' = status
    <3>1. Config.verdict \in {"help", "error", "run"}
      BY Verdicts DEF StageInv
    <3> QED
      BY <1>2, <3>1 DEF Configure, ReadArguments, Proceed, LoadBase, TakeBase, LoadExtension,
                        TakeExtension, ExcludeRules, TakeAway, EndScan, PrintReport,
                        Report, Continue, Exit
  <2>4. printed' \in {"nothing", "usage", "report"}
    BY <2>2 DEF OutputInv
  <2>5. status' \in 0 .. 2
    BY <2>3 DEF OutputInv
  <2> QED
    BY <2>1, <2>4, <2>5 DEF OutputInv
<1>3. CASE GenerateFiles
  <2>1. Selected("files") \subseteq Nodes
    BY DEF Selected, Scanner!TypeOK
  <2>2. generated' \subseteq Nodes
    BY <1>3, <2>1 DEF OutputInv, GenerateFiles
  <2> QED
    BY <1>3, <2>2 DEF OutputInv, GenerateFiles, GiveUp, Exit, Continue
<1> QED
  BY <1>1, <1>2, <1>3 DEF Next, Work

\* The types of a run, whatever it reads.
THEOREM TypeCorrect == Spec => []TypeOK
<1>1. Scans!TypeOK => Scanner!TypeOK
  BY DEF Scanner!TypeOK, Scans!TypeOK, Scanner!Entry, Scans!Entry, Scanner!Plain, Scans!Plain,
         Scanner!Regular, Scans!Regular, Scanner!Directory, Scans!Directory, Scanner!Special,
         Scans!Special, Scanner!Gone, Scans!Gone, Scanner!Link, Scans!Link, Scanner!Ruleset,
         Scans!Ruleset, Scanner!Detector, Scans!Detector, Scanner!Verdicts, Scans!Verdicts,
         Scanner!Place, Scans!Place, Scanner!NoFile, Scans!NoFile,
         Scanner!FoundContent, Scans!FoundContent
<1>2. Scans!Spec => []Scans!TypeOK
  BY DeplensAssumption, SameState, Scans!TypeCorrect
<1>3. Init => OutputInv
  BY DEF Init, OutputInv
<1>4. StageInv /\ RuleInv /\ Scanner!TypeOK /\ OutputInv => TypeOK
  BY DEF StageInv, RuleInv, Ordered, OutputInv, TypeOK
<1> QED
  BY <1>1, <1>2, <1>3, <1>4, NextOutputInv, RulesInvariant, RunsTheScan, SameScan, PTL DEF Spec
=============================================================================
