----------------------------- MODULE ScanProofs -----------------------------
(***************************************************************************)
(* Theorems about the walk and the dispatch, for every tree of paths, any  *)
(* rules, and any number of changes by others.                             *)
(***************************************************************************)
EXTENDS Scan, WellFoundedInduction, TLAPS

\* Where the walk stands: what it has still to visit is neither visited nor
\* part of anything else that it has still to visit, and under no ignored
\* directory.
Allowed(n) == \A d \in Above[n] : ~ Skipped(d)
WalkInv ==
  /\ \A i, j \in DOMAIN pending : i # j => pending[i].node \notin Chain(pending[j].node)
  /\ \A i \in DOMAIN pending, m \in discovered : pending[i].node \notin Chain(m)
  /\ \A i \in DOMAIN pending : Allowed(pending[i].node)
  /\ \A m \in discovered : Allowed(m)
  /\ outcome = "idle" => /\ pending = <<>> /\ file = NoFile /\ discovered = {}
                         /\ policyInputs = {} /\ sources = {} /\ touched = {}
  /\ outcome = "done" => pending = <<>> /\ file = NoFile

\* What was listed of paths that nobody touched is still so, and every file
\* among them has been discovered or lies ahead.
StillTrue(place) ==
  place.node \in Undisturbed =>
    /\ place.type = tree[place.node].type
    /\ \A d \in Above[place.node] : tree[d].type = "directory"
TreeInv ==
  /\ \A i \in DOMAIN pending : StillTrue(pending[i])
  /\ \A m \in discovered \cap Undisturbed : m \in Visible
  /\ outcome \in {"walking", "done"} =>
       \A n \in Undisturbed \cap Visible :
         n \in discovered \/ \E i \in DOMAIN pending : pending[i].node \in Chain(n)

\* What is known of the file under analysis.
FileInv ==
  /\ \A s \in sources : s.path \in discovered
  /\ \A p \in policyInputs : p.path \in discovered
  /\ file.open =>
       /\ file.node \in discovered
       /\ \A s \in sources : s.path # file.node
       /\ \A p \in policyInputs : p.path = file.node =>
            ~ file.collect /\ p.content \in {Unreadable, file.content}

\* Detectors that were asked did not claim it, and what has been discovered
\* before is reported.
ReportInv ==
  /\ file.open /\ file.node \in Undisturbed =>
       /\ file.content \in {Unreadable, Read(file.node)}
       /\ \A i \in Claiming(file.node) : file.from <= i
  /\ outcome \in {"walking", "done"} =>
       \A n \in discovered \cap Undisturbed :
         (file.open => n # file.node) => Reported(n) = Expected(n)

IInv == TypeOK /\ WalkInv /\ TreeInv /\ FileInv /\ ChecksSeeAnalyzedBytes /\ ReportInv

-----------------------------------------------------------------------------
(* Paths, lists and numbers.                                               *)

LEMMA Smallest ==
  ASSUME NEW S \in SUBSET Nat, S # {}
  PROVE  \E i \in S : \A j \in S : i <= j
<1>1. PICK i \in S : \A j \in S : ~ (<<j, i>> \in OpToRel(<, Nat))
  BY NatLessThanWellFounded, WFMin
<1>2. \A j \in S : ~ (j < i)
  BY <1>1 DEF OpToRel
<1> QED
  BY <1>2

\* The first entry of a list, and the others.
LEMMA HeadAndTail ==
  ASSUME NEW T, NEW s \in Seq(T), s # <<>>
  PROVE  /\ 1 \in DOMAIN s /\ Head(s) = s[1] /\ Tail(s) \in Seq(T)
         /\ \A i \in DOMAIN Tail(s) : i + 1 \in DOMAIN s /\ i + 1 # 1 /\ Tail(s)[i] = s[i + 1]
         /\ \A i \in DOMAIN s : i = 1 \/ (i - 1 \in DOMAIN Tail(s) /\ Tail(s)[i - 1] = s[i])
OBVIOUS

LEMMA Joined ==
  ASSUME NEW T, NEW s \in Seq(T), NEW t \in Seq(T)
  PROVE  /\ s \o t \in Seq(T)
         /\ \A i \in DOMAIN (s \o t) : \/ i \in DOMAIN s /\ (s \o t)[i] = s[i]
                                     \/ /\ i \notin DOMAIN s
                                        /\ i - Len(s) \in DOMAIN t /\ (s \o t)[i] = t[i - Len(s)]
         /\ \A i \in DOMAIN s : i \in DOMAIN (s \o t) /\ (s \o t)[i] = s[i]
         /\ \A i \in DOMAIN t : i + Len(s) \in DOMAIN (s \o t) /\ (s \o t)[i + Len(s)] = t[i]
OBVIOUS

\* What lies in a directory is unrelated to the rest of it, and to everything
\* that the directory is unrelated to.
LEMMA Inside ==
  ASSUME Parameters, NEW d \in Nodes, NEW n \in Nodes, Contains(d, n)
  PROVE  /\ d # n /\ n # Root /\ Above[n] = Chain(d)
         /\ \A m \in Nodes : d \notin Chain(m) => n \notin Chain(m)
         /\ \A m \in Nodes : Contains(d, m) /\ m # n => n \notin Chain(m)
<1>1. Above[n] = Chain(d) /\ n \notin Above[n] /\ d \in Chain(d)
  BY DEF Parameters, PathsFormTree, Chain
<1>2. n # Root
  BY <1>1 DEF Parameters, PathsFormTree, Chain
<1>3. ASSUME NEW m \in Nodes, n \in Chain(m)
      PROVE  d \in Chain(m)
  BY <1>1, <1>3 DEF Parameters, PathsFormTree, Chain
<1>4. ASSUME NEW m \in Nodes, Contains(d, m), m # n
      PROVE  n \notin Chain(m)
  BY <1>1, <1>4 DEF Parameters, PathsFormTree, Chain
<1> QED
  BY <1>1, <1>2, <1>3, <1>4

\* A path leads through directories that lie above it as a whole.
LEMMA Upwards ==
  ASSUME Parameters, NEW n \in Nodes, NEW d \in Chain(n)
  PROVE  /\ d \in Nodes /\ Chain(d) \subseteq Chain(n)
         /\ d # n => \E c \in Chain(n) : c \in Nodes /\ Contains(d, c)
BY DEF Parameters, PathsFormTree, Chain
-----------------------------------------------------------------------------
(* What the steps leave alone.                                             *)

LEMMA SameView ==
  ASSUME tree' = tree, rules' = rules
  PROVE  /\ Visible' = Visible
         /\ \A n \in Nodes : /\ Read(n)' = Read(n) /\ Claiming(n)' = Claiming(n)
                             /\ Expected(n)' = Expected(n) /\ Allowed(n)' = Allowed(n)
<1>1. Visible' = Visible
  BY DEF Visible, Eligible, Target, Skipped
<1>2. ASSUME NEW n \in Nodes
      PROVE  Read(n)' = Read(n) /\ Claiming(n)' = Claiming(n) /\ Allowed(n)' = Allowed(n)
  BY DEF Read, Target, Claiming, Allowed, Skipped
<1> QED
  BY <1>1, <1>2 DEF Expected

\* A step of the dispatch.
LEMMA SameWalk ==
  ASSUME WalkInv, TreeInv, Analyzing, outcome' \in {"walking", "waiting", "aborted", "crashed"},
         UNCHANGED <<tree, rules, touched, pending, discovered>>
  PROVE  WalkInv' /\ TreeInv'
<1>1. Undisturbed' = Undisturbed /\ Visible' = Visible
  BY SameView DEF Undisturbed
<1>2. WalkInv'
  BY DEF WalkInv, Allowed, Skipped, Analyzing
<1>3. TreeInv'
  BY <1>1 DEF TreeInv, StillTrue, Analyzing
<1> QED
  BY <1>2, <1>3

\* A step of the walk that opens no file.
LEMMA SameReports ==
  ASSUME FileInv, ChecksSeeAnalyzedBytes, ReportInv, discovered \subseteq Nodes,
         Visiting, outcome' \in {"walking", "aborted"},
         UNCHANGED <<tree, rules, touched, file, discovered, policyInputs, sources>>
  PROVE  FileInv' /\ ChecksSeeAnalyzedBytes' /\ ReportInv'
<1>1. Undisturbed' = Undisturbed /\ \A n \in Nodes : Expected(n)' = Expected(n)
  BY SameView DEF Undisturbed
<1>2. \A n \in Nodes : Reported(n)' = Reported(n)
  BY DEF Reported
<1>3. ~ file.open /\ outcome = "walking"
  BY DEF Visiting
<1>4. FileInv' /\ ChecksSeeAnalyzedBytes'
  BY DEF FileInv, ChecksSeeAnalyzedBytes
<1>5. ReportInv'
  BY <1>1, <1>2, <1>3 DEF ReportInv
<1> QED
  BY <1>4, <1>5

\* The entry that is visited, and what lies ahead when it has been.
LEMMA Ahead ==
  ASSUME TypeOK, Visiting
  PROVE  /\ 1 \in DOMAIN pending /\ Current = pending[1]
         /\ Current.node \in Nodes
         /\ \A i \in DOMAIN Tail(pending) :
              /\ i + 1 \in DOMAIN pending /\ i + 1 # 1 /\ Tail(pending)[i] = pending[i + 1]
         /\ \A i \in DOMAIN pending :
              i = 1 \/ (i - 1 \in DOMAIN Tail(pending) /\ Tail(pending)[i - 1] = pending[i])
         /\ Tail(pending) \in Seq(Place)
<1>1. pending \in Seq(Place) /\ pending # <<>>
  BY DEF TypeOK, Visiting
<1>2. pending[1] \in Place
  BY <1>1
<1>3. pending[1].node \in Nodes
  BY <1>2 DEF Place
<1> QED
  BY <1>1, <1>3, HeadAndTail DEF Current

-----------------------------------------------------------------------------
(* The steps.                                                              *)

LEMMA InitIInv == ASSUME Parameters, Init PROVE IInv
<1>1. TypeOK
  BY DEF Init, Parameters, TypeOK, Ruleset, FoundContent
<1>2. WalkInv /\ FileInv /\ ChecksSeeAnalyzedBytes /\ ReportInv
  BY DEF Init, WalkInv, FileInv, ChecksSeeAnalyzedBytes, ReportInv, NoFile
<1>3. TreeInv
  BY DEF Init, Parameters, TreeInv
<1> QED
  BY <1>1, <1>2, <1>3 DEF IInv

LEMMA EntryTypes ==
  \A e \in Entry : e.type \in {"directory", "regular", "symlink", "special", "gone"}
<1>1. \A e \in Plain : e.type \in {"directory", "regular", "special", "gone"}
  BY DEF Plain, Directory, Regular, Special, Gone
<1> QED
  BY <1>1 DEF Entry, Link

LEMMA BeginStep == ASSUME Parameters, IInv, Begin PROVE IInv'
<1> USE DEF Begin, Start
<1> DEFINE place == [node |-> Root, type |-> tree[Root].type]
<1>1. pending' \in {<<>>, <<place>>} /\ (outcome' # "aborted" => pending' = <<place>>)
  BY DEF Listed, IInv, WalkInv
<1>2. /\ discovered = {} /\ policyInputs = {} /\ sources = {} /\ touched = {}
      /\ file = NoFile /\ ~ file.open
  BY DEF IInv, WalkInv, NoFile
<1>3. TypeOK'
  <2>1. pending' \in Seq(Place)
    <3>1. place \in Place
      BY EntryTypes DEF Parameters, Place, IInv, TypeOK
    <3>2. <<>> \in Seq(Place) /\ <<place>> \in Seq(Place)
      BY <3>1
    <3> QED
      BY <1>1, <3>2
  <2>2. tree' \in [Nodes -> Entry] /\ rules' \in Ruleset
    BY DEF IInv, TypeOK
  <2> QED
    BY <1>2, <2>1, <2>2 DEF TypeOK
<1>4. WalkInv'
  BY <1>1, <1>2 DEF WalkInv, Parameters, Allowed, PathsFormTree, Chain
<1>5. TreeInv'
  <2>1. Above[Root] = {}
    BY DEF Parameters, PathsFormTree, Chain
  <2>2. \A i \in DOMAIN pending' : pending'[i] = place
    BY <1>1
  <2>3. outcome' # "aborted" => 1 \in DOMAIN pending' /\ pending'[1].node = Root
    BY <1>1
  <2>4. \A n \in Undisturbed' \cap Visible' : n \in Nodes /\ Root \in Chain(n)
    BY DEF Undisturbed, Parameters, PathsFormTree
  <2> QED
    BY <1>2, <2>1, <2>2, <2>3, <2>4 DEF TreeInv, StillTrue
<1>6. FileInv' /\ ChecksSeeAnalyzedBytes' /\ ReportInv'
  BY <1>2 DEF FileInv, ChecksSeeAnalyzedBytes, ReportInv
<1> QED
  BY <1>3, <1>4, <1>5, <1>6 DEF IInv

\* Nothing that is to be reported is lost with the entry that is left behind.
LEMMA LeaveBehind ==
  ASSUME Parameters, IInv, Visiting, pending' = Tail(pending), outcome' = outcome,
         UNCHANGED <<tree, rules, touched, file, discovered, policyInputs, sources>>,
         \A n \in Undisturbed \cap Visible : Current.node \notin Chain(n)
  PROVE  IInv'
<1>1. TypeOK'
  BY Ahead DEF IInv, TypeOK
<1>2. WalkInv'
  BY Ahead DEF IInv, WalkInv, Allowed, Skipped, Visiting
<1>3. Undisturbed' = Undisturbed /\ Visible' = Visible
  BY SameView DEF Undisturbed
<1>4. TreeInv'
  <2>1. \A i \in DOMAIN pending' : i + 1 \in DOMAIN pending /\ pending'[i] = pending[i + 1]
    BY Ahead DEF IInv
  <2>2. \A i \in DOMAIN pending' : StillTrue(pending'[i])
    BY <2>1 DEF IInv, TreeInv
  <2>3. ASSUME outcome \in {"walking", "done"}, NEW n \in Undisturbed \cap Visible, n \notin discovered
        PROVE  \E i \in DOMAIN pending' : pending'[i].node \in Chain(n)
    <3>1. PICK i \in DOMAIN pending : pending[i].node \in Chain(n)
      BY <2>3 DEF IInv, TreeInv
    <3>2. i # 1 /\ i - 1 \in DOMAIN pending' /\ pending'[i - 1] = pending[i]
      BY <3>1, Ahead DEF IInv
    <3> QED
      BY <3>1, <3>2
  <2>4. \A m \in discovered \cap Undisturbed : m \in Visible
    BY DEF IInv, TreeInv
  <2> QED
    BY <1>3, <2>2, <2>3, <2>4 DEF TreeInv, StillTrue
<1>5. FileInv' /\ ChecksSeeAnalyzedBytes' /\ ReportInv'
  BY SameReports DEF IInv, TypeOK, Visiting
<1> QED
  BY <1>1, <1>2, <1>4, <1>5 DEF IInv

\* What is listed of a path that nobody touched is what stands there; and of a
\* file that is to be visited the path leads through directories.
LEMMA EntryIsTrue ==
  ASSUME Parameters, IInv, Visiting, NEW n \in Undisturbed \cap Visible, Current.node \in Chain(n)
  PROVE  /\ Current.node = n => Current.type # "directory" /\ Eligible(Current)
         /\ Current.node # n => Current.type = "directory" /\ ~ Skipped(Current.node)
<1> DEFINE d == Current.node
<1>1. d \in Nodes /\ n \in Nodes /\ Current = pending[1] /\ 1 \in DOMAIN pending
  BY Ahead DEF IInv, Undisturbed
<1>2. d \in Undisturbed
  BY <1>1, Upwards DEF Undisturbed, Chain
<1>3. Current.type = tree[d].type
  BY <1>1, <1>2 DEF IInv, TreeInv, StillTrue
<1>4. /\ Eligible(Listed(n, tree[n].type))
      /\ \A e \in Above[n] : tree[e].type = "directory" /\ ~ Skipped(e)
  BY DEF Visible
<1>5. CASE d = n
  BY <1>3, <1>4, <1>5 DEF Eligible, Listed
<1>6. CASE d # n
  <2>1. d \in Above[n]
    BY <1>6 DEF Chain
  <2> QED
    BY <1>3, <1>4, <1>6, <2>1
<1> QED
  BY <1>5, <1>6

LEMMA SkipDirectoryStep == ASSUME Parameters, IInv, SkipDirectory PROVE IInv'
<1>1. ASSUME NEW n \in Undisturbed \cap Visible, Current.node \in Chain(n)
      PROVE  FALSE
  BY <1>1, EntryIsTrue DEF SkipDirectory, Skipped, Eligible
<1> QED
  BY <1>1, LeaveBehind DEF SkipDirectory

LEMMA SkipFileStep == ASSUME Parameters, IInv, SkipFile PROVE IInv'
<1>1. ASSUME NEW n \in Undisturbed \cap Visible, Current.node \in Chain(n)
      PROVE  FALSE
  BY <1>1, EntryIsTrue DEF SkipFile
<1> QED
  BY <1>1, LeaveBehind DEF SkipFile

LEMMA FailDirectoryStep == ASSUME Parameters, IInv, FailDirectory PROVE IInv'
<1> USE DEF FailDirectory
<1>1. TypeOK'
  BY DEF IInv, TypeOK
<1>2. WalkInv'
  BY DEF IInv, WalkInv, Allowed, Skipped
<1>3. Undisturbed' = Undisturbed /\ Visible' = Visible
  BY SameView DEF Undisturbed
<1>4. TreeInv'
  BY <1>3 DEF IInv, TreeInv, StillTrue
<1>5. FileInv' /\ ChecksSeeAnalyzedBytes' /\ ReportInv'
  BY SameReports DEF IInv, TypeOK
<1> QED
  BY <1>1, <1>2, <1>4, <1>5 DEF IInv

LEMMA OpenFileStep == ASSUME Parameters, IInv, OpenFile PROVE IInv'
<1> USE DEF OpenFile
<1> DEFINE n == Current.node
<1>1. /\ n \in Nodes /\ Current = pending[1] /\ 1 \in DOMAIN pending
      /\ outcome = "walking" /\ ~ file.open /\ Eligible(Current)
      /\ discovered' = discovered \cup {n}
  BY Ahead DEF IInv, Visiting
<1>2. /\ file'.node = n /\ file'.open /\ file'.from = 1 /\ file'.content = Unreadable
      /\ file'.collect \in BOOLEAN
  BY DEF File
<1>4. n \notin discovered
  BY <1>1 DEF IInv, WalkInv, Chain
<1>5. TypeOK'
  <2>1. Len(rules.detectors) \in Nat
    BY DEF IInv, TypeOK, Ruleset
  <2>2. file' \in [node : Nodes, open : {TRUE}, collect : BOOLEAN,
                   from : 1 .. (Len(rules.detectors) + 1), content : FoundContent]
    BY <1>1, <2>1 DEF File, FoundContent
  <2>3. Tail(pending) \in Seq(Place)
    BY Ahead DEF IInv
  <2> QED
    BY <1>1, <2>2, <2>3 DEF IInv, TypeOK
<1>6. WalkInv'
  <2>1. \A i \in DOMAIN pending' :
          /\ i + 1 \in DOMAIN pending /\ i + 1 # 1 /\ pending'[i] = pending[i + 1]
          /\ pending'[i].node \notin Chain(n)
    BY <1>1, Ahead DEF IInv, WalkInv
  <2>2. Allowed(n)
    BY <1>1 DEF IInv, WalkInv
  <2> QED
    BY <1>1, <2>1, <2>2 DEF IInv, WalkInv, Allowed, Skipped
<1>7. /\ Undisturbed' = Undisturbed /\ Visible' = Visible
      /\ \A m \in Nodes : Claiming(m)' = Claiming(m) /\ Expected(m)' = Expected(m)
      /\ \A m \in Nodes : Reported(m)' = Reported(m)
  BY SameView DEF Undisturbed, Reported
<1>8. n \in Undisturbed => n \in Visible
  <2>1. n \in Undisturbed => /\ Current.type = tree[n].type
                             /\ \A d \in Above[n] : tree[d].type = "directory"
    BY <1>1 DEF IInv, TreeInv, StillTrue
  <2>2. \A d \in Above[n] : ~ Skipped(d)
    BY <1>1 DEF IInv, WalkInv, Allowed
  <2> QED
    BY <1>1, <2>1, <2>2 DEF Visible, Eligible, Listed
<1>9. TreeInv'
  <2>1. \A i \in DOMAIN pending' : i + 1 \in DOMAIN pending /\ pending'[i] = pending[i + 1]
    BY Ahead DEF IInv
  <2>2. \A i \in DOMAIN pending' : StillTrue(pending'[i])
    BY <2>1 DEF IInv, TreeInv
  <2>3. ASSUME NEW m \in Undisturbed \cap Visible, m \notin discovered'
        PROVE  \E i \in DOMAIN pending' : pending'[i].node \in Chain(m)
    <3>1. PICK i \in DOMAIN pending : pending[i].node \in Chain(m)
      BY <1>1, <2>3 DEF IInv, TreeInv
    <3>2. n \notin Chain(m)
      BY <1>1, <2>3, EntryIsTrue
    <3>3. i # 1 /\ i - 1 \in DOMAIN pending' /\ pending'[i - 1] = pending[i]
      BY <1>1, <3>1, <3>2, Ahead DEF IInv
    <3> QED
      BY <3>1, <3>3
  <2>4. \A m \in discovered' \cap Undisturbed : m \in Visible
    BY <1>1, <1>8 DEF IInv, TreeInv
  <2> QED
    BY <1>7, <2>2, <2>3, <2>4 DEF TreeInv, StillTrue
<1>10. FileInv' /\ ChecksSeeAnalyzedBytes'
  BY <1>1, <1>2, <1>4 DEF IInv, FileInv, ChecksSeeAnalyzedBytes
<1>11. ReportInv'
  <2>1. \A i \in Claiming(n) : 1 <= i
    BY DEF Claiming, IInv, TypeOK, Ruleset
  <2>2. \A m \in discovered \cap Undisturbed : m \in Nodes /\ Reported(m) = Expected(m)
    BY <1>1 DEF IInv, ReportInv, Undisturbed
  <2> QED
    BY <1>1, <1>2, <1>7, <2>1, <2>2 DEF ReportInv
<1> QED
  BY <1>5, <1>6, <1>9, <1>10, <1>11 DEF IInv

\* What a directory lists.
LEMMA ListedPlaces ==
  ASSUME Parameters, tree \in [Nodes -> Entry], NEW d \in Nodes
  PROVE  /\ Listing(d) \in Seq(Place)
         /\ \A i \in DOMAIN Listing(d) :
              /\ i \in DOMAIN Below[d] /\ Listing(d)[i].node = Below[d][i]
              /\ Listing(d)[i].node \in Nodes /\ Contains(d, Listing(d)[i].node)
              /\ Listing(d)[i].type = tree[Listing(d)[i].node].type
         /\ \A n \in Nodes : Contains(d, n) => \E i \in DOMAIN Listing(d) : Listing(d)[i].node = n
<1> DEFINE B == Below[d]
           L == Listing(d)
<1>1. B \in Seq(Nodes)
  BY DEF Parameters
<1>2. DOMAIN B = 1 .. Len(B) /\ Len(B) \in Nat /\ \A i \in DOMAIN B : B[i] \in Nodes
  BY <1>1
<1>3. L = [i \in 1 .. Len(B) |-> [node |-> B[i], type |-> tree[B[i]].type]]
  BY <1>2 DEF Listing, Listed
<1>4. \A i \in 1 .. Len(B) : tree[B[i]].type \in {"directory", "regular", "symlink", "special", "gone"}
  BY <1>2, EntryTypes
<1>5. \A n \in Nodes : Contains(d, n) <=> \E i \in DOMAIN B : B[i] = n
  BY DEF Contains
<1> HIDE DEF B, L
<1>6. \A i \in 1 .. Len(B) : [node |-> B[i], type |-> tree[B[i]].type] \in Place
  BY <1>2, <1>4 DEF Place
<1>7. L \in Seq(Place)
  BY <1>2, <1>3, <1>6
<1>8. /\ DOMAIN L = DOMAIN B
      /\ \A i \in DOMAIN L : L[i].node = B[i] /\ L[i].type = tree[B[i]].type
  BY <1>2, <1>3
<1>9. \A n \in Nodes : Contains(d, n) => \E i \in DOMAIN L : L[i].node = n
  BY <1>5, <1>8
<1>10. \A i \in DOMAIN L : L[i].node \in Nodes /\ Contains(d, L[i].node)
  BY <1>2, <1>5, <1>8
<1> QED
  BY <1>7, <1>8, <1>9, <1>10 DEF B, L

LEMMA EnterDirectoryStep == ASSUME Parameters, IInv, EnterDirectory PROVE IInv'
<1> DEFINE d == Current.node
           L == Listing(d)
           T == Tail(pending)
<1>1. /\ d \in Nodes /\ d = pending[1].node /\ 1 \in DOMAIN pending /\ T \in Seq(Place)
      /\ outcome = "walking" /\ ~ file.open /\ tree[d] = Directory(TRUE)
      /\ pending' = L \o T /\ ~ Skipped(d)
      /\ UNCHANGED <<tree, rules, file, discovered, policyInputs, sources, outcome, touched>>
  BY Ahead DEF IInv, Visiting, EnterDirectory
<1>2. /\ L \in Seq(Place)
      /\ \A i \in DOMAIN L : /\ i \in DOMAIN Below[d] /\ L[i].node = Below[d][i]
                             /\ L[i].node \in Nodes /\ Contains(d, L[i].node)
                             /\ L[i].type = tree[L[i].node].type
      /\ \A n \in Nodes : Contains(d, n) => \E i \in DOMAIN L : L[i].node = n
  BY <1>1, ListedPlaces DEF IInv, TypeOK
<1>3. /\ pending' \in Seq(Place)
      /\ \A i \in DOMAIN pending' :
           \/ i \in DOMAIN L /\ pending'[i] = L[i]
           \/ i \notin DOMAIN L /\ i - Len(L) \in DOMAIN T /\ pending'[i] = T[i - Len(L)]
      /\ \A i \in DOMAIN L : i \in DOMAIN pending' /\ pending'[i] = L[i]
      /\ \A i \in DOMAIN T : i + Len(L) \in DOMAIN pending' /\ pending'[i + Len(L)] = T[i]
  <2> HIDE DEF d, L, T
  <2> QED
    BY <1>1, <1>2, Joined
<1>4. /\ \A i \in DOMAIN T : /\ i + 1 \in DOMAIN pending /\ i + 1 # 1 /\ T[i] = pending[i + 1]
                             /\ i \in Nat /\ T[i].node \in Nodes
                             /\ d \notin Chain(T[i].node) /\ T[i].node \notin Chain(d)
      /\ \A i, j \in DOMAIN T : i # j => T[i].node \notin Chain(T[j].node)
      /\ \A i \in DOMAIN pending : i = 1 \/ (i - 1 \in DOMAIN T /\ T[i - 1] = pending[i])
  <2>1. \A i \in DOMAIN T : i + 1 \in DOMAIN pending /\ i + 1 # 1 /\ T[i] = pending[i + 1]
    BY Ahead DEF IInv, EnterDirectory
  <2>2. \A i \in DOMAIN T : i \in Nat /\ T[i] \in Place
    BY <1>1
  <2>3. \A i, j \in DOMAIN pending : i # j => pending[i].node \notin Chain(pending[j].node)
    BY DEF IInv, WalkInv
  <2>4. \A i \in DOMAIN pending : i = 1 \/ (i - 1 \in DOMAIN T /\ T[i - 1] = pending[i])
    BY Ahead DEF IInv, EnterDirectory
  <2> HIDE DEF T
  <2> QED
    BY <1>1, <2>1, <2>2, <2>3, <2>4 DEF Place
<1> HIDE DEF d, L, T
<1>5. TypeOK'
  BY <1>1, <1>3 DEF IInv, TypeOK
<1>6. WalkInv'
  <2>1. ASSUME NEW i \in DOMAIN pending', NEW j \in DOMAIN pending', i # j
        PROVE  pending'[i].node \notin Chain(pending'[j].node)
    <3>1. CASE i \in DOMAIN L /\ j \in DOMAIN L
      <4>1. \A k, l \in DOMAIN Below[d] : Below[d][k] = Below[d][l] => k = l
        BY <1>1 DEF Parameters, PathsFormTree
      <4>2. L[i].node # L[j].node
        BY <1>2, <2>1, <3>1, <4>1
      <4> QED
        BY <1>1, <1>2, <1>3, <3>1, <4>2, Inside
    <3>2. CASE i \in DOMAIN L /\ j \notin DOMAIN L
      <4>1. pending'[j] = T[j - Len(L)] /\ j - Len(L) \in DOMAIN T
        BY <1>3, <3>2
      <4>2. \A k \in Nodes : d \notin Chain(k) => L[i].node \notin Chain(k)
        BY <1>1, <1>2, <3>2, Inside
      <4> QED
        BY <1>3, <1>4, <3>2, <4>1, <4>2
    <3>3. CASE i \notin DOMAIN L /\ j \in DOMAIN L
      <4>1. pending'[i] = T[i - Len(L)] /\ i - Len(L) \in DOMAIN T
        BY <1>3, <3>3
      <4>2. Chain(L[j].node) = Chain(d) \cup {L[j].node}
        BY <1>1, <1>2, <3>3, Inside DEF Chain
      <4>3. L[j].node \notin Chain(T[i - Len(L)].node)
        BY <1>1, <1>2, <1>4, <3>3, <4>1, Inside
      <4>4. T[i - Len(L)].node # L[j].node
        BY <4>3 DEF Chain
      <4>5. T[i - Len(L)].node \notin Chain(L[j].node)
        BY <1>4, <4>1, <4>2, <4>4
      <4> QED
        BY <1>3, <3>3, <4>1, <4>5
    <3>4. CASE i \notin DOMAIN L /\ j \notin DOMAIN L
      <4>1. /\ pending'[i] = T[i - Len(L)] /\ i - Len(L) \in DOMAIN T
            /\ pending'[j] = T[j - Len(L)] /\ j - Len(L) \in DOMAIN T
        BY <1>3, <3>4
      <4>2. i - Len(L) # j - Len(L)
        BY <1>2, <1>3, <2>1
      <4> QED
        BY <1>4, <4>1, <4>2
    <3> QED
      BY <3>1, <3>2, <3>3, <3>4
  <2>2. ASSUME NEW i \in DOMAIN pending', NEW m \in discovered
        PROVE  pending'[i].node \notin Chain(m)
    <3>1. m \in Nodes /\ d \notin Chain(m)
      BY <1>1 DEF IInv, TypeOK, WalkInv
    <3>2. CASE i \in DOMAIN L
      <4>1. pending'[i] = L[i] /\ L[i].node \in Nodes /\ Contains(d, L[i].node)
        BY <1>2, <1>3, <3>2
      <4>2. \A k \in Nodes : d \notin Chain(k) => L[i].node \notin Chain(k)
        BY <1>1, <4>1, Inside
      <4> QED
        BY <3>1, <4>1, <4>2
    <3>3. CASE i \notin DOMAIN L
      BY <1>3, <1>4, <3>3 DEF IInv, WalkInv
    <3> QED
      BY <3>2, <3>3
  <2>3. ASSUME NEW i \in DOMAIN pending'
        PROVE  Allowed(pending'[i].node)
    <3>1. CASE i \in DOMAIN L
      <4>1. Above[L[i].node] = Chain(d)
        BY <1>1, <1>2, <3>1, Inside
      <4>2. Allowed(d) /\ (d = Root \/ d \notin rules.ignored)
        BY <1>1 DEF IInv, WalkInv, Skipped
      <4>3. pending'[i].node = L[i].node
        BY <1>3, <3>1
      <4>4. Allowed(L[i].node)
        BY <4>1, <4>2 DEF Allowed, Chain, Skipped
      <4> QED
        BY <4>3, <4>4
    <3>2. CASE i \notin DOMAIN L
      BY <1>3, <1>4, <3>2 DEF IInv, WalkInv
    <3> QED
      BY <3>1, <3>2
  <2> QED
    BY <1>1, <2>1, <2>2, <2>3 DEF IInv, WalkInv, Allowed, Skipped
<1>7. Undisturbed' = Undisturbed /\ Visible' = Visible
  BY <1>1, SameView DEF Undisturbed
<1>8. TreeInv'
  <2>1. ASSUME NEW i \in DOMAIN pending'
        PROVE  StillTrue(pending'[i])
    <3>1. CASE i \in DOMAIN L
      <4>1. Above[L[i].node] = Chain(d) /\ pending'[i] = L[i] /\ L[i].node \in Nodes
        BY <1>1, <1>2, <1>3, <3>1, Inside
      <4>2. L[i].node \in Undisturbed => d \in Undisturbed
        BY <1>1, <4>1, Upwards DEF Undisturbed, Chain
      <4>3. d \in Undisturbed => \A e \in Above[d] : tree[e].type = "directory"
        BY <1>1 DEF IInv, TreeInv, StillTrue
      <4>4. tree[d].type = "directory"
        BY <1>1 DEF Directory
      <4> QED
        BY <1>2, <3>1, <4>1, <4>2, <4>3, <4>4 DEF StillTrue, Chain
    <3>2. CASE i \notin DOMAIN L
      BY <1>3, <1>4, <3>2 DEF IInv, TreeInv
    <3> QED
      BY <3>1, <3>2
  <2>2. ASSUME NEW m \in Undisturbed \cap Visible, m \notin discovered
        PROVE  \E i \in DOMAIN pending' : pending'[i].node \in Chain(m)
    <3>1. PICK i \in DOMAIN pending : pending[i].node \in Chain(m)
      BY <1>1, <2>2 DEF IInv, TreeInv
    <3>2. CASE i = 1
      <4>1. d \in Chain(m) /\ m \in Nodes
        BY <1>1, <3>1, <3>2 DEF Undisturbed
      <4>2. tree[m].type \in {"regular", "symlink"} /\ tree[d].type = "directory"
        BY <1>1 DEF Visible, Eligible, Listed, Directory
      <4>3. PICK c \in Chain(m) : c \in Nodes /\ Contains(d, c)
        BY <4>1, <4>2, Upwards
      <4> QED
        BY <1>2, <1>3, <4>3
    <3>3. CASE i # 1
      BY <1>3, <1>4, <3>1, <3>3
    <3> QED
      BY <3>2, <3>3
  <2>3. \A m \in discovered \cap Undisturbed : m \in Visible
    BY DEF IInv, TreeInv
  <2> QED
    BY <1>1, <1>7, <2>1, <2>2, <2>3 DEF TreeInv, StillTrue
<1>9. FileInv' /\ ChecksSeeAnalyzedBytes' /\ ReportInv'
  BY <1>1, SameReports DEF IInv, TypeOK, EnterDirectory
<1> QED
  BY <1>5, <1>6, <1>8, <1>9 DEF IInv

-----------------------------------------------------------------------------
(* The dispatch.                                                           *)

LEMMA FileTypes ==
  ASSUME IInv, Analyzing
  PROVE  /\ file.node \in Nodes /\ file.open /\ file.collect \in BOOLEAN
         /\ file.from \in 1 .. (Len(rules.detectors) + 1) /\ file.content \in FoundContent
         /\ Len(rules.detectors) \in Nat /\ DOMAIN rules.detectors = 1 .. Len(rules.detectors)
         /\ \A i \in DOMAIN rules.detectors : rules.detectors[i] \in Detector
         /\ file \in [node : Nodes, open : {TRUE}, collect : BOOLEAN,
                     from : 1 .. (Len(rules.detectors) + 1), content : FoundContent]
<1>1. rules.detectors \in Seq(Detector)
  BY DEF IInv, TypeOK, Ruleset
<1>2. file # NoFile /\ file.open
  BY DEF Analyzing, NoFile
<1>3. file \in [node : Nodes, open : {TRUE}, collect : BOOLEAN,
                from : 1 .. (Len(rules.detectors) + 1), content : FoundContent]
  BY <1>2 DEF IInv, TypeOK
<1>4. /\ file.node \in Nodes /\ file.collect \in BOOLEAN
      /\ file.from \in 1 .. (Len(rules.detectors) + 1) /\ file.content \in FoundContent
  BY <1>3
<1>5. /\ Len(rules.detectors) \in Nat /\ DOMAIN rules.detectors = 1 .. Len(rules.detectors)
      /\ \A i \in DOMAIN rules.detectors : rules.detectors[i] \in Detector
  BY <1>1
<1> QED
  BY <1>2, <1>3, <1>4, <1>5

LEMMA AskedIsFirst ==
  ASSUME IInv, Asking
  PROVE  /\ Asked \in DOMAIN rules.detectors /\ Asked \in Nat /\ file.from <= Asked
         /\ file.node \in rules.detectors[Asked].matches
         /\ \A i \in DOMAIN rules.detectors :
              file.from <= i /\ file.node \in rules.detectors[i].matches => Asked <= i
<1>1. Matching \in SUBSET Nat /\ Matching # {}
  BY FileTypes DEF Asking, Matching
<1>2. Asked \in Matching /\ \A i \in Matching : Asked <= i
  BY <1>1, Smallest DEF Asked, First
<1> QED
  BY <1>1, <1>2, FileTypes DEF Asking, Matching

\* Reading a file that nobody touched.
LEMMA ReadTypes ==
  ASSUME IInv, NEW n \in Nodes
  PROVE  Read(n) \in FoundContent
<1>1. \A e \in Plain : e.type = "regular" => e.content \in FoundContent
  BY DEF Plain, Regular, Directory, Special, Gone, FoundContent
<1>2. \A e \in Entry : e.type = "symlink" => e.target \in Plain
  BY DEF Plain, Entry, Regular, Directory, Special, Gone, Link
<1>3. \A e \in Entry : e.type # "symlink" => e \in Plain
  BY DEF Entry, Link
<1>4. Target(n) \in Plain
  BY <1>2, <1>3 DEF IInv, TypeOK, Target
<1> QED
  BY <1>1, <1>4 DEF Read, FoundContent

LEMMA WaitStep == ASSUME Parameters, IInv, WaitForWriter PROVE IInv'
<1>1. /\ Analyzing /\ outcome' = "waiting"
      /\ UNCHANGED <<tree, rules, pending, file, discovered, policyInputs, sources, touched>>
  BY DEF WaitForWriter
<1>2. TypeOK'
  BY <1>1 DEF IInv, TypeOK, FoundContent
<1>3. WalkInv' /\ TreeInv'
  BY <1>1, SameWalk DEF IInv
<1>4. FileInv' /\ ChecksSeeAnalyzedBytes'
  BY <1>1 DEF IInv, FileInv, ChecksSeeAnalyzedBytes
<1>5. ReportInv'
  <2>1. file.node \in Nodes
    BY <1>1, FileTypes
  <2>2. Undisturbed' = Undisturbed /\ \A m \in Nodes : Read(m)' = Read(m) /\ Claiming(m)' = Claiming(m)
    BY <1>1, SameView DEF Undisturbed
  <2> QED
    BY <1>1, <2>1, <2>2 DEF IInv, ReportInv
<1> QED
  BY <1>2, <1>3, <1>4, <1>5 DEF IInv

LEMMA CollectStep == ASSUME Parameters, IInv, CollectPyproject PROVE IInv'
<1> DEFINE n == file.node
           input == [path |-> n, content |-> Read(n)]
<1>1. /\ Analyzing /\ file.collect /\ policyInputs' = policyInputs \cup {input}
      /\ file' = [file EXCEPT !.collect = FALSE, !.content = Read(n)]
      /\ UNCHANGED <<tree, rules, pending, discovered, sources, outcome, touched>>
  BY DEF CollectPyproject, Collected
<1>2. n \in Nodes /\ Read(n) \in FoundContent /\ outcome = "walking"
  BY <1>1, FileTypes, ReadTypes DEF Analyzing
<1>3. file' \in [node : Nodes, open : {TRUE}, collect : BOOLEAN,
                 from : 1 .. (Len(rules.detectors) + 1), content : FoundContent]
  BY <1>1, <1>2, FileTypes
<1>4. /\ file'.node = n /\ file'.open /\ file'.collect = FALSE /\ file'.content = Read(n)
      /\ file'.from = file.from
  BY <1>1, FileTypes
<1>5. TypeOK'
  <2>1. policyInputs' \subseteq [path : Nodes, content : FoundContent]
    BY <1>1, <1>2 DEF IInv, TypeOK
  <2>2. file' \in [node : Nodes, open : {TRUE}, collect : BOOLEAN,
                   from : 1 .. (Len(rules'.detectors) + 1), content : FoundContent']
    BY <1>1, <1>3 DEF FoundContent
  <2> QED
    BY <1>1, <2>1, <2>2 DEF IInv, TypeOK
<1>6. WalkInv' /\ TreeInv'
  BY <1>1, <1>2, SameWalk DEF IInv
<1>7. FileInv'
  BY <1>1, <1>4 DEF IInv, FileInv, Analyzing
<1>8. ChecksSeeAnalyzedBytes'
  BY <1>1 DEF IInv, FileInv, ChecksSeeAnalyzedBytes, Analyzing
<1>9. ReportInv'
  <2>1. /\ Undisturbed' = Undisturbed
        /\ \A m \in Nodes : /\ Read(m)' = Read(m) /\ Claiming(m)' = Claiming(m)
                            /\ Expected(m)' = Expected(m) /\ Reported(m)' = Reported(m)
    BY <1>1, SameView DEF Undisturbed, Reported
  <2>2. discovered \subseteq Nodes
    BY DEF IInv, TypeOK
  <2>3. n \in Undisturbed => \A i \in Claiming(n) : file.from <= i
    BY <1>1 DEF IInv, ReportInv, Analyzing
  <2>4. \A m \in discovered \cap Undisturbed : m # n => Reported(m) = Expected(m)
    BY <1>1 DEF IInv, ReportInv, Analyzing
  <2> QED
    BY <1>1, <1>2, <1>4, <2>1, <2>2, <2>3, <2>4 DEF ReportInv
<1> QED
  BY <1>5, <1>6, <1>7, <1>8, <1>9 DEF IInv

\* A claim is right if the detector that is asked makes it, in the state that
\* what is read of the file calls for, and by the bytes the checks are given.
LEMMA ClaimStep ==
  ASSUME Parameters, IInv, Asking,
         NEW state \in {"identified", "unread", "failed", "analyzed"}, NEW content \in FoundContent,
         Claim(state, content),
         UNCHANGED <<tree, rules, pending, discovered, policyInputs, touched>>,
         state \in {"failed", "analyzed"} =>
           \A p \in policyInputs :
             p.path = file.node /\ p.content # Unreadable => p.content = content,
         file.node \in Undisturbed =>
           /\ Asked \in Claiming(file.node)
           /\ state = StateBy(rules.detectors[Asked], Read(file.node))
  PROVE  IInv'
<1> DEFINE source == Source(state, content)
<1>1. PICK n \in Nodes : n = file.node
  BY FileTypes DEF Asking
<1>2. /\ sources' = sources \cup {source} /\ file' = NoFile /\ ~ file'.open /\ outcome' = outcome
      /\ outcome = "walking" /\ file.open
  BY DEF Claim, Close, NoFile, Asking, Analyzing
<1>3. /\ source.path = n /\ source.detector = Asked /\ source.state = state
      /\ source.content \in {Unreadable, content} /\ source.basis = content
  BY <1>1 DEF Source
<1>4. TypeOK'
  <2>1. source \in [path : Nodes, detector : DOMAIN rules.detectors,
                    state : {"identified", "unread", "failed", "analyzed"},
                    content : FoundContent, basis : FoundContent]
    BY <1>1, <1>2, AskedIsFirst DEF Source, FoundContent
  <2> QED
    BY <1>2, <2>1 DEF IInv, TypeOK
<1>5. WalkInv' /\ TreeInv'
  BY <1>2, SameWalk DEF IInv, Asking
<1>6. FileInv'
  BY <1>1, <1>2, <1>3 DEF IInv, FileInv
<1>7. ChecksSeeAnalyzedBytes'
  BY <1>1, <1>2, <1>3 DEF IInv, ChecksSeeAnalyzedBytes
<1>8. ReportInv'
  <2>1. /\ Undisturbed' = Undisturbed
        /\ \A m \in Nodes : Expected(m)' = Expected(m)
    BY SameView DEF Undisturbed
  <2>2. \A m \in discovered \cap Undisturbed : m \in Nodes /\ (m # n => Reported(m) = Expected(m))
    BY <1>1, <1>2 DEF IInv, ReportInv, Undisturbed
  <2>3. \A m \in Nodes : m # n => Reported(m)' = Reported(m)
    BY <1>2, <1>3 DEF Reported
  <2>4. Reported(n)' = {<<Asked, state>>}
    <3>1. \A s \in sources : s.path # n
      BY <1>1, <1>2 DEF IInv, FileInv
    <3>2. {t \in sources' : t.path = n} = {source}
      BY <1>2, <1>3, <3>1
    <3>3. Reported(n)' = {<<s.detector, s.state>> : s \in {source}}
      BY <3>2 DEF Reported
    <3> HIDE DEF source
    <3> QED
      BY <1>3, <3>3
  <2>5. ASSUME n \in Undisturbed
        PROVE  Expected(n) = {<<Asked, state>>}
    <3>1. n \in Visible
      BY <1>1, <1>2, <2>5 DEF IInv, TreeInv, FileInv
    <3>2. \A i \in Claiming(n) :
            i \in DOMAIN rules.detectors /\ i \in Nat /\ n \in rules.detectors[i].matches
      BY FileTypes DEF Claiming, Asking
    <3>3. \A i \in Claiming(n) : file.from <= i
      BY <1>1, <1>2, <2>5 DEF IInv, ReportInv
    <3>4. \A i \in Claiming(n) : Asked <= i
      BY <1>1, <3>2, <3>3, AskedIsFirst
    <3>5. Asked \in Claiming(n) /\ state = StateBy(rules.detectors[Asked], Read(n)) /\ Asked \in Nat
      BY <1>1, <2>5, AskedIsFirst
    <3>6. (CHOOSE i \in Claiming(n) : \A k \in Claiming(n) : i <= k) = Asked
      BY <3>2, <3>4, <3>5
    <3> QED
      BY <3>1, <3>5, <3>6 DEF Expected
  <2> QED
    BY <1>2, <2>1, <2>2, <2>3, <2>4, <2>5 DEF ReportInv
<1> QED
  BY <1>4, <1>5, <1>6, <1>7, <1>8 DEF IInv

LEMMA IdentifyStep == ASSUME Parameters, IInv, Identify PROVE IInv'
<1> DEFINE d == rules.detectors[Asked]
           content == Read(file.node)
<1>1. /\ Asking /\ ~ d.analyzer
      /\ UNCHANGED <<tree, rules, pending, discovered, policyInputs, touched>>
  BY DEF Identify
<1>2. content \in FoundContent /\ Unreadable \in FoundContent
  BY <1>1, FileTypes, ReadTypes DEF Asking, FoundContent
<1>3. Asked \in Claiming(file.node)
  BY <1>1, AskedIsFirst DEF Claiming
<1>4. CASE d.policyContent /\ content = Unreadable
  <2>1. Claim("unread", content) /\ StateBy(d, content) = "unread"
    BY <1>1, <1>4 DEF Identify, StateBy
  <2> QED
    BY <1>1, <1>2, <1>3, <2>1, ClaimStep
<1>5. CASE d.policyContent /\ content # Unreadable
  <2>1. Claim("identified", content) /\ StateBy(d, content) = "identified"
    BY <1>1, <1>5 DEF Identify, StateBy
  <2> QED
    BY <1>1, <1>2, <1>3, <2>1, ClaimStep
<1>6. CASE ~ d.policyContent
  <2>1. Claim("identified", Unreadable) /\ StateBy(d, content) = "identified"
    BY <1>1, <1>6 DEF Identify, StateBy
  <2> QED
    BY <1>1, <1>2, <1>3, <2>1, ClaimStep
<1> QED
  BY <1>4, <1>5, <1>6

LEMMA AskAnalyzerStep == ASSUME Parameters, IInv, AskAnalyzer PROVE IInv'
<1> DEFINE d == rules.detectors[Asked]
           content == IF file.content # Unreadable THEN file.content ELSE Read(file.node)
<1>1. /\ Asking /\ Analyzing /\ d.analyzer /\ file.open /\ ~ file.collect /\ outcome = "walking"
      /\ UNCHANGED <<tree, rules, pending, discovered, policyInputs, touched>>
  BY DEF AskAnalyzer, Asking, Analyzing
<1>2. /\ content \in FoundContent /\ Unreadable \in FoundContent
      /\ file.node \in Nodes
  BY <1>1, FileTypes, ReadTypes DEF FoundContent
<1>3. file.node \in Undisturbed => content = Read(file.node)
  BY <1>1 DEF IInv, ReportInv
<1>4. content \in Contents => d.verdict[content] \in Verdicts
  BY <1>1, FileTypes, AskedIsFirst DEF Detector
<1>5. \A p \in policyInputs : p.path = file.node /\ p.content # Unreadable => p.content = content
  BY <1>1 DEF IInv, FileInv
<1>6. content # Unreadable => content \in Contents
  BY <1>2 DEF FoundContent
<1>7. \/ content = Unreadable /\ Claim("unread", Unreadable)
      \/ content # Unreadable /\ d.verdict[content] = "error" /\ Claim("failed", content)
      \/ content # Unreadable /\ d.verdict[content] = "recognized" /\ Claim("analyzed", content)
      \/ /\ content # Unreadable /\ d.verdict[content] = "other"
         /\ file' = [file EXCEPT !.from = Asked + 1, !.content = content]
         /\ UNCHANGED <<sources, outcome>>
      \/ outcome' \in {"aborted", "crashed"} /\ UNCHANGED <<file, sources>>
  BY DEF AskAnalyzer, ClaimFailed
<1>8. /\ file.node \in rules.detectors[Asked].matches /\ Asked \in DOMAIN rules.detectors
  BY <1>1, AskedIsFirst
<1> HIDE DEF content
<1>9. CASE content = Unreadable /\ Claim("unread", Unreadable)
  <2>1. file.node \in Undisturbed =>
          Asked \in Claiming(file.node) /\ StateBy(d, Read(file.node)) = "unread"
    BY <1>1, <1>3, <1>8, <1>9 DEF Claiming, StateBy
  <2> QED
    BY <1>1, <1>2, <1>9, <2>1, ClaimStep
<1>10. CASE content # Unreadable /\ d.verdict[content] = "error" /\ Claim("failed", content)
  <2>1. file.node \in Undisturbed =>
          Asked \in Claiming(file.node) /\ StateBy(d, Read(file.node)) = "failed"
    BY <1>1, <1>3, <1>8, <1>10 DEF Claiming, StateBy
  <2> QED
    BY <1>1, <1>2, <1>5, <1>10, <2>1, ClaimStep
<1>11. CASE content # Unreadable /\ d.verdict[content] = "recognized" /\ Claim("analyzed", content)
  <2>1. file.node \in Undisturbed =>
          Asked \in Claiming(file.node) /\ StateBy(d, Read(file.node)) = "analyzed"
    BY <1>1, <1>3, <1>8, <1>11 DEF Claiming, StateBy
  <2> QED
    BY <1>1, <1>2, <1>5, <1>11, <2>1, ClaimStep
<1>12. CASE /\ content # Unreadable /\ d.verdict[content] = "other"
            /\ file' = [file EXCEPT !.from = Asked + 1, !.content = content]
            /\ UNCHANGED <<sources, outcome>>
  <2>1. /\ file'.node = file.node /\ file'.open /\ file'.collect = file.collect
        /\ file'.from = Asked + 1 /\ file'.content = content
    BY <1>1, <1>12, FileTypes
  <2>2. TypeOK'
    <3>1. Asked + 1 \in 1 .. (Len(rules.detectors) + 1)
      BY <1>1, <1>8, FileTypes
    <3>2. file' \in [node : Nodes, open : {TRUE}, collect : BOOLEAN,
                     from : 1 .. (Len(rules'.detectors) + 1), content : FoundContent']
      BY <1>1, <1>2, <1>12, <3>1, FileTypes DEF FoundContent
    <3> QED
      BY <1>1, <1>12, <3>2 DEF IInv, TypeOK
  <2>3. WalkInv' /\ TreeInv'
    BY <1>1, <1>12, SameWalk DEF IInv
  <2>4. FileInv'
    BY <1>1, <1>5, <1>12, <2>1 DEF IInv, FileInv
  <2>5. ChecksSeeAnalyzedBytes'
    BY <1>1, <1>12 DEF IInv, ChecksSeeAnalyzedBytes
  <2>6. ASSUME file.node \in Undisturbed, NEW i \in Claiming(file.node)
        PROVE  Asked + 1 <= i
    <3>1. i \in DOMAIN rules.detectors /\ i \in Nat /\ file.node \in rules.detectors[i].matches
      BY <1>1, <2>6, FileTypes DEF Claiming
    <3>2. file.from <= i
      BY <1>1, <2>6 DEF IInv, ReportInv
    <3>3. Asked <= i /\ Asked \in Nat
      BY <1>1, <3>1, <3>2, AskedIsFirst
    <3>4. i # Asked
      BY <1>1, <1>3, <1>12, <2>6 DEF Claiming
    <3> QED
      BY <3>1, <3>3, <3>4
  <2>7. ReportInv'
    <3>1. /\ Undisturbed' = Undisturbed
          /\ \A m \in Nodes : /\ Read(m)' = Read(m) /\ Claiming(m)' = Claiming(m)
                              /\ Expected(m)' = Expected(m) /\ Reported(m)' = Reported(m)
      BY <1>1, <1>12, SameView DEF Undisturbed, Reported
    <3>2. discovered \subseteq Nodes
      BY DEF IInv, TypeOK
    <3>3. \A m \in discovered \cap Undisturbed : m # file.node => Reported(m) = Expected(m)
      BY <1>1 DEF IInv, ReportInv
    <3> QED
      BY <1>1, <1>2, <1>3, <1>12, <2>1, <2>6, <3>1, <3>2, <3>3 DEF ReportInv
  <2> QED
    BY <2>2, <2>3, <2>4, <2>5, <2>7 DEF IInv
<1>13. CASE outcome' \in {"aborted", "crashed"} /\ UNCHANGED <<file, sources>>
  <2>1. TypeOK'
    BY <1>1, <1>13 DEF IInv, TypeOK
  <2>2. WalkInv' /\ TreeInv'
    BY <1>1, <1>13, SameWalk DEF IInv
  <2>3. FileInv' /\ ChecksSeeAnalyzedBytes'
    BY <1>1, <1>13 DEF IInv, FileInv, ChecksSeeAnalyzedBytes
  <2>4. Undisturbed' = Undisturbed /\ \A m \in Nodes : Read(m)' = Read(m) /\ Claiming(m)' = Claiming(m)
    BY <1>1, SameView DEF Undisturbed
  <2>5. ReportInv'
    BY <1>1, <1>2, <1>13, <2>4 DEF IInv, ReportInv
  <2> QED
    BY <2>1, <2>2, <2>3, <2>5 DEF IInv
<1> QED
  BY <1>7, <1>9, <1>10, <1>11, <1>12, <1>13


LEMMA LeaveStep == ASSUME Parameters, IInv, LeaveUnclaimed PROVE IInv'
<1>1. PICK n \in Nodes : n = file.node
  BY FileTypes DEF LeaveUnclaimed
<1>2. /\ Analyzing /\ file.open /\ Matching = {} /\ outcome = "walking" /\ file' = NoFile /\ ~ file'.open
      /\ UNCHANGED <<tree, rules, pending, discovered, policyInputs, sources, outcome, touched>>
  BY DEF LeaveUnclaimed, Close, NoFile, Analyzing
<1>3. TypeOK'
  BY <1>2 DEF IInv, TypeOK
<1>4. WalkInv' /\ TreeInv'
  BY <1>2, SameWalk DEF IInv
<1>5. FileInv' /\ ChecksSeeAnalyzedBytes'
  BY <1>2 DEF IInv, FileInv, ChecksSeeAnalyzedBytes
<1>6. ReportInv'
  <2>1. /\ Undisturbed' = Undisturbed
        /\ \A m \in Nodes : Expected(m)' = Expected(m) /\ Reported(m)' = Reported(m)
    BY <1>2, SameView DEF Undisturbed, Reported
  <2>2. discovered \subseteq Nodes
    BY DEF IInv, TypeOK
  <2>3. \A m \in discovered \cap Undisturbed : m # n => Reported(m) = Expected(m)
    BY <1>1, <1>2 DEF IInv, ReportInv
  <2>4. n \in Undisturbed => Claiming(n) = {}
    <3>1. ASSUME n \in Undisturbed, NEW i \in Claiming(n)
          PROVE  FALSE
      <4>1. i \in DOMAIN rules.detectors /\ n \in rules.detectors[i].matches
        BY <3>1 DEF Claiming
      <4>2. file.from <= i
        BY <1>1, <1>2, <3>1 DEF IInv, ReportInv
      <4>3. i \in file.from .. Len(rules.detectors)
        BY <1>2, <4>1, <4>2, FileTypes
      <4> QED
        BY <1>1, <1>2, <4>1, <4>3 DEF Matching
    <3> QED
      BY <3>1
  <2>5. n \in Undisturbed => Expected(n) = {}
    BY <2>4 DEF Expected
  <2>6. Reported(n) = {}
    BY <1>1, <1>2 DEF IInv, FileInv, Reported
  <2> QED
    BY <1>2, <2>1, <2>2, <2>3, <2>5, <2>6 DEF ReportInv
<1> QED
  BY <1>3, <1>4, <1>5, <1>6 DEF IInv

LEMMA FinishStep == ASSUME Parameters, IInv, Finish PROVE IInv'
<1>1. /\ outcome = "walking" /\ outcome' = "done" /\ ~ file.open /\ pending = <<>>
      /\ sources' = {[s EXCEPT !.content = Unreadable] : s \in sources}
      /\ UNCHANGED <<tree, rules, pending, file, discovered, policyInputs, touched>>
  BY DEF Finish
<1>2. file = NoFile
  BY <1>1 DEF IInv, TypeOK
<1>3. sources \subseteq [path : Nodes, detector : DOMAIN rules.detectors,
                         state : {"identified", "unread", "failed", "analyzed"},
                         content : FoundContent, basis : FoundContent]
  BY DEF IInv, TypeOK
<1>4. \A s \in sources : LET t == [s EXCEPT !.content = Unreadable]
                         IN  /\ t.path = s.path /\ t.detector = s.detector /\ t.state = s.state
                             /\ t.content = Unreadable /\ t.basis = s.basis
                             /\ t \in [path : Nodes, detector : DOMAIN rules.detectors,
                                       state : {"identified", "unread", "failed", "analyzed"},
                                       content : FoundContent, basis : FoundContent]
  BY <1>3 DEF FoundContent
<1>5. TypeOK'
  <2>1. sources' \subseteq [path : Nodes, detector : DOMAIN rules'.detectors,
                            state : {"identified", "unread", "failed", "analyzed"},
                            content : FoundContent', basis : FoundContent']
    BY <1>1, <1>4 DEF FoundContent
  <2> QED
    BY <1>1, <2>1 DEF IInv, TypeOK
<1>6. WalkInv'
  BY <1>1, <1>2 DEF IInv, WalkInv, Allowed, Skipped
<1>7. /\ Undisturbed' = Undisturbed /\ Visible' = Visible
      /\ \A m \in Nodes : Expected(m)' = Expected(m)
  BY <1>1, SameView DEF Undisturbed
<1>8. TreeInv'
  BY <1>1, <1>7 DEF IInv, TreeInv, StillTrue
<1>9. FileInv' /\ ChecksSeeAnalyzedBytes'
  BY <1>1, <1>4 DEF IInv, FileInv, ChecksSeeAnalyzedBytes
<1>10. ReportInv'
  <2> DEFINE Alike(s, t) == t.path = s.path /\ t.detector = s.detector /\ t.state = s.state
         Dropped(s) == [s EXCEPT !.content = Unreadable]
  <2>a. sources' = {Dropped(s) : s \in sources} /\ \A s \in sources : Alike(s, Dropped(s))
    BY <1>1, <1>4
  <2>1. /\ \A s \in sources : \E t \in sources' : Alike(s, t)
        /\ \A t \in sources' : \E s \in sources : Alike(s, t)
    <3> HIDE DEF Alike, Dropped
    <3> QED
      BY <2>a
  <2>2. ASSUME NEW m \in Nodes
        PROVE  Reported(m)' = Reported(m)
    <3>1. \A x : x \in Reported(m) <=> \E s \in sources : s.path = m /\ x = <<s.detector, s.state>>
      BY DEF Reported
    <3>2. \A x : x \in Reported(m)' <=> \E s \in sources' : s.path = m /\ x = <<s.detector, s.state>>
      BY DEF Reported
    <3>3. ASSUME NEW x
          PROVE  x \in Reported(m)' <=> x \in Reported(m)
      <4>1. ASSUME NEW s \in sources, s.path = m, x = <<s.detector, s.state>>
            PROVE  \E t \in sources' : t.path = m /\ x = <<t.detector, t.state>>
        BY <2>1, <4>1
      <4>2. ASSUME NEW t \in sources', t.path = m, x = <<t.detector, t.state>>
            PROVE  \E s \in sources : s.path = m /\ x = <<s.detector, s.state>>
        BY <2>1, <4>2
      <4> QED
        BY <3>1, <3>2, <4>1, <4>2
    <3> QED
      BY <3>3 DEF Reported
  <2>3. discovered \subseteq Nodes
    BY DEF IInv, TypeOK
  <2> QED
    BY <1>1, <1>7, <2>2, <2>3 DEF IInv, ReportInv
<1> QED
  BY <1>5, <1>6, <1>8, <1>9, <1>10 DEF IInv

\* What others do is not felt at the paths they leave alone.
LEMMA EditStep == ASSUME Parameters, IInv, Edit PROVE IInv'
<1>1. PICK n \in Nodes \ (touched \cup {Root}), entry \in Entries :
        /\ tree' = [m \in Nodes |-> IF m = n THEN entry
                                    ELSE IF n \in Above[m] THEN Gone
                                    ELSE tree[m]]
        /\ touched' = touched \cup {n}
  BY DEF Edit
<1>2. outcome = "walking" /\ UNCHANGED <<rules, pending, file, discovered, policyInputs, sources, outcome>>
  BY DEF Edit
<1>3. \A m \in Nodes : n \notin Chain(m) => tree'[m] = tree[m]
  BY <1>1 DEF Chain
<1>4. \A m \in Undisturbed' : /\ m \in Undisturbed /\ m \in Nodes
                              /\ \A d \in Chain(m) : tree'[d] = tree[d]
  <2>1. ASSUME NEW m \in Undisturbed'
        PROVE  /\ m \in Undisturbed /\ m \in Nodes /\ n \notin Chain(m)
               /\ \A d \in Chain(m) : d \in Nodes /\ Chain(d) \subseteq Chain(m)
    BY <1>1, Upwards DEF Undisturbed, Chain
  <2> QED
    BY <1>3, <2>1
<1>5. \A m \in Nodes : (\A d \in Chain(m) : tree'[d] = tree[d]) =>
        /\ Read(m)' = Read(m) /\ Claiming(m)' = Claiming(m)
        /\ (m \in Visible)' = (m \in Visible) /\ Expected(m)' = Expected(m)
  <2>1. ASSUME NEW m \in Nodes, \A d \in Chain(m) : tree'[d] = tree[d]
        PROVE  Read(m)' = Read(m) /\ (m \in Visible)' = (m \in Visible)
    <3>1. Read(m)' = Read(m)
      BY <1>2, <2>1 DEF Read, Target, Chain
    <3>2. Eligible(Listed(m, tree[m].type))' = Eligible(Listed(m, tree[m].type))
      BY <2>1 DEF Eligible, Target, Listed, Chain
    <3>3. (m \in Visible)' = (m \in Visible)
      BY <1>2, <2>1, <3>2 DEF Visible, Skipped, Chain
    <3> QED
      BY <3>1, <3>3
  <2>2. ASSUME NEW m \in Nodes, Read(m)' = Read(m)
        PROVE  Claiming(m)' = Claiming(m)
    BY <1>2, <2>2 DEF Claiming
  <2>3. ASSUME NEW m \in Nodes, \A d \in Chain(m) : tree'[d] = tree[d]
        PROVE  Expected(m)' = Expected(m)
    <3>1. Read(m)' = Read(m) /\ Claiming(m)' = Claiming(m)
      BY <2>1, <2>2, <2>3
    <3>2. m \in Visible' <=> m \in Visible
      BY <2>1, <2>3
    <3> QED
      BY <1>2, <3>1, <3>2 DEF Expected
  <2> QED
    BY <2>1, <2>2, <2>3
<1>6. TypeOK'
  <2>1. Gone \in Entry /\ entry \in Entry
    BY DEF Parameters, Entry, Plain
  <2>2. tree' \in [Nodes -> Entry]
    BY <1>1, <2>1 DEF IInv, TypeOK
  <2> QED
    BY <1>1, <1>2, <2>2 DEF IInv, TypeOK, FoundContent
<1>7. WalkInv'
  BY <1>2 DEF IInv, WalkInv, Allowed, Skipped
<1>8. TreeInv'
  <2>1. ASSUME NEW i \in DOMAIN pending, pending[i].node \in Undisturbed'
        PROVE  /\ pending[i].type = tree'[pending[i].node].type
               /\ \A d \in Above[pending[i].node] : tree'[d].type = "directory"
    <3>1. StillTrue(pending[i])
      BY DEF IInv, TreeInv
    <3> QED
      BY <1>4, <2>1, <3>1 DEF StillTrue, Chain
  <2>2. \A i \in DOMAIN pending' :
          pending'[i].node \in Undisturbed' =>
            /\ pending'[i].type = tree'[pending'[i].node].type
            /\ \A d \in Above[pending'[i].node] : tree'[d].type = "directory"
    BY <1>2, <2>1
  <2>3. \A m \in discovered' \cap Undisturbed' : m \in Visible'
    BY <1>2, <1>4, <1>5 DEF IInv, TreeInv
  <2>4. \A m \in Undisturbed' \cap Visible' :
          m \in discovered' \/ \E i \in DOMAIN pending' : pending'[i].node \in Chain(m)
    BY <1>2, <1>4, <1>5 DEF IInv, TreeInv
  <2> QED
    BY <1>2, <2>2, <2>3, <2>4 DEF TreeInv, StillTrue
<1>9. FileInv' /\ ChecksSeeAnalyzedBytes'
  BY <1>2 DEF IInv, FileInv, ChecksSeeAnalyzedBytes
<1>10. ReportInv'
  <2>1. \A m \in Nodes : Reported(m)' = Reported(m)
    BY <1>2 DEF Reported
  <2> QED
    BY <1>2, <1>4, <1>5, <2>1 DEF IInv, ReportInv
<1> QED
  BY <1>6, <1>7, <1>8, <1>9, <1>10 DEF IInv

LEMMA NextIInv == ASSUME Parameters, IInv, [Next]_vars PROVE IInv'
<1>1. CASE Begin
  BY <1>1, BeginStep
<1>2. CASE Walk
  BY <1>2, SkipDirectoryStep, EnterDirectoryStep, FailDirectoryStep, SkipFileStep, OpenFileStep DEF Walk
<1>3. CASE Dispatch
  BY <1>3, WaitStep, CollectStep, IdentifyStep, AskAnalyzerStep, LeaveStep DEF Dispatch
<1>4. CASE Finish
  BY <1>4, FinishStep
<1>5. CASE Edit
  BY <1>5, EditStep
<1>6. CASE UNCHANGED vars
  <2>1. UNCHANGED <<tree, rules, pending, file, discovered, policyInputs, sources, outcome, touched>>
    BY <1>6 DEF vars
  <2>2. Undisturbed' = Undisturbed /\ Visible' = Visible
    BY <2>1, SameView DEF Undisturbed
  <2>3. \A n \in Nodes : /\ Read(n)' = Read(n) /\ Claiming(n)' = Claiming(n)
                         /\ Expected(n)' = Expected(n) /\ Reported(n)' = Reported(n)
    BY <2>1, SameView DEF Reported
  <2>4. TypeOK' /\ FileInv' /\ ChecksSeeAnalyzedBytes'
    BY <2>1 DEF IInv, TypeOK, FileInv, ChecksSeeAnalyzedBytes, FoundContent
  <2>5. WalkInv' /\ TreeInv'
    BY <2>1, <2>2 DEF IInv, WalkInv, TreeInv, StillTrue, Allowed, Skipped
  <2>6. ReportInv'
    <3>1. discovered \subseteq Nodes /\ file' = file /\ outcome' = outcome /\ discovered' = discovered
      BY <2>1 DEF IInv, TypeOK
    <3>2. file.open => file.node \in Nodes
      BY DEF IInv, FileInv, TypeOK
    <3> QED
      BY <2>2, <2>3, <3>1, <3>2 DEF IInv, ReportInv
  <2> QED
    BY <2>4, <2>5, <2>6 DEF IInv
<1> QED
  BY <1>1, <1>2, <1>3, <1>4, <1>5, <1>6 DEF Next, Work

-----------------------------------------------------------------------------
THEOREM Inductive == ASSUME Parameters PROVE Spec => []IInv
<1>1. Init => IInv
  BY InitIInv
<1>2. IInv /\ [Next]_vars => IInv'
  BY NextIInv
<1> QED
  BY <1>1, <1>2, PTL DEF Spec

\* Whatever the rules and whatever others do, every variable has its type.
THEOREM TypeCorrect == ASSUME Parameters PROVE Spec => []TypeOK
<1>1. IInv => TypeOK
  BY DEF IInv
<1> QED
  BY <1>1, Inductive, PTL

\* For every tree, all rules and any number of changes by others: a scan that
\* succeeds reports each file that they leave alone as if it had been alone.
THEOREM FilesReported == ASSUME Parameters PROVE Spec => []UndisturbedFilesReported
<1>1. ASSUME IInv, outcome = "done", NEW n \in Undisturbed
      PROVE  Reported(n) = Expected(n)
  <2>1. pending = <<>> /\ ~ file.open
    BY <1>1 DEF IInv, WalkInv, NoFile
  <2>2. CASE n \in discovered
    BY <1>1, <2>1, <2>2 DEF IInv, ReportInv
  <2>3. CASE n \notin discovered
    <3>1. n \notin Visible
      BY <1>1, <2>1, <2>3 DEF IInv, TreeInv
    <3>2. Expected(n) = {}
      BY <3>1 DEF Expected
    <3>3. \A s \in sources : s.path # n
      BY <1>1, <2>3 DEF IInv, FileInv
    <3>4. Reported(n) = {}
      BY <3>3 DEF Reported
    <3> QED
      BY <3>2, <3>4
  <2> QED
    BY <2>2, <2>3
<1>2. IInv => UndisturbedFilesReported
  BY <1>1 DEF UndisturbedFilesReported
<1> QED
  BY <1>2, Inductive, PTL

\* However a file changes between its reads, what the checks are given of it
\* is what the analysis of it went by.
THEOREM BytesAgree == ASSUME Parameters PROVE Spec => []ChecksSeeAnalyzedBytes
<1>1. IInv => ChecksSeeAnalyzedBytes
  BY DEF IInv
<1> QED
  BY <1>1, Inductive, PTL

-----------------------------------------------------------------------------
(* What ends a scan.  From then on it stands where it gave up.             *)

\* The list of a directory was read when the walk came by: if nobody touched
\* the directory since, it is one that cannot be opened.
LEMMA GiveUpOnDirectory == ASSUME Parameters, IInv, FailDirectory PROVE FilesNeverAbort'
<1>1. /\ ~ file.open /\ pending # <<>> /\ Current.type = "directory" /\ ~ Skipped(Current.node)
      /\ tree[Current.node] # Directory(TRUE) /\ outcome' = "aborted"
      /\ UNCHANGED <<tree, rules, pending, file, discovered, policyInputs, sources, touched>>
  BY DEF FailDirectory, Visiting
<1>2. Current.node \in Nodes /\ Current = pending[1] /\ 1 \in DOMAIN pending
  BY Ahead DEF IInv, FailDirectory
<1>3. ASSUME Current.node \in Undisturbed \ {Root}
      PROVE  tree[Current.node] = Directory(FALSE)
  <2>1. tree[Current.node].type = "directory"
    BY <1>1, <1>2, <1>3 DEF IInv, TreeInv, StillTrue
  <2>2. tree[Current.node] \in Entry
    BY <1>2 DEF IInv, TypeOK
  <2>3. \A e \in Entry : e.type = "directory" => e \in {Directory(TRUE), Directory(FALSE)}
    BY DEF Entry, Plain, Directory, Regular, Special, Gone, Link
  <2> QED
    BY <1>1, <2>1, <2>2, <2>3
<1>4. Unlistable(Current)
  BY <1>1, <1>3 DEF Unlistable
<1>5. Current' = Current /\ Unlistable(Current)'
  BY <1>1, <1>4 DEF Current, Unlistable, Skipped, Undisturbed
<1> QED
  BY <1>1, <1>5 DEF FilesNeverAbort

\* An analyzer is asked for a file that nobody touched on the content it has,
\* and after all the detectors before it have left the file alone.
LEMMA GiveUpOnAnalyzer ==
  ASSUME Parameters, IInv, AskAnalyzer, outcome' \in {"aborted", "crashed"}
  PROVE  FilesNeverAbort'
<1>1. PICK n \in Nodes : n = file.node
  BY FileTypes DEF AskAnalyzer, Asking
<1>2. PICK content : content = IF file.content # Unreadable THEN file.content ELSE Read(n)
  OBVIOUS
<1>3. /\ Asking /\ file.open /\ rules.detectors[Asked].analyzer /\ outcome = "walking"
      /\ content # Unreadable
      /\ rules.detectors[Asked].verdict[content] = IF outcome' = "aborted" THEN "invalid" ELSE "overflow"
      /\ UNCHANGED <<tree, rules, touched, file>>
  <2>1. /\ Asking /\ file.open /\ rules.detectors[Asked].analyzer /\ outcome = "walking"
        /\ UNCHANGED <<tree, rules, touched>>
    BY DEF AskAnalyzer, Asking, Analyzing
  <2> QED
    BY <1>1, <1>2, <2>1 DEF AskAnalyzer, ClaimFailed, Claim
<1>4. content \in Contents
  BY <1>1, <1>2, <1>3, FileTypes, ReadTypes DEF FoundContent, Asking
<1>5. Asked \in DOMAIN rules.detectors /\ n \in rules.detectors[Asked].matches
  BY <1>1, <1>3, AskedIsFirst
<1>6. n \in Undisturbed => content = Read(n)
  BY <1>1, <1>2, <1>3 DEF IInv, ReportInv
<1>7. ASSUME n \in Undisturbed, NEW k \in Claiming(n)
      PROVE  Asked <= k
  <2>1. k \in DOMAIN rules.detectors /\ n \in rules.detectors[k].matches
    BY DEF Claiming
  <2>2. file.from <= k
    BY <1>1, <1>3, <1>7 DEF IInv, ReportInv
  <2> QED
    BY <1>1, <1>3, <2>1, <2>2, AskedIsFirst
<1>8. Broken(n)'
  <2>1. Undisturbed' = Undisturbed /\ Read(n)' = Read(n) /\ Claiming(n)' = Claiming(n)
    BY <1>3, SameView DEF Undisturbed
  <2>2. PICK i, d : i = Asked /\ d = rules.detectors[Asked]
    OBVIOUS
  <2>3. Breaks(d, n, content)'
    BY <1>3, <1>5, <1>6, <2>1, <2>2 DEF Breaks
  <2>4. /\ i \in DOMAIN rules'.detectors /\ d = rules'.detectors[i]
        /\ n \in Undisturbed' => \A k \in Claiming(n)' : i <= k
    BY <1>3, <1>5, <1>7, <2>1, <2>2
  <2> QED
    BY <1>4, <2>3, <2>4 DEF Broken
<1>9. file'.open /\ file'.node = n
  BY <1>1, <1>3
<1> QED
  BY <1>8, <1>9 DEF FilesNeverAbort

\* A pipe is waited for only where somebody put it.
LEMMA HeldUpByOthers == ASSUME Parameters, IInv, WaitForWriter PROVE FilesNeverAbort'
<1>1. /\ Analyzing /\ file.open /\ Target(file.node).type = "special" /\ outcome' = "waiting"
      /\ UNCHANGED <<tree, rules, file, touched>>
  BY DEF WaitForWriter, AtPipe, Analyzing
<1>2. ASSUME file.node \in Undisturbed
      PROVE  FALSE
  <2>1. Eligible(Listed(file.node, tree[file.node].type))
    BY <1>1, <1>2 DEF IInv, FileInv, TreeInv, Visible
  <2> QED
    BY <1>1, <2>1 DEF Eligible, Listed, Target
<1>3. Waiting'
  BY <1>1, <1>2 DEF Waiting, Undisturbed
<1> QED
  BY <1>1, <1>3 DEF FilesNeverAbort

\* For every tree, all rules and any number of changes by others: no file ends
\* the scan or holds it up, but a directory that cannot be listed and an analyzer that breaks
\* its contract do.
THEOREM FilesHarmless == ASSUME Parameters PROVE Spec => []FilesNeverAbort
<1>1. Init => FilesNeverAbort
  BY DEF Init, FilesNeverAbort
<1>2. ASSUME IInv, FilesNeverAbort, [Next]_vars
      PROVE  FilesNeverAbort'
  <2>1. CASE FailDirectory
    BY <1>2, <2>1, GiveUpOnDirectory
  <2>2. CASE AskAnalyzer
    <3>1. outcome' \in {"walking", "aborted", "crashed"}
      BY <2>2 DEF AskAnalyzer, ClaimFailed, Claim, Asking, Analyzing
    <3>2. CASE outcome' = "walking"
      BY <3>2 DEF FilesNeverAbort
    <3> QED
      BY <1>2, <2>2, <3>1, <3>2, GiveUpOnAnalyzer
  <2>3. CASE UNCHANGED vars
    <3>1. UNCHANGED <<tree, rules, pending, file, discovered, policyInputs, sources, outcome, touched>>
      BY <2>3 DEF vars
    <3>2. Undisturbed' = Undisturbed /\ \A n \in Nodes : Read(n)' = Read(n) /\ Claiming(n)' = Claiming(n)
      BY <3>1, SameView DEF Undisturbed
    <3>3. Current' = Current /\ (Unlistable(Current)' <=> Unlistable(Current))
      BY <3>1, <3>2 DEF Current, Unlistable, Skipped
    <3>4. file.open => file.node \in Nodes
      <4>1. ~ NoFile.open
        BY DEF NoFile
      <4>2. \A x \in [node : Nodes, open : {TRUE}, collect : BOOLEAN,
                       from : 1 .. (Len(rules.detectors) + 1), content : FoundContent] : x.node \in Nodes
        OBVIOUS
      <4> QED
        BY <1>2, <4>1, <4>2 DEF IInv, TypeOK
    <3>5. file.open => (Broken(file.node)' <=> Broken(file.node))
      BY <3>1, <3>2, <3>4 DEF Broken, Breaks
    <3>6. Waiting' = Waiting /\ Target(Root)' = Target(Root)
      BY <3>1, <3>2 DEF Waiting, Target
    <3> QED
      BY <1>2, <3>1, <3>3, <3>5, <3>6 DEF FilesNeverAbort
  <2>4. CASE WaitForWriter
    BY <1>2, <2>4, HeldUpByOthers
  <2>5. CASE Begin
    BY <2>5 DEF Begin, Start, FilesNeverAbort, Target
  <2>6. CASE ~ FailDirectory /\ ~ AskAnalyzer /\ ~ WaitForWriter /\ ~ Begin /\ Next
    <3>1. outcome' \in {"walking", "done"} \/ (outcome' = outcome /\ outcome = "walking")
      BY <2>6 DEF Next, Work, Walk, Dispatch, SkipDirectory, EnterDirectory, SkipFile,
                  OpenFile, Visiting, CollectPyproject, Identify, Claim, LeaveUnclaimed, Asking,
                  Analyzing, Finish, Edit
    <3> QED
      BY <3>1 DEF FilesNeverAbort
  <2> QED
    BY <1>2, <2>1, <2>2, <2>3, <2>4, <2>5, <2>6
<1>3. IInv /\ FilesNeverAbort /\ [Next]_vars => FilesNeverAbort'
  BY <1>2
<1> QED
  BY <1>1, <1>3, Inductive, PTL DEF Spec
=============================================================================
