-------------------------------- MODULE Scan --------------------------------
(***************************************************************************)
(* Scan (internal/analyze/scan.go) with the dispatch of detectors          *)
(* (rules.go): the walk over the tree, what is read of each file, and      *)
(* which detector a file belongs to, while others change the tree.         *)
(*                                                                         *)
(* The paths of the tree are fixed nodes; what stands at a path is its     *)
(* entry, or Gone.  The walk reads a directory when it enters it and later *)
(* visits the names and types it found there.                              *)
(***************************************************************************)
EXTENDS Naturals, Sequences, FiniteSets

CONSTANTS Nodes, Root,
          Below,         \* the nodes in a directory, in lexical order
          Pyprojects,    \* nodes whose base name is pyproject.toml
          Contents,      \* what can be read of a file
          Unreadable,    \* what a failing read returns
          Trees,         \* the trees a scan may start with
          Entries,       \* what somebody else may put at a path
          MaxEdits       \* bound: how often that happens

\* Special: a pipe that nobody writes to.  (A socket or a device that is put
\* where a file has been looked at is as good as another file.)
Directory(opens) == [type |-> "directory", opens |-> opens]
Regular(content) == [type |-> "regular", content |-> content]
Special == [type |-> "special"]
Gone == [type |-> "gone"]
Link(target) == [type |-> "symlink", target |-> target]
Plain == {Regular(c) : c \in Contents \cup {Unreadable}} \cup
         {Directory(opens) : opens \in BOOLEAN} \cup {Special, Gone}
Entry == Plain \cup {Link(target) : target \in Plain}

\* What an analyzer makes of a content it can read: it claims the file, fails
\* on it, leaves it to later detectors, breaks the rules for results, or calls
\* itself until the stack overflows.
Verdicts == {"recognized", "error", "other", "invalid", "overflow"}
Detector == [matches : SUBSET Nodes, analyzer : BOOLEAN,
             policyContent : BOOLEAN,  \* needsPolicyContent
             verdict : [Contents -> Verdicts]]
\* ignored: nodes whose base name is the name of a directory to ignore.
Ruleset == [detectors : Seq(Detector), uv : BOOLEAN, ignored : SUBSET Nodes]

Contains(d, n) == \E i \in DOMAIN Below[d] : Below[d][i] = n
\* The directories that a path leads through.
Above[n \in Nodes] == UNION {{d} \cup Above[d] : d \in {m \in Nodes : Contains(m, n)}}
Chain(n) == Above[n] \cup {n}

\* Paths are those of a tree: each lies in one directory, under one name, and
\* can be reached from the root.
PathsFormTree ==
  /\ \A d \in Nodes : \A i, j \in DOMAIN Below[d] : Below[d][i] = Below[d][j] => i = j
  /\ \A d, n \in Nodes : Contains(d, n) => Above[n] = Chain(d)
  /\ \A n \in Nodes :
       /\ Above[n] \subseteq Nodes \ {n} /\ Root \in Chain(n)
       /\ \A d \in Above[n] : /\ Above[d] \subseteq Above[n]
                             /\ \E c \in Chain(n) : Contains(d, c)

\* What the constants are.  Nothing stands below what is no directory, but for
\* a root that is a link to one.
Parameters ==
  /\ Root \in Nodes /\ Pyprojects \subseteq Nodes
  /\ Below \in [Nodes -> Seq(Nodes)] /\ PathsFormTree
  /\ Unreadable \notin Contents
  /\ Trees \subseteq [Nodes -> Entry] /\ Entries \subseteq Entry
  /\ \A t \in Trees : \A n \in Nodes : t[n].type # "gone" =>
       \A d \in Above[n] :
         \/ t[d].type = "directory"
         \/ d = Root /\ t[d].type = "symlink" /\ t[d].target.type = "directory"
  /\ MaxEdits \in Nat

VARIABLES tree,          \* what stands at each path now
          rules,         \* the composed rules, and what to ignore
          pending,       \* names that the walk has listed and not visited
          file,          \* the file under analysis, if any
          discovered,    \* discoveredPaths
          policyInputs,  \* pyproject.toml files for the uv evaluator
          sources,       \* result.Sources
          outcome,       \* how far the scan is
          touched        \* paths that somebody else has changed meanwhile

vars == <<tree, rules, pending, file, discovered, policyInputs, sources,
          outcome, touched>>

NoFile == [node |-> Root, open |-> FALSE]
\* Mutant: detectors are counted from 0.
FileFromZero(node, collect) ==
  [node |-> node, open |-> TRUE, collect |-> collect, from |-> 0,
   content |-> Unreadable]
\* content is what the dispatch was given or has read; Unreadable if neither.
File(node, collect) ==
  [node |-> node, open |-> TRUE, collect |-> collect, from |-> 1,
   content |-> Unreadable]

Listed(node, type) == [node |-> node, type |-> type]
\* A place in the directory where nothing stands is passed over as a file
\* that is not looked at.
Listing(dir) == [i \in DOMAIN Below[dir] |-> Listed(Below[dir][i], tree[Below[dir][i]].type)]

\* os.Stat follows a link, and os.ReadFile too.
Target(node) == IF tree[node].type = "symlink" THEN tree[node].target
                                               ELSE tree[node]
Read(node) == IF Target(node).type = "regular" THEN Target(node).content
                                               ELSE Unreadable

\* Nothing is looked at before the scan starts.
Init == /\ tree \in Trees
        /\ rules = [detectors |-> <<>>, uv |-> FALSE, ignored |-> {}]
        /\ pending = <<>>
        /\ file = NoFile
        /\ discovered = {} /\ policyInputs = {} /\ sources = {}
        /\ outcome = "idle"
        /\ touched = {}

\* The root may be a link to a directory, and WalkDir then visits it as a link.
Start(ruleset) ==
  /\ outcome = "idle"
  /\ rules' = ruleset
  /\ IF Target(Root).type = "directory"
       THEN pending' = <<Listed(Root, tree[Root].type)>> /\ outcome' = "walking"
       ELSE outcome' = "aborted" /\ UNCHANGED pending
  /\ UNCHANGED <<tree, file, discovered, policyInputs, sources, touched>>

Visiting == outcome = "walking" /\ ~ file.open /\ pending # <<>>
Current == Head(pending)

Skipped(node) == node # Root /\ node \in rules.ignored

SkipDirectory ==
  /\ Visiting /\ Current.type = "directory" /\ Skipped(Current.node)
  /\ pending' = Tail(pending)
  /\ UNCHANGED <<tree, rules, file, discovered, policyInputs, sources, outcome, touched>>

EnterDirectory ==
  /\ Visiting /\ Current.type = "directory" /\ ~ Skipped(Current.node)
  /\ tree[Current.node] = Directory(TRUE)
  /\ pending' = Listing(Current.node) \o Tail(pending)
  /\ UNCHANGED <<tree, rules, file, discovered, policyInputs, sources, outcome, touched>>

\* A directory that cannot be listed, any more or at all, ends the scan.
FailDirectory ==
  /\ Visiting /\ Current.type = "directory" /\ ~ Skipped(Current.node)
  /\ tree[Current.node] # Directory(TRUE)
  /\ outcome' = "aborted"
  /\ UNCHANGED <<tree, rules, pending, file, discovered, policyInputs, sources, touched>>

\* Mutant: only directories are left out, and streams are read.
NoDirectory(entry) == /\ entry.type \in {"regular", "special", "symlink"}
                      /\ entry.type = "symlink" => Target(entry.node).type # "directory"
\* Links are kept if their target is a regular file or cannot be looked up.
Eligible(entry) == \/ entry.type = "regular"
                   \/ /\ entry.type = "symlink"
                      /\ Target(entry.node).type \in {"regular", "gone"}

SkipFile ==
  /\ Visiting /\ Current.type # "directory" /\ ~ Eligible(Current)
  /\ pending' = Tail(pending)
  /\ UNCHANGED <<tree, rules, file, discovered, policyInputs, sources, outcome, touched>>

OpenFile ==
  /\ Visiting /\ Current.type # "directory" /\ Eligible(Current)
  /\ pending' = Tail(pending)
  /\ discovered' = discovered \cup {Current.node}
  /\ file' = File(Current.node, rules.uv /\ Current.node \in Pyprojects)
  /\ UNCHANGED <<tree, rules, policyInputs, sources, outcome, touched>>

-----------------------------------------------------------------------------
(* One file.                                                               *)

Analyzing == outcome = "walking" /\ file.open
Close == file' = NoFile

\* The detectors that are left to ask, the first of them next.
Matching == {i \in file.from .. Len(rules.detectors) :
               file.node \in rules.detectors[i].matches}
\* Mutant: the last detector that matches is asked first.
Last(S) == CHOOSE i \in S : \A j \in S : j <= i
First(S) == CHOOSE i \in S : \A j \in S : i <= j
Asked == First(Matching)

\* The next thing to do is a read, of a pipe that stands where a file was.
Reads(detector) == IF detector.analyzer THEN file.content = Unreadable ELSE detector.policyContent
AtPipe == /\ file.collect \/ (Matching # {} /\ Reads(rules.detectors[Asked]))
          /\ Target(file.node).type = "special"
WaitForWriter ==
  /\ Analyzing /\ AtPipe
  /\ outcome' = "waiting"
  /\ UNCHANGED <<tree, rules, pending, file, discovered, policyInputs, sources, touched>>

\* Mutant: the content that was collected is not handed on.
CollectedOnly(content) == [file EXCEPT !.collect = FALSE]
Collected(content) == [file EXCEPT !.collect = FALSE, !.content = content]

\* A pyproject.toml is read for the uv evaluator whatever the detectors say.
CollectPyproject ==
  /\ Analyzing /\ file.collect /\ ~ AtPipe
  /\ policyInputs' = policyInputs \cup {[path |-> file.node, content |-> Read(file.node)]}
  /\ file' = Collected(Read(file.node))
  /\ UNCHANGED <<tree, rules, pending, discovered, sources, outcome, touched>>

Asking == Analyzing /\ ~ file.collect /\ Matching # {} /\ ~ AtPipe

\* The content kept for the checks, and what the analysis went by.
Source(state, content) ==
  [path |-> file.node, detector |-> Asked, state |-> state,
   content |-> IF rules.detectors[Asked].policyContent THEN content ELSE Unreadable,
   basis |-> content]
Claim(state, content) == /\ sources' = sources \cup {Source(state, content)}
                         /\ Close
                         /\ UNCHANGED outcome

\* A detector without an analyzer takes the file as it is, and reads it only
\* for the checks, whatever was read before.
Identify ==
  /\ Asking /\ ~ rules.detectors[Asked].analyzer
  /\ LET content == Read(file.node) IN
       IF rules.detectors[Asked].policyContent
         THEN Claim(IF content = Unreadable THEN "unread" ELSE "identified", content)
         ELSE Claim("identified", Unreadable)
  /\ UNCHANGED <<tree, rules, pending, discovered, policyInputs, touched>>

\* Mutant: a failing analyzer ends the scan.
AbortFailed(content) == outcome' = "aborted" /\ UNCHANGED <<file, sources>>
ClaimFailed(content) == Claim("failed", content)

AskAnalyzer ==
  /\ Asking /\ rules.detectors[Asked].analyzer
  /\ LET content == IF file.content # Unreadable THEN file.content ELSE Read(file.node)
         verdict == rules.detectors[Asked].verdict[content]
     IN  \/ content = Unreadable /\ Claim("unread", Unreadable)
         \/ content # Unreadable /\ verdict = "error" /\ ClaimFailed(content)
         \/ content # Unreadable /\ verdict = "recognized" /\ Claim("analyzed", content)
         \/ /\ content # Unreadable /\ verdict = "other"
            /\ file' = [file EXCEPT !.from = Asked + 1, !.content = content]
            /\ UNCHANGED <<sources, outcome>>
         \/ /\ content # Unreadable /\ verdict \in {"invalid", "overflow"}
            /\ outcome' = IF verdict = "invalid" THEN "aborted" ELSE "crashed"
            /\ UNCHANGED <<file, sources>>
  /\ UNCHANGED <<tree, rules, pending, discovered, policyInputs, touched>>

LeaveUnclaimed ==
  /\ Analyzing /\ ~ file.collect /\ Matching = {}
  /\ Close
  /\ UNCHANGED <<tree, rules, pending, discovered, policyInputs, sources, outcome, touched>>

\* The checks have been evaluated and the contents are dropped.
Finish ==
  /\ outcome = "walking" /\ ~ file.open /\ pending = <<>>
  /\ sources' = {[s EXCEPT !.content = Unreadable] : s \in sources}
  /\ outcome' = "done"
  /\ UNCHANGED <<tree, rules, pending, file, discovered, policyInputs, touched>>

\* Somebody else replaces what stands at a path, but the root.  What replaces
\* a directory leaves nothing below it.
Edit ==
  /\ outcome = "walking" /\ Cardinality(touched) < MaxEdits
  /\ \E n \in Nodes \ (touched \cup {Root}), entry \in Entries :
       /\ \A d \in Above[n] \ {Root} : tree[d].type = "directory"
       /\ entry # tree[n]
       /\ tree' = [m \in Nodes |->
                     IF m = n THEN entry
                     ELSE IF n \in Above[m] THEN Gone
                     ELSE tree[m]]
       /\ touched' = touched \cup {n}
  /\ UNCHANGED <<rules, pending, file, discovered, policyInputs, sources, outcome>>

Walk == SkipDirectory \/ EnterDirectory \/ FailDirectory \/ SkipFile \/ OpenFile
Dispatch == WaitForWriter \/ CollectPyproject \/ Identify \/ AskAnalyzer \/ LeaveUnclaimed
Work == Walk \/ Dispatch \/ Finish
Begin == rules' \in Ruleset /\ Start(rules')
Next == Begin \/ Work \/ Edit
Spec == Init /\ [][Next]_vars

-----------------------------------------------------------------------------
Place == [node : Nodes, type : {"directory", "regular", "symlink", "special", "gone"}]
FoundContent == Contents \cup {Unreadable}

\* Every variable has its type.
TypeOK == /\ tree \in [Nodes -> Entry] /\ rules \in Ruleset
          /\ pending \in Seq(Place)
          /\ \/ file = NoFile
             \/ file \in [node : Nodes, open : {TRUE}, collect : BOOLEAN,
                         from : 1 .. (Len(rules.detectors) + 1), content : FoundContent]
          /\ discovered \subseteq Nodes
          /\ policyInputs \subseteq [path : Nodes, content : FoundContent]
          /\ sources \subseteq
               [path : Nodes, detector : DOMAIN rules.detectors,
                state : {"identified", "unread", "failed", "analyzed"},
                content : FoundContent, basis : FoundContent]
          /\ outcome \in {"idle", "walking", "waiting", "aborted", "crashed", "done"}
          /\ touched \subseteq Nodes

\* Files that nobody touched, in directories that nobody touched.
Undisturbed == {n \in Nodes : (Above[n] \cup {n}) \cap touched = {}}
\* Files that a scan is to look at: under true directories, of which none but
\* the root is ignored.
Visible == {n \in Nodes :
              /\ \A d \in Above[n] : tree[d].type = "directory" /\ ~ Skipped(d)
              /\ Eligible(Listed(n, tree[n].type))}

\* The detectors that would claim a file, asked in order.
Claiming(n) == {i \in DOMAIN rules.detectors :
                  LET d == rules.detectors[i] IN
                  /\ n \in d.matches
                  /\ \/ ~ d.analyzer \/ Read(n) = Unreadable
                     \/ d.verdict[Read(n)] # "other"}
StateBy(d, content) ==
  CASE d.analyzer /\ content # Unreadable ->
         IF d.verdict[content] = "error" THEN "failed" ELSE "analyzed"
    [] content = Unreadable /\ (d.analyzer \/ d.policyContent) -> "unread"
    [] OTHER -> "identified"

Reported(n) == {<<s.detector, s.state>> : s \in {t \in sources : t.path = n}}
Expected(n) ==
  IF n \in Visible /\ Claiming(n) # {}
    THEN LET i == CHOOSE j \in Claiming(n) : \A k \in Claiming(n) : j <= k
         IN  {<<i, StateBy(rules.detectors[i], Read(n))>>}
    ELSE {}

\* Whatever others do to the rest of the tree, a scan that succeeds reports
\* every file they leave alone, and reports it once, for the first detector
\* in the order of the rules that claims it, or not at all if there is none.
UndisturbedFilesReported ==
  outcome = "done" => \A n \in Undisturbed : Reported(n) = Expected(n)

\* The checks never judge other bytes than the analysis of the same file
\* went by: what is kept for them and what the uv evaluator is given.
ChecksSeeAnalyzedBytes ==
  \A s \in sources :
    /\ s.content \in {Unreadable, s.basis}
    /\ s.state \in {"analyzed", "failed"} =>
         \A input \in policyInputs :
           input.path = s.path /\ input.content # Unreadable => input.content = s.basis

\* The walk stands before a directory that cannot be listed, any more or, if
\* nobody touched it, at all.
Unlistable(entry) ==
  /\ entry.type = "directory" /\ ~ Skipped(entry.node) /\ tree[entry.node] # Directory(TRUE)
  /\ entry.node \in Undisturbed \ {Root} => tree[entry.node] = Directory(FALSE)
\* The analyzer of a detector breaks its contract, or overflows, on some content
\* of a file; if nobody touched it, on the content it has, before it is claimed.
Breaks(d, n, content) ==
  /\ n \in d.matches /\ d.analyzer
  /\ d.verdict[content] = IF outcome = "aborted" THEN "invalid" ELSE "overflow"
  /\ n \in Undisturbed => content = Read(n)
Broken(n) ==
  \E i \in DOMAIN rules.detectors, content \in Contents :
    /\ Breaks(rules.detectors[i], n, content)
    /\ n \in Undisturbed => \A k \in Claiming(n) : i <= k

\* The scan has come to a pipe that somebody put where a file had been looked
\* at; what was a pipe all along is not waited for.
Waiting == outcome = "waiting" /\ file.open /\ file.node \notin Undisturbed

\* No file, however unreadable or malformed, ends the scan: where a scan gives
\* up, its root is no directory, it stands before a directory that cannot be
\* listed, or has asked an analyzer that breaks its contract on this file or,
\* when it crashes, overflows.  Nor does a pipe that nobody touched hold it up.
FilesNeverAbort ==
  /\ outcome = "aborted" =>
       \/ Target(Root).type # "directory"
       \/ ~ file.open /\ pending # <<>> /\ Unlistable(Current)
       \/ file.open /\ Broken(file.node)
  /\ outcome = "crashed" => file.open /\ Broken(file.node)
  /\ outcome = "waiting" => Waiting
=============================================================================
