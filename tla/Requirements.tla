---------------------------- MODULE Requirements ----------------------------
(***************************************************************************)
(* pyRequirementsMatcher (internal/analyze/py_requirements.go): a Python   *)
(* requirements file is read with every file it includes, and the files    *)
(* those include.                                                          *)
(*                                                                         *)
(* The stack holds the calls of collectDependencies that have not          *)
(* returned.  A call reads its file once, before its first line, and       *)
(* appends what it finds; a caller appends the results of a call in the    *)
(* place of the include, so that one sequence serves all of them.  Files   *)
(* are named by their cleaned paths.                                       *)
(***************************************************************************)
EXTENDS SourceAnalysis, FiniteSets, Sequences

CONSTANTS Paths,         \* files that can be included
          Start,         \* the file the detector selected
          Declarations,  \* lines that are kept as dependencies
          Unreadable,    \* the content of a file that cannot be read
          Trees,         \* the trees the analysis may start with
          Contents,      \* what somebody else may write in a file
          MaxEdits       \* bound: how often that happens

Include(path) == [include |-> path]
Declare(declaration) == [declare |-> declaration]
\* A blank line, a comment or an option that declares nothing.
Ignored == [ignore |-> TRUE]
Line == {Include(p) : p \in Paths} \cup {Declare(d) : d \in Declarations}
          \cup {Ignored}
Content == Seq(Line)

ASSUME RequirementsAssumption ==
  /\ Start \in Paths /\ IsFiniteSet(Paths)
  /\ Unreadable \notin Content
  /\ Trees \subseteq [Paths -> Content \cup {Unreadable}]
  /\ \A tree \in Trees : tree[Start] # Unreadable
  /\ Contents \subseteq Content \cup {Unreadable}
  /\ MaxEdits \in Nat

VARIABLES tree,          \* what the files hold now
          stack,         \* the calls under way, the innermost last
          active,        \* the map of paths that are being read
          dependencies,  \* declarations, in the order they are found
          diagnostics,   \* the includes that were not followed, in order
          result,        \* what Analyze returned, if it did
          edits          \* how often the tree was changed

vars == <<tree, stack, active, dependencies, diagnostics, result, edits>>

NoResult == [returned |-> FALSE]
Frame == [path : Paths, lines : Content, next : Nat \ {0}]
Call(path, lines) == [path |-> path, lines |-> lines, next |-> 1]

\* The scan has read the selected file.
Init == /\ tree \in Trees
        /\ stack = <<Call(Start, tree[Start])>>
        /\ active = {Start}
        /\ dependencies = <<>> /\ diagnostics = <<>>
        /\ result = NoResult
        /\ edits = 0

Top == stack[Len(stack)]
HasLine == stack # <<>> /\ Top.next <= Len(Top.lines)
CurrentLine == Top.lines[Top.next]
Advanced == [stack EXCEPT ![Len(stack)].next = @ + 1]

\* Mutant: the loop does not move past an ignored line.
IgnoreForever == HasLine /\ CurrentLine = Ignored /\ UNCHANGED vars
IgnoreLine == /\ HasLine /\ CurrentLine = Ignored
              /\ stack' = Advanced
              /\ UNCHANGED <<tree, active, dependencies, diagnostics, result, edits>>

KeepLine == /\ HasLine
            /\ \E d \in Declarations :
                 /\ CurrentLine = Declare(d)
                 /\ dependencies' = Append(dependencies, d)
            /\ stack' = Advanced
            /\ UNCHANGED <<tree, active, diagnostics, result, edits>>

\* Mutant: only a file that includes itself is a cycle.
IncludesItself(path) == path = Top.path
IsCycle(path) == path \in active

Diagnosed(path) == Append(diagnostics, path)

\* An include of a file that is being read, or that cannot be read.
RefuseInclude ==
  /\ HasLine
  /\ \E p \in Paths :
       /\ CurrentLine = Include(p)
       /\ IsCycle(p) \/ tree[p] = Unreadable
       /\ diagnostics' = Diagnosed(p)
  /\ stack' = Advanced
  /\ UNCHANGED <<tree, active, dependencies, result, edits>>

FollowInclude ==
  /\ HasLine
  /\ \E p \in Paths :
       /\ CurrentLine = Include(p)
       /\ ~ IsCycle(p) /\ tree[p] # Unreadable
       /\ stack' = Append(Advanced, Call(p, tree[p]))
       /\ active' = active \cup {p}
  /\ UNCHANGED <<tree, dependencies, diagnostics, result, edits>>

\* Mutant: a path stays active after its call, so that a second include of it
\* is taken for a cycle.
StillActive == active
\* The deferred delete.
NoLongerActive == active \ {Top.path}

Return == /\ stack # <<>> /\ ~ HasLine
          /\ stack' = SubSeq(stack, 1, Len(stack) - 1)
          /\ active' = NoLongerActive
          /\ UNCHANGED <<tree, dependencies, diagnostics, result, edits>>

\* Mutant: diagnostics of a failed analysis are warnings.
WarningOutcome(found, refused) ==
  [analysis |-> CASE found > 0 /\ refused > 0 -> Is("present", "partial")
                  [] found = 0 /\ refused > 0 -> FailedAnalysis
                  [] OTHER -> CompleteAnalysis(found),
   dependencies |-> found, warnings |-> refused, errors |-> 0, malformed |-> 0]
Outcome(found, refused) ==
  [analysis |-> CASE found > 0 /\ refused > 0 -> Is("present", "partial")
                  [] found = 0 /\ refused > 0 -> FailedAnalysis
                  [] OTHER -> CompleteAnalysis(found),
   dependencies |-> found,
   warnings |-> IF found > 0 THEN refused ELSE 0,
   errors |-> IF found > 0 THEN 0 ELSE refused,
   malformed |-> 0]

Finish == /\ stack = <<>> /\ result = NoResult
          /\ result' = Outcome(Len(dependencies), Len(diagnostics))
          /\ UNCHANGED <<tree, stack, active, dependencies, diagnostics, edits>>

\* Somebody else writes, removes or restores a file.
Edit == /\ edits < MaxEdits /\ result = NoResult
        /\ \E p \in Paths, c \in Contents : tree' = [tree EXCEPT ![p] = c]
        /\ edits' = edits + 1
        /\ UNCHANGED <<stack, active, dependencies, diagnostics, result>>

Analyze == \/ IgnoreLine \/ KeepLine \/ RefuseInclude \/ FollowInclude
           \/ Return \/ Finish
Next == Analyze \/ Edit

Spec == Init /\ [][Next]_vars /\ WF_vars(Analyze)

-----------------------------------------------------------------------------
\* Every variable has its type.
TypeOK == /\ tree \in [Paths -> Content \cup {Unreadable}]
          /\ stack \in Seq(Frame)
          /\ active \subseteq Paths
          /\ dependencies \in Seq(Declarations)
          /\ diagnostics \in Seq(Paths)
          /\ result \in AnalyzerResult \cup {NoResult}
          /\ edits \in 0 .. MaxEdits

\* The map of active paths, kept by the calls on entry and by their deferred
\* deletes, always holds the paths of the calls that have not returned.
ActiveIsStack == active = {stack[i].path : i \in DOMAIN stack}

\* However files include each other, and however they change meanwhile, no
\* file is being read twice at once and the recursion is no deeper than there
\* are files.
DepthBounded ==
  /\ \A i, j \in DOMAIN stack : stack[i].path = stack[j].path => i = j
  /\ Len(stack) <= Cardinality(Paths)

\* The result is one that validateSourceAnalyzerResult accepts: no
\* requirements file, however broken, aborts the scan.
ResultAccepted == result # NoResult => ValidSourceAnalyzerResult(result)

-----------------------------------------------------------------------------
(* What the analysis of a tree that nobody changes has to return.  A place *)
(* is the sequence of lines that lead to a line: an include of each file   *)
(* but the last one, which is where the line stands.  It passes through no *)
(* file twice.                                                             *)

At(path, i) == [path |-> path, index |-> i, line |-> tree[path][i]]
Standing == UNION {{At(p, i) : i \in DOMAIN tree[p]} :
                     p \in {q \in Paths : tree[q] # Unreadable}}
Leads(s) == /\ s[1].path = Start
            /\ \A i \in 1 .. (Len(s) - 1) : s[i].line = Include(s[i + 1].path)
            /\ \A i, j \in DOMAIN s : s[i].path = s[j].path => i = j
Places == {s \in UNION {[1 .. n -> Standing] : n \in 1 .. Cardinality(Paths)} : Leads(s)}

LineOf(s) == s[Len(s)].line
Declaring == {s \in Places : "declare" \in DOMAIN LineOf(s)}
Refused == {s \in Places :
              /\ "include" \in DOMAIN LineOf(s)
              /\ \/ \E i \in DOMAIN s : s[i].path = LineOf(s).include
                 \/ tree[LineOf(s).include] = Unreadable}

Before(s, t) == \E n \in DOMAIN s \cap DOMAIN t :
                  /\ \A i \in 1 .. (n - 1) : s[i] = t[i]
                  /\ s[n].index < t[n].index
InOrder(S) == [n \in 1 .. Cardinality(S) |->
                 CHOOSE s \in S : Cardinality({t \in S : Before(t, s)}) = n - 1]
DeclaredAt(S) == [n \in 1 .. Cardinality(S) |-> LineOf(InOrder(S)[n]).declare]
IncludedAt(S) == [n \in 1 .. Cardinality(S) |-> LineOf(InOrder(S)[n]).include]

Undisturbed == result # NoResult /\ edits = 0

\* The dependencies are the declarations of the files with each include
\* replaced by what it includes, in order and once for every way to reach
\* them; a way that returns to a file, or needs one that cannot be read, is
\* a diagnostic in its place.
ResultIsExpansion ==
  Undisturbed => /\ dependencies = DeclaredAt(Declaring)
                 /\ diagnostics = IncludedAt(Refused)

\* The analysis of a requirements file ends, also when files include each
\* other and change meanwhile.
AnalysisEnds == <>(result # NoResult)
=============================================================================
