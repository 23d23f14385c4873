------------------------- MODULE GenerationContract -------------------------
(***************************************************************************)
(* What generation promises to whoever looks at the tree while runs of it  *)
(* are at work (README.md and ARCHITECTURE.md, Generation): a run changes  *)
(* nothing until it has accepted everything that it is asked for; then it  *)
(* publishes one file after the other in the order of their paths.  A run  *)
(* that may overwrite publishes a file in one step.  A run that may not    *)
(* claims a path that names nothing, and then completes the file.          *)
(***************************************************************************)
EXTENDS Naturals

CONSTANTS Runs, Overwrite, Dests, Kinds, Plan, NoPlan,
          Foreign(_),        \* what somebody else puts at a path
          Written(_, _, _)   \* a file: its run, its content, whether whole

VARIABLES want,       \* the plans that a successful run carries out
          status,     \* status[r]: undecided, writing, succeeded or failed
          claim,      \* claim[r]: the plan whose file is being completed
          published,  \* published[r]: the plans that are carried out
          node        \* node[d]: what the path d names

vars == <<want, status, claim, published, node>>

Init == /\ want \in SUBSET Plan
        /\ status = [r \in Runs |-> "undecided"]
        /\ claim = [r \in Runs |-> NoPlan]
        /\ published = [r \in Runs |-> {}]
        /\ node \in [Dests -> {Foreign(k) : k \in Kinds}]

Accept(r) == /\ status[r] = "undecided"
             /\ status' = [status EXCEPT ![r] = "writing"]
             /\ UNCHANGED <<want, claim, published, node>>

\* p is a next plan of r, and r has nothing else at hand.
IsNext(r, p) == /\ status[r] = "writing" /\ claim[r] = NoPlan
                /\ p \in want \ published[r]
                /\ \A q \in want \ published[r] : p.group.dest <= q.group.dest

Replace(r, p) ==
  /\ r \in Overwrite /\ IsNext(r, p)
  /\ node[p.group.dest].kind # "directory"
  /\ node' = [node EXCEPT ![p.group.dest] = Written(r, p.group.content, TRUE)]
  /\ published' = [published EXCEPT ![r] = @ \cup {p}]
  /\ UNCHANGED <<want, status, claim>>

Claim(r, p) ==
  /\ r \notin Overwrite /\ IsNext(r, p)
  /\ node[p.group.dest].kind = "absent"
  /\ node' = [node EXCEPT ![p.group.dest] = Written(r, p.group.content, FALSE)]
  /\ claim' = [claim EXCEPT ![r] = p]
  /\ UNCHANGED <<want, status, published>>

\* The claimed file becomes whole, unless its path names something else by now.
Complete(r, p) ==
  /\ claim[r] = p
  /\ LET d == p.group.dest
     IN  node' = IF node[d] = Written(r, p.group.content, FALSE)
                   THEN [node EXCEPT ![d] = Written(r, p.group.content, TRUE)]
                   ELSE node
  /\ claim' = [claim EXCEPT ![r] = NoPlan]
  /\ published' = [published EXCEPT ![r] = @ \cup {p}]
  /\ UNCHANGED <<want, status>>

Succeed(r) == /\ status[r] = "writing" /\ published[r] = want
              /\ status' = [status EXCEPT ![r] = "succeeded"]
              /\ UNCHANGED <<want, claim, published, node>>

\* A run gives up, or dies, at any time: what it has published stays.
Fail(r) == /\ status[r] \in {"undecided", "writing"}
           /\ status' = [status EXCEPT ![r] = "failed"]
           /\ claim' = [claim EXCEPT ![r] = NoPlan]
           /\ UNCHANGED <<want, published, node>>

Edit(d) == /\ \E k \in Kinds : node' = [node EXCEPT ![d] = Foreign(k)]
           /\ UNCHANGED <<want, status, claim, published>>

Next == \/ \E r \in Runs : Accept(r) \/ Succeed(r) \/ Fail(r)
        \/ \E r \in Runs : \E p \in want :
             Replace(r, p) \/ Claim(r, p) \/ Complete(r, p)
        \/ \E d \in Dests : Edit(d)

Spec == Init /\ [][Next]_vars
=============================================================================
