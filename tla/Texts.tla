-------------------------------- MODULE Texts --------------------------------
(***************************************************************************)
(* Texts as sequences of tokens: positions in order, and what lies between *)
(* the positions at which a text is cut (strings.Split and its like).      *)
(***************************************************************************)
EXTENDS Integers, Sequences, FiniteSets, FiniteSetsExt, SequencesExt

\* No position.
None == 0
Least(S) == IF S = {} THEN None ELSE Min(S)
Ascending(S) ==
  LET upTo[n \in 0 .. (IF S = {} THEN 0 ELSE Max(S))] ==
        IF n = 0 THEN <<>>
        ELSE IF n \in S THEN Append(upTo[n - 1], n) ELSE upTo[n - 1]
  IN  upTo[IF S = {} THEN 0 ELSE Max(S)]

\* SelectSeq, in terms of the positions that are selected.
AtPlaces(s, places) ==
  LET order == Ascending(places) IN [n \in DOMAIN order |-> s[order[n]]]
Selection(s, Test(_)) == AtPlaces(s, {i \in DOMAIN s : Test(s[i])})

\* strings.Cut, strings.TrimPrefix.
FirstOf(text, marks) == Least({i \in DOMAIN text : text[i] \in marks})
LastOf(text, mark) ==
  LET found == {i \in DOMAIN text : text[i] = mark}
  IN  IF found = {} THEN None ELSE Max(found)
Before(text, i) == IF i = None THEN text ELSE SubSeq(text, 1, i - 1)
After(text, i) == IF i = None THEN <<>> ELSE SubSeq(text, i + 1, Len(text))
TrimPrefix(text, mark) ==
  IF text # <<>> /\ Head(text) = mark THEN Tail(text) ELSE text

Between(text, from, to) == SubSeq(text, from + 1, to - 1)
Pieces(text, cuts) ==
  LET ends == Ascending(cuts \cup {Len(text) + 1})
  IN  [i \in DOMAIN ends |-> Between(text, IF i = 1 THEN 0 ELSE ends[i - 1], ends[i])]
NotEmpty(pieces) == Selection(pieces, LAMBDA piece : piece # <<>>)
Split(text, mark) == Pieces(text, {i \in DOMAIN text : text[i] = mark})

\* The first of every kind, in order: a map of what has been seen.
Distinct(s) ==
  LET first == {i \in DOMAIN s : \A j \in 1 .. (i - 1) : s[j] # s[i]}
  IN  AtPlaces(s, first)
=============================================================================
