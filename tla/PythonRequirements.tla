------------------------- MODULE PythonRequirements -------------------------
(***************************************************************************)
(* What counts as a Python requirement (internal/analyze/                  *)
(* python_requirement.go, pep508.go) and how a text with several of them   *)
(* is split (terraform_glue_python.go, typescript.go).                     *)
(*                                                                         *)
(* A text is a sequence of tokens, blanks left out.  "v" is a variable or  *)
(* a closed quotation of a marker, ">=1" an operator with its version,     *)
(* "'" a quotation mark on its own; any other word is a name.              *)
(***************************************************************************)
EXTENDS Texts

\* What a text may not contain: options, local paths, wheels, URLs and direct
\* references, placeholders.
Unsupported == {"-e", "./path", "a.whl", "url", "@", "${x}"}
Marks == {"[", "]", ",", ";", "'", ">=1", "<", "in", "not", "and", "or", "(", ")", "v"}
IsName(t) == t \notin Marks \cup Unsupported

-----------------------------------------------------------------------------
(* The parser of markers.  Each operator takes a text and the position it  *)
(* has come to, and returns the position behind what it accepts, or Fails. *)

Fails == 0
At(m, p) == IF p \in DOMAIN m THEN m[p] ELSE "end"

MarkerValue(m, p) == IF At(m, p) = "v" THEN p + 1 ELSE Fails
MarkerOperator(m, p) ==
  CASE At(m, p) \in {"<", "in"} -> p + 1
    [] At(m, p) = "not" /\ At(m, p + 1) = "in" -> p + 2
    [] OTHER -> Fails
Then(p, Parse(_)) == IF p = Fails THEN Fails ELSE Parse(p)
Comparison(m, p) ==
  Then(MarkerValue(m, p),
       LAMBDA q : Then(MarkerOperator(m, q), LAMBDA r : MarkerValue(m, r)))

\* "a or b or c", "a and b and c": the loops of the code, here on the
\* right-hand side; a term is a comparison or stands in parentheses.
Expression(m, start) ==
  LET parse[level \in {"or", "and", "term"}, p \in 1 .. Len(m) + 1] ==
        CASE level = "or" ->
               Then(parse["and", p],
                    LAMBDA q : IF At(m, q) = "or" THEN parse["or", q + 1] ELSE q)
          [] level = "and" ->
               Then(parse["term", p],
                    LAMBDA q : IF At(m, q) = "and" THEN parse["and", q + 1] ELSE q)
          [] level = "term" /\ At(m, p) = "(" ->
               Then(parse["or", p + 1], LAMBDA q : IF At(m, q) = ")" THEN q + 1 ELSE Fails)
          [] OTHER -> Comparison(m, p)
  IN  parse["or", start]

\* Mutant: what is left behind the expression is not looked at.
AnyPrefix(m) == Expression(m, 1) # Fails
ValidMarker(m) == Expression(m, 1) = Len(m) + 1

-----------------------------------------------------------------------------
(* A requirement: name, extras, version constraints, marker.               *)

Alternating(s, Item(_)) ==
  /\ Len(s) % 2 = 1
  /\ \A i \in DOMAIN s : IF i % 2 = 1 THEN Item(s[i]) ELSE s[i] = ","
IsExtras(s) ==
  s # <<>> => /\ Len(s) > 2 /\ Head(s) = "[" /\ Last(s) = "]"
              /\ Alternating(SubSeq(s, 2, Len(s) - 1), IsName)
IsConstraints(s) == s # <<>> => Alternating(s, LAMBDA t : t = ">=1")
IsMarkerPart(s) == s # <<>> => Head(s) = ";" /\ Len(s) > 1 /\ ValidMarker(Tail(s))

IsRequirement(text) ==
  /\ text # <<>> /\ IsName(Head(text))
  /\ \A i \in DOMAIN text : text[i] \notin Unsupported
  /\ \E i \in 1 .. Len(text) : \E j \in i .. Len(text) :
       /\ IsExtras(SubSeq(text, 2, i))
       /\ IsConstraints(SubSeq(text, i + 1, j))
       /\ IsMarkerPart(SubSeq(text, j + 1, Len(text)))

-----------------------------------------------------------------------------
(* Splitting.                                                              *)

\* Every comma separates, and empty parts are dropped.
SplitExtractedValue(text) == NotEmpty(Split(text, ","))

\* A comma separates unless it stands in brackets or in a quotation.  mark is
\* the quotation that is open, depth the number of open brackets.
Opened == [mark |-> FALSE, depth |-> 0, cuts |-> {}, at |-> 1]
ReadToken(state, t) ==
  LET s == [state EXCEPT !.at = @ + 1]
  IN  CASE t = "'" -> [s EXCEPT !.mark = ~ @]
        [] ~ state.mark /\ t = "[" -> [s EXCEPT !.depth = @ + 1]
        [] ~ state.mark /\ t = "]" -> [s EXCEPT !.depth = IF @ > 0 THEN @ - 1 ELSE 0]
        [] ~ state.mark /\ t = "," /\ state.depth = 0 ->
             [s EXCEPT !.cuts = @ \cup {state.at}]
        [] OTHER -> s
OuterCommas(text) == FoldLeft(ReadToken, Opened, text).cuts

BeginsPythonVersionConstraint(part) == Head(part) \in {">=1", "<"}
\* Mutant: a version constraint behind a comma is an entry of its own.
JoinNothing(parts, part) == Append(parts, part)
JoinConstraint(parts, part) ==
  IF BeginsPythonVersionConstraint(part) /\ parts # <<>>
    THEN Append(Front(parts), Last(parts) \o <<",">> \o part)
    ELSE Append(parts, part)

EmptyEntry == <<<<"empty entry">>>>
SplitTerraformGlueModules(text) ==
  LET parts == Pieces(text, OuterCommas(text))
  IN  IF text = <<>> THEN <<>>
      ELSE IF \E i \in DOMAIN parts : parts[i] = <<>> THEN EmptyEntry
      ELSE FoldLeft(JoinConstraint, <<>>, parts)
=============================================================================
