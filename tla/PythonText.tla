----------------------------- MODULE PythonText -----------------------------
(***************************************************************************)
(* How the Python detectors read source text without a parser              *)
(* (internal/analyze/python.go).  A text is a sequence of tokens: brackets,*)
(* "," ":" "=" "." "#", the quotation mark "'", the end of a line "nl",    *)
(* and words; the name of a module is one word, with its dots.  What       *)
(* stands between two quotation marks is the content of a string, token by *)
(* token; prefixes of strings and escapes are left out.  A blank is left   *)
(* out too, unless it stands between a name and its parenthesis; "_" is    *)
(* the part of an identifier in front of the name that it ends with.       *)
(***************************************************************************)
EXTENDS Texts

NL == "nl"
Quote == "'"
Blank == " "
Glued == "_"
Brackets == {"(", ")", "{", "}", "[", "]"}
Nesting == {"(", "{", "["}
Opening(t) == CASE t = ")" -> "(" [] t = "}" -> "{" [] t = "]" -> "["

Word(text, i) == IF i \in DOMAIN text THEN text[i] ELSE NL

\* One pass over the text: whether a token stands in a string or a comment,
\* and how deep in each kind of brackets.  code: the positions outside of
\* strings and comments; outer: those of them outside of all brackets.
Start == [mode |-> "code", depth |-> [b \in Nesting |-> 0], code |-> {}, outer |-> {},
          comment |-> {}, at |-> 1]
Flat(depth) == \A b \in Nesting : depth[b] = 0
\* Mutant: a comment is read like code.
ReadAll(state, t) == [state EXCEPT !.at = @ + 1, !.code = @ \cup {state.at},
                                   !.outer = @ \cup {state.at}]
ReadPython(state, t) ==
  LET s == [state EXCEPT !.at = @ + 1] IN
  CASE state.mode = "string" -> IF t = Quote THEN [s EXCEPT !.mode = "code"] ELSE s
    [] state.mode = "comment" ->
         IF t = NL THEN [s EXCEPT !.mode = "code"]
                   ELSE [s EXCEPT !.comment = @ \cup {state.at}]
    [] t = Quote -> [s EXCEPT !.mode = "string"]
    [] t = "#" -> [s EXCEPT !.mode = "comment", !.comment = @ \cup {state.at}]
    [] t \in Nesting -> [s EXCEPT !.depth[t] = @ + 1, !.code = @ \cup {state.at}]
    [] t \in Brackets -> [s EXCEPT !.depth[Opening(t)] = @ - 1, !.code = @ \cup {state.at}]
    [] OTHER -> [s EXCEPT !.code = @ \cup {state.at},
                          !.outer = IF Flat(state.depth) THEN @ \cup {state.at} ELSE @]
Read(text) == FoldLeft(ReadPython, Start, text)

\* The end of the string that begins at i, if it is closed.
PythonStringEnd(text, i) ==
  IF Word(text, i) # Quote THEN None
  ELSE Least({j \in (i + 1) .. Len(text) : text[j] = Quote})

\* The bracket that closes the one at i: only brackets of its kind count.
Closing(text, code, open, close) ==
  LET Count(t, j) == Cardinality({k \in code : k <= j /\ text[k] = t})
  IN  {j \in code : text[j] = close /\ Count(open, j) = Count(close, j)}
Moved(places, offset) == IF places = {} THEN None ELSE Min(places) + offset
PythonMatchingDelimiter(text, i, open, close) ==
  LET rest == SubSeq(text, i, Len(text))
  IN  Moved(Closing(rest, Read(rest).code, open, close), i - 1)

\* Line ends are blanks.
IsBlank(t) == t \in {NL, Blank}
SkipPythonWhitespace(text, i) ==
  Min({j \in i .. (Len(text) + 1) : j > Len(text) \/ ~ IsBlank(text[j])})
TrimSpace(text) ==
  LET solid == {i \in DOMAIN text : ~ IsBlank(text[i])}
  IN  IF solid = {} THEN <<>> ELSE SubSeq(text, Min(solid), Max(solid))
TrimmedPieces(text, cuts) ==
  LET pieces == Pieces(text, cuts) IN
  NotEmpty([i \in DOMAIN pieces |-> TrimSpace(pieces[i])])

\* Mutant: every separator outside of strings separates.
SplitEverywhere(text, sep) ==
  TrimmedPieces(text, {i \in Read(text).code : text[i] = sep})
\* The parts between separators outside of brackets; a comment stays with the
\* part that follows it.
SplitAsRead(text, read, sep) ==
  IF read.mode = "string" THEN <<text>>
  ELSE TrimmedPieces(text, {i \in read.outer : text[i] = sep})
SplitTopLevel(text, sep) == SplitAsRead(text, Read(text), sep)

TopLevelIndex(text, needle) == Least({i \in Read(text).outer : text[i] = needle})

StripPythonCallComments(text) ==
  LET comment == Read(text).comment
      kept == Ascending(DOMAIN text \ comment)
  IN  [i \in DOMAIN kept |-> text[kept[i]]]
StripPythonLineComment(line) ==
  LET comment == Read(line).comment
  IN  IF comment = {} THEN line ELSE SubSeq(line, 1, Min(comment) - 1)

\* The content of a text that begins and ends with a quotation mark, with
\* whatever stands between.
Unquotable == [ok |-> FALSE, text |-> <<>>]
UnquotePythonString(text) ==
  IF Len(text) > 1 /\ Head(text) = Quote /\ Last(text) = Quote
    THEN [ok |-> TRUE, text |-> Between(text, 1, Len(text))]
    ELSE Unquotable
\* A single string.
PythonDependencyStringLiteral(text) ==
  IF text # <<>> /\ PythonStringEnd(text, 1) = Len(text)
    THEN UnquotePythonString(text)
    ELSE Unquotable

\* The expression that begins at i: what stands behind a string or a
\* dictionary is cut off, and anything else goes to the end of the line.
PythonExpressionAt(text, i) ==
  LET end == CASE Word(text, i) = "{" -> PythonMatchingDelimiter(text, i, "{", "}")
               [] Word(text, i) = Quote -> PythonStringEnd(text, i)
               [] OTHER -> Min({j \in i .. (Len(text) + 1) : Word(text, j) = NL}) - 1
  IN  IF i > Len(text) \/ end = None THEN <<>> ELSE SubSeq(text, i, end)
=============================================================================
