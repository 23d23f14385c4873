------------------------------ MODULE Documents ------------------------------
(***************************************************************************)
(* Documents as YAML, TOML and JSON decode them, the paths rules ask for   *)
(* (internal/analyze/yaml.go, toml.go), and when a value counts as         *)
(* declaring something.  A text is a sequence of tokens, a mapping a       *)
(* function of its keys; every value has the same four fields.             *)
(***************************************************************************)
EXTENDS Texts

\* The keys of documents, in the order slices.Sort gives them.
CONSTANT Alphabet
\* Bound: how deep anything in a document is nested in things of its kind.
CONSTANT Depth

Value(kind, text, items, fields) ==
  [kind |-> kind, text |-> text, items |-> items, fields |-> fields]
Scalar(kind) == Value(kind, <<>>, <<>>, <<>>)   \* "null", "true", "number", "date"
Text(text) == Value("text", text, <<>>, <<>>)
List(items) == Value("list", <<>>, items, <<>>)
Mapping(fields) == Value("mapping", <<>>, <<>>, fields)
\* A mapping with a key that is no string.
MixedMapping == Scalar("mixed")

Keys(value) == Selection(Alphabet, LAMBDA key : key \in DOMAIN value.fields)
Has(value, key) == value.kind = "mapping" /\ key \in DOMAIN value.fields
ValueAt(value, path) ==
  LET Step(v, key) == IF Has(v, key) THEN v.fields[key] ELSE Scalar("null")
  IN  FoldLeft(Step, value, path)

Segment(key, wild, expand) == [key |-> key, wild |-> wild, expand |-> expand]
Key(key) == Segment(key, FALSE, FALSE)
Items(key) == Segment(key, FALSE, TRUE)
EveryKey == Segment("", TRUE, FALSE)

\* The values one segment leads to, each with the keys that led there.
KeysMatched(value, segment) ==
  IF segment.wild THEN Keys(value)
  ELSE IF Has(value, segment.key) THEN <<segment.key>> ELSE <<>>
Reached(node, segment) ==
  IF node.value.kind # "mapping" THEN <<>>
  ELSE LET keys == KeysMatched(node.value, segment)
           Under(key) ==
             LET value == node.value.fields[key]
                 found == IF ~ segment.expand THEN <<value>>
                          ELSE IF value.kind = "list" THEN value.items ELSE <<>>
             IN  [i \in DOMAIN found |->
                    [key |-> key, group |-> Append(node.group, key), value |-> found[i]]]
       IN  FlattenSeq([i \in DOMAIN keys |-> Under(keys[i])])
Start(root) == <<[key |-> "", group |-> <<>>, value |-> root]>>
Query(root, segments) ==
  FoldLeft(LAMBDA nodes, segment :
             FlattenSeq([i \in DOMAIN nodes |-> Reached(nodes[i], segment)]),
           Start(root), segments)

\* A value that declares something: not null, and not empty.  Any number or
\* Boolean does, false included.
\* Mutant: whatever is there declares something.
AnyValue(value) == value.kind # "null"
Declares(value) ==
  CASE value.kind = "null" -> FALSE
    [] value.kind = "text" -> value.text # <<>>
    [] value.kind = "list" -> value.items # <<>>
    [] value.kind = "mapping" -> DOMAIN value.fields # {}
    [] OTHER -> TRUE
HasNonEmptyValue(nodes) == \E i \in DOMAIN nodes : Declares(nodes[i].value)

\* The nodes of trees, each in front of what is inside it.
Preorder(roots, Inside(_)) ==
  LET Node(node, open) == [node |-> node, open |-> open]
      Opened(place) ==
        LET inside == Inside(place.node)
        IN  IF ~ place.open THEN <<place>>
            ELSE <<Node(place.node, FALSE)>> \o [i \in DOMAIN inside |-> Node(inside[i], TRUE)]
      level[n \in 0 .. Depth] ==
        IF n = 0 THEN [i \in DOMAIN roots |-> Node(roots[i], TRUE)]
        ELSE LET above == level[n - 1]
             IN  FlattenSeq([i \in DOMAIN above |-> Opened(above[i])])
      places == level[Depth]
  IN  [i \in DOMAIN places |-> places[i].node]
=============================================================================
