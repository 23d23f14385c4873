---------------------------- MODULE GroupNaming ----------------------------
(***************************************************************************)
(* generationGroupComponents (internal/analyze/generate.go): how the       *)
(* groups of one source get the part of a file name that tells their       *)
(* generated files apart.                                                  *)
(*                                                                         *)
(* A string is a sequence of tokens: a word of safe characters, one of the *)
(* safe characters that the code looks for ("-", "."), or an unsafe        *)
(* character.                                                              *)
(***************************************************************************)
EXTENDS Naturals, Sequences, TLC

CONSTANTS Words,   \* tokens made of safe characters other than "-" and "."
          Unsafe,  \* tokens that are one unsafe character
          Inputs   \* sequences of groups, sorted by location

Tokens == Words \cup Unsafe \cup {"-", "."}
Group == [name : Seq(Tokens), location : Seq(Tokens)]

ASSUME InputsAreGroups == Inputs \subseteq Seq(Group)

-----------------------------------------------------------------------------
(* Conversion of names and locations.                                      *)

\* A run of unsafe characters becomes one "-".
Converted(s) ==
  LET starts(i) == i = 1 \/ s[i - 1] \notin Unsafe
      kept == SelectSeq([i \in DOMAIN s |-> i],
                        LAMBDA i : s[i] \notin Unsafe \/ starts(i))
  IN  [j \in DOMAIN kept |-> IF s[kept[j]] \in Unsafe THEN "-" ELSE s[kept[j]]]

SafeFilenameComponent(s) ==
  IF Converted(s) \in {<<>>, <<".">>, <<".", ".">>} THEN <<"group">>
                                                   ELSE Converted(s)

\* strings.Trim(s, "-.")
Trimmed(s) ==
  LET kept == {i \in DOMAIN s : s[i] \notin {"-", "."}}
  IN  IF kept = {} THEN <<>>
      ELSE SubSeq(s, CHOOSE i \in kept : \A j \in kept : i <= j,
                     CHOOSE i \in kept : \A j \in kept : i >= j)

LocationFilenameComponent(s) ==
  LET relative == IF s # <<>> /\ Head(s) = "." THEN Tail(s) ELSE s
      component == Trimmed(SafeFilenameComponent(relative))
  IN  IF component = <<"group">> THEN <<"root">> ELSE component

Base(group) == IF group.name = <<>> THEN <<"group">>
                                    ELSE SafeFilenameComponent(group.name)

\* The component of the i-th group before numbers are tried: its base, with
\* its location if it has no name or shares the base.
Component(groups, i) ==
  LET base == Base(groups[i])
      shared == \E j \in DOMAIN groups \ {i} : Base(groups[j]) = base
  IN  IF groups[i].name = <<>> \/ shared
        THEN base \o <<"-", "at", "-">> \o
             LocationFilenameComponent(groups[i].location)
        ELSE base

\* Mutant: the loop does not count.
SameSuffix(n) == n
FollowingSuffix(n) == n + 1
Numbered(component, n) == component \o <<"-", ToString(n)>>

-----------------------------------------------------------------------------
VARIABLES groups,     \* the selected groups of the source
          candidate,  \* the component tried for the next group, if any
          suffix,     \* the number tried next
          components  \* what the groups seen so far have been given

vars == <<groups, candidate, suffix, components>>

Index == Len(components) + 1
\* Mutant: components are not recorded.
NothingUsed == {}
Used == {components[i] : i \in DOMAIN components}

Init == /\ groups \in Inputs
        /\ candidate = <<>>
        /\ suffix = 2
        /\ components = <<>>

Start == /\ candidate = <<>> /\ Index \in DOMAIN groups
         /\ candidate' = Component(groups, Index)
         /\ suffix' = 2
         /\ UNCHANGED <<groups, components>>

TryNumber == /\ candidate # <<>> /\ candidate \in Used
             /\ candidate' = Numbered(Component(groups, Index), suffix)
             /\ suffix' = FollowingSuffix(suffix)
             /\ UNCHANGED <<groups, components>>

Keep == /\ candidate # <<>> /\ candidate \notin Used
        /\ components' = Append(components, candidate)
        /\ candidate' = <<>>
        /\ UNCHANGED <<groups, suffix>>

Next == Start \/ TryNumber \/ Keep

Spec == Init /\ [][Next]_vars /\ WF_vars(Next)

-----------------------------------------------------------------------------
Done == candidate = <<>> /\ Len(components) = Len(groups)

\* No two groups of a source are given one component, whatever their names
\* and locations convert to: generated files of one source never collide, and
\* the check on usedRelative in Generate never fails.
DistinctComponents ==
  \A i, j \in DOMAIN components : components[i] = components[j] => i = j

\* The search for a free component ends for every group.
NamingEnds == <>Done
=============================================================================
