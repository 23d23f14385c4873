--------------------------- MODULE MCGroupNaming ---------------------------
(***************************************************************************)
(* Every choice of up to three groups at three of the locations below, in  *)
(* the order of the locations, with names that are missing, duplicate,     *)
(* equal after conversion, reserved, or equal to what another group's name *)
(* is converted to.                                                        *)
(***************************************************************************)
EXTENDS GroupNaming

MCWords == {"daily", "job", "jobs", "group", "root", "at", "a", "2"}
MCUnsafe == {"/", " ", "[", "]"}

\* ., .["a "], .["a/"], .a, .jobs: in string order.  A bracket stands for
\* itself and its quotation mark; three of them are converted to "a".
Locations == <<<<".">>, <<".", "[", "a", " ", "]">>, <<".", "[", "a", "/", "]">>,
               <<".", "a">>, <<".", "jobs">>>>
Names == {<<>>, <<"daily">>, <<"daily", " ", "job">>,
          <<"daily", "/", " ", "job">>, <<"daily", "-", "job">>, <<"group">>,
          <<".", ".">>, <<"daily", "-", "at", "-", "a">>,
          <<"daily", "-", "at", "-", "a", "-", "2">>}

SortedPlaces == {s \in UNION {[1 .. n -> DOMAIN Locations] : n \in 0 .. 3} :
                   \A i, j \in DOMAIN s : i < j => s[i] < s[j]}
MCInputs ==
  UNION {{[i \in DOMAIN s |-> [name |-> f[i], location |-> Locations[s[i]]]] :
            f \in [DOMAIN s -> Names]} : s \in SortedPlaces}
=============================================================================
