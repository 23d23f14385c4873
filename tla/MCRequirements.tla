--------------------------- MODULE MCRequirements ---------------------------
(***************************************************************************)
(* Three files of up to two lines, every tree of them, and one edit that   *)
(* removes a file or makes it include others.                              *)
(***************************************************************************)
EXTENDS Requirements

CONSTANTS a, b, c, x, y, missing

MCPaths == {a, b, c}
MCDeclarations == {x, y}

\* A second declaration and an ignored line occur only alone.
Lines == {Include(p) : p \in MCPaths} \cup {Declare(x)}
MCFiles == {<<>>, <<Ignored>>, <<Declare(y)>>} \cup (Lines \X Lines)
MCTrees == {t \in [MCPaths -> MCFiles \cup {missing}] : t[a] # missing}
MCContents == {missing, <<Include(a), Include(b)>>, <<Include(c), Declare(y)>>}
=============================================================================
