--------------------------- MODULE MCDataService ---------------------------
(***************************************************************************)
(* DataService with two clients and two paths, one of which cannot be      *)
(* deleted.                                                                *)
(***************************************************************************)
EXTENDS DataService, TLC

CONSTANTS open, fixed

MCPaths == {open, fixed}
MCFixed == {fixed}
MCData == [p \in MCPaths |-> 1]

\* Clients are alike.
MCSymmetry == Permutations(Clients)
=============================================================================
