--------------------------- MODULE MCModelClient ---------------------------
(***************************************************************************)
(* A small instance of ModelClient for TLC: questions of a run and of its  *)
(* repository, at prices such that a cap admits one call but not always a  *)
(* second one.                                                             *)
(***************************************************************************)
EXTENDS ModelClient, TLC

CONSTANTS k1, k2, run1, repo1

TwoPrices == (k1 :> [inp |-> 1, out |-> 1]) @@ (k2 :> Unpriced)
NoChars == [k \in Key |-> 0]
NoOutput == [k \in Key |-> 0]
Purposes == {{run1, repo1}, {repo1}}
Caps == (Total :> 5) @@ (run1 :> 3) @@ (repo1 :> 4)
============================================================================
