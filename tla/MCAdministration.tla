------------------------- MODULE MCAdministration -------------------------
(* Two keys, so that a credential can be replaced and put back.  One page   *)
(* is enough for a stale sender, as it may be sent again after it was       *)
(* accepted.                                                                *)
EXTENDS Administration, TLC

Symmetry == Permutations(Keys)
=============================================================================
