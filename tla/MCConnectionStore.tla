------------------------- MODULE MCConnectionStore -------------------------
(* ConnectionStore for TLC, on sets of model values the .cfg files choose. *)
EXTENDS ConnectionStore, TLC

CONSTANTS c1, c2, s1, blank

TwoConns == {c1, c2}
OneSession == {s1}
TwoEras == {0, 1}
Blank == {blank}
SwapConns == Permutations(TwoConns)
=============================================================================
