--------------------------- MODULE MCLoginThrottle ---------------------------
(* LoginThrottle for TLC: one address more than the throttle tracks. *)
EXTENDS LoginThrottle, TLC
CONSTANTS i1, i2, i3
MCIp == {i1, i2, i3}
Symmetry == Permutations(MCIp)
=============================================================================
