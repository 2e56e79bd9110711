----------------------------- MODULE MCLoginGate -----------------------------
(* LoginGate for TLC: two rechecks in flight, of three supervisors. *)
EXTENDS LoginGate
CONSTANTS s1, s2, s3, c1, c2
MCSup == {s1, s2, s3}
MCCheck == {c1, c2}
=============================================================================
