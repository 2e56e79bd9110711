----------------------------- MODULE MCAcpProxy -----------------------------
(* AcpProxy for TLC, with one place for a pair. *)
EXTENDS AcpProxy, TLC

CONSTANT p1

OnePair == {p1}
=============================================================================
