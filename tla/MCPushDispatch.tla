--------------------------- MODULE MCPushDispatch ---------------------------
(* PushDispatch for TLC. *)
EXTENDS PushDispatch
CONSTANTS p1, p2, e1, e2, s1, s2
MCPass == {p1, p2}
MCEvent == {e1, e2}
MCSubscription == {s1, s2}
=============================================================================
