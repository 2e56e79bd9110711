---------------------------- MODULE MCStdioAgent ----------------------------
(* StdioAgent for TLC: one connection.  Connections share only the sweeps,   *)
(* which treat each entry of the table alike.                                *)
EXTENDS StdioAgent

CONSTANT c1
=============================================================================
