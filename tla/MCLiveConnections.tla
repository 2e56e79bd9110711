------------------------- MODULE MCLiveConnections -------------------------
(* LiveConnections for TLC, on sets of model values the .cfg files choose. *)
EXTENDS LiveConnections, TLC

CONSTANTS c1, c2, s1, s2, s3, t1

OneConn == {c1}
TwoConns == {c1, c2}
OneSession == {s1}
ThreeSessions == {s1, s2, s3}
TwoSessions == {s1, s2}
NoTool == {}
OneTool == {t1}
OneFlow == 1..1
TwoFlows == 1..2
Eras == 0..MaxEra
BlankDoc == [status |-> "idle", cards |-> {}, mixed |-> FALSE]
SwapConns == Permutations(TwoConns)
SwapSessions == Permutations(TwoSessions)

\* A shorter search for a counterexample about switches: nothing fails, nothing is
\* removed and nobody sends a prompt.
Calm ==
    /\ known = Conn
    /\ \A c \in Conn : /\ client[c].turn = 0 /\ ~client[c].login /\ ~client[c].reported
                       /\ wire[c] # "down" /\ status[c] # "error"
                       /\ \A i \in FlowId : flows[c][i] # None =>
                             flows[c][i].op \notin {"mode", "close"}

\* A shorter search over two clients: a list is one page, and one agent at a time
\* asks for a login.
OneLoginOnePage ==
    /\ \A c, d \in Conn : client[c].login /\ client[d].login => c = d
    /\ \A c \in Conn, i \in FlowId : ~Awaits(c, i, "page")
=============================================================================
