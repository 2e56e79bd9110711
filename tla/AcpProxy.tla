------------------------------ MODULE AcpProxy ------------------------------
(***************************************************************************)
(* The gateway's ACP relay (gateway/src/acpProxy.ts): one upstream socket  *)
(* to the agent for each browser socket, with nothing shared between pairs *)
(* but the cap on their number.                                            *)
(*                                                                         *)
(* Each action is one event of the event loop together with its whole      *)
(* handler.  What the ws library does is modelled from its use here: close *)
(* and terminate put a socket in "closing" and its close event comes later *)
(* (an answer of the peer, or the library's own close timer); a socket     *)
(* closed while connecting never opens; messages may still arrive while a  *)
(* socket is closing.                                                      *)
(***************************************************************************)
EXTENDS Naturals, Sequences, FiniteSets

CONSTANTS
    Pair,               \* places for pairs, used again when both sockets ended
    MaxConnections,     \* options.maxConnections
    MaxBufferFrames,    \* MAX_PRE_UPSTREAM_BUFFER_FRAMES
    MaxBufferBytes,     \* MAX_PRE_UPSTREAM_BUFFER_BYTES
    BackpressureLimit,  \* BACKPRESSURE_LIMIT_BYTES
    MaxPayload,         \* MAX_PAYLOAD_BYTES
    MaxFrames           \* bound of the model: frames a peer sends on one pair

ASSUME LimitsAssumption ==
    /\ {MaxConnections, MaxBufferFrames, MaxBufferBytes, BackpressureLimit,
        MaxPayload, MaxFrames} \subseteq Nat
    /\ MaxBufferBytes <= BackpressureLimit

VARIABLES
    running,    \* the proxy was not shut down
    active,     \* activePairs
    down,       \* the browser's socket
    up,         \* the upstream socket
    ready,      \* upstreamReady
    buffer,     \* bufferedFromDownstream, the frames as numbers
    bytes,      \* bufferedBytes
    timer,      \* the handshake timeout is armed
    alive,      \* isAlive
    upUnsent, downUnsent,   \* bufferedAmount of the two sockets
    received, relayed,      \* frames from the browser; those sent on upstream
    answered, shown         \* frames from the agent; those sent on to the browser

upstreamVars == <<ready, buffer, bytes, timer>>
requestVars  == <<received, relayed, upUnsent>>
answerVars   == <<answered, shown, downUnsent>>
vars == <<running, active, down, up, upstreamVars, alive, requestVars, answerVars>>

Frame == Nat \ {0}      \* the frames from one side, in the order they came

SocketsOK ==
    /\ running \in BOOLEAN
    /\ active \subseteq Pair
    /\ down \in [Pair -> {"open", "closing", "closed"}]
    /\ up \in [Pair -> {"connecting", "open", "closing", "closed"}]
    /\ alive \in [Pair -> BOOLEAN]
BufferOK ==
    /\ ready \in [Pair -> BOOLEAN]
    /\ buffer \in [Pair -> Seq(Frame)]
    /\ bytes \in [Pair -> Nat]
    /\ timer \in [Pair -> BOOLEAN]
FramesOK ==
    /\ received \in [Pair -> Nat] /\ relayed \in [Pair -> Seq(Frame)]
    /\ answered \in [Pair -> Nat] /\ shown \in [Pair -> Seq(Frame)]
    /\ upUnsent \in [Pair -> Nat] /\ downUnsent \in [Pair -> Nat]
TypeOK == SocketsOK /\ BufferOK /\ FramesOK

Init ==
    /\ running = TRUE
    /\ active = {}
    /\ down = [p \in Pair |-> "closed"]
    /\ up = [p \in Pair |-> "closed"]
    /\ ready = [p \in Pair |-> FALSE]
    /\ buffer = [p \in Pair |-> <<>>]
    /\ bytes = [p \in Pair |-> 0]
    /\ timer = [p \in Pair |-> FALSE]
    /\ alive = [p \in Pair |-> TRUE]
    /\ upUnsent = [p \in Pair |-> 0]
    /\ downUnsent = [p \in Pair |-> 0]
    /\ received = [p \in Pair |-> 0]
    /\ relayed = [p \in Pair |-> <<>>]
    /\ answered = [p \in Pair |-> 0]
    /\ shown = [p \in Pair |-> <<>>]
-----------------------------------------------------------------------------
\* close(), on a socket that is open or connecting.
ClosingDown(p) == down' = [down EXCEPT ![p] = IF @ = "open" THEN "closing" ELSE @]
ClosingOpenUp(p) ==     \* mutant: an upstream that still connects is forgotten
    up' = [up EXCEPT ![p] = IF @ = "open" THEN "closing" ELSE @]
ClosingUp(p) ==
    up' = [up EXCEPT ![p] = IF @ \in {"connecting", "open"} THEN "closing" ELSE @]

EmptyBuffer(p) ==
    /\ buffer' = [buffer EXCEPT ![p] = <<>>]
    /\ bytes' = [bytes EXCEPT ![p] = 0]

KeepTimer(p) == UNCHANGED timer     \* mutant: the timeout is not cleared
ClearTimer(p) == timer' = [timer EXCEPT ![p] = FALSE]

\* cleanup: the second call finds nothing left to do.
Cleanup(p) ==
    /\ active' = active \ {p}
    /\ ClearTimer(p)
    /\ EmptyBuffer(p)

\* An upgrade that passes every check; a refused one leaves no state behind.
\* The library upgrades synchronously, so the cap counts the pair at once.
Upgrade(p) ==
    /\ running
    /\ Cardinality(active) < MaxConnections
    /\ down[p] = "closed" /\ up[p] = "closed"
    /\ active' = active \cup {p}
    /\ down' = [down EXCEPT ![p] = "open"]
    /\ up' = [up EXCEPT ![p] = "connecting"]
    /\ ready' = [ready EXCEPT ![p] = FALSE]
    /\ EmptyBuffer(p)
    /\ timer' = [timer EXCEPT ![p] = TRUE]
    /\ alive' = [alive EXCEPT ![p] = TRUE]
    /\ upUnsent' = [upUnsent EXCEPT ![p] = 0]
    /\ downUnsent' = [downUnsent EXCEPT ![p] = 0]
    /\ received' = [received EXCEPT ![p] = 0]
    /\ relayed' = [relayed EXCEPT ![p] = <<>>]
    /\ answered' = [answered EXCEPT ![p] = 0]
    /\ shown' = [shown EXCEPT ![p] = <<>>]
    /\ UNCHANGED running

\* A text frame of n bytes from the browser before the upstream is ready: kept, or
\* the pair ends because the buffer is full.
OverflowsLate(p, n) ==      \* mutant: off by one
    Len(buffer[p]) > MaxBufferFrames \/ bytes[p] + n > MaxBufferBytes
Overflows(p, n) == Len(buffer[p]) >= MaxBufferFrames \/ bytes[p] + n > MaxBufferBytes

BufferFrame(p, n) ==
    /\ ~ready[p]
    /\ IF Overflows(p, n)
       THEN EmptyBuffer(p) /\ ClosingDown(p) /\ ClosingUp(p)
       ELSE /\ buffer' = [buffer EXCEPT ![p] = Append(@, received[p] + 1)]
            /\ bytes' = [bytes EXCEPT ![p] = @ + n]
            /\ UNCHANGED <<down, up>>
    /\ UNCHANGED <<relayed, upUnsent>>

\* A reader that is too slow ends the pair.
Skip(p) == UNCHANGED <<down, up>>       \* mutant: only the frame is given up
GiveUp(p) == ClosingDown(p) /\ ClosingUp(p)

\* Once it is ready: sent on, dropped where the upstream is going, or the end of
\* the pair because the upstream reads too slowly.
RelayFrame(p, n) ==
    /\ ready[p]
    /\ IF up[p] # "open" THEN UNCHANGED <<down, up, relayed, upUnsent>>
       ELSE IF upUnsent[p] > BackpressureLimit
            THEN GiveUp(p) /\ UNCHANGED <<relayed, upUnsent>>
            ELSE /\ relayed' = [relayed EXCEPT ![p] = Append(@, received[p] + 1)]
                 /\ upUnsent' = [upUnsent EXCEPT ![p] = @ + n]
                 /\ UNCHANGED <<down, up>>
    /\ UNCHANGED <<buffer, bytes>>

DownstreamMessage(p, n) ==
    /\ down[p] \in {"open", "closing"}
    /\ received[p] < MaxFrames
    /\ BufferFrame(p, n) \/ RelayFrame(p, n)
    /\ received' = [received EXCEPT ![p] = @ + 1]
    /\ UNCHANGED <<running, active, ready, timer, alive, answerVars>>

\* relay(upstream, downstream), attached when the upstream opens.
UpstreamMessage(p, n) ==
    /\ ready[p] /\ up[p] \in {"open", "closing"}
    /\ answered[p] < MaxFrames
    /\ answered' = [answered EXCEPT ![p] = @ + 1]
    /\ IF down[p] # "open" THEN UNCHANGED <<down, up, shown, downUnsent>>
       ELSE IF downUnsent[p] > BackpressureLimit
            THEN GiveUp(p) /\ UNCHANGED <<shown, downUnsent>>
            ELSE /\ shown' = [shown EXCEPT ![p] = Append(@, answered[p] + 1)]
                 /\ downUnsent' = [downUnsent EXCEPT ![p] = @ + n]
                 /\ UNCHANGED <<down, up>>
    /\ UNCHANGED <<running, active, upstreamVars, alive, requestVars>>

\* The upstream handshake is done: what was buffered goes first, frame by frame.
FlushNothing(p) == UNCHANGED <<relayed, upUnsent>>      \* mutant
FlushJoined(p) ==       \* mutant: joined into one, which is none of the frames
    /\ relayed' = [relayed EXCEPT ![p] = Append(@, 0)]
    /\ upUnsent' = [upUnsent EXCEPT ![p] = @ + bytes[p]]
Flush(p) ==
    /\ relayed' = [relayed EXCEPT ![p] = @ \o buffer[p]]
    /\ upUnsent' = [upUnsent EXCEPT ![p] = @ + bytes[p]]

UpstreamOpen(p) ==
    /\ up[p] = "connecting"
    /\ up' = [up EXCEPT ![p] = "open"]
    /\ ready' = [ready EXCEPT ![p] = TRUE]
    /\ ClearTimer(p)
    /\ Flush(p)
    /\ EmptyBuffer(p)
    /\ UNCHANGED <<running, active, down, alive, received, answerVars>>

HandshakeTimeout(p) ==
    /\ timer[p]
    /\ ClearTimer(p)
    /\ EmptyBuffer(p)
    /\ ClosingUp(p)
    /\ ClosingDown(p)
    /\ UNCHANGED <<running, active, ready, alive, requestVars, answerVars>>

\* A socket fails: the library closes it, its handler closes the other one.
UpstreamError(p) ==
    /\ up[p] \in {"connecting", "open"}
    /\ ClosingUp(p)
    /\ ClosingDown(p)
    /\ UNCHANGED <<running, active, upstreamVars, alive, requestVars, answerVars>>

DownstreamError(p) ==
    /\ down[p] = "open"
    /\ ClosingDown(p)
    /\ ClosingUp(p)
    /\ UNCHANGED <<running, active, upstreamVars, alive, requestVars, answerVars>>

\* The close events: a peer may hang up at any time.
DownstreamClose(p) ==
    /\ down[p] \in {"open", "closing"}
    /\ down' = [down EXCEPT ![p] = "closed"]
    /\ ClosingUp(p)
    /\ Cleanup(p)
    /\ UNCHANGED <<running, ready, alive, requestVars, answerVars>>

UpstreamClose(p) ==
    /\ up[p] \in {"open", "closing"}
    /\ up' = [up EXCEPT ![p] = "closed"]
    /\ ClosingDown(p)
    /\ Cleanup(p)
    /\ UNCHANGED <<running, ready, alive, requestVars, answerVars>>

\* Every 30 seconds while the pair is active: ping, or give up on a browser that
\* did not answer the last ping.
Heartbeat(p) ==
    /\ p \in active
    /\ IF alive[p]
       THEN alive' = [alive EXCEPT ![p] = FALSE] /\ UNCHANGED down
       ELSE ClosingDown(p) /\ UNCHANGED alive
    /\ UNCHANGED <<running, active, up, upstreamVars, requestVars, answerVars>>

Pong(p) ==
    /\ down[p] \in {"open", "closing"}
    /\ alive' = [alive EXCEPT ![p] = TRUE]
    /\ UNCHANGED <<running, active, down, up, upstreamVars, requestVars, answerVars>>

\* The network takes what a socket holds.
DrainUp(p) ==
    /\ \E n \in 0..upUnsent[p] :
            n < upUnsent[p] /\ upUnsent' = [upUnsent EXCEPT ![p] = n]
    /\ UNCHANGED <<running, active, down, up, upstreamVars, alive, received, relayed,
                   answerVars>>

DrainDown(p) ==
    /\ \E n \in 0..downUnsent[p] :
            n < downUnsent[p] /\ downUnsent' = [downUnsent EXCEPT ![p] = n]
    /\ UNCHANGED <<running, active, down, up, upstreamVars, alive, requestVars,
                   answered, shown>>

\* closeAll, when the server shuts down.
CloseAll ==
    /\ running
    /\ running' = FALSE
    /\ down' = [p \in Pair |-> IF p \in active /\ down[p] = "open"
                                THEN "closing" ELSE down[p]]
    /\ UNCHANGED <<active, up, upstreamVars, alive, requestVars, answerVars>>
-----------------------------------------------------------------------------
PairStep(p) ==
    \/ Upgrade(p)
    \/ \E n \in 1..MaxPayload : DownstreamMessage(p, n) \/ UpstreamMessage(p, n)
    \/ UpstreamOpen(p)
    \/ HandshakeTimeout(p)
    \/ UpstreamError(p)
    \/ DownstreamError(p)
    \/ DownstreamClose(p)
    \/ UpstreamClose(p)
    \/ Heartbeat(p)
    \/ Pong(p)
    \/ DrainUp(p)
    \/ DrainDown(p)

Next == (\E p \in Pair : PairStep(p)) \/ CloseAll

Spec == Init /\ [][Next]_vars

\* Timers that are armed fire, and a socket that is closing ends: by its peer, or by
\* the library's own timer.  Nothing is asked of the browser or the agent.
Fairness ==
    \A p \in Pair :
        /\ WF_vars(HandshakeTimeout(p))
        /\ WF_vars(down[p] = "closing" /\ DownstreamClose(p))
        /\ WF_vars(up[p] = "closing" /\ UpstreamClose(p))

LiveSpec == Spec /\ Fairness
-----------------------------------------------------------------------------
(* What the relay promises.                                                *)

\* Frames are handed on in order and without gaps, from the very first one, across
\* the buffer, its flush and the direct relay, in both directions.
Requests == INSTANCE RelayFifo WITH came <- received, left <- relayed
Answers  == INSTANCE RelayFifo WITH came <- answered, left <- shown
RequestsInOrder == Requests!FifoSpec
AnswersInOrder  == Answers!FifoSpec

\* No socket outlives its pair: once the pair is released nobody would close the
\* other side, so both are on their way out.
NoOrphan ==
    \A p \in Pair : p \notin active =>
        down[p] # "open" /\ up[p] \notin {"connecting", "open"}

\* A pair holds a bounded amount of memory: its buffer and what waits in its sockets.
MemoryBounded ==
    \A p \in Pair :
        /\ Len(buffer[p]) <= MaxBufferFrames
        /\ bytes[p] <= MaxBufferBytes
        /\ upUnsent[p] <= BackpressureLimit + MaxPayload
        /\ downUnsent[p] <= BackpressureLimit + MaxPayload

\* The handshake timer only ever ends an upstream that did not open.
TimerSparesOpen == \A p \in Pair : timer[p] => up[p] # "open"

\* An agent that never answers the handshake does not hold the browser for good.
HandshakeEnds == \A p \in Pair : up[p] = "connecting" ~> up[p] # "connecting"

\* Whichever side goes first, and for whatever reason, both sockets end.
PairEnds ==
    \A p \in Pair :
        down[p] = "closing" \/ up[p] = "closing" ~> down[p] = "closed" /\ up[p] = "closed"
=============================================================================
