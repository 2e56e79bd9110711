-------------------------- MODULE AcpProxy_proofs --------------------------
(***************************************************************************)
(* Theorems about the gateway's relay, for any number of pairs, any limits *)
(* and any number of frames.                                               *)
(***************************************************************************)
EXTENDS AcpProxy, TLAPS

First(n) == Requests!FirstFrames(n)

LEMMA FirstIsSeq ==
    ASSUME NEW n \in Nat
    PROVE  /\ First(n) \in Seq(Nat)
           /\ Len(First(n)) = n
           /\ Append(First(n), n + 1) = First(n + 1)
<1>1. First(n) = [k \in 1..n |-> k]
    BY DEF First, Requests!FirstFrames
<1>2. First(n) \in Seq(Nat) /\ Len(First(n)) = n
    BY <1>1
<1>3. Append(First(n), n + 1) = First(n + 1)
    <2>1. Append(First(n), n + 1) \in Seq(Nat) /\ Len(Append(First(n), n + 1)) = n + 1
        BY <1>2
    <2>2. First(n + 1) = [k \in 1..(n + 1) |-> k]
        BY DEF First, Requests!FirstFrames
    <2>3. \A k \in 1..(n + 1) : Append(First(n), n + 1)[k] = k
        BY <1>1, <1>2
    <2> QED BY <2>1, <2>2, <2>3
<1> QED BY <1>2, <1>3

LEMMA FirstIsSame == ASSUME NEW n \in Nat PROVE Answers!FirstFrames(n) = First(n)
BY DEF First, Requests!FirstFrames, Answers!FirstFrames

LEMMA NothingFirst == First(0) = <<>>
BY DEF First, Requests!FirstFrames
-----------------------------------------------------------------------------
LEMMA PayloadIsNat == ASSUME NEW n \in 1..MaxPayload PROVE n \in Nat
BY LimitsAssumption

\* Closing a socket leaves it in one of its states.
LEMMA ClosingType ==
    ASSUME SocketsOK, NEW p \in Pair
    PROVE  /\ ClosingDown(p) => down' \in [Pair -> {"open", "closing", "closed"}]
           /\ ClosingUp(p) => up' \in [Pair -> {"connecting", "open", "closing", "closed"}]
BY DEF SocketsOK, ClosingDown, ClosingUp

\* The sockets keep their states.
LEMMA SocketsStep ==
    ASSUME SocketsOK, NEW p \in Pair, PairStep(p)
    PROVE  SocketsOK'
<1> USE DEF SocketsOK
<1>1. CASE Upgrade(p)
    BY <1>1 DEF Upgrade
<1>2. ASSUME NEW n \in 1..MaxPayload, DownstreamMessage(p, n) PROVE SocketsOK'
    BY <1>2, ClosingType DEF DownstreamMessage, BufferFrame, RelayFrame, GiveUp
<1>3. ASSUME NEW n \in 1..MaxPayload, UpstreamMessage(p, n) PROVE SocketsOK'
    BY <1>3, ClosingType DEF UpstreamMessage, GiveUp
<1>4. CASE UpstreamOpen(p)
    BY <1>4 DEF UpstreamOpen
<1>5. CASE HandshakeTimeout(p)
    BY <1>5, ClosingType DEF HandshakeTimeout
<1>6. CASE UpstreamError(p)
    BY <1>6, ClosingType DEF UpstreamError
<1>7. CASE DownstreamError(p)
    BY <1>7, ClosingType DEF DownstreamError
<1>8. CASE DownstreamClose(p)
    BY <1>8, ClosingType DEF DownstreamClose, Cleanup
<1>9. CASE UpstreamClose(p)
    BY <1>9, ClosingType DEF UpstreamClose, Cleanup
<1>10. CASE Heartbeat(p)
    BY <1>10, ClosingType DEF Heartbeat
<1>11. CASE Pong(p)
    BY <1>11 DEF Pong
<1>12. CASE DrainUp(p)
    BY <1>12 DEF DrainUp
<1>13. CASE DrainDown(p)
    BY <1>13 DEF DrainDown
<1> QED BY <1>1, <1>2, <1>3, <1>4, <1>5, <1>6, <1>7, <1>8, <1>9, <1>10, <1>11, <1>12, <1>13 DEF PairStep

\* The buffer stays a sequence of frames.
LEMMA BufferStep ==
    ASSUME TypeOK, NEW p \in Pair, PairStep(p)
    PROVE  BufferOK'
<1> USE DEF BufferOK
<1>1. CASE Upgrade(p)
    BY <1>1 DEF Upgrade, EmptyBuffer, TypeOK
<1>2. ASSUME NEW n \in 1..MaxPayload, DownstreamMessage(p, n) PROVE BufferOK'
    <2>1. n \in Nat /\ received[p] + 1 \in Frame
        BY PayloadIsNat DEF TypeOK, FramesOK, Frame
    <2>2. UNCHANGED <<ready, timer>>
        BY <1>2 DEF DownstreamMessage
    <2>3. buffer' \in [Pair -> Seq(Frame)] /\ bytes' \in [Pair -> Nat]
        <3>1. CASE BufferFrame(p, n)
            <4>1. CASE Overflows(p, n)
                <5>1. EmptyBuffer(p)
                    BY <3>1, <4>1 DEF BufferFrame
                <5> QED BY <5>1 DEF EmptyBuffer, TypeOK
            <4>2. CASE ~Overflows(p, n)
                <5>1. Append(buffer[p], received[p] + 1) \in Seq(Frame) /\ bytes[p] + n \in Nat
                    BY <2>1 DEF TypeOK
                <5> QED BY <3>1, <4>2, <5>1 DEF BufferFrame, TypeOK
            <4> QED BY <4>1, <4>2
        <3>2. CASE RelayFrame(p, n)
            BY <3>2 DEF RelayFrame, TypeOK
        <3> QED BY <1>2, <3>1, <3>2 DEF DownstreamMessage
    <2> QED BY <2>2, <2>3 DEF TypeOK
<1>3. ASSUME NEW n \in 1..MaxPayload, UpstreamMessage(p, n) PROVE BufferOK'
    BY <1>3 DEF UpstreamMessage, upstreamVars, TypeOK
<1>4. CASE UpstreamOpen(p)
    BY <1>4 DEF UpstreamOpen, EmptyBuffer, ClearTimer, TypeOK
<1>5. CASE HandshakeTimeout(p)
    BY <1>5 DEF HandshakeTimeout, EmptyBuffer, ClearTimer, TypeOK
<1>6. CASE UpstreamError(p)
    BY <1>6 DEF UpstreamError, upstreamVars, TypeOK
<1>7. CASE DownstreamError(p)
    BY <1>7 DEF DownstreamError, upstreamVars, TypeOK
<1>8. CASE DownstreamClose(p)
    BY <1>8 DEF DownstreamClose, Cleanup, EmptyBuffer, ClearTimer, TypeOK
<1>9. CASE UpstreamClose(p)
    BY <1>9 DEF UpstreamClose, Cleanup, EmptyBuffer, ClearTimer, TypeOK
<1>10. CASE Heartbeat(p)
    BY <1>10 DEF Heartbeat, upstreamVars, TypeOK
<1>11. CASE Pong(p)
    BY <1>11 DEF Pong, upstreamVars, TypeOK
<1>12. CASE DrainUp(p)
    BY <1>12 DEF DrainUp, upstreamVars, TypeOK
<1>13. CASE DrainDown(p)
    BY <1>13 DEF DrainDown, upstreamVars, TypeOK
<1> QED BY <1>1, <1>2, <1>3, <1>4, <1>5, <1>6, <1>7, <1>8, <1>9, <1>10, <1>11, <1>12, <1>13 DEF PairStep

\* Frames are handed on one by one.
LEMMA FramesStep ==
    ASSUME TypeOK, NEW p \in Pair, PairStep(p)
    PROVE  FramesOK'
<1> USE DEF FramesOK
<1>1. CASE Upgrade(p)
    BY <1>1 DEF Upgrade, TypeOK
<1>2. ASSUME NEW n \in 1..MaxPayload, DownstreamMessage(p, n) PROVE FramesOK'
    <2>1. n \in Nat /\ received[p] + 1 \in Frame /\ received[p] + 1 \in Nat
        BY PayloadIsNat DEF TypeOK, Frame
    <2>2. received' \in [Pair -> Nat] /\ UNCHANGED answerVars
        BY <1>2, <2>1 DEF DownstreamMessage, TypeOK
    <2>3. relayed' \in [Pair -> Seq(Frame)] /\ upUnsent' \in [Pair -> Nat]
        <3>1. CASE UNCHANGED <<relayed, upUnsent>>
            BY <3>1 DEF TypeOK
        <3>2. CASE /\ relayed' = [relayed EXCEPT ![p] = Append(@, received[p] + 1)]
                   /\ upUnsent' = [upUnsent EXCEPT ![p] = @ + n]
            <4>1. Append(relayed[p], received[p] + 1) \in Seq(Frame) /\ upUnsent[p] + n \in Nat
                BY <2>1 DEF TypeOK
            <4> QED BY <3>2, <4>1 DEF TypeOK
        <3> QED BY <1>2, <3>1, <3>2 DEF DownstreamMessage, BufferFrame, RelayFrame
    <2> QED BY <2>2, <2>3 DEF TypeOK, answerVars
<1>3. ASSUME NEW n \in 1..MaxPayload, UpstreamMessage(p, n) PROVE FramesOK'
    <2>1. n \in Nat /\ answered[p] + 1 \in Frame /\ answered[p] + 1 \in Nat
        BY PayloadIsNat DEF TypeOK, Frame
    <2>2. answered' \in [Pair -> Nat] /\ UNCHANGED requestVars
        BY <1>3, <2>1 DEF UpstreamMessage, TypeOK
    <2>3. shown' \in [Pair -> Seq(Frame)] /\ downUnsent' \in [Pair -> Nat]
        <3>1. CASE UNCHANGED <<shown, downUnsent>>
            BY <3>1 DEF TypeOK
        <3>2. CASE /\ shown' = [shown EXCEPT ![p] = Append(@, answered[p] + 1)]
                   /\ downUnsent' = [downUnsent EXCEPT ![p] = @ + n]
            <4>1. Append(shown[p], answered[p] + 1) \in Seq(Frame) /\ downUnsent[p] + n \in Nat
                BY <2>1 DEF TypeOK
            <4> QED BY <3>2, <4>1 DEF TypeOK
        <3> QED BY <1>3, <3>1, <3>2 DEF UpstreamMessage
    <2> QED BY <2>2, <2>3 DEF TypeOK, requestVars
<1>4. CASE UpstreamOpen(p)
    BY <1>4 DEF UpstreamOpen, Flush, answerVars, BufferOK, TypeOK
<1>5. CASE HandshakeTimeout(p)
    BY <1>5 DEF HandshakeTimeout, requestVars, answerVars, TypeOK
<1>6. CASE UpstreamError(p)
    BY <1>6 DEF UpstreamError, requestVars, answerVars, TypeOK
<1>7. CASE DownstreamError(p)
    BY <1>7 DEF DownstreamError, requestVars, answerVars, TypeOK
<1>8. CASE DownstreamClose(p)
    BY <1>8 DEF DownstreamClose, requestVars, answerVars, TypeOK
<1>9. CASE UpstreamClose(p)
    BY <1>9 DEF UpstreamClose, requestVars, answerVars, TypeOK
<1>10. CASE Heartbeat(p)
    BY <1>10 DEF Heartbeat, requestVars, answerVars, TypeOK
<1>11. CASE Pong(p)
    BY <1>11 DEF Pong, requestVars, answerVars, TypeOK
<1>12. CASE DrainUp(p)
    BY <1>12 DEF DrainUp, answerVars, TypeOK
<1>13. CASE DrainDown(p)
    BY <1>13 DEF DrainDown, requestVars, TypeOK
<1> QED BY <1>1, <1>2, <1>3, <1>4, <1>5, <1>6, <1>7, <1>8, <1>9, <1>10, <1>11, <1>12, <1>13 DEF PairStep

\* The relay's variables keep their types: above all the frames it hands on stay
\* single frames, however they were buffered.
THEOREM RelayTypeCorrect == Spec => []TypeOK
<1>1. Init => TypeOK
    BY DEF Init, TypeOK, SocketsOK, BufferOK, FramesOK
<1>2. TypeOK /\ [Next]_vars => TypeOK'
    <2> SUFFICES ASSUME TypeOK, [Next]_vars PROVE TypeOK'
        OBVIOUS
    <2>1. CASE UNCHANGED vars
        BY <2>1 DEF vars, upstreamVars, requestVars, answerVars, TypeOK, SocketsOK, BufferOK,
            FramesOK
    <2>2. CASE CloseAll
        <3>1. SocketsOK'
            BY <2>2 DEF CloseAll, TypeOK, SocketsOK
        <3>2. BufferOK' /\ FramesOK'
            BY <2>2 DEF CloseAll, TypeOK, BufferOK, FramesOK, upstreamVars, requestVars,
                answerVars
        <3> QED BY <3>1, <3>2 DEF TypeOK
    <2>3. ASSUME NEW p \in Pair, PairStep(p) PROVE TypeOK'
        BY <2>3, SocketsStep, BufferStep, FramesStep DEF TypeOK
    <2> QED BY <2>1, <2>2, <2>3 DEF Next
<1> QED BY <1>1, <1>2, PTL DEF Spec
-----------------------------------------------------------------------------
\* A released pair leaves no socket open and none connecting, and the handshake
\* timer is never armed on an upstream that opened.
SocketInv == NoOrphan /\ TimerSparesOpen

LEMMA SocketStep == TypeOK /\ SocketInv /\ [Next]_vars => SocketInv'
<1> SUFFICES ASSUME TypeOK, SocketInv, [Next]_vars PROVE SocketInv'
    OBVIOUS
<1> USE DEF SocketInv, NoOrphan, TimerSparesOpen, TypeOK, SocketsOK, BufferOK
<1>1. CASE UNCHANGED vars
    BY <1>1 DEF vars, upstreamVars
<1>2. CASE CloseAll
    BY <1>2 DEF CloseAll, upstreamVars
<1>3. ASSUME NEW p \in Pair, PairStep(p) PROVE SocketInv'
    <2>1. CASE Upgrade(p)
        BY <2>1 DEF Upgrade
    <2>2. ASSUME NEW n \in 1..MaxPayload, DownstreamMessage(p, n) PROVE SocketInv'
        BY <2>2 DEF DownstreamMessage, BufferFrame, RelayFrame, GiveUp, ClosingDown, ClosingUp
    <2>3. ASSUME NEW n \in 1..MaxPayload, UpstreamMessage(p, n) PROVE SocketInv'
        BY <2>3 DEF UpstreamMessage, GiveUp, ClosingDown, ClosingUp, upstreamVars
    <2>4. CASE UpstreamOpen(p)
        BY <2>4 DEF UpstreamOpen, ClearTimer
    <2>5. CASE HandshakeTimeout(p)
        BY <2>5 DEF HandshakeTimeout, ClearTimer, ClosingDown, ClosingUp
    <2>6. CASE UpstreamError(p) \/ DownstreamError(p)
        BY <2>6 DEF UpstreamError, DownstreamError, ClosingDown, ClosingUp, upstreamVars
    <2>7. CASE DownstreamClose(p) \/ UpstreamClose(p)
        BY <2>7 DEF DownstreamClose, UpstreamClose, Cleanup, ClearTimer, ClosingDown, ClosingUp
    <2>8. CASE Heartbeat(p) \/ Pong(p)
        BY <2>8 DEF Heartbeat, Pong, ClosingDown, upstreamVars
    <2>9. CASE DrainUp(p) \/ DrainDown(p)
        BY <2>9 DEF DrainUp, DrainDown, upstreamVars
    <2> QED BY <1>3, <2>1, <2>2, <2>3, <2>4, <2>5, <2>6, <2>7, <2>8, <2>9 DEF PairStep
<1> QED BY <1>1, <1>2, <1>3 DEF Next

\* Once a pair is released, neither of its sockets is left open or connecting.
THEOREM ReleasedPairsEnd == Spec => []NoOrphan
<1>1. Init => SocketInv
    BY DEF Init, SocketInv, NoOrphan, TimerSparesOpen
<1>2. SocketInv => NoOrphan
    BY DEF SocketInv
<1> QED BY <1>1, <1>2, SocketStep, RelayTypeCorrect, PTL DEF Spec

\* The handshake timer never ends an upstream that opened.
THEOREM TimerNeverKills == Spec => []TimerSparesOpen
<1>1. Init => SocketInv
    BY DEF Init, SocketInv, NoOrphan, TimerSparesOpen
<1>2. SocketInv => TimerSparesOpen
    BY DEF SocketInv
<1> QED BY <1>1, <1>2, SocketStep, RelayTypeCorrect, PTL DEF Spec
-----------------------------------------------------------------------------
(* Frames are handed on in order: the relay implements RelayFifo in both   *)
(* directions.                                                             *)

\* What the browser's frames have become on one pair.  While the upstream connects
\* they are all buffered, while it is open they are all relayed, and afterwards
\* those that were relayed are still the first ones.
RequestsOf(p) ==
    /\ up[p] = "connecting" =>
            ~ready[p] /\ relayed[p] = <<>> /\ buffer[p] = First(received[p])
    /\ up[p] = "open" => ready[p] /\ relayed[p] = First(received[p])
    /\ \E n \in 0..received[p] : relayed[p] = First(n)
RequestsInv == \A p \in Pair : RequestsOf(p)

\* A step that takes no frame and sends none keeps the upstream as it was, or ends it.
LEMMA QuietUpstream ==
    ASSUME TypeOK, NEW p \in Pair, RequestsOf(p),
           UNCHANGED <<ready, received, relayed>>,
           \/ up'[p] = up[p] /\ buffer'[p] = buffer[p]
           \/ up'[p] \in {"closing", "closed"}
    PROVE  RequestsOf(p)'
<1>1. CASE up'[p] = up[p] /\ buffer'[p] = buffer[p]
    BY <1>1 DEF RequestsOf
<1>2. CASE up'[p] \in {"closing", "closed"}
    BY <1>2 DEF RequestsOf
<1> QED BY <1>1, <1>2

\* A step of one pair is none of another.
LEMMA OtherRequests ==
    ASSUME TypeOK, NEW p \in Pair, NEW q \in Pair, p # q, PairStep(p)
    PROVE  /\ up'[q] = up[q] /\ ready'[q] = ready[q] /\ buffer'[q] = buffer[q]
           /\ received'[q] = received[q] /\ relayed'[q] = relayed[q]
<1> USE DEF TypeOK, SocketsOK, BufferOK, FramesOK, ClosingUp, EmptyBuffer
<1>1. CASE Upgrade(p)
    BY <1>1 DEF Upgrade
<1>2. ASSUME NEW n \in 1..MaxPayload, DownstreamMessage(p, n)
      PROVE  /\ up'[q] = up[q] /\ ready'[q] = ready[q] /\ buffer'[q] = buffer[q]
             /\ received'[q] = received[q] /\ relayed'[q] = relayed[q]
    <2>1. received'[q] = received[q] /\ ready' = ready
        BY <1>2 DEF DownstreamMessage
    <2>2. CASE BufferFrame(p, n)
        BY <2>1, <2>2 DEF BufferFrame
    <2>3. CASE RelayFrame(p, n)
        BY <2>1, <2>3 DEF RelayFrame, GiveUp
    <2> QED BY <1>2, <2>2, <2>3 DEF DownstreamMessage
<1>3. ASSUME NEW n \in 1..MaxPayload, UpstreamMessage(p, n)
      PROVE  /\ up'[q] = up[q] /\ ready'[q] = ready[q] /\ buffer'[q] = buffer[q]
             /\ received'[q] = received[q] /\ relayed'[q] = relayed[q]
    BY <1>3 DEF UpstreamMessage, GiveUp, upstreamVars, requestVars
<1>4. CASE UpstreamOpen(p)
    BY <1>4 DEF UpstreamOpen, Flush
<1>5. CASE HandshakeTimeout(p)
    BY <1>5 DEF HandshakeTimeout, requestVars
<1>6. CASE UpstreamError(p) \/ DownstreamError(p)
    BY <1>6 DEF UpstreamError, DownstreamError, upstreamVars, requestVars
<1>7. CASE DownstreamClose(p) \/ UpstreamClose(p)
    BY <1>7 DEF DownstreamClose, UpstreamClose, Cleanup, requestVars
<1>8. CASE Heartbeat(p) \/ Pong(p)
    BY <1>8 DEF Heartbeat, Pong, upstreamVars, requestVars
<1>9. CASE DrainUp(p) \/ DrainDown(p)
    BY <1>9 DEF DrainUp, DrainDown, upstreamVars, requestVars
<1> QED BY <1>1, <1>2, <1>3, <1>4, <1>5, <1>6, <1>7, <1>8, <1>9 DEF PairStep

\* A frame from the browser: kept or sent on as the next one, or dropped with all
\* that follow it.
LEMMA RequestArrives ==
    ASSUME TypeOK, NEW p \in Pair, RequestsOf(p), NEW n \in 1..MaxPayload,
           DownstreamMessage(p, n)
    PROVE  RequestsOf(p)' /\ Requests!Pass(p)
<1> DEFINE r == received[p]
<1>1. r \in Nat /\ r + 1 \in Nat /\ received' = [received EXCEPT ![p] = r + 1]
      /\ received'[p] = r + 1 /\ ready' = ready
    BY DEF DownstreamMessage, TypeOK, FramesOK
<1>2. PICK k \in 0..r : relayed[p] = First(k)
    BY DEF RequestsOf
<1>3. Len(First(k)) = k /\ Append(First(r), r + 1) = First(r + 1) /\ Len(First(r)) = r
    <2>1. k \in Nat
        BY <1>1, <1>2
    <2>2. Len(First(k)) = k
        BY <2>1, FirstIsSeq
    <2>3. Append(First(r), r + 1) = First(r + 1) /\ Len(First(r)) = r
        BY <1>1, FirstIsSeq
    <2> QED BY <2>2, <2>3
<1>4. CASE relayed' = relayed
    <2>1. relayed' = [relayed EXCEPT ![p] = First(k)]
        BY <1>2, <1>4 DEF TypeOK, FramesOK
    <2>2. Requests!Pass(p)
        <3>1. k \in 0..(r + 1) /\ k <= r + 1 /\ k >= Len(relayed[p])
            BY <1>1, <1>2, <1>3
        <3> QED BY <1>1, <2>1, <3>1 DEF Requests!Pass, First
    <2>3. \E m \in 0..received'[p] : relayed'[p] = First(m)
        BY <1>1, <1>2, <1>4
    <2>4. up'[p] = "connecting" => up[p] = "connecting" /\ buffer'[p] = Append(buffer[p], r + 1)
        BY DEF DownstreamMessage, BufferFrame, RelayFrame, GiveUp, ClosingUp, ClosingDown,
            RequestsOf, TypeOK, SocketsOK, BufferOK
    <2>5. up'[p] # "open"
        <3>1. CASE BufferFrame(p, n)
            BY <3>1 DEF BufferFrame, ClosingUp, RequestsOf, TypeOK, SocketsOK
        <3>2. CASE RelayFrame(p, n)
            <4>1. relayed[p] # Append(relayed[p], r + 1)
                BY <1>1 DEF TypeOK, FramesOK
            <4> QED BY <1>4, <3>2, <4>1 DEF RelayFrame, GiveUp, ClosingUp, TypeOK,
                    SocketsOK, FramesOK
        <3> QED BY <3>1, <3>2 DEF DownstreamMessage
    <2> QED BY <1>1, <1>3, <1>4, <2>2, <2>3, <2>4, <2>5 DEF RequestsOf
<1>5. CASE relayed' # relayed
    <2>1. /\ relayed' = [relayed EXCEPT ![p] = Append(@, r + 1)]
          /\ UNCHANGED <<up, buffer>> /\ up[p] = "open"
        BY <1>5 DEF DownstreamMessage, BufferFrame, RelayFrame
    <2>2. relayed' = [relayed EXCEPT ![p] = First(r + 1)] /\ relayed'[p] = First(r + 1)
        BY <1>3, <2>1 DEF RequestsOf, TypeOK, FramesOK
    <2>3. Requests!Pass(p)
        <3>1. /\ r + 1 \in 0..(received[p] + 1) /\ r + 1 >= Len(relayed[p])
              /\ r + 1 <= received[p] + 1
            BY <1>1, <1>2, <1>3
        <3>2. received' = [received EXCEPT ![p] = @ + 1]
            BY <1>1
        <3> HIDE DEF r
        <3> QED BY <2>2, <3>1, <3>2 DEF Requests!Pass, First
    <2> QED BY <1>1, <2>1, <2>2, <2>3 DEF RequestsOf
<1> QED BY <1>4, <1>5

\* The flush: everything buffered is everything received.
LEMMA RequestsFlushed ==
    ASSUME TypeOK, NEW p \in Pair, RequestsOf(p), UpstreamOpen(p)
    PROVE  RequestsOf(p)' /\ Requests!Pass(p)
<1> DEFINE r == received[p]
<1>1. r \in Nat /\ received' = [received EXCEPT ![p] = r] /\ received'[p] = r
    BY DEF UpstreamOpen, TypeOK, FramesOK
<1>2. relayed[p] = <<>> /\ buffer[p] = First(r) /\ First(r) \in Seq(Nat)
    BY <1>1, FirstIsSeq DEF UpstreamOpen, RequestsOf
<1>3. relayed' = [relayed EXCEPT ![p] = <<>> \o First(r)]
    BY <1>2 DEF UpstreamOpen, Flush
<1>4. <<>> \o First(r) = First(r)
    BY <1>2
<1>5. relayed' = [relayed EXCEPT ![p] = First(r)] /\ relayed'[p] = First(r)
    BY <1>3, <1>4 DEF TypeOK, FramesOK
<1>6. Requests!Pass(p)
    <2>1. r \in 0..(r + 1) /\ r >= Len(relayed[p]) /\ r + 0 = r /\ r <= r + 0
        BY <1>1, <1>2
    <2> QED BY <1>1, <1>5, <2>1 DEF Requests!Pass, First
<1>7. up'[p] = "open" /\ ready'[p]
    BY DEF UpstreamOpen, TypeOK, SocketsOK, BufferOK
<1> QED BY <1>1, <1>5, <1>6, <1>7 DEF RequestsOf
\* Every step of a pair is a step of the FIFO, or leaves its frames alone.
LEMMA RequestStep ==
    ASSUME TypeOK, NEW p \in Pair, RequestsOf(p), PairStep(p)
    PROVE  /\ RequestsOf(p)'
           /\ Requests!Pass(p) \/ Requests!Renew(p) \/ UNCHANGED <<received, relayed>>
<1> USE DEF TypeOK, SocketsOK
<1>1. CASE Upgrade(p)
    <2>1. received' = [received EXCEPT ![p] = 0] /\ relayed' = [relayed EXCEPT ![p] = <<>>]
        BY <1>1 DEF Upgrade
    <2>2. /\ up'[p] = "connecting" /\ ~ready'[p] /\ buffer'[p] = First(0)
          /\ relayed'[p] = First(0) /\ received'[p] = 0
        BY <1>1, <2>1, NothingFirst DEF Upgrade, EmptyBuffer, BufferOK, FramesOK
    <2>3. RequestsOf(p)'
        BY <2>2, NothingFirst DEF RequestsOf
    <2> QED BY <2>1, <2>3 DEF Requests!Renew
<1>2. ASSUME NEW n \in 1..MaxPayload, DownstreamMessage(p, n)
      PROVE  RequestsOf(p)' /\ Requests!Pass(p)
    BY <1>2, RequestArrives
<1>3. CASE UpstreamOpen(p)
    BY <1>3, RequestsFlushed
<1>4. ASSUME NEW n \in 1..MaxPayload, UpstreamMessage(p, n)
      PROVE  RequestsOf(p)' /\ UNCHANGED <<received, relayed>>
    <2>1. UNCHANGED <<ready, buffer, received, relayed>>
        BY <1>4 DEF UpstreamMessage, upstreamVars, requestVars
    <2>2. up'[p] = up[p] \/ up'[p] \in {"closing", "closed"}
        BY <1>4 DEF UpstreamMessage, GiveUp, ClosingUp
    <2> QED BY <2>1, <2>2, QuietUpstream
<1>5. CASE HandshakeTimeout(p)
    <2>1. UNCHANGED <<ready, received, relayed>> /\ up'[p] \in {"closing", "closed"}
        BY <1>5 DEF HandshakeTimeout, ClosingUp, requestVars
    <2> QED BY <2>1, QuietUpstream
<1>6. CASE UpstreamError(p) \/ DownstreamError(p)
    <2>1. UNCHANGED <<ready, received, relayed>> /\ up'[p] \in {"closing", "closed"}
        BY <1>6 DEF UpstreamError, DownstreamError, ClosingUp, upstreamVars, requestVars
    <2> QED BY <2>1, QuietUpstream
<1>7. CASE DownstreamClose(p) \/ UpstreamClose(p)
    <2>1. UNCHANGED <<ready, received, relayed>> /\ up'[p] \in {"closing", "closed"}
        BY <1>7 DEF DownstreamClose, UpstreamClose, ClosingUp, requestVars
    <2> QED BY <2>1, QuietUpstream
<1>8. CASE Heartbeat(p) \/ Pong(p) \/ DrainUp(p) \/ DrainDown(p)
    <2>1. UNCHANGED <<up, ready, buffer, received, relayed>>
        BY <1>8 DEF Heartbeat, Pong, DrainUp, DrainDown, upstreamVars, requestVars
    <2> QED BY <2>1, QuietUpstream
<1> QED BY <1>1, <1>2, <1>3, <1>4, <1>5, <1>6, <1>7, <1>8 DEF PairStep

LEMMA RequestsInit == Init => RequestsInv /\ Requests!FifoInit
<1> SUFFICES ASSUME Init PROVE RequestsInv /\ Requests!FifoInit
    OBVIOUS
<1>1. \A p \in Pair : received[p] = 0 /\ up[p] = "closed" /\ relayed[p] = First(0)
    BY NothingFirst DEF Init
<1>2. RequestsInv
    BY <1>1 DEF RequestsInv, RequestsOf
<1> QED BY <1>2 DEF Init, Requests!FifoInit

LEMMA RequestsNext ==
    TypeOK /\ RequestsInv /\ [Next]_vars =>
        RequestsInv' /\ [Requests!FifoNext]_(Requests!fifoVars)
<1> SUFFICES ASSUME TypeOK, RequestsInv, [Next]_vars
             PROVE  RequestsInv' /\ [Requests!FifoNext]_(Requests!fifoVars)
    OBVIOUS
<1>1. CASE UNCHANGED vars \/ CloseAll
    <2>1. UNCHANGED <<up, ready, buffer, received, relayed>>
        BY <1>1 DEF vars, CloseAll, upstreamVars, requestVars
    <2>2. RequestsInv'
        BY <2>1 DEF RequestsInv, RequestsOf
    <2> QED BY <2>1, <2>2 DEF Requests!fifoVars
<1>2. ASSUME NEW p \in Pair, PairStep(p)
      PROVE  RequestsInv' /\ [Requests!FifoNext]_(Requests!fifoVars)
    <2>1. /\ RequestsOf(p)'
          /\ Requests!Pass(p) \/ Requests!Renew(p) \/ UNCHANGED <<received, relayed>>
        BY <1>2, RequestStep DEF RequestsInv
    <2>2. ASSUME NEW q \in Pair, q # p PROVE RequestsOf(q)'
        BY <1>2, <2>2, OtherRequests DEF RequestsInv, RequestsOf
    <2>3. RequestsInv'
        BY <2>1, <2>2 DEF RequestsInv
    <2> QED BY <2>1, <2>3 DEF Requests!FifoNext, Requests!fifoVars
<1> QED BY <1>1, <1>2 DEF Next

\* From the browser to the agent, the relay is a FIFO that may lose its tail, across
\* the buffer, its flush and the direct relay.
THEOREM BrowserFramesInOrder == Spec => RequestsInOrder
BY RequestsInit, RequestsNext, RelayTypeCorrect, PTL
    DEF Spec, RequestsInOrder, Requests!FifoSpec
-----------------------------------------------------------------------------
\* What the agent's frames have become on one pair.
AnswersOf(p) ==
    /\ down[p] = "open" => shown[p] = First(answered[p])
    /\ \E n \in 0..answered[p] : shown[p] = First(n)
AnswersInv == \A p \in Pair : AnswersOf(p)

\* A frame of the agent is sent on as the next one, or dropped with all that follow.
LEMMA AnswerArrives ==
    ASSUME TypeOK, NEW p \in Pair, AnswersOf(p), NEW n \in 1..MaxPayload,
           UpstreamMessage(p, n)
    PROVE  AnswersOf(p)' /\ Answers!Pass(p)
<1> DEFINE a == answered[p]
<1>1. a \in Nat /\ a + 1 \in Nat /\ answered' = [answered EXCEPT ![p] = @ + 1]
      /\ answered'[p] = a + 1
    BY DEF UpstreamMessage, TypeOK, FramesOK
<1>2. PICK k \in 0..a : shown[p] = First(k)
    BY DEF AnswersOf
<1>3. Len(First(k)) = k /\ Append(First(a), a + 1) = First(a + 1)
      /\ First(a + 1) = Answers!FirstFrames(a + 1) /\ First(k) = Answers!FirstFrames(k)
    <2>1. k \in Nat
        BY <1>1, <1>2
    <2>2. Len(First(k)) = k /\ First(k) = Answers!FirstFrames(k)
        BY <2>1, FirstIsSeq, FirstIsSame
    <2>3. Append(First(a), a + 1) = First(a + 1)
        BY <1>1, FirstIsSeq
    <2>4. First(a + 1) = Answers!FirstFrames(a + 1)
        BY <1>1, FirstIsSame
    <2> QED BY <2>2, <2>3, <2>4
<1>4. CASE UNCHANGED shown /\ down'[p] # "open"
    <2>1. shown' = [shown EXCEPT ![p] = Answers!FirstFrames(k)]
        BY <1>2, <1>3, <1>4 DEF TypeOK, FramesOK
    <2>2. k \in 0..(answered[p] + 1) /\ k <= answered[p] + 1 /\ k >= Len(shown[p])
        BY <1>1, <1>2, <1>3
    <2>3. Answers!Pass(p)
        <3> HIDE DEF a
        <3> QED BY <1>1, <2>1, <2>2 DEF Answers!Pass
    <2> QED BY <1>1, <1>2, <1>4, <2>3 DEF AnswersOf
<1>5. CASE ~(UNCHANGED shown /\ down'[p] # "open")
    <2>1. /\ shown' = [shown EXCEPT ![p] = Append(@, a + 1)]
          /\ down[p] = "open"
        BY <1>5 DEF UpstreamMessage, GiveUp, ClosingDown, TypeOK, SocketsOK
    <2>2. shown' = [shown EXCEPT ![p] = First(a + 1)] /\ shown'[p] = First(a + 1)
        BY <1>3, <2>1 DEF AnswersOf, TypeOK, FramesOK
    <2>3. /\ a + 1 \in 0..(answered[p] + 1) /\ a + 1 >= Len(shown[p])
          /\ a + 1 <= answered[p] + 1
        BY <1>1, <1>2, <1>3
    <2>4. Answers!Pass(p)
        <3> HIDE DEF a
        <3> QED BY <1>1, <1>3, <2>2, <2>3 DEF Answers!Pass
    <2> QED BY <1>1, <2>2, <2>4 DEF AnswersOf
<1> QED BY <1>4, <1>5

\* Every other step of the pair leaves the answers alone and opens no browser socket.
LEMMA QuietDownstream ==
    ASSUME TypeOK, NEW p \in Pair, AnswersOf(p), UNCHANGED <<answered, shown>>,
           down'[p] = "open" => down[p] = "open"
    PROVE  AnswersOf(p)'
BY DEF AnswersOf
LEMMA AnswerStep ==
    ASSUME TypeOK, NEW p \in Pair, AnswersOf(p), PairStep(p)
    PROVE  /\ AnswersOf(p)'
           /\ Answers!Pass(p) \/ Answers!Renew(p) \/ UNCHANGED <<answered, shown>>
<1>1. CASE Upgrade(p)
    <2>1. answered' = [answered EXCEPT ![p] = 0] /\ shown' = [shown EXCEPT ![p] = <<>>]
        BY <1>1 DEF Upgrade
    <2>2. answered'[p] = 0 /\ shown'[p] = First(0)
        BY <2>1, NothingFirst DEF TypeOK, FramesOK
    <2> QED BY <2>1, <2>2 DEF AnswersOf, Answers!Renew
<1>2. ASSUME NEW n \in 1..MaxPayload, UpstreamMessage(p, n)
      PROVE  AnswersOf(p)' /\ Answers!Pass(p)
    BY <1>2, AnswerArrives
<1>3. ASSUME \/ \E n \in 1..MaxPayload : DownstreamMessage(p, n)
             \/ UpstreamOpen(p) \/ HandshakeTimeout(p)
             \/ UpstreamError(p) \/ DownstreamError(p)
             \/ DownstreamClose(p) \/ UpstreamClose(p)
             \/ Heartbeat(p) \/ Pong(p) \/ DrainUp(p) \/ DrainDown(p)
      PROVE  AnswersOf(p)' /\ UNCHANGED <<answered, shown>>
    <2>1. UNCHANGED <<answered, shown>>
        BY <1>3 DEF DownstreamMessage, UpstreamOpen, HandshakeTimeout, UpstreamError,
            DownstreamError, DownstreamClose, UpstreamClose, Heartbeat, Pong, DrainUp,
            DrainDown, answerVars
    <2>2. down'[p] = "open" => down[p] = "open"
        BY <1>3 DEF DownstreamMessage, BufferFrame, RelayFrame, GiveUp, UpstreamOpen,
            HandshakeTimeout, UpstreamError, DownstreamError, DownstreamClose,
            UpstreamClose, Heartbeat, Pong, DrainUp, DrainDown, ClosingDown, TypeOK,
            SocketsOK
    <2> QED BY <2>1, <2>2, QuietDownstream
<1> QED BY <1>1, <1>2, <1>3 DEF PairStep

LEMMA OtherAnswers ==
    ASSUME TypeOK, NEW p \in Pair, NEW q \in Pair, p # q, PairStep(p)
    PROVE  down'[q] = down[q] /\ answered'[q] = answered[q] /\ shown'[q] = shown[q]
<1> USE DEF TypeOK, SocketsOK, FramesOK
<1>1. CASE Upgrade(p)
    BY <1>1 DEF Upgrade
<1>2. ASSUME NEW n \in 1..MaxPayload, UpstreamMessage(p, n)
      PROVE  down'[q] = down[q] /\ answered'[q] = answered[q] /\ shown'[q] = shown[q]
    BY <1>2 DEF UpstreamMessage, GiveUp, ClosingDown
<1>3. CASE \/ \E n \in 1..MaxPayload : DownstreamMessage(p, n)
           \/ UpstreamOpen(p) \/ HandshakeTimeout(p)
           \/ UpstreamError(p) \/ DownstreamError(p)
           \/ DownstreamClose(p) \/ UpstreamClose(p)
           \/ Heartbeat(p) \/ Pong(p) \/ DrainUp(p) \/ DrainDown(p)
    <2>1. UNCHANGED <<answered, shown>>
        BY <1>3 DEF DownstreamMessage, UpstreamOpen, HandshakeTimeout, UpstreamError,
            DownstreamError, DownstreamClose, UpstreamClose, Heartbeat, Pong, DrainUp,
            DrainDown, answerVars
    <2>2. down'[q] = down[q]
        BY <1>3 DEF DownstreamMessage, BufferFrame, RelayFrame, GiveUp, UpstreamOpen,
            HandshakeTimeout, UpstreamError, DownstreamError, DownstreamClose,
            UpstreamClose, Heartbeat, Pong, DrainUp, DrainDown, ClosingDown
    <2> QED BY <2>1, <2>2
<1> QED BY <1>1, <1>2, <1>3 DEF PairStep

\* From the agent to the browser, the relay is a FIFO that may lose its tail.
THEOREM AgentFramesInOrder == Spec => AnswersInOrder
<1>1. Init => AnswersInv /\ Answers!FifoInit
    <2> SUFFICES ASSUME Init PROVE AnswersInv /\ Answers!FifoInit
        OBVIOUS
    <2>1. \A p \in Pair : answered[p] = 0 /\ shown[p] = First(0)
        BY NothingFirst DEF Init
    <2>2. AnswersInv
        BY <2>1 DEF AnswersInv, AnswersOf
    <2> QED BY <2>2 DEF Init, Answers!FifoInit
<1>2. TypeOK /\ AnswersInv /\ [Next]_vars =>
            AnswersInv' /\ [Answers!FifoNext]_(Answers!fifoVars)
    <2> SUFFICES ASSUME TypeOK, AnswersInv, [Next]_vars
                 PROVE  AnswersInv' /\ [Answers!FifoNext]_(Answers!fifoVars)
        OBVIOUS
    <2>1. CASE UNCHANGED vars \/ CloseAll
        <3>1. UNCHANGED <<answered, shown>>
            BY <2>1 DEF vars, CloseAll, answerVars
        <3>2. \A p \in Pair : down'[p] = "open" => down[p] = "open"
            BY <2>1 DEF vars, CloseAll
        <3>3. AnswersInv'
            BY <3>1, <3>2, QuietDownstream DEF AnswersInv
        <3> QED BY <3>1, <3>3 DEF Answers!fifoVars
    <2>2. ASSUME NEW p \in Pair, PairStep(p)
          PROVE  AnswersInv' /\ [Answers!FifoNext]_(Answers!fifoVars)
        <3>1. /\ AnswersOf(p)'
              /\ Answers!Pass(p) \/ Answers!Renew(p) \/ UNCHANGED <<answered, shown>>
            BY <2>2, AnswerStep DEF AnswersInv
        <3>2. ASSUME NEW q \in Pair, q # p PROVE AnswersOf(q)'
            BY <2>2, <3>2, OtherAnswers DEF AnswersInv, AnswersOf
        <3>3. AnswersInv'
            BY <3>1, <3>2 DEF AnswersInv
        <3> QED BY <3>1, <3>3 DEF Answers!FifoNext, Answers!fifoVars
    <2> QED BY <2>1, <2>2 DEF Next
<1> QED BY <1>1, <1>2, RelayTypeCorrect, PTL DEF Spec, AnswersInOrder, Answers!FifoSpec
-----------------------------------------------------------------------------
\* The memory of one pair; the upstream holds nothing before it opens.
MemoryOf(p) ==
    /\ Len(buffer[p]) <= MaxBufferFrames
    /\ bytes[p] <= MaxBufferBytes
    /\ upUnsent[p] <= BackpressureLimit + MaxPayload
    /\ downUnsent[p] <= BackpressureLimit + MaxPayload
    /\ up[p] = "connecting" => upUnsent[p] = 0
MemoryInv == \A p \in Pair : MemoryOf(p)

LEMMA LimitsAreNat ==
    /\ MaxBufferFrames \in Nat /\ MaxBufferBytes \in Nat /\ BackpressureLimit \in Nat
    /\ MaxPayload \in Nat /\ MaxBufferBytes <= BackpressureLimit
BY LimitsAssumption

\* Emptying what a pair holds keeps it within its limits.
LEMMA LessMemory ==
    ASSUME TypeOK, TypeOK', NEW p \in Pair, MemoryOf(p),
           buffer'[p] = buffer[p] \/ buffer'[p] = <<>>,
           bytes'[p] <= bytes[p], upUnsent'[p] <= upUnsent[p],
           downUnsent'[p] <= downUnsent[p],
           up'[p] = "connecting" => up[p] = "connecting"
    PROVE  MemoryOf(p)'
<1>1. /\ bytes[p] \in Nat /\ upUnsent[p] \in Nat /\ downUnsent[p] \in Nat
      /\ bytes'[p] \in Nat /\ upUnsent'[p] \in Nat /\ downUnsent'[p] \in Nat
    BY DEF TypeOK, BufferOK, FramesOK
<1>2. Len(buffer'[p]) <= MaxBufferFrames
    BY LimitsAreNat DEF MemoryOf
<1>3. bytes'[p] <= MaxBufferBytes
    BY <1>1, LimitsAreNat DEF MemoryOf
<1>4. /\ upUnsent'[p] <= BackpressureLimit + MaxPayload
      /\ downUnsent'[p] <= BackpressureLimit + MaxPayload
    BY <1>1, LimitsAreNat DEF MemoryOf
<1>5. up'[p] = "connecting" => upUnsent'[p] = 0
    BY <1>1 DEF MemoryOf
<1> QED BY <1>2, <1>3, <1>4, <1>5 DEF MemoryOf
\* A frame from the browser: the buffer stays within its limits because it is checked
\* before the frame is added, the socket because at most one frame passes the check.
LEMMA RequestMemory ==
    ASSUME TypeOK, TypeOK', NEW p \in Pair, MemoryOf(p), NEW n \in 1..MaxPayload,
           DownstreamMessage(p, n), ready[p] => up[p] # "connecting"
    PROVE  MemoryOf(p)'
<1>1. /\ n \in Nat /\ n <= MaxPayload /\ received[p] + 1 \in Nat
      /\ buffer[p] \in Seq(Frame) /\ bytes[p] \in Nat
      /\ upUnsent[p] \in Nat /\ downUnsent[p] \in Nat
    BY PayloadIsNat, LimitsAreNat DEF TypeOK, BufferOK, FramesOK
<1>2. /\ downUnsent' = downUnsent
      /\ up'[p] = "connecting" => up[p] = "connecting"
    BY DEF DownstreamMessage, answerVars, BufferFrame, RelayFrame, GiveUp, ClosingUp,
        TypeOK, SocketsOK
<1>3. CASE BufferFrame(p, n)
    <2>1. CASE Overflows(p, n)
        <3>1. EmptyBuffer(p) /\ UNCHANGED upUnsent
            BY <1>3, <2>1 DEF BufferFrame
        <3>2. buffer'[p] = <<>> /\ bytes'[p] <= bytes[p]
            BY <1>1, <3>1 DEF EmptyBuffer, TypeOK, BufferOK
        <3> QED BY <1>1, <1>2, <3>1, <3>2, LessMemory
    <2>2. CASE ~Overflows(p, n)
        <3>1. /\ buffer'[p] = Append(buffer[p], received[p] + 1)
              /\ bytes'[p] = bytes[p] + n
              /\ UNCHANGED <<up, upUnsent>>
            BY <1>3, <2>2 DEF BufferFrame, TypeOK, BufferOK
        <3>2. Len(buffer[p]) < MaxBufferFrames /\ bytes[p] + n <= MaxBufferBytes
            <4>1. Len(buffer[p]) \in Nat
                BY <1>1
            <4> QED BY <1>1, <2>2, <4>1, LimitsAreNat DEF Overflows
        <3>3. Len(buffer'[p]) <= MaxBufferFrames
            BY <1>1, <3>1, <3>2, LimitsAreNat
        <3> QED BY <1>2, <3>1, <3>2, <3>3 DEF MemoryOf
    <2> QED BY <2>1, <2>2
<1>4. CASE RelayFrame(p, n)
    <2>1. UNCHANGED <<buffer, bytes>>
        BY <1>4 DEF RelayFrame
    <2>2. CASE upUnsent' = upUnsent
        BY <1>1, <1>2, <2>1, <2>2, LessMemory
    <2>3. CASE upUnsent' # upUnsent
        <3>1. /\ upUnsent'[p] = upUnsent[p] + n /\ ~(upUnsent[p] > BackpressureLimit)
              /\ UNCHANGED up
            BY <1>4, <2>3 DEF RelayFrame, TypeOK, FramesOK
        <3>2. upUnsent'[p] <= BackpressureLimit + MaxPayload
            BY <1>1, <3>1, LimitsAreNat
        <3>3. up[p] # "connecting"
            BY <1>4 DEF RelayFrame
        <3> QED BY <1>2, <2>1, <3>1, <3>2, <3>3 DEF MemoryOf
    <2> QED BY <2>2, <2>3
<1> QED BY <1>3, <1>4 DEF DownstreamMessage

LEMMA AnswerMemory ==
    ASSUME TypeOK, TypeOK', NEW p \in Pair, MemoryOf(p), NEW n \in 1..MaxPayload,
           UpstreamMessage(p, n)
    PROVE  MemoryOf(p)'
<1>1. /\ n \in Nat /\ n <= MaxPayload
      /\ bytes[p] \in Nat /\ upUnsent[p] \in Nat /\ downUnsent[p] \in Nat
    BY PayloadIsNat, LimitsAreNat DEF TypeOK, BufferOK, FramesOK
<1>2. /\ UNCHANGED <<buffer, bytes, upUnsent>>
      /\ up'[p] = "connecting" => up[p] = "connecting"
    BY DEF UpstreamMessage, upstreamVars, requestVars, GiveUp, ClosingUp, TypeOK, SocketsOK
<1>3. CASE downUnsent' = downUnsent
    BY <1>1, <1>2, <1>3, LessMemory
<1>4. CASE downUnsent' # downUnsent
    <2>1. downUnsent'[p] = downUnsent[p] + n /\ ~(downUnsent[p] > BackpressureLimit)
        BY <1>4 DEF UpstreamMessage, TypeOK, FramesOK
    <2>2. downUnsent'[p] <= BackpressureLimit + MaxPayload
        BY <1>1, <2>1, LimitsAreNat
    <2> QED BY <1>2, <2>2 DEF MemoryOf
<1> QED BY <1>3, <1>4

\* The flush hands the whole buffer to a socket that held nothing.
LEMMA FlushMemory ==
    ASSUME TypeOK, TypeOK', NEW p \in Pair, MemoryOf(p), UpstreamOpen(p)
    PROVE  MemoryOf(p)'
<1>1. bytes[p] \in Nat /\ upUnsent[p] = 0
    BY DEF UpstreamOpen, MemoryOf, TypeOK, BufferOK
<1>2. buffer'[p] = <<>> /\ bytes'[p] = 0 /\ up'[p] = "open" /\ downUnsent' = downUnsent
    BY DEF UpstreamOpen, EmptyBuffer, answerVars, TypeOK, SocketsOK, BufferOK
<1>3. upUnsent'[p] = bytes[p]
    BY <1>1 DEF UpstreamOpen, Flush, TypeOK, FramesOK
<1>4. upUnsent'[p] <= BackpressureLimit + MaxPayload
    BY <1>1, <1>3, LimitsAreNat DEF MemoryOf
<1>5. Len(buffer'[p]) <= MaxBufferFrames /\ bytes'[p] <= MaxBufferBytes
    BY <1>2, LimitsAreNat
<1> QED BY <1>2, <1>4, <1>5 DEF MemoryOf

LEMMA OtherMemory ==
    ASSUME TypeOK, NEW p \in Pair, NEW q \in Pair, p # q, PairStep(p)
    PROVE  /\ bytes'[q] = bytes[q]
           /\ upUnsent'[q] = upUnsent[q] /\ downUnsent'[q] = downUnsent[q]
<1> USE DEF TypeOK, BufferOK, FramesOK
<1>1. CASE Upgrade(p)
    BY <1>1 DEF Upgrade, EmptyBuffer
<1>2. ASSUME NEW n \in 1..MaxPayload, DownstreamMessage(p, n)
      PROVE  /\ bytes'[q] = bytes[q]
             /\ upUnsent'[q] = upUnsent[q] /\ downUnsent'[q] = downUnsent[q]
    BY <1>2 DEF DownstreamMessage, BufferFrame, RelayFrame, EmptyBuffer, answerVars
<1>3. ASSUME NEW n \in 1..MaxPayload, UpstreamMessage(p, n)
      PROVE  /\ bytes'[q] = bytes[q]
             /\ upUnsent'[q] = upUnsent[q] /\ downUnsent'[q] = downUnsent[q]
    BY <1>3 DEF UpstreamMessage, upstreamVars, requestVars
<1>4. CASE UpstreamOpen(p)
    BY <1>4 DEF UpstreamOpen, Flush, EmptyBuffer, answerVars
<1>5. CASE HandshakeTimeout(p)
    BY <1>5 DEF HandshakeTimeout, EmptyBuffer, requestVars, answerVars
<1>6. CASE UpstreamError(p) \/ DownstreamError(p) \/ Heartbeat(p) \/ Pong(p)
    BY <1>6 DEF UpstreamError, DownstreamError, Heartbeat, Pong, upstreamVars,
        requestVars, answerVars
<1>7. CASE DownstreamClose(p) \/ UpstreamClose(p)
    BY <1>7 DEF DownstreamClose, UpstreamClose, Cleanup, EmptyBuffer, requestVars,
        answerVars
<1>8. CASE DrainUp(p) \/ DrainDown(p)
    BY <1>8 DEF DrainUp, DrainDown, upstreamVars, requestVars, answerVars
<1> QED BY <1>1, <1>2, <1>3, <1>4, <1>5, <1>6, <1>7, <1>8 DEF PairStep

LEMMA MemoryStep ==
    ASSUME TypeOK, TypeOK', NEW p \in Pair, MemoryOf(p), RequestsOf(p), PairStep(p)
    PROVE  MemoryOf(p)'
<1>1. CASE Upgrade(p)
    <2>1. /\ buffer'[p] = <<>> /\ bytes'[p] = 0
          /\ upUnsent'[p] = 0 /\ downUnsent'[p] = 0
        BY <1>1 DEF Upgrade, EmptyBuffer, TypeOK, BufferOK, FramesOK
    <2> QED BY <2>1, LimitsAreNat DEF MemoryOf
<1>2. ASSUME NEW n \in 1..MaxPayload, DownstreamMessage(p, n) PROVE MemoryOf(p)'
    BY <1>2, RequestMemory DEF RequestsOf
<1>3. ASSUME NEW n \in 1..MaxPayload, UpstreamMessage(p, n) PROVE MemoryOf(p)'
    BY <1>3, AnswerMemory
<1>4. CASE UpstreamOpen(p)
    BY <1>4, FlushMemory
<1>5. CASE \/ HandshakeTimeout(p) \/ UpstreamError(p) \/ DownstreamError(p)
           \/ DownstreamClose(p) \/ UpstreamClose(p)
           \/ Heartbeat(p) \/ Pong(p) \/ DrainUp(p) \/ DrainDown(p)
    <2>1. bytes[p] \in Nat /\ upUnsent[p] \in Nat /\ downUnsent[p] \in Nat
        BY DEF TypeOK, BufferOK, FramesOK
    <2>2. UNCHANGED <<buffer, bytes>> \/ EmptyBuffer(p)
        BY <1>5 DEF HandshakeTimeout, UpstreamError, DownstreamError, DownstreamClose,
            UpstreamClose, Heartbeat, Pong, DrainUp, DrainDown, Cleanup, upstreamVars
    <2>3. (buffer'[p] = buffer[p] \/ buffer'[p] = <<>>) /\ bytes'[p] <= bytes[p]
        BY <2>1, <2>2 DEF EmptyBuffer, TypeOK, BufferOK
    <2>4. upUnsent'[p] <= upUnsent[p] /\ downUnsent'[p] <= downUnsent[p]
        <3>1. CASE DrainUp(p)
            BY <2>1, <3>1 DEF DrainUp, answerVars, TypeOK, FramesOK
        <3>2. CASE DrainDown(p)
            BY <2>1, <3>2 DEF DrainDown, requestVars, TypeOK, FramesOK
        <3>3. CASE ~DrainUp(p) /\ ~DrainDown(p)
            <4>1. UNCHANGED <<upUnsent, downUnsent>>
                BY <1>5, <3>3 DEF HandshakeTimeout, UpstreamError, DownstreamError,
                    DownstreamClose, UpstreamClose, Heartbeat, Pong, requestVars,
                    answerVars
            <4> QED BY <2>1, <4>1
        <3> QED BY <3>1, <3>2, <3>3
    <2>5. up'[p] = "connecting" => up[p] = "connecting"
        BY <1>5 DEF HandshakeTimeout, UpstreamError, DownstreamError, DownstreamClose,
            UpstreamClose, Heartbeat, Pong, DrainUp, DrainDown, ClosingUp, TypeOK,
            SocketsOK
    <2> QED BY <2>3, <2>4, <2>5, LessMemory
<1> QED BY <1>1, <1>2, <1>3, <1>4, <1>5 DEF PairStep
\* Whatever the peers send and however slowly they read, a pair holds no more than
\* its buffer and, in each socket, the backpressure limit and one frame.
THEOREM PairsStaySmall == Spec => []MemoryBounded
<1>1. Init => MemoryInv
    BY LimitsAreNat DEF Init, MemoryInv, MemoryOf
<1>2. TypeOK /\ TypeOK' /\ RequestsInv /\ MemoryInv /\ [Next]_vars => MemoryInv'
    <2> SUFFICES ASSUME TypeOK, TypeOK', RequestsInv, MemoryInv, [Next]_vars
                 PROVE  MemoryInv'
        OBVIOUS
    <2>1. CASE UNCHANGED vars \/ CloseAll
        <3>1. UNCHANGED <<up, buffer, bytes, upUnsent, downUnsent>>
            BY <2>1 DEF vars, CloseAll, upstreamVars, requestVars, answerVars
        <3> QED BY <3>1 DEF MemoryInv, MemoryOf
    <2>2. ASSUME NEW p \in Pair, PairStep(p) PROVE MemoryInv'
        <3>1. MemoryOf(p)'
            BY <2>2, MemoryStep DEF MemoryInv, RequestsInv
        <3>2. ASSUME NEW q \in Pair, q # p PROVE MemoryOf(q)'
            BY <2>2, <3>2, OtherMemory, OtherRequests DEF MemoryInv, MemoryOf
        <3> QED BY <3>1, <3>2 DEF MemoryInv
    <2> QED BY <2>1, <2>2 DEF Next
<1>3. MemoryInv => MemoryBounded
    BY DEF MemoryInv, MemoryOf, MemoryBounded
<1> QED BY <1>1, <1>2, <1>3, RequestsInit, RequestsNext, RelayTypeCorrect, PTL DEF Spec
=============================================================================
