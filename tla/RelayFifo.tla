----------------------------- MODULE RelayFifo -----------------------------
(***************************************************************************)
(* What one direction of the gateway's relay promises on every pair of     *)
(* sockets: the frames it hands on are the first ones it received, in the  *)
(* order it received them.  A pair that ends may lose the rest; a frame is *)
(* never skipped, repeated or overtaken.                                   *)
(***************************************************************************)
EXTENDS Naturals, Sequences

CONSTANT Pair

VARIABLES
    came,   \* how many frames came in on each pair: they are 1, 2, 3, ...
    left    \* the frames handed on, oldest first

fifoVars == <<came, left>>

\* The first n frames.
FirstFrames(n) == [k \in 1..n |-> k]

FifoInit ==
    /\ came = [p \in Pair |-> 0]
    /\ left = [p \in Pair |-> <<>>]

\* At most one frame comes in, and any number that came in and are next go out.
Pass(p) ==
    \E i \in {0, 1}, n \in 0..(came[p] + 1) :
        /\ came' = [came EXCEPT ![p] = @ + i]
        /\ n <= came[p] + i
        /\ n >= Len(left[p])
        /\ left' = [left EXCEPT ![p] = FirstFrames(n)]

\* A new pair takes the place of one that ended.
Renew(p) ==
    /\ came' = [came EXCEPT ![p] = 0]
    /\ left' = [left EXCEPT ![p] = <<>>]

FifoNext == \E p \in Pair : Pass(p) \/ Renew(p)

FifoSpec == FifoInit /\ [][FifoNext]_fifoVars
=============================================================================
