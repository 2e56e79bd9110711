---------------------------- MODULE LoginThrottle ----------------------------
(***************************************************************************)
(* The gateway's login throttle (gateway/src/loginThrottle.ts) under its   *)
(* one user, the login route (gateway/src/auth.ts): the throttle is asked  *)
(* before the password is verified, the verification is awaited, and the   *)
(* outcome is recorded after it, so attempts of one or several addresses   *)
(* overlap.  The clock only moves forward.                                 *)
(***************************************************************************)
EXTENDS Integers, Sequences, FiniteSets

CONSTANTS
    Ip,             \* client addresses
    Window,         \* WINDOW_MS
    MaxAttempts,    \* MAX_ATTEMPTS_PER_WINDOW
    MaxTracked,     \* MAX_TRACKED_IPS
    MaxNow,         \* bound of the model: the clock
    MaxVerifying    \* bound of the model: attempts of an address in flight

ASSUME ThrottleAssumption ==
    /\ {Window, MaxAttempts, MaxTracked, MaxNow, MaxVerifying} \subseteq Nat \ {0}
    /\ IsFiniteSet(Ip)

VARIABLES
    now,        \* Date.now()
    buckets,    \* buckets, as a function on the addresses that have one
    verifying,  \* the attempts in verifyPassword
    failedAt    \* history: when the last failures of an address were, up to MaxAttempts

vars == <<now, buckets, verifying, failedAt>>

tracked == DOMAIN buckets
Bucket == [count : Nat, windowStart : 0 .. MaxNow]

TypeOK ==
    /\ now \in 0 .. MaxNow
    /\ tracked \subseteq Ip
    /\ buckets \in [tracked -> Bucket]
    /\ verifying \in [Ip -> 0 .. MaxVerifying]
    /\ failedAt \in [Ip -> Seq(0 .. MaxNow)]
    /\ \A i \in Ip : Len(failedAt[i]) <= MaxAttempts

Init ==
    /\ now = 0
    /\ buckets = [i \in {} |-> 0]
    /\ verifying = [i \in Ip |-> 0]
    /\ failedAt = [i \in Ip |-> <<>>]
-----------------------------------------------------------------------------
IsExpiredLate(b) == now - b.windowStart > Window + 1    \* mutant: buckets live longer
IsExpired(b) == now - b.windowStart >= Window

PurgeExpired == {i \in tracked : ~IsExpired(buckets[i])}

EvictNobody(live) == {live}                             \* mutant: the cap is not kept
EvictAnybody(live) ==                                   \* mutant: not the oldest
    IF Cardinality(live) < MaxTracked THEN {live} ELSE {live \ {i} : i \in live}
\* What evictOldestIfNeeded may leave: among buckets of one age it takes the
\* one that was inserted first, here any.
EvictOldestIfNeeded(live) ==
    IF Cardinality(live) < MaxTracked
    THEN {live}
    ELSE {live \ {i} : i \in {j \in live : \A k \in live :
                                buckets[j].windowStart <= buckets[k].windowStart}}

Fresh == [count |-> 0, windowStart |-> now]

\* The bucket of i and the others, after failures more of i: currentBucket,
\* then += failures on what it returned.
Charge(i, failures) ==
    LET charged(b) == [b EXCEPT !.count = @ + failures]
        kept(live, b) == [j \in live \cup {i} |-> IF j = i THEN charged(b) ELSE buckets[j]]
    IN  IF i \in PurgeExpired
        THEN buckets' = kept(PurgeExpired, buckets[i])
        ELSE \E live \in EvictOldestIfNeeded(PurgeExpired) : buckets' = kept(live, Fresh)

ThrottledLate(i) ==     \* mutant: one attempt more
    i \in PurgeExpired /\ buckets[i].count > MaxAttempts
\* isThrottled; a fresh bucket never says so.
Throttled(i) == i \in PurgeExpired /\ buckets[i].count >= MaxAttempts

\* POST /acp/session up to the answer 429, or up to the await of verifyPassword.
Refuse(i) ==
    /\ Throttled(i)
    /\ Charge(i, 0)
    /\ UNCHANGED <<now, verifying, failedAt>>
Verify(i) ==
    /\ verifying[i] < MaxVerifying
    /\ ~Throttled(i)
    /\ Charge(i, 0)
    /\ verifying' = [verifying EXCEPT ![i] = @ + 1]
    /\ UNCHANGED <<now, failedAt>>

Verified(i) ==
    /\ verifying[i] > 0
    /\ verifying' = [verifying EXCEPT ![i] = @ - 1]

\* The rest of the route: the password was wrong (recordFailedAttempt), or
\* right (recordSuccessfulLogin).
Rejected(i) ==
    /\ Verified(i)
    /\ Charge(i, 1)
    /\ failedAt' = [failedAt EXCEPT ![i] =
                        Append(IF Len(@) < MaxAttempts THEN @ ELSE Tail(@), now)]
    /\ UNCHANGED now
Accepted(i) ==
    /\ Verified(i)
    /\ buckets' = [j \in tracked \ {i} |-> buckets[j]]
    /\ UNCHANGED <<now, failedAt>>

Tick ==
    /\ now < MaxNow
    /\ now' = now + 1
    /\ UNCHANGED <<buckets, verifying, failedAt>>

Next ==
    \/ \E i \in Ip : Refuse(i) \/ Verify(i) \/ Rejected(i) \/ Accepted(i)
    \/ Tick
Spec == Init /\ [][Next]_vars
-----------------------------------------------------------------------------
\* The memory of the throttle stays within its cap (evictOldestIfNeeded).
CapKept == Cardinality(tracked) <= MaxTracked

\* Only attempts that were already being verified go past the limit: the
\* throttle is asked before the await and charged after it (auth.ts).
OverrunIsInFlight ==
    \A i \in tracked :
        buckets[i].count + verifying[i] < MaxAttempts + MaxVerifying

\* An address is refused only for failures of its own within the window,
\* whatever was purged, evicted or still in flight.
RefusedForCause ==
    \A i \in Ip : Throttled(i) =>
        /\ Len(failedAt[i]) = MaxAttempts
        /\ \A k \in DOMAIN failedAt[i] : now - failedAt[i][k] < Window

\* A refused address is let in again only when its window is over, when a
\* login of it that was already being verified succeeds, or when the cap is
\* reached and no bucket is older (loginThrottle.ts).
RefusalLasts ==
    [][\A i \in Ip : Throttled(i) /\ ~Throttled(i)' =>
        \/ now' - buckets[i].windowStart >= Window
        \/ verifying'[i] < verifying[i] /\ tracked' = tracked \ {i}
        \/ /\ Cardinality(PurgeExpired) >= MaxTracked
           /\ \A j \in PurgeExpired : buckets[i].windowStart <= buckets[j].windowStart]_vars
=============================================================================
