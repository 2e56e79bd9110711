----------------------- MODULE LoginThrottle_proofs -----------------------
(***************************************************************************)
(* Theorems about the login throttle, for any set of addresses, any window *)
(* and any limits.                                                         *)
(***************************************************************************)
EXTENDS LoginThrottle, FiniteSetTheorems, SequenceTheorems, TLAPS

LEMMA LimitsAreNat ==
    /\ Window \in Nat /\ Window > 0 /\ MaxAttempts \in Nat /\ MaxAttempts > 0
    /\ MaxTracked \in Nat /\ MaxTracked > 0 /\ MaxNow \in Nat
    /\ MaxVerifying \in Nat /\ MaxVerifying > 0
BY ThrottleAssumption DEF ThrottleAssumption

\* What currentBucket does to the map: the bucket of i and a part of the live
\* ones stay.
Charged(i, failures, live, b) ==
    /\ live \subseteq PurgeExpired /\ b \in Bucket
    /\ buckets' = [j \in live \cup {i} |->
                    IF j = i THEN [b EXCEPT !.count = @ + failures] ELSE buckets[j]]
    /\ IF i \in PurgeExpired
       THEN live = PurgeExpired /\ b = buckets[i]
       ELSE live \in EvictOldestIfNeeded(PurgeExpired) /\ b = Fresh

LEMMA ChargeIsOne ==
    ASSUME TypeOK, NEW i \in Ip, NEW failures \in {0, 1}, Charge(i, failures)
    PROVE  \E live \in SUBSET PurgeExpired, b \in Bucket : Charged(i, failures, live, b)
<1>1. CASE i \in PurgeExpired
    <2>1. buckets[i] \in Bucket
        BY <1>1 DEF TypeOK, PurgeExpired
    <2>2. Charged(i, failures, PurgeExpired, buckets[i])
        BY <1>1, <2>1 DEF Charge, Charged
    <2> QED BY <2>1, <2>2
<1>2. CASE i \notin PurgeExpired
    <2>1. PICK live \in EvictOldestIfNeeded(PurgeExpired) :
            buckets' = [j \in live \cup {i} |->
                IF j = i THEN [Fresh EXCEPT !.count = @ + failures] ELSE buckets[j]]
        BY <1>2 DEF Charge
    <2>2. live \subseteq PurgeExpired
        BY DEF EvictOldestIfNeeded
    <2>3. Fresh \in Bucket
        BY DEF Fresh, Bucket, TypeOK
    <2> QED BY <1>2, <2>1, <2>2, <2>3 DEF Charged
<1> QED BY <1>1, <1>2

\* A charge keeps the types of the map.
LEMMA ChargeType ==
    ASSUME TypeOK, NEW i \in Ip, NEW failures \in {0, 1}, Charge(i, failures)
    PROVE  tracked' \subseteq Ip /\ buckets' \in [tracked' -> Bucket]
<1>1. PICK live \in SUBSET PurgeExpired, b \in Bucket : Charged(i, failures, live, b)
    BY ChargeIsOne
<1>2. live \subseteq tracked /\ live \subseteq Ip
    BY DEF PurgeExpired, TypeOK
<1>3. [b EXCEPT !.count = @ + failures] \in Bucket
    BY DEF Bucket
<1>4. tracked' = live \cup {i}
    BY <1>1 DEF Charged, tracked
<1> QED BY <1>1, <1>2, <1>3, <1>4 DEF Charged, TypeOK

\* A failure is the last of the failures remembered; at the limit the oldest is
\* forgotten.
LEMMA FailureIsAppended ==
    ASSUME TypeOK, NEW i \in Ip, Rejected(i)
    PROVE  /\ failedAt' \in [Ip -> Seq(0 .. MaxNow)]
           /\ \A j \in Ip : Len(failedAt'[j]) <= MaxAttempts
           /\ \A j \in Ip \ {i} : failedAt'[j] = failedAt[j]
           /\ \E kept, gone \in Nat :
                /\ kept + gone = Len(failedAt[i])
                /\ kept < MaxAttempts /\ (gone = 0 \/ kept = MaxAttempts - 1)
                /\ Len(failedAt'[i]) = kept + 1 /\ failedAt'[i][kept + 1] = now
                /\ \A k \in 1 .. kept : failedAt'[i][k] = failedAt[i][k + gone]
<1> USE LimitsAreNat
<1> DEFINE s == failedAt[i]
           kept == IF Len(s) < MaxAttempts THEN s ELSE Tail(s)
<1>1. s \in Seq(0 .. MaxNow) /\ Len(s) <= MaxAttempts /\ now \in 0 .. MaxNow
    BY DEF TypeOK
<1>2. failedAt' = [failedAt EXCEPT ![i] = Append(kept, now)]
    BY DEF Rejected
<1>3. /\ kept \in Seq(0 .. MaxNow)
      /\ Len(kept) = (IF Len(s) < MaxAttempts THEN Len(s) ELSE MaxAttempts - 1)
      /\ \A k \in 1 .. Len(kept) : kept[k] = s[k + (Len(s) - Len(kept))]
    <2>1. CASE Len(s) < MaxAttempts
        BY <1>1, <2>1
    <2>2. CASE ~(Len(s) < MaxAttempts)
        <3>1. s # <<>> /\ Len(s) = MaxAttempts
            BY <1>1, <2>2
        <3>2. /\ Tail(s) \in Seq(0 .. MaxNow) /\ Len(Tail(s)) = Len(s) - 1
              /\ \A k \in 1 .. Len(Tail(s)) : Tail(s)[k] = s[k + 1]
            BY <1>1, <3>1, HeadTailProperties
        <3>3. MaxAttempts - (MaxAttempts - 1) = 1
            OBVIOUS
        <3> QED BY <2>2, <3>1, <3>2, <3>3
    <2> QED BY <2>1, <2>2
<1> HIDE DEF kept
<1>4. /\ Append(kept, now) \in Seq(0 .. MaxNow)
      /\ Len(Append(kept, now)) = Len(kept) + 1
      /\ Append(kept, now)[Len(kept) + 1] = now
      /\ \A k \in 1 .. Len(kept) : Append(kept, now)[k] = kept[k]
    BY <1>1, <1>3
<1>5. failedAt' \in [Ip -> Seq(0 .. MaxNow)] /\ failedAt'[i] = Append(kept, now)
      /\ \A j \in Ip \ {i} : failedAt'[j] = failedAt[j]
    BY <1>2, <1>4 DEF TypeOK
<1>6. Len(kept) + 1 <= MaxAttempts
    BY <1>1, <1>3
<1>7. \A j \in Ip : Len(failedAt'[j]) <= MaxAttempts
    BY <1>4, <1>5, <1>6 DEF TypeOK
<1>8. /\ Len(kept) \in Nat /\ Len(s) - Len(kept) \in Nat
      /\ Len(kept) + (Len(s) - Len(kept)) = Len(s)
      /\ Len(s) - Len(kept) = 0 \/ Len(kept) = MaxAttempts - 1
    BY <1>1, <1>3
<1> HIDE DEF s
<1>9. /\ Len(failedAt'[i]) = Len(kept) + 1 /\ failedAt'[i][Len(kept) + 1] = now
      /\ \A k \in 1 .. Len(kept) : failedAt'[i][k] = s[k + (Len(s) - Len(kept))]
    BY <1>3, <1>4, <1>5
<1>10. \E m, gone \in Nat :
        /\ m + gone = Len(s) /\ m < MaxAttempts /\ (gone = 0 \/ m = MaxAttempts - 1)
        /\ Len(failedAt'[i]) = m + 1 /\ failedAt'[i][m + 1] = now
        /\ \A k \in 1 .. m : failedAt'[i][k] = s[k + gone]
    <2>1. Len(kept) < MaxAttempts
        BY <1>6, <1>8
    <2> USE <1>8
    <2> WITNESS Len(kept) \in Nat, Len(s) - Len(kept) \in Nat
    <2> QED BY <1>8, <1>9, <2>1, Zenon
<1> USE DEF s
<1> QED BY <1>5, <1>7, <1>10

LEMMA TypeStep == TypeOK /\ [Next]_vars => TypeOK'
<1> SUFFICES ASSUME TypeOK, [Next]_vars PROVE TypeOK'
    OBVIOUS
<1> USE LimitsAreNat
<1>1. ASSUME NEW i \in Ip, Refuse(i) PROVE TypeOK'
    BY <1>1, ChargeType DEF Refuse, TypeOK
<1>2. ASSUME NEW i \in Ip, Verify(i) PROVE TypeOK'
    <2>1. verifying' \in [Ip -> 0 .. MaxVerifying]
        BY <1>2 DEF Verify, TypeOK
    <2> QED BY <1>2, <2>1, ChargeType DEF Verify, TypeOK
<1>3. ASSUME NEW i \in Ip, Rejected(i) PROVE TypeOK'
    <2>1. verifying' \in [Ip -> 0 .. MaxVerifying]
        BY <1>3 DEF Rejected, Verified, TypeOK
    <2>2. /\ failedAt' \in [Ip -> Seq(0 .. MaxNow)]
          /\ \A j \in Ip : Len(failedAt'[j]) <= MaxAttempts
        BY <1>3, FailureIsAppended
    <2> QED BY <1>3, <2>1, <2>2, ChargeType DEF Rejected, TypeOK
<1>4. ASSUME NEW i \in Ip, Accepted(i) PROVE TypeOK'
    <2>1. verifying' \in [Ip -> 0 .. MaxVerifying]
        BY <1>4 DEF Accepted, Verified, TypeOK
    <2>2. tracked' = tracked \ {i} /\ buckets' \in [tracked \ {i} -> Bucket]
        BY <1>4 DEF Accepted, tracked, TypeOK
    <2> QED BY <1>4, <2>1, <2>2 DEF Accepted, TypeOK
<1>5. CASE Tick
    BY <1>5 DEF Tick, TypeOK, tracked
<1>6. CASE UNCHANGED vars
    BY <1>6 DEF vars, TypeOK, tracked
<1> QED BY <1>1, <1>2, <1>3, <1>4, <1>5, <1>6 DEF Next

\* Every reachable state of the throttle is well typed.
THEOREM ThrottleTypeCorrect == Spec => []TypeOK
<1>1. Init => TypeOK
    BY LimitsAreNat DEF Init, TypeOK, tracked
<1> QED BY <1>1, TypeStep, PTL DEF Spec
-----------------------------------------------------------------------------
\* Making room: a charge leaves no more buckets than the cap.
LEMMA ChargeKeepsCap ==
    ASSUME TypeOK, CapKept, NEW i \in Ip, NEW failures \in {0, 1}, Charge(i, failures)
    PROVE  CapKept'
<1> DEFINE Live == PurgeExpired
<1>1. PICK live \in SUBSET Live, b \in Bucket : Charged(i, failures, live, b)
    BY ChargeIsOne
<1>2. tracked' = live \cup {i}
    BY <1>1 DEF Charged, tracked
<1>3. IsFiniteSet(tracked) /\ Live \subseteq tracked
    BY ThrottleAssumption, FS_Subset DEF ThrottleAssumption, TypeOK, PurgeExpired
<1>4. /\ IsFiniteSet(Live) /\ Cardinality(Live) \in Nat /\ Cardinality(Live) <= MaxTracked
    <2>1. IsFiniteSet(Live) /\ Cardinality(Live) <= Cardinality(tracked)
        BY <1>3, FS_Subset
    <2>2. Cardinality(Live) \in Nat /\ Cardinality(tracked) \in Nat
        BY <1>3, <2>1, FS_CardinalityType
    <2> QED BY <2>1, <2>2, LimitsAreNat DEF CapKept
<1>5. CASE i \in Live
    <2>1. live \cup {i} = Live
        BY <1>1, <1>5 DEF Charged
    <2> QED BY <1>2, <1>4, <2>1 DEF CapKept
<1>6. CASE i \notin Live /\ Cardinality(Live) < MaxTracked
    <2>1. live = Live
        BY <1>1, <1>6 DEF Charged, EvictOldestIfNeeded
    <2>2. Cardinality(Live \cup {i}) = Cardinality(Live) + 1
        BY <1>4, <1>6, FS_AddElement
    <2> QED BY <1>2, <1>4, <1>6, <2>1, <2>2, LimitsAreNat DEF CapKept
<1>7. CASE i \notin Live /\ ~(Cardinality(Live) < MaxTracked)
    <2>1. PICK j \in Live : live = Live \ {j}
        BY <1>1, <1>7 DEF Charged, EvictOldestIfNeeded
    <2>2. IsFiniteSet(live) /\ Cardinality(live) = Cardinality(Live) - 1 /\ i \notin live
        BY <1>4, <1>7, <2>1, FS_RemoveElement
    <2>3. Cardinality(live \cup {i}) = Cardinality(live) + 1
        BY <2>2, FS_AddElement
    <2> QED BY <1>2, <1>4, <2>2, <2>3 DEF CapKept
<1> QED BY <1>5, <1>6, <1>7

\* The throttle never remembers more addresses than its cap, however many try
\* (evictOldestIfNeeded).
THEOREM MemoryIsCapped == Spec => []CapKept
<1>1. Init => CapKept
    <2>1. Init => tracked = {}
        BY DEF Init, tracked
    <2> QED BY <2>1, FS_EmptySet, LimitsAreNat DEF CapKept
<1>2. TypeOK /\ CapKept /\ [Next]_vars => CapKept'
    <2> SUFFICES ASSUME TypeOK, CapKept, [Next]_vars PROVE CapKept'
        OBVIOUS
    <2>1. ASSUME NEW i \in Ip, Refuse(i) \/ Verify(i) \/ Rejected(i) PROVE CapKept'
        BY <2>1, ChargeKeepsCap DEF Refuse, Verify, Rejected
    <2>2. ASSUME NEW i \in Ip, Accepted(i) PROVE CapKept'
        <3>1. tracked' = tracked \ {i}
            BY <2>2 DEF Accepted, tracked
        <3>2. IsFiniteSet(tracked)
            BY ThrottleAssumption, FS_Subset DEF ThrottleAssumption, TypeOK
        <3>3. Cardinality(tracked') <= Cardinality(tracked)
              /\ Cardinality(tracked') \in Nat /\ Cardinality(tracked) \in Nat
            BY <3>1, <3>2, FS_Subset, FS_CardinalityType
        <3> QED BY <3>3, LimitsAreNat DEF CapKept
    <2>3. CASE Tick \/ UNCHANGED vars
        BY <2>3 DEF Tick, vars, CapKept, tracked
    <2> QED BY <2>1, <2>2, <2>3 DEF Next
<1> QED BY <1>1, <1>2, ThrottleTypeCorrect, PTL DEF Spec
-----------------------------------------------------------------------------
\* A charge leaves the bucket of another address alone, or evicts it; its own
\* holds the failures it held, or none, and the new ones.
LEMMA ChargeOfOthers ==
    ASSUME TypeOK, NEW i \in Ip, NEW failures \in {0, 1}, Charge(i, failures)
    PROVE  /\ \A j \in tracked' \ {i} : j \in PurgeExpired /\ buckets'[j] = buckets[j]
           /\ i \in tracked'
           /\ buckets'[i].count = failures + IF i \in PurgeExpired THEN buckets[i].count ELSE 0
           /\ buckets'[i].windowStart = IF i \in PurgeExpired THEN buckets[i].windowStart ELSE now
           /\ i \in PurgeExpired => PurgeExpired \subseteq tracked'
<1>1. PICK live \in SUBSET PurgeExpired, b \in Bucket : Charged(i, failures, live, b)
    BY ChargeIsOne
<1>2. tracked' = live \cup {i} /\ \A j \in tracked' \ {i} : buckets'[j] = buckets[j]
    BY <1>1 DEF Charged, tracked
<1>3. buckets'[i] = [b EXCEPT !.count = b.count + failures]
    BY <1>1 DEF Charged
<1>4. buckets'[i].count = b.count + failures /\ buckets'[i].windowStart = b.windowStart
    BY <1>3 DEF Bucket
<1>5. IF i \in PurgeExpired THEN live = PurgeExpired /\ b = buckets[i]
      ELSE b.count = 0 /\ b.windowStart = now
    BY <1>1 DEF Charged, Fresh
<1>6. b.count \in Nat
    BY DEF Bucket
<1> QED BY <1>2, <1>4, <1>5, <1>6

\* The limit is overrun by attempts only that were in flight when it was reached:
\* the throttle is asked before the password is verified and charged after it.
THEOREM OverrunIsBounded == Spec => []OverrunIsInFlight
<1> USE LimitsAreNat
<1>1. Init => OverrunIsInFlight
    BY DEF Init, OverrunIsInFlight, tracked
<1>2. TypeOK /\ OverrunIsInFlight /\ [Next]_vars => OverrunIsInFlight'
    <2> SUFFICES ASSUME TypeOK, OverrunIsInFlight, [Next]_vars PROVE OverrunIsInFlight'
        OBVIOUS
    <2>1. PurgeExpired \subseteq tracked
        BY DEF PurgeExpired
    <2>2. /\ \A j \in Ip : verifying[j] \in Nat /\ verifying[j] <= MaxVerifying
          /\ \A j \in tracked : buckets[j].count \in Nat
        BY DEF TypeOK, Bucket
    <2>3. ASSUME NEW i \in Ip, NEW failures \in {0, 1}, Charge(i, failures),
                 \A j \in Ip \ {i} : verifying'[j] = verifying[j],
                 buckets'[i].count + verifying'[i] < MaxAttempts + MaxVerifying
          PROVE  OverrunIsInFlight'
        <3>1. tracked' \subseteq Ip
            BY <2>3, ChargeType
        <3> QED BY <2>1, <2>3, <3>1, ChargeOfOthers DEF OverrunIsInFlight
    <2>4. ASSUME NEW i \in Ip, Refuse(i) PROVE OverrunIsInFlight'
        <3>1. buckets'[i].count = buckets[i].count /\ i \in tracked
            BY <2>1, <2>2, <2>4, ChargeOfOthers DEF Refuse, Throttled
        <3> QED BY <2>3, <2>4, <3>1 DEF Refuse, OverrunIsInFlight
    <2>5. ASSUME NEW i \in Ip, Verify(i) PROVE OverrunIsInFlight'
        <3>1. buckets'[i].count < MaxAttempts
            <4>1. CASE i \in PurgeExpired
                BY <2>1, <2>2, <2>5, <4>1, ChargeOfOthers DEF Verify, Throttled
            <4>2. CASE i \notin PurgeExpired
                BY <2>2, <2>5, <4>2, ChargeOfOthers DEF Verify
            <4> QED BY <4>1, <4>2
        <3>2. verifying'[i] = verifying[i] + 1 /\ verifying'[i] <= MaxVerifying
              /\ \A j \in Ip \ {i} : verifying'[j] = verifying[j]
            BY <2>2, <2>5 DEF Verify, TypeOK
        <3>3. buckets'[i].count \in Nat
            BY <2>5, ChargeType, ChargeOfOthers DEF Verify, Bucket
        <3> QED BY <2>2, <2>3, <2>5, <3>1, <3>2, <3>3 DEF Verify
    <2>6. ASSUME NEW i \in Ip, Rejected(i) PROVE OverrunIsInFlight'
        <3>1. verifying[i] > 0 /\ verifying'[i] = verifying[i] - 1
              /\ \A j \in Ip \ {i} : verifying'[j] = verifying[j]
            BY <2>6 DEF Rejected, Verified, TypeOK
        <3>2. buckets'[i].count + verifying'[i] < MaxAttempts + MaxVerifying
            <4>1. CASE i \in PurgeExpired
                BY <2>1, <2>2, <2>6, <3>1, <4>1, ChargeOfOthers DEF Rejected, OverrunIsInFlight
            <4>2. CASE i \notin PurgeExpired
                BY <2>2, <2>6, <3>1, <4>2, ChargeOfOthers DEF Rejected
            <4> QED BY <4>1, <4>2
        <3> QED BY <2>3, <2>6, <3>1, <3>2 DEF Rejected
    <2>7. ASSUME NEW i \in Ip, Accepted(i) PROVE OverrunIsInFlight'
        BY <2>7 DEF Accepted, Verified, OverrunIsInFlight, tracked, TypeOK
    <2>8. CASE Tick \/ UNCHANGED vars
        BY <2>8 DEF Tick, vars, OverrunIsInFlight, tracked
    <2> QED BY <2>4, <2>5, <2>6, <2>7, <2>8 DEF Next
<1> QED BY <1>1, <1>2, ThrottleTypeCorrect, PTL DEF Spec

\* What a bucket counts are the last failures of its address, and they are not
\* older than its window.
CountsItsOwn ==
    \A i \in tracked :
        LET n == Len(failedAt[i])
        IN  /\ buckets[i].windowStart <= now
            /\ n = MaxAttempts \/ n >= buckets[i].count
            /\ \A k \in 1 .. n : k > n - buckets[i].count =>
                    failedAt[i][k] >= buckets[i].windowStart

\* A charge keeps that, when the failure it counts is remembered.
LEMMA ChargeCounts ==
    ASSUME TypeOK, TypeOK', CountsItsOwn, now' = now, NEW i \in Ip,
           \/ Charge(i, 0) /\ failedAt' = failedAt
           \/ Rejected(i)
    PROVE  CountsItsOwn'
<1> USE LimitsAreNat
<1> DEFINE s == failedAt[i]
           t == failedAt'[i]
           n == Len(s)
           b == buckets[i]
<1>1. PICK failures \in {0, 1} : Charge(i, failures) /\ (IF failures = 0 THEN failedAt' = failedAt
                                                                          ELSE Rejected(i))
    BY DEF Rejected
<1>2. /\ \A j \in tracked' \ {i} : j \in tracked /\ buckets'[j] = buckets[j]
                                   /\ failedAt'[j] = failedAt[j]
      /\ buckets'[i].count = failures + IF i \in PurgeExpired THEN b.count ELSE 0
      /\ buckets'[i].windowStart = IF i \in PurgeExpired THEN b.windowStart ELSE now
    <2>1. \A j \in Ip \ {i} : failedAt'[j] = failedAt[j]
        BY <1>1, FailureIsAppended
    <2>2. tracked' \subseteq Ip /\ PurgeExpired \subseteq tracked
        BY DEF TypeOK, PurgeExpired
    <2> QED BY <1>1, <2>1, <2>2, ChargeOfOthers
<1>3. n \in Nat /\ n <= MaxAttempts /\ now \in Nat /\ (i \in PurgeExpired => b.count \in Nat /\ b.windowStart \in Nat)
      /\ \A k \in 1 .. n : s[k] \in Nat
    BY DEF TypeOK, PurgeExpired, Bucket
<1>4. i \in PurgeExpired =>
        /\ b.windowStart <= now /\ (n = MaxAttempts \/ n >= b.count)
        /\ \A k \in 1 .. n : k > n - b.count => s[k] >= b.windowStart
    BY DEF CountsItsOwn, PurgeExpired
<1>5. LET m == Len(t)
      IN  /\ buckets'[i].windowStart <= now
          /\ m = MaxAttempts \/ m >= buckets'[i].count
          /\ \A k \in 1 .. m : k > m - buckets'[i].count => t[k] >= buckets'[i].windowStart
    <2>1. CASE failures = 0
        BY <1>1, <1>2, <1>3, <1>4, <2>1
    <2>2. CASE failures = 1
        <3>1. PICK kept, gone \in Nat :
                /\ kept + gone = n /\ kept < MaxAttempts /\ (gone = 0 \/ kept = MaxAttempts - 1)
                /\ Len(t) = kept + 1 /\ t[kept + 1] = now
                /\ \A k \in 1 .. kept : t[k] = s[k + gone]
            <4>1. Rejected(i)
                BY <1>1, <2>2
            <4>2. \E kept, gone \in Nat :
                    /\ kept + gone = Len(failedAt[i])
                    /\ kept < MaxAttempts /\ (gone = 0 \/ kept = MaxAttempts - 1)
                    /\ Len(failedAt'[i]) = kept + 1 /\ failedAt'[i][kept + 1] = now
                    /\ \A k \in 1 .. kept : failedAt'[i][k] = failedAt[i][k + gone]
                BY <4>1, FailureIsAppended
            <4> QED BY <4>2
        <3> HIDE DEF n, s, t, b
        <3>2. CASE i \in PurgeExpired
            <4>1. buckets'[i].count = b.count + 1 /\ buckets'[i].windowStart = b.windowStart
                BY <1>2, <2>2, <3>2, <1>3
            <4>2. ASSUME NEW k \in 1 .. kept + 1, k > kept - b.count PROVE t[k] >= b.windowStart
                <5>1. CASE k = kept + 1
                    BY <1>3, <1>4, <3>1, <3>2, <5>1
                <5>2. CASE k # kept + 1
                    <6>1. k \in 1 .. kept /\ k + gone \in 1 .. n /\ k + gone > n - b.count
                        BY <1>3, <3>1, <3>2, <4>2, <5>2
                    <6> QED BY <1>4, <3>1, <3>2, <6>1
                <5> QED BY <5>1, <5>2
            <4>3. kept + 1 = MaxAttempts \/ kept + 1 >= b.count + 1
                BY <1>3, <1>4, <3>1, <3>2
            <4>4. b.windowStart <= now /\ kept + 1 - (b.count + 1) = kept - b.count
                BY <1>3, <1>4, <3>2
            <4>5. Len(t) - buckets'[i].count = kept - b.count
                BY <1>3, <3>1, <3>2, <4>1
            <4>6. \A k \in 1 .. Len(t) : k > Len(t) - buckets'[i].count =>
                    t[k] >= buckets'[i].windowStart
                BY <3>1, <4>1, <4>2, <4>5
            <4> QED BY <3>1, <4>1, <4>3, <4>4, <4>6
        <3>3. CASE i \notin PurgeExpired
            BY <1>2, <1>3, <2>2, <3>1, <3>3
        <3> QED BY <3>2, <3>3
    <2> QED BY <1>1, <2>1, <2>2
<1> QED BY <1>2, <1>5 DEF CountsItsOwn

\* Who is refused has failed as often as the limit says within the window, and
\* nobody else's failures count: not after a purge, an eviction, a login, or for
\* verifications that end late (isThrottled, recordFailedAttempt).
THEOREM RefusalsAreEarned == Spec => []RefusedForCause
<1> USE LimitsAreNat
<1>1. Init => CountsItsOwn
    BY DEF Init, CountsItsOwn, tracked
<1>2. TypeOK /\ TypeOK' /\ CountsItsOwn /\ [Next]_vars => CountsItsOwn'
    <2> SUFFICES ASSUME TypeOK, TypeOK', CountsItsOwn, [Next]_vars PROVE CountsItsOwn'
        OBVIOUS
    <2>1. ASSUME NEW i \in Ip, Refuse(i) \/ Verify(i) \/ Rejected(i) PROVE CountsItsOwn'
        BY <2>1, ChargeCounts DEF Refuse, Verify, Rejected
    <2>2. ASSUME NEW i \in Ip, Accepted(i) PROVE CountsItsOwn'
        BY <2>2 DEF Accepted, CountsItsOwn, tracked
    <2>3. CASE Tick
        BY <2>3 DEF Tick, CountsItsOwn, tracked, TypeOK, Bucket
    <2>4. CASE UNCHANGED vars
        BY <2>4 DEF vars, CountsItsOwn, tracked
    <2> QED BY <2>1, <2>2, <2>3, <2>4 DEF Next
<1>3. TypeOK /\ CountsItsOwn => RefusedForCause
    <2> SUFFICES ASSUME TypeOK, CountsItsOwn, NEW i \in Ip, Throttled(i)
                 PROVE  /\ Len(failedAt[i]) = MaxAttempts
                        /\ \A k \in DOMAIN failedAt[i] : now - failedAt[i][k] < Window
        BY DEF RefusedForCause
    <2>1. /\ i \in tracked /\ buckets[i].count >= MaxAttempts
          /\ ~(now - buckets[i].windowStart >= Window)
        BY DEF Throttled, PurgeExpired, IsExpired
    <2>2. /\ now \in Nat /\ buckets[i].windowStart \in Nat /\ buckets[i].count \in Nat
          /\ Len(failedAt[i]) \in Nat /\ Len(failedAt[i]) <= MaxAttempts
          /\ DOMAIN failedAt[i] = 1 .. Len(failedAt[i])
          /\ \A k \in 1 .. Len(failedAt[i]) : failedAt[i][k] \in Nat
        BY <2>1 DEF TypeOK, Bucket
    <2>3. /\ Len(failedAt[i]) = MaxAttempts \/ Len(failedAt[i]) >= buckets[i].count
          /\ \A k \in 1 .. Len(failedAt[i]) : k > Len(failedAt[i]) - buckets[i].count =>
                failedAt[i][k] >= buckets[i].windowStart
        BY <2>1 DEF CountsItsOwn
    <2>4. Len(failedAt[i]) = MaxAttempts
        BY <2>1, <2>2, <2>3
    <2>5. ASSUME NEW k \in 1 .. Len(failedAt[i]) PROVE now - failedAt[i][k] < Window
        <3>1. k > Len(failedAt[i]) - buckets[i].count
            BY <2>1, <2>2, <2>4
        <3> QED BY <2>1, <2>2, <2>3, <3>1
    <2> QED BY <2>2, <2>4, <2>5
<1> QED BY <1>1, <1>2, <1>3, ThrottleTypeCorrect, PTL DEF Spec

\* A refusal is lifted by the end of its window, by a login that was under way,
\* or by eviction as the oldest at the cap, and by nothing else.
THEOREM RefusalsLast == Spec => RefusalLasts
<1> DEFINE Lifted(i) ==
        \/ now' - buckets[i].windowStart >= Window
        \/ verifying'[i] < verifying[i] /\ tracked' = tracked \ {i}
        \/ /\ Cardinality(PurgeExpired) >= MaxTracked
           /\ \A j \in PurgeExpired : buckets[i].windowStart <= buckets[j].windowStart
<1>1. ASSUME TypeOK, [Next]_vars, NEW i \in Ip, Throttled(i), ~Throttled(i)'
      PROVE  Lifted(i)
    <2>1. i \in PurgeExpired /\ i \in tracked /\ buckets[i].count >= MaxAttempts
        BY <1>1 DEF Throttled, PurgeExpired
    <2>2. /\ MaxAttempts \in Nat /\ MaxTracked \in Nat /\ Window \in Nat /\ now \in Nat
          /\ Cardinality(PurgeExpired) \in Nat
          /\ \A j \in tracked : buckets[j].count \in Nat /\ buckets[j].windowStart \in Nat
        <3>1. IsFiniteSet(PurgeExpired)
            BY <1>1, ThrottleAssumption, FS_Subset DEF ThrottleAssumption, TypeOK, PurgeExpired
        <3> QED BY <1>1, <3>1, FS_CardinalityType, LimitsAreNat DEF TypeOK, Bucket
    <2>3. ASSUME NEW b, now' = now, i \in tracked', buckets'[i] = b,
                 b.windowStart = buckets[i].windowStart, b.count >= MaxAttempts
          PROVE  FALSE
        BY <1>1, <2>1, <2>3 DEF Throttled, PurgeExpired, IsExpired
    <2>4. ASSUME NEW j \in Ip, NEW failures \in {0, 1}, Charge(j, failures), now' = now
          PROVE  Lifted(i)
        <3>1. CASE i = j
            BY <1>1, <2>1, <2>2, <2>3, <2>4, <3>1, ChargeOfOthers
        <3>2. CASE i # j /\ i \in tracked'
            BY <1>1, <2>1, <2>3, <2>4, <3>2, ChargeOfOthers
        <3>3. CASE i # j /\ i \notin tracked'
            <4>1. PICK live \in SUBSET PurgeExpired, b \in Bucket : Charged(j, failures, live, b)
                BY <1>1, <2>4, ChargeIsOne
            <4>2. i \notin live
                BY <3>3, <4>1 DEF Charged, tracked
            <4>3. live \in EvictOldestIfNeeded(PurgeExpired) /\ live # PurgeExpired
                BY <2>1, <4>1, <4>2 DEF Charged
            <4> QED BY <2>1, <2>2, <4>2, <4>3 DEF EvictOldestIfNeeded
        <3> QED BY <3>1, <3>2, <3>3
    <2>5. ASSUME NEW j \in Ip, Accepted(j) PROVE Lifted(i)
        <3>1. verifying[j] > 0 /\ verifying' = [verifying EXCEPT ![j] = @ - 1] /\ now' = now
              /\ buckets' = [k \in tracked \ {j} |-> buckets[k]]
            BY <2>5 DEF Accepted, Verified
        <3>2. CASE i = j
            BY <1>1, <3>1, <3>2 DEF TypeOK, tracked
        <3>3. CASE i # j
            BY <1>1, <2>1, <2>3, <3>1, <3>3 DEF tracked
        <3> QED BY <3>2, <3>3
    <2>6. CASE Tick
        BY <1>1, <2>1, <2>2, <2>6 DEF Tick, Throttled, PurgeExpired, IsExpired, tracked
    <2>7. CASE UNCHANGED vars
        BY <1>1, <2>7 DEF vars, Throttled, PurgeExpired, IsExpired, tracked
    <2> QED BY <1>1, <2>4, <2>5, <2>6, <2>7 DEF Next, Refuse, Verify, Rejected
<1>2. TypeOK /\ [Next]_vars => [\A i \in Ip : Throttled(i) /\ ~Throttled(i)' => Lifted(i)]_vars
    BY <1>1
<1> QED BY ThrottleTypeCorrect, <1>2, PTL DEF Spec, RefusalLasts
=============================================================================
