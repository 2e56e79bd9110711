------------------------ MODULE PushDispatch_proofs ------------------------
(***************************************************************************)
(* Theorems about the push dispatcher, for any number of calls of runOnce, *)
(* of events and of subscriptions.                                         *)
(***************************************************************************)
EXTENDS PushDispatch, TLAPS

Working(p) == pc[p] \in {"signalling", "disabling"}

\* The types of a pass's variables, and how they fit.
PassTypes ==
    /\ running \in BOOLEAN
    /\ pc \in [Pass -> {"idle", "listing", "claiming", "signalling", "disabling"}]
    /\ subscriptions \in [Pass -> SUBSET Subscription]
    /\ todo \in [Pass -> SUBSET Event]
    /\ event \in [Pass -> Event \cup {NoEvent}]
    /\ left \in [Pass -> SUBSET Subscription]
    /\ gone \in [Pass -> Subscription \cup {NoSubscription}]
    /\ delivered \in [Pass -> BOOLEAN]
PassFits ==
    \A p \in Pass :
        /\ pc[p] # "idle" => running
        /\ pc[p] \in {"signalling", "disabling"} => event[p] \in todo[p]
        /\ pc[p] = "disabling" => gone[p] \in subscriptions[p]

\* The types of the service's variables and of the histories.
ServiceTypes ==
    /\ timer \in BOOLEAN
    /\ state \in [Event -> {"absent", "pending", "claimed", "completed"}]
    /\ active \subseteq Subscription
    /\ signalled \in [Event -> [Subscription -> 0 .. 2]]
    /\ astray \subseteq Event

\* running lets one pass in, and only a pass that signals has events.
Alone ==
    /\ \A p, q \in Pass : pc[p] # "idle" /\ pc[q] # "idle" => p = q
    /\ \A p \in Pass : /\ ~Working(p) => todo[p] = {} /\ left[p] = {}
                       /\ left[p] \subseteq subscriptions[p]

\* What a pass has still to signal was not signalled since the claim.
Untouched ==
    \A p \in Pass : Working(p) =>
        /\ \A s \in left[p] : signalled[event[p]][s] = 0
        /\ \A e \in todo[p] \ {event[p]}, s \in Subscription : signalled[e][s] = 0

\* What a pass counted as delivered was signalled, for the event at hand.
Counted ==
    \A p \in Pass : Working(p) /\ delivered[p] =>
        \E s \in Subscription : signalled[event[p]][s] > 0

-----------------------------------------------------------------------------
USE PushAssumption DEF PushAssumption

\* The end of a pass and the next turn of its loop keep the types.
LEMMA FinishTypes ==
    ASSUME PassTypes, PassFits, Alone, NEW p \in Pass, pc[p] # "idle", Finish(p)
    PROVE  PassTypes' /\ PassFits' /\ Alone'
<1>1. PassTypes'
    BY DEF PassTypes, Finish, Goto
<1>2. PassFits'
    BY DEF PassTypes, PassFits, Alone, Finish, Goto
<1>3. Alone'
    BY DEF PassTypes, Alone, Working, Finish, Goto
<1> QED BY <1>1, <1>2, <1>3

LEMMA NextEventTypes ==
    ASSUME PassTypes, PassFits, Alone, NEW p \in Pass, pc[p] # "idle",
           NEW events \in SUBSET Event, NextEvent(p, events)
    PROVE  PassTypes' /\ PassFits' /\ Alone'
<1>1. CASE events = {}
    BY <1>1, FinishTypes DEF NextEvent
<1>2. CASE events # {}
    <2>1. PICK e \in events :
            /\ pc' = [pc EXCEPT ![p] = "signalling"]
            /\ todo' = [todo EXCEPT ![p] = events]
            /\ event' = [event EXCEPT ![p] = e]
            /\ left' = [left EXCEPT ![p] = subscriptions[p]]
            /\ delivered' = [delivered EXCEPT ![p] = FALSE]
            /\ UNCHANGED <<running, subscriptions, gone>>
        BY <1>2 DEF NextEvent, Goto, ResetCount
    <2>2. PassTypes'
        BY <2>1 DEF PassTypes
    <2>3. PassFits'
        BY <2>1 DEF PassTypes, PassFits
    <2>4. Alone'
        BY <2>1 DEF PassTypes, Alone, Working
    <2> QED BY <2>2, <2>3, <2>4
<1> QED BY <1>1, <1>2

LEMMA PassStep ==
    ASSUME PassTypes, PassFits, Alone, active \subseteq Subscription,
           [Next]_vars
    PROVE  PassTypes' /\ PassFits' /\ Alone'
<1>1. ASSUME NEW p \in Pass, Run(p) PROVE PassTypes' /\ PassFits' /\ Alone'
    <2>1. PassTypes'
        BY <1>1 DEF PassTypes, Run, Goto
    <2>2. PassFits'
        BY <1>1 DEF PassTypes, PassFits, Run, Goto, MayRun
    <2>3. Alone'
        BY <1>1 DEF PassTypes, PassFits, Alone, Working, Run, Goto, MayRun
    <2> QED BY <2>1, <2>2, <2>3
<1>2. ASSUME NEW p \in Pass, Listed(p) PROVE PassTypes' /\ PassFits' /\ Alone'
    <2>1. CASE Finish(p)
        BY <1>2, <2>1, FinishTypes DEF Listed
    <2>2. CASE ~Finish(p)
        <3>1. /\ pc[p] = "listing" /\ pc' = [pc EXCEPT ![p] = "claiming"]
              /\ subscriptions' = [subscriptions EXCEPT ![p] = active]
              /\ UNCHANGED <<running, todo, event, left, gone, delivered>>
            BY <1>2, <2>2 DEF Listed, Goto
        <3>2. PassTypes'
            BY <3>1 DEF PassTypes
        <3>3. PassFits'
            BY <3>1 DEF PassTypes, PassFits
        <3>4. Alone'
            BY <3>1 DEF PassTypes, Alone, Working
        <3> QED BY <3>2, <3>3, <3>4
    <2> QED BY <2>1, <2>2
<1>3. ASSUME NEW p \in Pass, Claimed(p) PROVE PassTypes' /\ PassFits' /\ Alone'
    BY <1>3, FinishTypes, NextEventTypes DEF Claimed
<1>4. ASSUME NEW p \in Pass, NEW s \in Subscription, Signal(p, s)
      PROVE  PassTypes' /\ PassFits' /\ Alone'
    <2>1. /\ pc[p] = "signalling" /\ s \in left[p]
          /\ left' = [left EXCEPT ![p] = @ \ {s}]
          /\ delivered' \in {delivered, [delivered EXCEPT ![p] = TRUE]}
          /\ \/ UNCHANGED <<pc, gone>>
             \/ pc' = [pc EXCEPT ![p] = "disabling"] /\ gone' = [gone EXCEPT ![p] = s]
          /\ UNCHANGED <<running, subscriptions, todo, event>>
        BY <1>4 DEF Signal, Goto
    <2>5. delivered' \in [Pass -> BOOLEAN]
        BY <2>1 DEF PassTypes
    <2>6. left' \in [Pass -> SUBSET Subscription]
        BY <2>1 DEF PassTypes
    <2>7. /\ pc' \in [Pass -> {"idle", "listing", "claiming", "signalling", "disabling"}]
          /\ gone' \in [Pass -> Subscription \cup {NoSubscription}]
        BY <2>1 DEF PassTypes
    <2>2. PassTypes'
        BY <2>1, <2>5, <2>6, <2>7, Zenon DEF PassTypes
    <2>3. PassFits'
        BY <2>1 DEF PassTypes, PassFits, Alone
    <2>4. Alone'
        BY <2>1 DEF PassTypes, Alone, Working
    <2> QED BY <2>2, <2>3, <2>4
<1>5. ASSUME NEW p \in Pass, Disabled(p) PROVE PassTypes' /\ PassFits' /\ Alone'
    <2>1. /\ pc[p] = "disabling" /\ pc' = [pc EXCEPT ![p] = "signalling"]
          /\ gone' = [gone EXCEPT ![p] = NoSubscription]
          /\ UNCHANGED <<running, subscriptions, todo, event, left, delivered>>
        BY <1>5 DEF Disabled, Goto
    <2>2. PassTypes' /\ PassFits'
        BY <2>1 DEF PassTypes, PassFits
    <2>3. Alone'
        BY <2>1 DEF PassTypes, Alone, Working
    <2> QED BY <2>2, <2>3
<1>6. ASSUME NEW p \in Pass, Settled(p) PROVE PassTypes' /\ PassFits' /\ Alone'
    <2>1. todo[p] \ {event[p]} \in SUBSET Event
        BY DEF PassTypes
    <2> QED BY <1>6, <2>1, NextEventTypes DEF Settled
<1>7. CASE Restart
    <2>1. PassTypes'
        BY <1>7 DEF PassTypes, Restart
    <2> QED BY <1>7, <2>1 DEF PassFits, Alone, Working, Restart
<1>8. CASE UNCHANGED <<running, passVars>>
    BY <1>8 DEF PassTypes, PassFits, Alone, Working, passVars
<1> QED BY <1>1, <1>2, <1>3, <1>4, <1>5, <1>6, <1>7, <1>8
        DEF Next, Start, Tick, Await, Stop, Arrive, Subscribe, vars

-----------------------------------------------------------------------------
\* The next turn of the loop starts afresh, on events that were not signalled.
LEMMA NextEventFresh ==
    ASSUME PassTypes, Alone, NEW p \in Pass, pc[p] # "idle",
           NEW events \in SUBSET Event, NextEvent(p, events),
           \A e \in events, s \in Subscription : signalled'[e][s] = 0
    PROVE  Untouched' /\ Counted' /\ todo' = [todo EXCEPT ![p] = events]
<1>1. CASE events = {}
    <2>1. /\ pc' = [pc EXCEPT ![p] = "idle"] /\ todo' = [todo EXCEPT ![p] = {}]
        BY <1>1 DEF NextEvent, Finish, Goto
    <2>2. \A q \in Pass : ~Working(q)'
        BY <2>1 DEF PassTypes, Alone, Working
    <2> QED BY <1>1, <2>1, <2>2 DEF Untouched, Counted
<1>2. CASE events # {}
    <2>1. PICK e \in events :
            /\ pc' = [pc EXCEPT ![p] = "signalling"]
            /\ todo' = [todo EXCEPT ![p] = events]
            /\ event' = [event EXCEPT ![p] = e]
            /\ left' = [left EXCEPT ![p] = subscriptions[p]]
            /\ delivered' = [delivered EXCEPT ![p] = FALSE]
        BY <1>2 DEF NextEvent, Goto, ResetCount
    <2>2. \A q \in Pass : Working(q)' => q = p
        BY <2>1 DEF PassTypes, Alone, Working
    <2>3. Untouched'
        BY <2>1, <2>2 DEF PassTypes, Untouched
    <2>4. Counted'
        BY <2>1, <2>2 DEF PassTypes, Counted
    <2> QED BY <2>1, <2>3, <2>4
<1> QED BY <1>1, <1>2

\* A step that touches neither the passes nor the signals.
LEMMA QuietStep ==
    ASSUME Untouched, Counted, UNCHANGED <<pc, todo, event, left, delivered, signalled>>
    PROVE  Untouched' /\ Counted'
BY DEF Untouched, Counted, Working

\* A subscription is signalled once, and counted as delivered after that only.
LEMMA SignalStep ==
    ASSUME PassTypes, PassFits, Alone, ServiceTypes, Untouched, Counted, OneSignalPerClaim,
           NEW p \in Pass, NEW s \in Subscription, Signal(p, s)
    PROVE  /\ Untouched' /\ Counted' /\ OneSignalPerClaim'
           /\ signalled' \in [Event -> [Subscription -> 0 .. 2]]
           /\ \A f \in Event, t \in Subscription : signalled'[f][t] >= signalled[f][t]
<1> DEFINE e == event[p]
<1>1. /\ pc[p] = "signalling" /\ s \in left[p]
      /\ left' = [left EXCEPT ![p] = @ \ {s}]
      /\ \/ UNCHANGED pc
         \/ pc' = [pc EXCEPT ![p] = "disabling"]
      /\ UNCHANGED <<todo, event>>
    BY DEF Signal, Goto
<1>2. /\ e \in todo[p] /\ e \in Event /\ signalled[e][s] = 0
      /\ \A q \in Pass : Working(q)' => q = p
    BY <1>1 DEF PassTypes, PassFits, Alone, Untouched, Working
<1>3. CASE signalled' = [signalled EXCEPT ![e][s] = @ + 1]
    <2>1. \A f \in Event, t \in Subscription :
            signalled'[f][t] = IF f = e /\ t = s THEN 1 ELSE signalled[f][t]
        BY <1>2, <1>3 DEF ServiceTypes
    <2>2. signalled' \in [Event -> [Subscription -> 0 .. 2]]
        BY <1>2, <1>3 DEF ServiceTypes
    <2>3. Untouched'
        BY <1>1, <1>2, <2>1 DEF Untouched, Working, PassTypes
    <2>4. Counted'
        BY <1>1, <1>2, <2>1 DEF Counted, Working, PassTypes
    <2>5. OneSignalPerClaim'
        BY <2>1 DEF OneSignalPerClaim
    <2>6. \A f \in Event, t \in Subscription : signalled'[f][t] >= signalled[f][t]
        BY <1>2, <2>1 DEF ServiceTypes
    <2> QED BY <2>2, <2>3, <2>4, <2>5, <2>6
<1>4. CASE UNCHANGED <<signalled, delivered>>
    <2>1. Untouched'
        BY <1>1, <1>2, <1>4 DEF Untouched, Working, PassTypes
    <2>2. Counted'
        BY <1>1, <1>2, <1>4 DEF Counted, Working, PassTypes
    <2> QED BY <2>1, <2>2, <1>4 DEF OneSignalPerClaim, ServiceTypes
<1> QED BY <1>3, <1>4 DEF Signal

\* The rest of the invariant: what a step does to the service's events.
LEMMA HistoryStep ==
    ASSUME PassTypes, PassFits, Alone, ServiceTypes, Untouched, Counted,
           OneSignalPerClaim, ClaimsAreHeld, CompletedWasSignalled, [Next]_vars
    PROVE  /\ ServiceTypes' /\ Untouched' /\ Counted'
           /\ OneSignalPerClaim' /\ ClaimsAreHeld' /\ CompletedWasSignalled'
<1>1. ASSUME NEW p \in Pass, NEW s \in Subscription, Signal(p, s)
      PROVE  /\ ServiceTypes' /\ Untouched' /\ Counted'
             /\ OneSignalPerClaim' /\ ClaimsAreHeld' /\ CompletedWasSignalled'
    <2>1. UNCHANGED <<timer, state, active, astray, todo>>
        BY <1>1 DEF Signal, serviceVars
    <2>2. ServiceTypes'
        BY <1>1, <2>1, SignalStep DEF ServiceTypes
    <2>3. ClaimsAreHeld'
        BY <2>1 DEF ClaimsAreHeld
    <2>4. CompletedWasSignalled'
        <3>1. \A f \in Event, t \in Subscription :
                signalled'[f][t] >= signalled[f][t] /\ signalled[f][t] \in Nat /\ signalled'[f][t] \in Nat
            BY <1>1, <2>2, SignalStep DEF ServiceTypes
        <3> QED BY <2>1, <3>1 DEF CompletedWasSignalled
    <2> QED BY <1>1, <2>2, <2>3, <2>4, SignalStep
<1>2. ASSUME NEW p \in Pass, Claimed(p)
      PROVE  /\ ServiceTypes' /\ Untouched' /\ Counted'
             /\ OneSignalPerClaim' /\ ClaimsAreHeld' /\ CompletedWasSignalled'
    <2>1. PICK claim \in SUBSET {e \in Event : state[e] = "pending"} :
            /\ state' = [e \in Event |-> IF e \in claim THEN "claimed" ELSE state[e]]
            /\ signalled' = [e \in Event |->
                    IF e \in claim THEN [s \in Subscription |-> 0] ELSE signalled[e]]
            /\ \/ NextEvent(p, claim) /\ UNCHANGED astray
               \/ Finish(p) /\ astray' = astray \cup claim
            /\ UNCHANGED <<timer, active>>
        BY <1>2 DEF Claimed
    <2>2. pc[p] = "claiming" /\ \A q \in Pass : todo[q] = {}
        BY <1>2 DEF Claimed, Alone, Working
    <2>3. ServiceTypes'
        <3>1. /\ state' \in [Event -> {"absent", "pending", "claimed", "completed"}]
              /\ astray' \subseteq Event /\ active' \subseteq Subscription
            BY <2>1 DEF ServiceTypes
        <3>2. signalled' \in [Event -> [Subscription -> 0 .. 2]]
            BY <2>1 DEF ServiceTypes
        <3>3. timer' \in BOOLEAN
            BY <2>1 DEF ServiceTypes
        <3> QED BY <3>1, <3>2, <3>3 DEF ServiceTypes
    <2>4. OneSignalPerClaim' /\ CompletedWasSignalled'
        BY <2>1 DEF OneSignalPerClaim, CompletedWasSignalled, ServiceTypes
    <2>5. CASE NextEvent(p, claim) /\ UNCHANGED astray
        <3>1. Untouched' /\ Counted' /\ todo' = [todo EXCEPT ![p] = claim]
            BY <2>1, <2>2, <2>5, NextEventFresh
        <3>2. ClaimsAreHeld'
            BY <2>1, <2>2, <2>5, <3>1 DEF ClaimsAreHeld, PassTypes, ServiceTypes
        <3> QED BY <2>3, <2>4, <3>1, <3>2
    <2>6. CASE Finish(p) /\ astray' = astray \cup claim
        <3>1. \A q \in Pass : ~Working(q)'
            BY <2>2, <2>6 DEF Finish, Goto, PassTypes, Alone, Working
        <3>2. Untouched' /\ Counted'
            BY <3>1 DEF Untouched, Counted
        <3>3. ClaimsAreHeld'
            BY <2>1, <2>2, <2>6 DEF ClaimsAreHeld, ServiceTypes
        <3> QED BY <2>3, <2>4, <3>2, <3>3
    <2> QED BY <2>1, <2>5, <2>6
<1>3. ASSUME NEW p \in Pass, Settled(p)
      PROVE  /\ ServiceTypes' /\ Untouched' /\ Counted'
             /\ OneSignalPerClaim' /\ ClaimsAreHeld' /\ CompletedWasSignalled'
    <2> DEFINE e == event[p] rest == todo[p] \ {event[p]}
    <2>1. /\ pc[p] = "signalling" /\ e \in Event /\ Working(p) /\ rest \in SUBSET Event
        BY <1>3 DEF Settled, PassTypes, PassFits, Working
    <2>2. /\ \/ state' = [state EXCEPT ![e] = IF delivered[p] THEN "completed" ELSE "pending"]
                /\ UNCHANGED astray
             \/ astray' = astray \cup {e} /\ UNCHANGED state
          /\ NextEvent(p, rest)
          /\ UNCHANGED <<timer, active, signalled>>
        BY <1>3 DEF Settled
    <2>3. Untouched' /\ Counted' /\ todo' = [todo EXCEPT ![p] = rest]
        <3>1. \A f \in rest, s \in Subscription : signalled'[f][s] = 0
            BY <2>1, <2>2 DEF Untouched
        <3> QED BY <2>1, <2>2, <3>1, NextEventFresh
    <2>4. ServiceTypes'
        <3>1. /\ state' \in [Event -> {"absent", "pending", "claimed", "completed"}]
              /\ astray' \subseteq Event /\ active' \subseteq Subscription
            BY <2>1, <2>2 DEF ServiceTypes
        <3> QED BY <2>2, <3>1 DEF ServiceTypes
    <2>5. OneSignalPerClaim'
        BY <2>2 DEF OneSignalPerClaim
    <2>6. ClaimsAreHeld'
        BY <2>1, <2>2, <2>3 DEF ClaimsAreHeld, PassTypes, ServiceTypes
    <2>7. CompletedWasSignalled'
        BY <2>1, <2>2 DEF CompletedWasSignalled, Counted, ServiceTypes
    <2> QED BY <2>3, <2>4, <2>5, <2>6, <2>7
<1>4. CASE Restart
    <2>1. \A q \in Pass : ~Working(q)'
        BY <1>4 DEF Restart, Working
    <2>2. Untouched' /\ Counted'
        BY <2>1 DEF Untouched, Counted
    <2>3. ServiceTypes'
        BY <1>4 DEF ServiceTypes, Restart, serviceVars
    <2> QED BY <1>4, <2>2, <2>3 DEF Restart, serviceVars, OneSignalPerClaim, ClaimsAreHeld,
            CompletedWasSignalled
<1>5. ASSUME NEW p \in Pass, Run(p), timer' \in BOOLEAN
      PROVE  /\ ServiceTypes' /\ Untouched' /\ Counted'
             /\ OneSignalPerClaim' /\ ClaimsAreHeld' /\ CompletedWasSignalled'
    <2>1. \A q \in Pass : Working(q)' => Working(q)
        BY <1>5 DEF Run, Goto, Working, PassTypes
    <2>2. Untouched' /\ Counted'
        BY <1>5, <2>1 DEF Run, Untouched, Counted
    <2> QED BY <1>5, <2>2 DEF Run, serviceVars, ServiceTypes, OneSignalPerClaim, ClaimsAreHeld,
            CompletedWasSignalled
<1>6. ASSUME NEW p \in Pass, Listed(p)
      PROVE  /\ ServiceTypes' /\ Untouched' /\ Counted'
             /\ OneSignalPerClaim' /\ ClaimsAreHeld' /\ CompletedWasSignalled'
    <2>1. \A q \in Pass : ~Working(q)' /\ todo[q] = {}
        BY <1>6 DEF Listed, Finish, Goto, Working, PassTypes, Alone
    <2>2. Untouched' /\ Counted'
        BY <2>1 DEF Untouched, Counted
    <2> QED BY <1>6, <2>1, <2>2 DEF Listed, serviceVars, ServiceTypes, OneSignalPerClaim,
            ClaimsAreHeld, CompletedWasSignalled
<1>7. ASSUME NEW p \in Pass, Disabled(p)
      PROVE  /\ ServiceTypes' /\ Untouched' /\ Counted'
             /\ OneSignalPerClaim' /\ ClaimsAreHeld' /\ CompletedWasSignalled'
    <2>1. \A q \in Pass : Working(q)' => Working(q)
        BY <1>7 DEF Disabled, Goto, Working, PassTypes
    <2>2. Untouched' /\ Counted'
        BY <1>7, <2>1 DEF Disabled, Untouched, Counted
    <2> QED BY <1>7, <2>2 DEF Disabled, ServiceTypes, OneSignalPerClaim, ClaimsAreHeld,
            CompletedWasSignalled
<1>8. CASE Stop \/ (\E e \in Event : Arrive(e)) \/ (\E s \in Subscription : Subscribe(s))
           \/ UNCHANGED vars
    <2>1. Untouched' /\ Counted'
        BY <1>8, QuietStep DEF Stop, Arrive, Subscribe, passVars, vars
    <2>2. ServiceTypes'
        BY <1>8 DEF Stop, Arrive, Subscribe, serviceVars, vars, ServiceTypes
    <2> QED BY <1>8, <2>1, <2>2 DEF Stop, Arrive, Subscribe, passVars, serviceVars, vars,
            OneSignalPerClaim, ClaimsAreHeld, CompletedWasSignalled, ServiceTypes
<1> QED BY <1>1, <1>2, <1>3, <1>4, <1>5, <1>6, <1>7, <1>8 DEF Next, Start, Tick, Await, ServiceTypes
-----------------------------------------------------------------------------
DispatchInv ==
    /\ PassTypes /\ PassFits /\ ServiceTypes
    /\ Alone /\ Untouched /\ Counted
    /\ OneSignalPerClaim /\ ClaimsAreHeld /\ CompletedWasSignalled

LEMMA DispatchInvariant == Spec => []DispatchInv
<1>1. Init => DispatchInv
    <2> SUFFICES ASSUME Init PROVE DispatchInv
        OBVIOUS
    <2>3. signalled \in [Event -> [Subscription -> 0 .. 2]]
        BY DEF Init
    <2>4. running \in BOOLEAN /\ timer \in BOOLEAN /\ delivered \in [Pass -> BOOLEAN]
        BY DEF Init
    <2>1. PassTypes /\ PassFits /\ ServiceTypes
        BY <2>3, <2>4 DEF Init, PassTypes, PassFits, ServiceTypes
    <2>2. Alone /\ Untouched /\ Counted
        BY DEF Init, Alone, Untouched, Counted, Working
    <2> QED BY <2>1, <2>2 DEF Init, DispatchInv, OneSignalPerClaim, ClaimsAreHeld,
            CompletedWasSignalled
<1>2. DispatchInv /\ [Next]_vars => DispatchInv'
    <2> SUFFICES ASSUME DispatchInv, [Next]_vars PROVE DispatchInv'
        OBVIOUS
    <2>1. active \subseteq Subscription
        BY DEF DispatchInv, ServiceTypes
    <2> QED BY <2>1, PassStep, HistoryStep DEF DispatchInv
<1> QED BY <1>1, <1>2, PTL DEF Spec

\* Every reachable state of the dispatcher is well typed; a pass in an await
\* holds the running flag.
THEOREM DispatchTypeCorrect == Spec => []TypeOK
<1>1. DispatchInv => TypeOK
    BY DEF DispatchInv, PassTypes, PassFits, ServiceTypes, TypeOK
<1> QED BY DispatchInvariant, <1>1, PTL

\* No event stays claimed without a pass that has it, whatever fails in the
\* loop of runOnce, except for a lost answer and the death of the process.
THEOREM NoClaimIsForgotten == Spec => []ClaimsAreHeld
<1>1. DispatchInv => ClaimsAreHeld
    BY DEF DispatchInv
<1> QED BY DispatchInvariant, <1>1, PTL

\* A claim signals every subscription once at most, and only what was signalled
\* is completed.
THEOREM SignalsAreDue == Spec => []SignalsFitClaims
<1>1. DispatchInv => SignalsFitClaims
    BY DEF DispatchInv, SignalsFitClaims
<1> QED BY DispatchInvariant, <1>1, PTL
=============================================================================
