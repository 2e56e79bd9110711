---------------------------- MODULE PushDispatch ----------------------------
(***************************************************************************)
(* The gateway's push dispatcher (gateway/src/pushDispatcher.ts): a timer  *)
(* starts passes; a pass lists the subscriptions, claims events, signals   *)
(* every subscription for every event, and completes or releases each.     *)
(* The manager service and the browsers' push services are external: they  *)
(* are modelled from what the dispatcher asks of them.  Every request is   *)
(* bounded by a timeout, so it ends; it may have had its effect when its   *)
(* answer is lost (managerApiClient.ts answers "unavailable", never        *)
(* throws).  One action is one await with what follows it.                 *)
(***************************************************************************)
EXTENDS Naturals, FiniteSets

CONSTANTS
    Pass,           \* calls of runOnce
    Event,
    Subscription,
    ClaimLimit,     \* limit of the claim
    NoEvent,
    NoSubscription

ASSUME PushAssumption ==
    NoEvent \notin Event /\ NoSubscription \notin Subscription /\ ClaimLimit \in Nat

VARIABLES
    timer,          \* the interval is set
    running,        \* running
    pc,             \* the await a pass is in
    subscriptions,  \* the pass's list of subscriptions
    todo,           \* the pass's events not settled yet, the current one included
    event,          \* the current event
    left,           \* the subscriptions not signalled for it yet
    gone,           \* the subscription whose endpoint answered that it is gone
    delivered,      \* delivered > 0
    state,          \* the service's events
    active,         \* the service's active subscriptions
    signalled,      \* history: the signals since the event's claim
    astray          \* history: claims whose answer, settling or process was lost

passVars    == <<pc, subscriptions, todo, event, left, gone, delivered>>
serviceVars == <<state, active>>
vars == <<timer, running, passVars, serviceVars, signalled, astray>>

TypeOK ==
    /\ timer \in BOOLEAN /\ running \in BOOLEAN
    /\ pc \in [Pass -> {"idle", "listing", "claiming", "signalling", "disabling"}]
    /\ subscriptions \in [Pass -> SUBSET Subscription]
    /\ todo \in [Pass -> SUBSET Event]
    /\ event \in [Pass -> Event \cup {NoEvent}]
    /\ left \in [Pass -> SUBSET Subscription]
    /\ gone \in [Pass -> Subscription \cup {NoSubscription}]
    /\ delivered \in [Pass -> BOOLEAN]
    /\ state \in [Event -> {"absent", "pending", "claimed", "completed"}]
    /\ active \subseteq Subscription
    /\ signalled \in [Event -> [Subscription -> 0 .. 2]]
    /\ astray \subseteq Event
    /\ \A p \in Pass :
        /\ pc[p] # "idle" => running
        /\ pc[p] \in {"signalling", "disabling"} => event[p] \in todo[p]
        /\ pc[p] = "disabling" => gone[p] \in subscriptions[p]

Init ==
    /\ timer = FALSE /\ running = FALSE
    /\ pc = [p \in Pass |-> "idle"]
    /\ subscriptions = [p \in Pass |-> {}]
    /\ todo = [p \in Pass |-> {}]
    /\ event = [p \in Pass |-> NoEvent]
    /\ left = [p \in Pass |-> {}]
    /\ gone = [p \in Pass |-> NoSubscription]
    /\ delivered = [p \in Pass |-> FALSE]
    /\ state = [e \in Event |-> "absent"]
    /\ active = {}
    /\ signalled = [e \in Event |-> [s \in Subscription |-> 0]]
    /\ astray = {}
-----------------------------------------------------------------------------
Goto(p, label) == pc' = [pc EXCEPT ![p] = label]

Leave(p) ==         \* mutant: an early return without the finally
    /\ Goto(p, "idle")
    /\ UNCHANGED <<running, subscriptions, todo, event, left, gone, delivered>>
\* The finally: the locals of the call are gone.
Finish(p) ==
    /\ running' = FALSE
    /\ Goto(p, "idle")
    /\ subscriptions' = [subscriptions EXCEPT ![p] = {}]
    /\ todo' = [todo EXCEPT ![p] = {}]
    /\ event' = [event EXCEPT ![p] = NoEvent]
    /\ left' = [left EXCEPT ![p] = {}]
    /\ gone' = [gone EXCEPT ![p] = NoSubscription]
    /\ delivered' = [delivered EXCEPT ![p] = FALSE]

KeepCount(p) == UNCHANGED delivered     \* mutant: the count runs on into the next event
ResetCount(p) == delivered' = [delivered EXCEPT ![p] = FALSE]

FirstEventOnly(p, events) ==            \* mutant: a pass returns after one event
    IF events = {} \/ event[p] # NoEvent
    THEN Finish(p)
    ELSE \E e \in events :
        /\ Goto(p, "signalling")
        /\ todo' = [todo EXCEPT ![p] = events]
        /\ event' = [event EXCEPT ![p] = e]
        /\ left' = [left EXCEPT ![p] = subscriptions[p]]
        /\ ResetCount(p)
        /\ UNCHANGED <<running, subscriptions, gone>>
\* The next turn of the loop over events, or the end of the pass.
NextEvent(p, events) ==
    IF events = {}
    THEN Finish(p)
    ELSE \E e \in events :
        /\ Goto(p, "signalling")
        /\ todo' = [todo EXCEPT ![p] = events]
        /\ event' = [event EXCEPT ![p] = e]
        /\ left' = [left EXCEPT ![p] = subscriptions[p]]
        /\ ResetCount(p)
        /\ UNCHANGED <<running, subscriptions, gone>>

MayRun == ~running

\* runOnce up to its first await: at start(), and at each tick of the timer.
Run(p) ==
    /\ MayRun
    /\ pc[p] = "idle"
    /\ running' = TRUE
    /\ Goto(p, "listing")
    /\ UNCHANGED <<subscriptions, todo, event, left, gone, delivered,
                   serviceVars, signalled, astray>>
Start(p) == ~timer /\ timer' = TRUE /\ Run(p)
Tick(p) == timer /\ Run(p) /\ UNCHANGED timer
Stop == timer /\ timer' = FALSE
        /\ UNCHANGED <<running, passVars, serviceVars, signalled, astray>>

\* GET /push/subscriptions
Listed(p) ==
    /\ pc[p] = "listing"
    /\ \/ /\ active # {}
          /\ Goto(p, "claiming")
          /\ subscriptions' = [subscriptions EXCEPT ![p] = active]
          /\ UNCHANGED <<running, todo, event, left, gone, delivered>>
       \/ Finish(p)     \* nobody subscribed, or no answer
    /\ UNCHANGED <<timer, serviceVars, signalled, astray>>

\* POST /events/push/claim: the service claims some pending events.
Claimed(p) ==
    /\ pc[p] = "claiming"
    /\ \E claim \in SUBSET {e \in Event : state[e] = "pending"} :
        /\ Cardinality(claim) <= ClaimLimit
        /\ state' = [e \in Event |-> IF e \in claim THEN "claimed" ELSE state[e]]
        /\ signalled' = [e \in Event |->
                IF e \in claim THEN [s \in Subscription |-> 0] ELSE signalled[e]]
        /\ \/ NextEvent(p, claim) /\ UNCHANGED astray
           \/ Finish(p) /\ astray' = astray \cup claim     \* its answer is lost
    /\ UNCHANGED <<timer, active>>

\* sendEmptyPushSignal: the push service accepts it, answers that the endpoint
\* is gone, or the request fails, also after it was accepted.
Signal(p, s) ==
    /\ pc[p] = "signalling" /\ s \in left[p]
    /\ left' = [left EXCEPT ![p] = @ \ {s}]
    /\ \/ /\ signalled' = [signalled EXCEPT ![event[p]][s] = @ + 1]
          /\ \/ delivered' = [delivered EXCEPT ![p] = TRUE]
             \/ UNCHANGED delivered
          /\ UNCHANGED <<pc, gone>>
       \/ UNCHANGED <<pc, gone, delivered, signalled>>
       \/ /\ Goto(p, "disabling")
          /\ gone' = [gone EXCEPT ![p] = s]
          /\ UNCHANGED <<delivered, signalled>>
    /\ UNCHANGED <<timer, running, subscriptions, todo, event, serviceVars, astray>>

DisabledAgain(p) ==                     \* mutant: the loop starts over after it
    /\ pc[p] = "disabling"
    /\ active' \in {active, active \ {gone[p]}}
    /\ Goto(p, "signalling")
    /\ left' = [left EXCEPT ![p] = subscriptions[p] \ {gone[p]}]
    /\ gone' = [gone EXCEPT ![p] = NoSubscription]
    /\ UNCHANGED <<timer, running, subscriptions, todo, event, delivered,
                   state, signalled, astray>>
\* POST /push/subscriptions/:id/disable
Disabled(p) ==
    /\ pc[p] = "disabling"
    /\ active' \in {active, active \ {gone[p]}}
    /\ Goto(p, "signalling")
    /\ gone' = [gone EXCEPT ![p] = NoSubscription]
    /\ UNCHANGED <<timer, running, subscriptions, todo, event, left, delivered,
                   state, signalled, astray>>

\* POST /events/:id/push-complete or push-release once every subscription
\* was signalled, and the next event.
Settled(p) ==
    /\ pc[p] = "signalling" /\ left[p] = {}
    /\ \/ /\ state' = [state EXCEPT ![event[p]] =
                        IF delivered[p] THEN "completed" ELSE "pending"]
          /\ UNCHANGED astray
       \/ astray' = astray \cup {event[p]} /\ UNCHANGED state
    /\ NextEvent(p, todo[p] \ {event[p]})
    /\ UNCHANGED <<timer, active, signalled>>

\* The gateway's process dies and comes up again.
Restart ==
    /\ timer' = FALSE /\ running' = FALSE
    /\ pc' = [p \in Pass |-> "idle"]
    /\ subscriptions' = [p \in Pass |-> {}]
    /\ todo' = [p \in Pass |-> {}]
    /\ event' = [p \in Pass |-> NoEvent]
    /\ left' = [p \in Pass |-> {}]
    /\ gone' = [p \in Pass |-> NoSubscription]
    /\ delivered' = [p \in Pass |-> FALSE]
    /\ astray' = {e \in Event : state[e] = "claimed"}
    /\ UNCHANGED <<serviceVars, signalled>>

\* The service and its other users.
Arrive(e) ==
    /\ state[e] = "absent"
    /\ state' = [state EXCEPT ![e] = "pending"]
    /\ UNCHANGED <<timer, running, passVars, active, signalled, astray>>
Subscribe(s) ==
    /\ s \notin active
    /\ active' = active \cup {s}
    /\ UNCHANGED <<timer, running, passVars, state, signalled, astray>>

Await(p) == Listed(p) \/ Claimed(p) \/ Disabled(p) \/ Settled(p)
Next ==
    \/ \E p \in Pass : Start(p) \/ Tick(p) \/ Await(p) \/ \E s \in Subscription : Signal(p, s)
    \/ Stop \/ Restart
    \/ \E e \in Event : Arrive(e)
    \/ \E s \in Subscription : Subscribe(s)
Spec == Init /\ [][Next]_vars

\* Every await ends: the requests are bounded by timeouts.
Fairness ==
    \A p \in Pass : WF_vars(Await(p) \/ \E s \in Subscription : Signal(p, s))
LiveSpec == Spec /\ Fairness
-----------------------------------------------------------------------------
\* A subscription is signalled at most once for one claim of an event: a pass
\* goes through its list once, whichever endpoints turn out to be gone, and no
\* two passes hold the same claim (the loop of runOnce).
OneSignalPerClaim == \A e \in Event, s \in Subscription : signalled[e][s] <= 1

\* No claim is forgotten: a claimed event is in the hands of a pass, or its
\* claim or settling was lost on the way or with the process.  An early
\* return, an endpoint that is gone or a signal that throws strands nothing.
ClaimsAreHeld ==
    \A e \in Event :
        state[e] = "claimed" => e \in astray \/ \E p \in Pass : e \in todo[p]

\* An event is completed only when it was signalled to somebody since it was
\* claimed, not on the strength of another event of the same pass (delivered).
CompletedWasSignalled ==
    \A e \in Event : state[e] = "completed" => \E s \in Subscription : signalled[e][s] > 0

\* What was completed was signalled, and no claim is signalled twice.
SignalsFitClaims == OneSignalPerClaim /\ CompletedWasSignalled

\* A pass ends, so the next tick finds the dispatcher free (finally).
PassEnds == running ~> ~running
=============================================================================
