------------------------------ MODULE LoginGate ------------------------------
(***************************************************************************)
(* The gateway build's login gate (gatewayAuthStore.ts, session.ts,        *)
(* GatewayGate.tsx) and the supervisor that keeps the managed agent's      *)
(* connection up (managedAgent.ts), in one browser tab.                    *)
(*                                                                         *)
(* The managed connection is seen through the status of its slot, as the   *)
(* supervisor's subscription sees it; what the slot's client does is       *)
(* LiveConnections.  The cookie is seen as valid or not: the gateway's     *)
(* session routes set, verify and clear it.  One action is one event with  *)
(* its whole handler, up to the next await.                                *)
(***************************************************************************)
EXTENDS Naturals

CONSTANTS
    Sup,        \* supervisor objects
    NoSup,      \* no supervisor runs
    Check,      \* places for rechecks in flight
    LastDelay   \* RECONNECT_DELAYS_MS.length - 1

ASSUME GateAssumption == NoSup \notin Sup /\ LastDelay \in Nat

VARIABLES
    phase,      \* the gate's phase
    request,    \* the gate's request in flight
    session,    \* the cookie is valid
    status,     \* the managed slot's status; "none" without a slot
    admitted,   \* the gateway accepted the upgrade of the present dial
    sup,        \* supervisor
    last,       \* lastStatus of the running supervisor
    attempt,    \* attempt of the running supervisor, up to the last delay
    timers,     \* the supervisors whose retry timer is armed
    owner,      \* for each recheck in flight, the supervisor that asked
    asked       \* its answer, once it has one

gateVars  == <<phase, request, session>>
slotVars  == <<status, admitted>>
checkVars == <<owner, asked>>
supVars   == <<sup, last, attempt, timers>>
vars == <<gateVars, slotVars, supVars, checkVars>>

Phase  == {"checking", "login", "authenticated"}
Status == {"none", "disconnected", "connecting", "connected", "error"}
Answer == {"authenticated", "unauthenticated", "unavailable"}

TypeOK ==
    /\ phase \in Phase
    /\ request \in {"none", "check", "login", "logout"}
    /\ session \in BOOLEAN
    /\ status \in Status
    /\ admitted \in BOOLEAN
    /\ sup \in Sup \cup {NoSup}
    /\ last \in Status
    /\ attempt \in 0 .. LastDelay
    /\ timers \subseteq Sup
    /\ owner \in [Check -> Sup \cup {NoSup}]
    /\ asked \in [Check -> {"none"} \cup Answer]

\* The page was loaded: GatewayGate mounts and asks for the session at once.
Init ==
    /\ session \in BOOLEAN
    /\ phase = "checking"
    /\ request = "check"
    /\ status = "none"
    /\ admitted = FALSE
    /\ sup = NoSup
    /\ last = "none"
    /\ attempt = 0
    /\ timers = {}
    /\ owner = [c \in Check |-> NoSup]
    /\ asked = [c \in Check |-> "none"]
-----------------------------------------------------------------------------
running == sup # NoSup
busy == request \in {"login", "logout"}
RecheckOf(s) == \E c \in Check : owner[c] = s

HandleNothing(s) == UNCHANGED checkVars     \* mutant: a failure is not followed up
\* A recheck is sent for supervisor s: handleFailure up to its await.
HandleFailure(s) ==
    \E c \in Check :
        /\ owner[c] = NoSup
        /\ owner' = [owner EXCEPT ![c] = s]
        /\ UNCHANGED asked

ClearTimer(s) == timers' = timers \ {s}

\* The subscription of the running supervisor sees the slot's new status.
Observe(new) ==
    /\ status' = new
    /\ IF running THEN last' = new ELSE UNCHANGED last
    /\ IF running /\ new = "connected"
       THEN attempt' = 0 /\ ClearTimer(sup)
       ELSE UNCHANGED <<attempt, timers>>
    /\ IF running /\ new = "error" /\ last # "error"
       THEN HandleFailure(sup)
       ELSE UNCHANGED checkVars

\* connectLiveConnection on the managed slot: a new dial replaces the old one.
Dial == Observe("connecting") /\ admitted' = FALSE

\* closeAllLiveConnections, as the managed slot sees it.
CloseAll == status' = "none" /\ admitted' = FALSE

StopOnly ==     \* mutant: the retry timer outlives its supervisor
    sup' = NoSup /\ UNCHANGED <<last, attempt, timers>>
\* stopManagedAgentSupervisor
Stop ==
    /\ sup' = NoSup
    /\ ClearTimer(sup)
    /\ UNCHANGED <<last, attempt>>

ScheduleNothing(s) == UNCHANGED <<attempt, timers>>     \* mutant: no retry
\* scheduleReconnect
Schedule(s) ==
    IF s \in timers
    THEN UNCHANGED <<attempt, timers>>
    ELSE /\ attempt' = IF attempt < LastDelay THEN attempt + 1 ELSE attempt
         /\ timers' = timers \cup {s}

\* enterAuthenticated: startManagedAgentSupervisor makes a new supervisor and
\* dials.  An old slot's status is seen first, for the dial selects the slot
\* before it changes its status.
EnterAuthenticated ==
    \E s \in Sup :
        /\ s # sup /\ ~RecheckOf(s)
        /\ phase' = "authenticated" /\ request' = "none"
        /\ sup' = s
        /\ timers' = timers \ {sup}
        /\ last' = "connecting" /\ attempt' = 0
        /\ status' = "connecting" /\ admitted' = FALSE
        /\ IF status = "error" THEN HandleFailure(s) ELSE UNCHANGED checkVars

StayHere == request' = "none" /\ UNCHANGED phase      \* mutant: the phase is not set
ToLogin == phase' = "login" /\ request' = "none"
-----------------------------------------------------------------------------
\* The gate's requests.

\* checkSession: the answer of the check at mount.
SessionRestored ==
    /\ request = "check" /\ session
    /\ EnterAuthenticated
    /\ UNCHANGED session
SessionMissing ==
    /\ request = "check"
    /\ ToLogin
    /\ UNCHANGED <<session, slotVars, supVars, checkVars>>

\* login: LoginScreen's form is mounted in this phase only, and disabled
\* while busy.
Login ==
    /\ phase = "login" /\ ~busy
    /\ request' = "login"
    /\ UNCHANGED <<phase, session, slotVars, supVars, checkVars>>
LoginAccepted ==
    /\ request = "login"
    /\ session' = TRUE
    /\ EnterAuthenticated
LoginRefused ==
    /\ request = "login"
    /\ ToLogin
    /\ UNCHANGED <<session, slotVars, supVars, checkVars>>

\* logout: local cleanup first, the request after it.
Logout ==
    /\ phase = "authenticated" /\ ~busy
    /\ request' = "logout"
    /\ Stop
    /\ CloseAll
    /\ UNCHANGED <<phase, session, checkVars>>
\* The request may be lost: the cookie then stays.
LogoutEnds ==
    /\ request = "logout"
    /\ ToLogin
    /\ session' \in {FALSE, session}
    /\ UNCHANGED <<slotVars, supVars, checkVars>>
-----------------------------------------------------------------------------
\* The managed connection.  The app is mounted while the phase is
\* "authenticated", also during a logout: its rows connect and disconnect.
UserConnects ==
    /\ phase = "authenticated"
    /\ Dial
    /\ UNCHANGED <<gateVars, sup>>
UserDisconnects ==
    /\ phase = "authenticated"
    /\ status \in {"connecting", "connected"}
    /\ Observe("disconnected")
    /\ admitted' = FALSE
    /\ UNCHANGED <<gateVars, sup>>

\* The gateway looks at the cookie once, when the socket is upgraded.
Admit ==
    /\ status = "connecting" /\ ~admitted /\ session
    /\ admitted' = TRUE
    /\ UNCHANGED <<gateVars, status, supVars, checkVars>>
Connected ==
    /\ status = "connecting" /\ admitted
    /\ Observe("connected")
    /\ UNCHANGED <<gateVars, admitted, sup>>
Fails ==
    /\ status \in {"connecting", "connected"}
    /\ Observe("error")
    /\ admitted' = FALSE
    /\ UNCHANGED <<gateVars, sup>>
-----------------------------------------------------------------------------
\* The supervisor.

\* GET /acp/session at the gateway; an answer may still be under way when
\* what it says is no longer so.
CheckAnswered(c) ==
    /\ owner[c] # NoSup /\ asked[c] = "none"
    /\ asked' = [asked EXCEPT ![c] = IF session THEN "authenticated" ELSE "unauthenticated"]
    /\ UNCHANGED <<gateVars, slotVars, supVars, owner>>
CheckUnavailable(c) ==
    /\ owner[c] # NoSup /\ asked[c] = "none"
    /\ asked' = [asked EXCEPT ![c] = "unavailable"]
    /\ UNCHANGED <<gateVars, slotVars, supVars, owner>>

NeverTornDown(s) == FALSE       \* mutant: the result of an old recheck counts
TornDown(s) == s # sup

\* handleFailure after its await.
Rechecked(c) ==
    /\ asked[c] # "none"
    /\ owner' = [owner EXCEPT ![c] = NoSup]
    /\ asked' = [asked EXCEPT ![c] = "none"]
    /\ UNCHANGED session
    /\ \/ /\ TornDown(owner[c])
          /\ UNCHANGED <<phase, request, slotVars, supVars>>
       \/ /\ ~TornDown(owner[c]) /\ asked[c] = "unauthenticated"
          /\ ToLogin      \* onSessionExpired
          /\ CloseAll
          /\ Stop
       \/ /\ ~TornDown(owner[c]) /\ asked[c] # "unauthenticated"
          /\ Schedule(owner[c])
          /\ UNCHANGED <<phase, request, slotVars, sup, last>>

\* The retry timer fires: the dial is seen by the running supervisor.
Redial(s) ==
    /\ s \in timers
    /\ s = sup
    /\ ClearTimer(s)
    /\ status' = "connecting" /\ last' = "connecting" /\ admitted' = FALSE
    /\ UNCHANGED <<gateVars, sup, attempt, checkVars>>

\* The world outside: the token's lifetime ends; the page is reloaded.
Expire ==
    /\ session
    /\ session' = FALSE
    /\ UNCHANGED <<phase, request, slotVars, supVars, checkVars>>
Reload ==
    /\ phase' = "checking" /\ request' = "check"
    /\ CloseAll
    /\ sup' = NoSup /\ last' = "none" /\ attempt' = 0 /\ timers' = {}
    /\ owner' = [c \in Check |-> NoSup]
    /\ asked' = [c \in Check |-> "none"]
    /\ UNCHANGED session

Answered == SessionRestored \/ SessionMissing \/ LoginAccepted \/ LoginRefused \/ LogoutEnds
Next ==
    \/ Answered \/ Login \/ Logout
    \/ UserConnects \/ UserDisconnects
    \/ Admit \/ Connected \/ Fails
    \/ \E c \in Check : CheckAnswered(c) \/ CheckUnavailable(c) \/ Rechecked(c)
    \/ \E s \in Sup : Redial(s)
    \/ Expire \/ Reload
Spec == Init /\ [][Next]_vars

\* What the code's environment owes: requests end, a timer fires, a dial ends
\* (its control requests are bounded), and the gateway is not out of reach
\* for ever.  Users, expiry and reloads owe nothing.
Fairness ==
    /\ WF_vars(Answered)
    /\ WF_vars(status = "connecting" /\ (Connected \/ Fails))
    /\ \A s \in Sup : WF_vars(Redial(s))
    /\ \A c \in Check :
        /\ WF_vars(CheckAnswered(c) \/ CheckUnavailable(c))
        /\ SF_vars(CheckAnswered(c))
        /\ WF_vars(Rechecked(c))
LiveSpec == Spec /\ Fairness
-----------------------------------------------------------------------------
\* A supervisor runs exactly while somebody is signed in and is not signing
\* out; a supervisor that was stopped or replaced leaves no retry timer, and
\* the gate has one request at a time (managedAgent.ts stop and start,
\* gatewayAuthStore.ts).
GateOwnsSupervisor ==
    /\ running <=> (phase = "authenticated" /\ request # "logout")
    /\ timers \subseteq {sup}
    /\ request # "none" =>
        phase = CASE request = "check" -> "checking"
                  [] request = "login" -> "login"
                  [] request = "logout" -> "authenticated"

\* A failed managed connection is never forgotten: while a supervisor runs
\* and the slot is in error, its retry is armed or the recheck before it is
\* in flight, whatever users did to the connection meanwhile (handleFailure,
\* scheduleReconnect).
FailureIsFollowedUp == running /\ status = "error" => sup \in timers \/ RecheckOf(sup)

\* The gate throws a signed-in user out only when the session is really gone:
\* an answer to a recheck of an earlier sign-in ends nothing (handleFailure's
\* comparison with the running supervisor).
OnlyExpiryEnds ==
    [][phase = "authenticated" /\ request = "none" /\ phase' = "login" => ~session]_vars

\* A failed managed connection is dialled again, or its supervisor ends.
FailureIsRetried == (running /\ status = "error") ~> (status # "error" \/ ~running)

\* When the session is gone and the managed connection failed, the login
\* screen comes back, unless the user leaves the connection disconnected.
ExpiryIsNoticed ==
    (phase = "authenticated" /\ ~session /\ status = "error")
        ~> (phase # "authenticated" \/ status = "disconnected")

\* Signing out ends on the login screen, with or without an answer (logout).
SignOutEnds == request = "logout" ~> phase # "authenticated"

\* Neither a failure nor an end of the session leaves the page as it was.
FollowUpEnds == FailureIsRetried /\ ExpiryIsNoticed /\ SignOutEnds
=============================================================================
