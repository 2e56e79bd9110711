-------------------------- MODULE LoginGate_proofs --------------------------
(***************************************************************************)
(* Theorems about the login gate and its supervisor, for any number of     *)
(* supervisor objects, of rechecks in flight and of retry delays.          *)
(***************************************************************************)
EXTENDS LoginGate, TLAPS

\* A place without a recheck holds no answer.
EmptyChecks == \A c \in Check : owner[c] = NoSup => asked[c] = "none"

\* The running supervisor has seen the present status of its slot.
Seen == running => last = status

\* An answer that ends the session of the running supervisor is true: while a
\* supervisor runs nobody signs in.
AnswersAreTrue ==
    \A c \in Check : asked[c] = "unauthenticated" /\ owner[c] = sup => ~session

GateInv == TypeOK /\ GateOwnsSupervisor /\ EmptyChecks /\ Seen /\ AnswersAreTrue
                  /\ FailureIsFollowedUp
-----------------------------------------------------------------------------
USE GateAssumption DEF GateAssumption

\* What the parts of the handlers do to the types.
LEMMA ObserveType ==
    ASSUME TypeOK, NEW new \in Status, Observe(new)
    PROVE  /\ status' \in Status /\ last' \in Status
           /\ attempt' \in 0 .. LastDelay /\ timers' \subseteq Sup
           /\ owner' \in [Check -> Sup \cup {NoSup}]
           /\ asked' \in [Check -> {"none"} \cup Answer]
BY DEF TypeOK, Observe, HandleFailure, ClearTimer, running, checkVars

LEMMA EnterType ==
    ASSUME TypeOK, EnterAuthenticated, session' \in BOOLEAN
    PROVE  TypeOK'
<1>1. PICK s \in Sup :
        /\ phase' = "authenticated" /\ request' = "none"
        /\ sup' = s /\ timers' = timers \ {sup}
        /\ last' = "connecting" /\ attempt' = 0
        /\ status' = "connecting" /\ admitted' = FALSE
        /\ IF status = "error" THEN HandleFailure(s) ELSE UNCHANGED checkVars
    BY DEF EnterAuthenticated
<1>2. owner' \in [Check -> Sup \cup {NoSup}] /\ asked' \in [Check -> {"none"} \cup Answer]
    BY <1>1 DEF TypeOK, HandleFailure, checkVars
<1>3. /\ phase' \in Phase /\ request' \in {"none", "check", "login", "logout"}
      /\ status' \in Status /\ last' \in Status
      /\ sup' \in Sup \cup {NoSup} /\ timers' \subseteq Sup
    BY <1>1 DEF TypeOK, Phase, Status
<1>4. attempt' \in 0 .. LastDelay
    BY <1>1
<1>5. admitted' \in BOOLEAN
    BY <1>1
<1> QED BY <1>2, <1>3, <1>4, <1>5 DEF TypeOK

LEMMA TypeStep == TypeOK /\ EmptyChecks /\ [Next]_vars => TypeOK'
<1> SUFFICES ASSUME TypeOK, EmptyChecks, [Next]_vars PROVE TypeOK'
    OBVIOUS
<1> USE DEF Phase, Status, Answer
<1>1. CASE Answered
    <2>1. CASE SessionRestored \/ LoginAccepted
        BY <2>1, EnterType DEF SessionRestored, LoginAccepted, TypeOK
    <2>2. CASE SessionMissing \/ LoginRefused \/ LogoutEnds
        BY <2>2 DEF SessionMissing, LoginRefused, LogoutEnds, ToLogin, TypeOK,
            slotVars, supVars, checkVars
    <2> QED BY <1>1, <2>1, <2>2 DEF Answered
<1>2. CASE Login \/ Logout
    BY <1>2 DEF TypeOK, Login, Logout, Stop, ClearTimer, CloseAll, slotVars, supVars, checkVars
<1>3. CASE UserConnects \/ UserDisconnects \/ Connected \/ Fails
    <2>1. \E new \in Status : Observe(new)
        BY <1>3 DEF UserConnects, UserDisconnects, Connected, Fails, Dial
    <2>2. UNCHANGED <<gateVars, sup>> /\ admitted' \in BOOLEAN
        BY <1>3 DEF TypeOK, UserConnects, UserDisconnects, Connected, Fails, Dial
    <2> QED BY <2>1, <2>2, ObserveType DEF TypeOK, gateVars
<1>4. CASE Admit \/ Expire
    BY <1>4 DEF TypeOK, Admit, Expire, gateVars, slotVars, supVars, checkVars
<1>9. CASE Reload
    <2>1. attempt' \in 0 .. LastDelay
        BY <1>9 DEF Reload
    <2> QED BY <1>9, <2>1 DEF TypeOK, Reload, CloseAll
<1>5. ASSUME NEW c \in Check, CheckAnswered(c) \/ CheckUnavailable(c) PROVE TypeOK'
    BY <1>5 DEF TypeOK, CheckAnswered, CheckUnavailable, gateVars, slotVars, supVars
<1>6. ASSUME NEW c \in Check, Rechecked(c) PROVE TypeOK'
    <2>1. /\ owner' \in [Check -> Sup \cup {NoSup}]
          /\ asked' \in [Check -> {"none"} \cup Answer]
        BY <1>6 DEF TypeOK, Rechecked
    <2>2. attempt' \in 0 .. LastDelay /\ timers' \subseteq Sup
        BY <1>6 DEF TypeOK, EmptyChecks, Rechecked, TornDown, Stop, ClearTimer, Schedule, supVars
    <2>3. /\ phase' \in Phase /\ request' \in {"none", "check", "login", "logout"}
          /\ status' \in Status /\ last' \in Status /\ sup' \in Sup \cup {NoSup}
        BY <1>6 DEF TypeOK, Rechecked, ToLogin, CloseAll, Stop, slotVars, supVars
    <2>4. session' \in BOOLEAN /\ admitted' \in BOOLEAN
        BY <1>6 DEF TypeOK, Rechecked, CloseAll, slotVars
    <2> QED BY <2>1, <2>2, <2>3, <2>4 DEF TypeOK
<1>7. ASSUME NEW s \in Sup, Redial(s) PROVE TypeOK'
    BY <1>7 DEF TypeOK, Redial, ClearTimer, gateVars, checkVars
<1>8. CASE UNCHANGED vars
    BY <1>8 DEF TypeOK, vars, gateVars, slotVars, supVars, checkVars
<1> QED BY <1>1, <1>2, <1>3, <1>4, <1>5, <1>6, <1>7, <1>8, <1>9 DEF Next
-----------------------------------------------------------------------------
\* A recheck that is sent or answered keeps empty places empty.
LEMMA EmptyStep == TypeOK /\ EmptyChecks /\ [Next]_vars => EmptyChecks'
<1> SUFFICES ASSUME TypeOK, EmptyChecks, [Next]_vars PROVE EmptyChecks'
    OBVIOUS
<1>1. ASSUME NEW s \in Sup \cup {NoSup}, s # NoSup, HandleFailure(s) PROVE EmptyChecks'
    BY <1>1 DEF EmptyChecks, TypeOK, HandleFailure
<1>2. CASE UNCHANGED checkVars
    BY <1>2 DEF EmptyChecks, checkVars
<1>3. ASSUME EnterAuthenticated PROVE EmptyChecks'
    BY <1>1, <1>2, <1>3 DEF EnterAuthenticated
<1>4. ASSUME NEW new, Observe(new) PROVE EmptyChecks'
    BY <1>1, <1>2, <1>4 DEF Observe, TypeOK, running
<1>5. ASSUME NEW c \in Check, CheckAnswered(c) \/ CheckUnavailable(c) \/ Rechecked(c)
      PROVE  EmptyChecks'
    BY <1>5 DEF EmptyChecks, TypeOK, CheckAnswered, CheckUnavailable, Rechecked
<1>6. CASE Reload
    BY <1>6 DEF EmptyChecks, Reload
<1> QED BY <1>2, <1>3, <1>4, <1>5, <1>6 DEF Next, Answered, SessionRestored, SessionMissing,
        LoginAccepted, LoginRefused, LogoutEnds, Login, Logout, UserConnects, UserDisconnects,
        Dial, Admit, Connected, Fails, Redial, Expire, vars

\* The gate and its supervisor start and end together.
LEMMA OwnerStep ==
    TypeOK /\ EmptyChecks /\ GateOwnsSupervisor /\ [Next]_vars => GateOwnsSupervisor'
<1> SUFFICES ASSUME TypeOK, EmptyChecks, GateOwnsSupervisor, [Next]_vars
             PROVE  GateOwnsSupervisor'
    OBVIOUS
<1> USE DEF GateOwnsSupervisor, running
<1>1. ASSUME EnterAuthenticated PROVE GateOwnsSupervisor'
    BY <1>1 DEF EnterAuthenticated
<1>2. CASE SessionMissing \/ LoginRefused \/ LogoutEnds
    BY <1>2 DEF SessionMissing, LoginRefused, LogoutEnds, ToLogin, supVars
<1>3. CASE Login \/ Logout
    BY <1>3 DEF Login, Logout, Stop, ClearTimer, supVars, busy
<1>4. CASE UserConnects \/ UserDisconnects \/ Connected \/ Fails
    BY <1>4 DEF UserConnects, UserDisconnects, Connected, Fails, Dial, Observe, ClearTimer, gateVars
<1>5. CASE Admit \/ Expire
    BY <1>5 DEF Admit, Expire, gateVars, supVars
<1>6. CASE Reload
    BY <1>6 DEF Reload
<1>7. ASSUME NEW c \in Check, CheckAnswered(c) \/ CheckUnavailable(c) PROVE GateOwnsSupervisor'
    BY <1>7 DEF CheckAnswered, CheckUnavailable, gateVars, supVars
<1>8. ASSUME NEW c \in Check, Rechecked(c) PROVE GateOwnsSupervisor'
    BY <1>8 DEF Rechecked, TornDown, ToLogin, Stop, ClearTimer, Schedule, supVars
<1>9. ASSUME NEW s \in Sup, Redial(s) PROVE GateOwnsSupervisor'
    BY <1>9 DEF Redial, ClearTimer, gateVars
<1>10. CASE UNCHANGED vars
    BY <1>10 DEF vars, gateVars, supVars
<1> QED BY <1>1, <1>2, <1>3, <1>4, <1>5, <1>6, <1>7, <1>8, <1>9, <1>10
        DEF Next, Answered, SessionRestored, LoginAccepted

\* Every change of the slot's status is seen by the supervisor that runs.
LEMMA SeenStep == TypeOK /\ Seen /\ [Next]_vars => Seen'
<1> SUFFICES ASSUME TypeOK, Seen, [Next]_vars PROVE Seen'
    OBVIOUS
<1> USE DEF Seen, running
<1>1. ASSUME EnterAuthenticated PROVE Seen'
    BY <1>1 DEF EnterAuthenticated
<1>2. ASSUME NEW new, Observe(new), sup' = sup PROVE Seen'
    BY <1>2 DEF Observe
<1>3. CASE UNCHANGED <<sup, last, status>>
    BY <1>3
<1>4. CASE Logout \/ Reload
    BY <1>4 DEF Logout, Stop, Reload
<1>5. ASSUME NEW c \in Check, Rechecked(c) PROVE Seen'
    BY <1>5 DEF Rechecked, Stop, Schedule, supVars, slotVars
<1>6. ASSUME NEW s \in Sup, Redial(s) PROVE Seen'
    BY <1>6 DEF Redial
<1>7. CASE UNCHANGED vars
    BY <1>3, <1>7 DEF vars, slotVars, supVars
<1> QED BY <1>1, <1>2, <1>3, <1>4, <1>5, <1>6, <1>7 DEF Next, Answered, SessionRestored,
        SessionMissing, LoginAccepted, LoginRefused, LogoutEnds, Login, UserConnects,
        UserDisconnects, Dial, Admit, Connected, Fails, CheckAnswered, CheckUnavailable, Expire,
        slotVars, supVars

\* Only signing in makes a session valid, and it begins a supervisor of which no
\* recheck is under way.
LEMMA AnswersStep == TypeOK /\ EmptyChecks /\ AnswersAreTrue /\ [Next]_vars => AnswersAreTrue'
<1> SUFFICES ASSUME TypeOK, EmptyChecks, AnswersAreTrue, [Next]_vars PROVE AnswersAreTrue'
    OBVIOUS
<1> USE DEF AnswersAreTrue
<1>1. ASSUME EnterAuthenticated PROVE AnswersAreTrue'
    <2>1. PICK s \in Sup :
            /\ ~RecheckOf(s) /\ sup' = s
            /\ IF status = "error" THEN HandleFailure(s) ELSE UNCHANGED checkVars
        BY <1>1 DEF EnterAuthenticated
    <2>2. \A c \in Check : owner'[c] = s => asked'[c] = "none"
        BY <2>1 DEF RecheckOf, HandleFailure, checkVars, TypeOK, EmptyChecks
    <2> QED BY <2>1, <2>2
<1>2. ASSUME NEW new, Observe(new), sup' = sup, session' = session PROVE AnswersAreTrue'
    <2>1. CASE UNCHANGED checkVars
        BY <1>2, <2>1 DEF checkVars
    <2>2. CASE running /\ HandleFailure(sup)
        BY <1>2, <2>2 DEF HandleFailure, TypeOK, EmptyChecks
    <2> QED BY <1>2, <2>1, <2>2 DEF Observe
<1>3. CASE UNCHANGED <<sup, owner, asked>> /\ session' \in {FALSE, session}
    BY <1>3
<1>4. CASE Logout
    BY <1>4 DEF Logout, Stop, EmptyChecks, checkVars
<1>5. ASSUME NEW c \in Check, CheckAnswered(c) \/ CheckUnavailable(c) PROVE AnswersAreTrue'
    BY <1>5 DEF CheckAnswered, CheckUnavailable, gateVars, supVars, TypeOK
<1>6. ASSUME NEW c \in Check, Rechecked(c) PROVE AnswersAreTrue'
    BY <1>6 DEF Rechecked, TypeOK, EmptyChecks, Stop, Schedule, supVars
<1>7. CASE Reload
    BY <1>7 DEF Reload
<1>8. CASE UNCHANGED vars
    BY <1>3, <1>8 DEF vars, gateVars, supVars, checkVars
<1> QED BY <1>1, <1>2, <1>3, <1>4, <1>5, <1>6, <1>7, <1>8 DEF Next, Answered, SessionRestored,
        SessionMissing, LoginAccepted, LoginRefused, LogoutEnds, Login, UserConnects,
        UserDisconnects, Dial, Admit, Connected, Fails, Expire, Redial,
        gateVars, slotVars, supVars, checkVars

\* A failure is seen as a change, so that it is followed up, and the follow-up
\* ends in the retry, or with its supervisor.
LEMMA FollowStep == TypeOK /\ Seen /\ FailureIsFollowedUp /\ [Next]_vars => FailureIsFollowedUp'
<1> SUFFICES ASSUME TypeOK, Seen, FailureIsFollowedUp, [Next]_vars PROVE FailureIsFollowedUp'
    OBVIOUS
<1> USE DEF FailureIsFollowedUp, running, RecheckOf
<1>1. CASE status' # "error" \/ sup' = NoSup
    BY <1>1
<1>2. CASE Fails
    <2>1. running => HandleFailure(sup)
        BY <1>2 DEF Fails, Observe, Seen
    <2> QED BY <1>2, <2>1 DEF Fails, HandleFailure, TypeOK
<1>3. CASE UNCHANGED <<sup, status, timers, owner>>
    BY <1>3
<1>4. ASSUME NEW c \in Check, Rechecked(c) PROVE FailureIsFollowedUp'
    <2>1. CASE owner[c] = sup /\ asked[c] = "unauthenticated"
        BY <1>4, <2>1 DEF Rechecked, TornDown, Stop
    <2>2. CASE owner[c] = sup /\ asked[c] # "unauthenticated"
        BY <1>4, <2>2 DEF Rechecked, TornDown, Schedule
    <2>3. CASE owner[c] # sup
        BY <1>4, <2>3 DEF Rechecked, TornDown, TypeOK, slotVars, supVars
    <2> QED BY <2>1, <2>2, <2>3
<1>5. CASE UNCHANGED vars
    BY <1>3, <1>5 DEF vars, slotVars, supVars, checkVars
<1> QED BY <1>1, <1>2, <1>3, <1>4, <1>5 DEF Next, Answered, SessionRestored,
        SessionMissing, LoginAccepted, LoginRefused, LogoutEnds, EnterAuthenticated, Login, Logout,
        Stop, CloseAll, UserConnects, UserDisconnects, Dial, Observe, Admit, Connected, Expire,
        CheckAnswered, CheckUnavailable, Redial, Reload, gateVars, slotVars, supVars, checkVars
-----------------------------------------------------------------------------
LEMMA GateInitially == Init => GateInv
<1> SUFFICES ASSUME Init PROVE GateInv
    OBVIOUS
<1>1. TypeOK
    <2>1. attempt \in 0 .. LastDelay
        BY DEF Init
    <2> QED BY <2>1 DEF Init, TypeOK, Phase, Status
<1>2. GateOwnsSupervisor /\ FailureIsFollowedUp
    BY DEF Init, GateOwnsSupervisor, FailureIsFollowedUp, running
<1>3. EmptyChecks /\ Seen /\ AnswersAreTrue
    BY DEF Init, EmptyChecks, Seen, AnswersAreTrue, running
<1> QED BY <1>1, <1>2, <1>3 DEF GateInv

LEMMA GateInvariant == Spec => []GateInv
<1>1. GateInv /\ [Next]_vars => GateInv'
    BY TypeStep, EmptyStep, OwnerStep, SeenStep, AnswersStep, FollowStep DEF GateInv
<1> QED BY GateInitially, <1>1, PTL DEF Spec

\* Every reachable state of the gate is well typed.
THEOREM GateTypeCorrect == Spec => []TypeOK
BY GateInvariant, PTL DEF GateInv

\* A supervisor runs exactly while somebody is signed in, and no other
\* supervisor has a timer (gatewayAuthStore.ts, managedAgent.ts).
THEOREM SupervisorIsOwned == Spec => []GateOwnsSupervisor
BY GateInvariant, PTL DEF GateInv

\* A failure of the managed connection always has a recheck or a retry behind
\* it (handleFailure, scheduleReconnect).
THEOREM FailuresAreFollowedUp == Spec => []FailureIsFollowedUp
BY GateInvariant, PTL DEF GateInv

\* Nobody is thrown out whose session is valid, however late an answer comes
\* (handleFailure).
THEOREM NobodyIsThrownOut == Spec => OnlyExpiryEnds
<1>1. ASSUME GateInv, [Next]_vars, phase = "authenticated", request = "none", phase' = "login"
      PROVE  ~session
    <2>1. PICK c \in Check : Rechecked(c) /\ phase' # phase
        BY <1>1 DEF Next, Answered, SessionRestored, SessionMissing, LoginAccepted, LoginRefused,
            LogoutEnds, Login, Logout, UserConnects, UserDisconnects, Admit, Connected, Fails,
            CheckAnswered, CheckUnavailable, Redial, Expire, Reload, vars, gateVars
    <2>2. owner[c] = sup /\ asked[c] = "unauthenticated"
        BY <2>1 DEF Rechecked, TornDown
    <2> QED BY <1>1, <2>2 DEF GateInv, AnswersAreTrue
<1>2. GateInv /\ [Next]_vars => [phase = "authenticated" /\ request = "none" /\ phase' = "login"
                                    => ~session]_vars
    BY <1>1
<1> QED BY GateInvariant, <1>2, PTL DEF Spec, OnlyExpiryEnds
=============================================================================
