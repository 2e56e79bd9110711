----------------------- MODULE LiveConnections_proofs -----------------------
(***************************************************************************)
(* What holds of the clients for every set of connections, sessions and    *)
(* tool calls and any number of requests in flight: what a client holds    *)
(* open belongs to its live link, client and store agree on the switch in  *)
(* flight, a dead era changes nothing, and the clients drive the store as  *)
(* some driver would.                                                      *)
(***************************************************************************)
EXTENDS LiveConnections, ConnectionStore_proofs, FiniteSetTheorems

\* The requests of the live era, and those of an earlier one that still have
\* to settle.
Present(c, i) == flows[c][i] # None /\ Live(c, flows[c][i])
Stale(c, i) == flows[c][i] # None /\ Microtask(c, flows[c][i]) /\ ~Live(c, flows[c][i])

\* What each kind of request is for, and whom it is for.
Fits(f) ==
    /\ f.op \in {"dial", "init", "list", "page", "ready", "resume", "failed"} =>
           f.via = "connect"
    /\ f.op = "load" => f.via # "auth"
    /\ f.op = "up" => f.via # "user"
    /\ f.op = "delete" => f.sess # None
FlowsFit(c) == \A i \in FlowId : flows[c][i] # None => Fits(flows[c][i])

\* A link is being established by one request, and no other request that can
\* move the client's session runs beside it.
OneConnect(c) ==
    \A i \in FlowId : Present(c, i) =>
        IF Via(c, i) = "connect"
        THEN /\ status[c] = "connecting"
             /\ \A j \in FlowId : Present(c, j) /\ Via(c, j) = "connect" => i = j
        ELSE status[c] # "connecting" \/ flows[c][i].op \in {"mode", "close"}

\* While a request of a dead era has not settled, the new era is at its dial.
StaleAlone(c) ==
    \A i \in FlowId : Stale(c, i) =>
        \A j \in FlowId : Present(c, j) => flows[c][j].op = "dial"

\* The switch lock, the staged switch and the load of the live era are one.
LoadLocks(c) ==
    /\ \A i \in FlowId : Awaits(c, i, "load") => client[c].switching
    /\ client[c].switching <=> staged[c] # None
    /\ staged[c] # None =>
          \E i \in FlowId : /\ Awaits(c, i, "load")
                            /\ flows[c][i].era = staged[c].era
                            /\ flows[c][i].sess = staged[c].target
    /\ \A i, j \in FlowId : Awaits(c, i, "load") /\ Awaits(c, j, "load") => i = j

\* The turn slot and the permission waiters belong to the live link.
TurnIsLive(c) ==
    /\ client[c].turn # 0 => Awaits(c, client[c].turn, "prompt") /\ client[c].linked
    /\ waiters[c] # {} => client[c].linked

ConnInv(c) == FlowsFit(c) /\ OneConnect(c) /\ StaleAlone(c) /\ LoadLocks(c) /\ TurnIsLive(c)
ClientInv == \A c \in Conn : ConnInv(c)
IInv == TypeOK /\ ClientInv

USE FlowIdAssumption, MaxEraAssumption, NoneIsNoFlow
    DEF FlowIdAssumption, MaxEraAssumption, NoneIsNoFlow
-----------------------------------------------------------------------------
(* Eras and flows.                                                         *)

\* There is always an era that nothing refers to: a client counts one more
\* era than it has requests, and one to come.
LEMMA EraIsFree ==
    ASSUME TypeOK, NEW c \in Conn
    PROVE  NextEra(c) \in Era \ UsedEras(c)
<1> DEFINE F == FlowId \ FreeFlows(c)
           T == {flows[c][i].era : i \in F}
           f == [i \in F |-> flows[c][i].era]
<1>1. IsFiniteSet(F) /\ Cardinality(F) <= Cardinality(FlowId)
    BY FS_Subset
<1>2. f \in Surjection(F, T)
    BY DEF Surjection
<1>3. IsFiniteSet(T) /\ Cardinality(T) <= Cardinality(F)
    BY <1>1, <1>2, FS_Surjection
<1>4. IsFiniteSet(T \cup {client[c].gen}) /\ Cardinality(T \cup {client[c].gen}) <= Cardinality(T) + 1
    <2>1. Cardinality(T) \in Nat
        BY <1>3, FS_CardinalityType
    <2> DEFINE g == client[c].gen
    <2> HIDE DEF T, g
    <2>2. /\ IsFiniteSet(T \cup {g})
          /\ Cardinality(T \cup {g}) = IF g \in T THEN Cardinality(T) ELSE Cardinality(T) + 1
        BY <1>3, FS_AddElement
    <2>3. IsFiniteSet(T \cup {g}) /\ Cardinality(T \cup {g}) <= Cardinality(T) + 1
        BY <2>1, <2>2
    <2> QED BY <2>3 DEF g
<1>5. UsedEras(c) = T \cup {client[c].gen}
    BY DEF UsedEras
<1>6. Cardinality(Era) = MaxEra + 1 /\ IsFiniteSet(Era)
    BY FS_Interval
<1>7. /\ Cardinality(FlowId) \in Nat /\ Cardinality(F) \in Nat /\ Cardinality(T) \in Nat
      /\ Cardinality(UsedEras(c)) \in Nat
    BY <1>1, <1>3, <1>4, <1>5, FS_CardinalityType
<1>8. Cardinality(UsedEras(c)) < Cardinality(Era)
    BY <1>1, <1>3, <1>4, <1>5, <1>6, <1>7
<1>9. ASSUME Era \subseteq UsedEras(c) PROVE FALSE
    <2>1. Cardinality(Era) <= Cardinality(UsedEras(c))
        BY <1>4, <1>5, <1>9, FS_Subset
    <2> QED BY <1>6, <1>7, <1>8, <2>1
<1> QED BY <1>9 DEF NextEra

\* A place for a request is free where the code starts one.
LEMMA FlowIsFree ==
    ASSUME NEW c \in Conn, FreeFlows(c) # {}
    PROVE  NextFlow(c) \in FlowId /\ flows[c][NextFlow(c)] = None
<1>1. NextFlow(c) \in FreeFlows(c)
    BY DEF NextFlow
<1> QED BY <1>1 DEF FreeFlows

\* The invariant says what the runs check.
LEMMA InvImplies ==
    ASSUME ClientInv
    PROVE  OnlyLiveWork /\ SwitchIsOneLoad
BY DEF ClientInv, ConnInv, LoadLocks, TurnIsLive, OnlyLiveWork, SwitchIsOneLoad
-----------------------------------------------------------------------------
(* What becomes of a connection that a step does not touch.                *)

Elsewhere(c) ==
    \A d \in Conn \ {c} :
        client'[d] = client[d] /\ flows'[d] = flows[d] /\ waiters'[d] = waiters[d]
StoreElsewhere(c) ==
    \A d \in Conn \ {c} : staged'[d] = staged[d] /\ status'[d] = status[d]

Quiet(c) ==
    /\ UNCHANGED <<client[c], flows[c], staged[c], status[c]>>
    /\ waiters'[c] # {} => client[c].linked

\* A connection that keeps its requests and its lock keeps the invariant.
LEMMA QuietKeeps ==
    ASSUME NEW c \in Conn, ConnInv(c), Quiet(c)
    PROVE  ConnInv(c)'
<1>1. \A i \in FlowId : Present(c, i)' = Present(c, i) /\ Stale(c, i)' = Stale(c, i)
    BY DEF Quiet, Present, Stale, Microtask, Live
<1>2. \A i \in FlowId : Awaits(c, i, "load")' = Awaits(c, i, "load")
    BY DEF Quiet, Awaits, InFlight, Live
<1>3. \A i \in FlowId : Via(c, i)' = Via(c, i)
    BY DEF Quiet, Via
<1>4. FlowsFit(c)'
    BY DEF Quiet, ConnInv, FlowsFit
<1>5. OneConnect(c)'
    BY <1>1, <1>3 DEF Quiet, ConnInv, OneConnect
<1>6. StaleAlone(c)'
    BY <1>1 DEF Quiet, ConnInv, StaleAlone
<1>7. LoadLocks(c)'
    BY <1>2 DEF Quiet, ConnInv, LoadLocks
<1>8. TurnIsLive(c)'
    BY DEF Quiet, ConnInv, TurnIsLive, Awaits, InFlight, Live
<1> QED BY <1>4, <1>5, <1>6, <1>7, <1>8 DEF ConnInv

\* A step of one connection leaves the invariant of the others alone.
LEMMA OthersKeep ==
    ASSUME ClientInv, NEW c \in Conn, Elsewhere(c), StoreElsewhere(c), ConnInv(c)'
    PROVE  ClientInv'
<1>1. ASSUME NEW d \in Conn \ {c} PROVE ConnInv(d)'
    <2>1. ConnInv(d)
        BY DEF ClientInv
    <2>2. Quiet(d)
        BY <2>1 DEF Elsewhere, StoreElsewhere, Quiet, ConnInv, TurnIsLive
    <2> QED BY <2>1, <2>2, QuietKeeps
<1> QED BY <1>1 DEF ClientInv
-----------------------------------------------------------------------------
(* What becomes of the connection a step is of: it ends the era, or it     *)
(* moves one request (starts it, passes it on or ends it: f is what it     *)
(* becomes), or it touches none.                                           *)

\* A new era begins with nothing in it.
NewEra(c) ==
    /\ client'[c].gen = NextEra(c)
    /\ client'[c].turn = 0 /\ ~client'[c].switching
    /\ waiters'[c] = {} /\ staged'[c] = None

\* Requests of a dead era may be there when the new one begins.
LEMMA NewEraKeeps ==
    ASSUME TypeOK, NEW c \in Conn, ConnInv(c), NewEra(c),
           \A i \in FlowId : flows'[c][i] \in {flows[c][i], None}
    PROVE  ConnInv(c)'
<1>1. \A i \in FlowId : flows[c][i] # None => flows[c][i].era # NextEra(c)
    BY EraIsFree DEF UsedEras, FreeFlows
<1>2. \A i \in FlowId : ~Present(c, i)'
    BY <1>1 DEF NewEra, Present, Live
<1>3. FlowsFit(c)'
    BY DEF ConnInv, FlowsFit
<1>4. \A i \in FlowId : ~Awaits(c, i, "load")'
    BY <1>2 DEF Awaits, InFlight, Present
<1> QED BY <1>2, <1>3, <1>4 DEF NewEra, ConnInv, OneConnect, StaleAlone, LoadLocks, TurnIsLive

Moves(c, i, f) ==
    /\ \A j \in FlowId : flows'[c][j] = IF j = i THEN f ELSE flows[c][j]
    /\ client'[c].gen = client[c].gen

\* What a request becomes has to fit.
LEMMA FitsKept ==
    ASSUME NEW c \in Conn, NEW i \in FlowId, NEW f, Moves(c, i, f), FlowsFit(c),
           f # None => Fits(f)
    PROVE  FlowsFit(c)'
BY DEF Moves, FlowsFit

\* A user's request is started, beside no connect, or where it does no harm.
Starts(c, i, f) ==
    /\ flows[c][i] = None /\ f.via # "connect"
    /\ status'[c] = status[c]
    /\ status[c] # "connecting" \/ f.op \in {"mode", "close"}
\* A request is passed on to its next await.
Passes(c, i, f) ==
    /\ Present(c, i)
    /\ f.via = Via(c, i) /\ f.era = flows[c][i].era
    /\ flows[c][i].op \notin {"mode", "close"}
    /\ status'[c] = status[c]
\* A request ends, the status with it or not.
Ends(c, i, f) ==
    /\ f = None
    /\ \/ status'[c] = status[c]
       \/ /\ Present(c, i) /\ flows[c][i].op \notin {"mode", "close"}
          /\ status'[c] # "connecting"

\* The one request that establishes a link stays the only one.
LEMMA ConnectKept ==
    ASSUME NEW c \in Conn, NEW i \in FlowId, NEW f, Moves(c, i, f), OneConnect(c),
           Starts(c, i, f) \/ Passes(c, i, f) \/ Ends(c, i, f)
    PROVE  OneConnect(c)'
<1>1. \A j \in FlowId \ {i} : Present(c, j)' = Present(c, j) /\ Via(c, j)' = Via(c, j)
                              /\ flows'[c][j] = flows[c][j]
    BY DEF Moves, Present, Via, Live
<1>2. flows'[c][i] = f
    BY DEF Moves
<1>3. CASE Starts(c, i, f)
    <2>1. Via(c, i)' # "connect" /\ ~Present(c, i)
        BY <1>2, <1>3 DEF Starts, Via, Present
    <2> QED BY <1>1, <1>2, <1>3, <2>1 DEF Starts, OneConnect
<1>4. CASE Passes(c, i, f)
    <2>1. Via(c, i)' = Via(c, i)
        BY <1>2, <1>4 DEF Passes, Via
    <2> QED BY <1>1, <1>2, <1>4, <2>1 DEF Passes, OneConnect
<1>5. CASE Ends(c, i, f)
    <2>1. ~Present(c, i)'
        BY <1>2, <1>5 DEF Ends, Present
    <2>2. CASE status'[c] = status[c]
        BY <1>1, <2>1, <2>2 DEF OneConnect
    <2>3. CASE Present(c, i) /\ flows[c][i].op \notin {"mode", "close"} /\ status'[c] # "connecting"
        BY <1>1, <2>1, <2>3 DEF OneConnect
    <2> QED BY <1>5, <2>2, <2>3 DEF Ends
<1> QED BY <1>3, <1>4, <1>5

\* Where nothing is left of a dead era, nothing comes.
LEMMA StaleKept ==
    ASSUME NEW c \in Conn, NEW i \in FlowId, NEW f, Moves(c, i, f), StaleAlone(c),
           f = None \/ (f.era = client[c].gen /\ \A j \in FlowId : ~Stale(c, j))
    PROVE  StaleAlone(c)'
<1>1. \A j \in FlowId \ {i} : Present(c, j)' = Present(c, j) /\ Stale(c, j)' = Stale(c, j)
                              /\ flows'[c][j] = flows[c][j]
    BY DEF Moves, Present, Stale, Microtask, Live
<1>2. flows'[c][i] = f
    BY DEF Moves
<1>3. ~Stale(c, i)'
    BY <1>2 DEF Moves, Stale, Live
<1>4. CASE f = None
    BY <1>1, <1>2, <1>3, <1>4 DEF StaleAlone, Present
<1>5. CASE \A j \in FlowId : ~Stale(c, j)
    BY <1>1, <1>3, <1>5 DEF StaleAlone
<1> QED BY <1>4, <1>5

\* A request that is no load leaves the lock alone.
LEMMA LockKept ==
    ASSUME NEW c \in Conn, NEW i \in FlowId, NEW f, Moves(c, i, f), LoadLocks(c),
           ~Awaits(c, i, "load"), f = None \/ f.op # "load",
           client'[c].switching = client[c].switching, staged'[c] = staged[c]
    PROVE  LoadLocks(c)'
<1>1. \A j \in FlowId : Awaits(c, j, "load")' = Awaits(c, j, "load")
    BY DEF Moves, Awaits, InFlight, Live
<1>2. \A j \in FlowId : Awaits(c, j, "load") => flows'[c][j] = flows[c][j]
    BY DEF Moves
<1> QED BY <1>1, <1>2 DEF LoadLocks

\* A load takes the lock where it is free, and stages its switch.
LEMMA LockTaken ==
    ASSUME NEW c \in Conn, NEW i \in FlowId, NEW f, Moves(c, i, f), LoadLocks(c),
           f # None, f.op = "load", f.era = client[c].gen, staged[c] = None,
           client'[c].switching, staged'[c] # None,
           staged'[c].era = f.era, staged'[c].target = f.sess
    PROVE  LoadLocks(c)'
<1>1. \A j \in FlowId : ~Awaits(c, j, "load")
    BY DEF LoadLocks
<1>2. Awaits(c, i, "load")' /\ \A j \in FlowId \ {i} : ~Awaits(c, j, "load")'
    BY <1>1 DEF Moves, Awaits, InFlight, Live
<1>3. flows'[c][i] = f
    BY DEF Moves
<1> QED BY <1>2, <1>3 DEF LoadLocks

\* The load that ends releases it.
LEMMA LockReleased ==
    ASSUME NEW c \in Conn, NEW i \in FlowId, NEW f, Moves(c, i, f), LoadLocks(c),
           Awaits(c, i, "load"), f = None \/ f.op # "load",
           ~client'[c].switching, staged'[c] = None
    PROVE  LoadLocks(c)'
<1>1. \A j \in FlowId \ {i} : ~Awaits(c, j, "load")
    BY DEF LoadLocks
<1>2. \A j \in FlowId : ~Awaits(c, j, "load")'
    BY <1>1 DEF Moves, Awaits, InFlight, Live
<1> QED BY <1>2 DEF LoadLocks

\* A request that is no turn leaves the turn alone.
LEMMA TurnKept ==
    ASSUME NEW c \in Conn, NEW i \in FlowId, NEW f, Moves(c, i, f), TurnIsLive(c),
           client[c].turn \in FlowId \cup {0}, ~Awaits(c, i, "prompt"),
           client'[c].turn = client[c].turn,
           client[c].linked => client'[c].linked,
           waiters'[c] = waiters[c]
    PROVE  TurnIsLive(c)'
<1>1. client[c].turn # 0 => client[c].turn # i
    BY DEF TurnIsLive
<1>2. client[c].turn # 0 => flows'[c][client[c].turn] = flows[c][client[c].turn]
    BY <1>1 DEF Moves
<1> QED BY <1>2 DEF Moves, TurnIsLive, Awaits, InFlight, Live

\* A turn is taken by the prompt that starts, and released by the one that ends.
LEMMA TurnTaken ==
    ASSUME NEW c \in Conn, NEW i \in FlowId, NEW f, Moves(c, i, f), TurnIsLive(c),
           f # None, f.op = "prompt", f.era = client[c].gen,
           client'[c].turn = i, client[c].linked, client'[c].linked
    PROVE  TurnIsLive(c)'
BY DEF Moves, TurnIsLive, Awaits, InFlight, Live

\* A turn that ends leaves the slot to its owner.
LEMMA TurnReleased ==
    ASSUME NEW c \in Conn, NEW i \in FlowId, Moves(c, i, None), TurnIsLive(c),
           client[c].turn \in FlowId \cup {0},
           client'[c].turn = IF client[c].turn = i THEN 0 ELSE client[c].turn,
           client'[c].linked = client[c].linked,
           waiters'[c] \subseteq waiters[c]
    PROVE  TurnIsLive(c)'
<1>1. client'[c].turn # 0 => flows'[c][client'[c].turn] = flows[c][client'[c].turn]
    BY DEF Moves
<1> QED BY <1>1 DEF Moves, TurnIsLive, Awaits, InFlight, Live
-----------------------------------------------------------------------------
(* What an operation of the store is to the driver.                        *)

StoreAct(c) == StoreStep(c, TRUE) \/ UNCHANGED storeVars

\* An operation of the store keeps its types, and is about one connection.
LEMMA StoreActKeeps ==
    ASSUME StoreTypeOK, NEW c \in Conn, StoreAct(c)
    PROVE  StoreTypeOK' /\ StoreElsewhere(c)
<1>1. StoreTypeOK'
    <2>1. CASE UNCHANGED storeVars
        BY <2>1 DEF storeVars, slotVars, StoreTypeOK
    <2> QED BY <2>1, StepType DEF StoreAct
<1>2. CASE UNCHANGED storeVars
    BY <1>1, <1>2 DEF StoreElsewhere, storeVars, slotVars
<1>3. CASE StoreStep(c, TRUE)
    <2>1. \A d \in Conn \ {c} : staged'[d] = staged[d]
        BY <1>3 DEF StoreTypeOK, StoreStep, SeedConnection, Dial, SetStatus, Disconnected, Update,
                    MergeSessions, AdoptSession, Stage, StageSession, CommitStaged, RollbackStaged,
                    RemoveSession, Foreground, ViewRetained, SetActiveConnection, CloseConnection,
                    Abandon, slotVars
    <2>2. \A d \in Conn \ {c} : status'[d] = status[d]
        BY <1>3 DEF StoreTypeOK, StoreStep, SeedConnection, Dial, SetStatus, Disconnected, Update,
                    MergeSessions, AdoptSession, Stage, StageSession, CommitStaged, RollbackStaged,
                    RemoveSession, Foreground, ViewRetained, SetActiveConnection, CloseConnection,
                    Abandon, slotVars
    <2> QED BY <1>1, <2>1, <2>2 DEF StoreElsewhere
<1> QED BY <1>1, <1>2, <1>3 DEF StoreAct

\* What the operations leave of the transaction and the status of c.
LEMMA StoreLeaves ==
    ASSUME StoreTypeOK, NEW c \in Conn
    PROVE  /\ SeedConnection(c) \/ Foreground(c) \/ (\E s \in Session : ViewRetained(c, s))
                \/ (\E d : Update(c, d)) \/ (\E S : MergeSessions(c, S))
                \/ (\E s : AdoptSession(c, s)) \/ (\E s : RemoveSession(c, s))
                \/ UNCHANGED storeVars
                => staged' = staged /\ status' = status
           /\ \A st : SetStatus(c, st) => staged' = staged /\ status'[c] = st
           /\ \A clean \in BOOLEAN : \A d : Disconnected(c, clean, d) =>
                staged'[c] = None /\ status'[c] # "connecting"
           /\ \A resume \in BOOLEAN : \A d : Dial(c, resume, d) =>
                staged'[c] = None /\ status'[c] = "connecting"
           /\ \A e : CommitStaged(c, e) \/ RollbackStaged(c, e) =>
                /\ status' = status
                /\ staged'[c] = IF staged[c] # None /\ staged[c].era = e THEN None ELSE staged[c]
<1>1. SeedConnection(c) \/ Foreground(c) \/ (\E s \in Session : ViewRetained(c, s))
                \/ (\E d : Update(c, d)) \/ (\E S : MergeSessions(c, S))
                \/ (\E s : AdoptSession(c, s)) \/ (\E s : RemoveSession(c, s))
                \/ UNCHANGED storeVars
                => staged' = staged /\ status' = status
    BY DEF SeedConnection, Foreground, ViewRetained, Update, MergeSessions, AdoptSession,
           RemoveSession, SetActiveConnection, storeVars, slotVars
<1>2. \A st : SetStatus(c, st) => staged' = staged /\ status'[c] = st
    BY DEF SetStatus, StoreTypeOK
<1>3. Abandon(c) => staged'[c] = None
    BY DEF Abandon, StoreTypeOK
<1>4. \A clean \in BOOLEAN : \A d : Disconnected(c, clean, d) =>
                staged'[c] = None /\ status'[c] # "connecting"
    BY <1>3 DEF Disconnected, StoreTypeOK
<1>5. \A resume \in BOOLEAN : \A d : Dial(c, resume, d) =>
                staged'[c] = None /\ status'[c] = "connecting"
    BY <1>3 DEF Dial, StoreTypeOK
<1>6. \A e : CommitStaged(c, e) \/ RollbackStaged(c, e) =>
                /\ status' = status
                /\ staged'[c] = IF staged[c] # None /\ staged[c].era = e THEN None ELSE staged[c]
    BY DEF CommitStaged, RollbackStaged, StoreTypeOK
<1> QED BY <1>1, <1>2, <1>4, <1>5, <1>6

\* Every call a client makes is an operation of some driver.
LEMMA StoreCalls ==
    ASSUME NEW c \in Conn
    PROVE  /\ SeedConnection(c) \/ Foreground(c) \/ CloseConnection(c) => StoreAct(c)
           /\ \A s \in Session : AdoptSession(c, s) \/ RemoveSession(c, s) \/ ViewRetained(c, s)
                                    => StoreAct(c)
           /\ \A d : Update(c, d) => StoreAct(c)
           /\ \A S \in SUBSET Session : MergeSessions(c, S) => StoreAct(c)
           /\ \A st \in {"connected", "auth_required"} : SetStatus(c, st) => StoreAct(c)
           /\ \A clean \in BOOLEAN : \A d : Disconnected(c, clean, d) => StoreAct(c)
           /\ \A resume \in BOOLEAN : \A d : Dial(c, resume, d) => StoreAct(c)
           /\ \A e \in Era : CommitStaged(c, e) \/ RollbackStaged(c, e) => StoreAct(c)
           /\ \A s \in Session, e \in Era : Stage(c, s, e) => StoreAct(c)
           /\ UNCHANGED storeVars => StoreAct(c)
<1>1. \A d : Update(c, d) => StoreAct(c)
    BY DEF StoreAct, StoreStep, Update
<1>2. \A clean \in BOOLEAN : \A d : Disconnected(c, clean, d) => StoreAct(c)
    BY DEF StoreAct, StoreStep, Disconnected
<1>3. \A resume \in BOOLEAN : \A d : Dial(c, resume, d) => StoreAct(c)
    BY DEF StoreAct, StoreStep, Dial
<1> QED BY <1>1, <1>2, <1>3 DEF StoreAct, StoreStep
-----------------------------------------------------------------------------
(* Steps.  Good is what a step of c has to be.                              *)

ClientTypeOK ==
    /\ client \in [Conn -> Client]
    /\ waiters \in [Conn -> SUBSET Waiter]
    /\ flows \in [Conn -> [FlowId -> Maybe(Flow)]]
    /\ wire \in [Conn -> {"none", "up", "down"}]
    /\ minted \in [Conn -> SUBSET Session]

Good(c) == StoreAct(c) /\ ClientTypeOK' /\ Elsewhere(c) /\ ConnInv(c)'

\* A good step keeps the inductive invariant.
LEMMA GoodKeeps ==
    ASSUME IInv, NEW c \in Conn, Good(c)
    PROVE  IInv'
BY StoreActKeeps, OthersKeep DEF IInv, TypeOK, Good, ClientTypeOK

\* The macrotasks find nothing left of a dead era, nor do the microtasks of a
\* link that is past its dial.
LEMMA NothingStale ==
    ASSUME NEW c \in Conn, ConnInv(c),
           Drained \/ \E i \in FlowId : Present(c, i) /\ flows[c][i].op # "dial"
    PROVE  \A j \in FlowId : ~Stale(c, j)
BY DEF Drained, ConnInv, StaleAlone, Stale

\* One request moves.
OneFlow(c, i, f) == flows' = [flows EXCEPT ![c][i] = f]

\* Moving one request keeps the requests well typed.
LEMMA OneFlowMoves ==
    ASSUME TypeOK, NEW c \in Conn, NEW i \in FlowId, NEW f \in Maybe(Flow), OneFlow(c, i, f)
    PROVE  /\ flows' \in [Conn -> [FlowId -> Maybe(Flow)]]
           /\ \A d \in Conn \ {c} : flows'[d] = flows[d]
           /\ client'[c].gen = client[c].gen => Moves(c, i, f)
BY DEF TypeOK, OneFlow, Moves

FlowOp == {"dial", "init", "list", "page", "ready", "resume", "load", "new", "up",
           "failed", "delete", "mode", "auth", "prompt", "close"}
Started(c, op, via, s) ==
    [op |-> op, via |-> via, era |-> client[c].gen, sess |-> s, prev |-> client[c].sid]

\* A request is started in a free place, of the live era.
LEMMA StartMoves ==
    ASSUME TypeOK, NEW c \in Conn, NEW op \in FlowOp, NEW via \in {"connect", "user", "auth"},
           NEW s \in Maybe(Session), Start(c, op, via, s)
    PROVE  /\ NextFlow(c) \in FlowId /\ flows[c][NextFlow(c)] = None
           /\ Started(c, op, via, s) \in Flow
           /\ OneFlow(c, NextFlow(c), Started(c, op, via, s))
<1>1. client[c].gen \in Era /\ client[c].sid \in Maybe(Session)
    BY DEF TypeOK, Client
<1>2. Started(c, op, via, s) \in Flow
    BY <1>1 DEF Started, Flow, FlowOp
<1> QED BY <1>2, FlowIsFree DEF Start, OneFlow, Started

\* A request that goes on keeps its caller, its era and its session.
LEMMA BecomeMoves ==
    ASSUME TypeOK, NEW c \in Conn, NEW i \in FlowId, flows[c][i] # None, NEW op \in FlowOp,
           NEW prev \in Maybe(Session),
           Become(c, i, op) \/ BecomeFrom(c, i, op, prev)
    PROVE  \E f \in Flow : /\ OneFlow(c, i, f)
                           /\ f.op = op /\ f.via = flows[c][i].via
                           /\ f.era = flows[c][i].era /\ f.sess = flows[c][i].sess
<1>1. flows[c][i] \in Flow
    BY DEF TypeOK, Maybe
<1>2. CASE Become(c, i, op)
    <2>1. [flows[c][i] EXCEPT !.op = op] \in Flow
        BY <1>1 DEF Flow, FlowOp
    <2>2. flows' = [flows EXCEPT ![c][i] = [flows[c][i] EXCEPT !.op = op]]
        BY <1>2 DEF Become, TypeOK
    <2>3. flows[c][i].op = flows[c][i].op /\ DOMAIN flows[c][i] = {"op", "via", "era", "sess", "prev"}
        BY <1>1 DEF Flow
    <2> QED BY <1>1, <2>1, <2>2, <2>3 DEF OneFlow, Flow
<1>3. CASE BecomeFrom(c, i, op, prev)
    <2>1. [flows[c][i] EXCEPT !.op = op, !.prev = prev] \in Flow
        BY <1>1 DEF Flow, FlowOp
    <2>2. flows' = [flows EXCEPT ![c][i] = [flows[c][i] EXCEPT !.op = op, !.prev = prev]]
        BY <1>3 DEF BecomeFrom, TypeOK
    <2> QED BY <1>1, <2>1, <2>2 DEF OneFlow, Flow
<1> QED BY <1>2, <1>3

\* A request that is neither load nor turn moves, and the client keeps its turn
\* and its lock.
Plain(c) ==
    /\ client' \in [Conn -> Client]
    /\ \A d \in Conn \ {c} : client'[d] = client[d]
    /\ client'[c].gen = client[c].gen /\ client'[c].turn = client[c].turn
    /\ client'[c].switching = client[c].switching
    /\ client[c].linked => client'[c].linked
    /\ waiters' = waiters
    /\ wire' \in [Conn -> {"none", "up", "down"}]
    /\ minted' \in [Conn -> SUBSET Session]

\* Such a step is good.
LEMMA MoveGood ==
    ASSUME TypeOK, ClientInv, NEW c \in Conn, NEW i \in FlowId, NEW f \in Maybe(Flow),
           OneFlow(c, i, f), StoreAct(c), Plain(c), staged' = staged,
           Starts(c, i, f) \/ Passes(c, i, f) \/ Ends(c, i, f),
           ~Awaits(c, i, "load"), ~Awaits(c, i, "prompt"),
           \/ f = None
           \/ /\ Fits(f) /\ f.op # "load" /\ f.era = client[c].gen
              /\ \A j \in FlowId : ~Stale(c, j)
    PROVE  Good(c)
<1>1. /\ flows' \in [Conn -> [FlowId -> Maybe(Flow)]]
      /\ \A d \in Conn \ {c} : flows'[d] = flows[d]
      /\ Moves(c, i, f)
    BY OneFlowMoves DEF Plain
<1>2. FlowsFit(c) /\ OneConnect(c) /\ StaleAlone(c) /\ LoadLocks(c) /\ TurnIsLive(c)
    BY DEF ClientInv, ConnInv
<1>3. client[c].turn \in FlowId \cup {0}
    BY DEF TypeOK, Client
<1>4. FlowsFit(c)'
    BY <1>1, <1>2, FitsKept
<1>5. OneConnect(c)'
    BY <1>1, <1>2, ConnectKept
<1>6. StaleAlone(c)'
    BY <1>1, <1>2, StaleKept
<1>7. LoadLocks(c)'
    BY <1>1, <1>2, LockKept DEF Plain
<1>8. TurnIsLive(c)'
    BY <1>1, <1>2, <1>3, TurnKept DEF Plain
<1>9. ConnInv(c)'
    BY <1>4, <1>5, <1>6, <1>7, <1>8 DEF ConnInv
<1>10. waiters' \in [Conn -> SUBSET Waiter]
    BY DEF Plain, TypeOK
<1> QED BY <1>1, <1>9, <1>10 DEF Good, Plain, ClientTypeOK, Elsewhere

\* A step that moves no request.
LEMMA QuietGood ==
    ASSUME TypeOK, ClientInv, NEW c \in Conn, StoreAct(c),
           staged' = staged, status' = status, UNCHANGED <<client, flows, minted>>,
           wire' \in [Conn -> {"none", "up", "down"}],
           NEW W \in SUBSET Waiter, waiters' = [waiters EXCEPT ![c] = W],
           W # {} => client[c].linked
    PROVE  Good(c)
<1>1. ClientTypeOK'
    BY DEF TypeOK, ClientTypeOK
<1>2. waiters'[c] = W /\ \A d \in Conn \ {c} : waiters'[d] = waiters[d]
    BY DEF TypeOK
<1>3. Elsewhere(c)
    BY <1>2 DEF Elsewhere
<1>4. Quiet(c)
    BY <1>2 DEF Quiet
<1>5. ConnInv(c)'
    BY <1>4, QuietKeeps DEF ClientInv
<1> QED BY <1>1, <1>3, <1>5 DEF Good

\* A step of the store, or of the wire, alone.
LEMMA SameGood ==
    ASSUME TypeOK, ClientInv, NEW c \in Conn, StoreAct(c),
           staged' = staged, status' = status, UNCHANGED <<client, flows, waiters, minted>>,
           wire' \in [Conn -> {"none", "up", "down"}]
    PROVE  Good(c)
<1>1. waiters[c] \in SUBSET Waiter /\ waiters' = [waiters EXCEPT ![c] = waiters[c]]
    BY DEF TypeOK
<1>2. waiters[c] # {} => client[c].linked
    BY DEF ClientInv, ConnInv, TurnIsLive
<1> QED BY <1>1, <1>2, QuietGood

\* A step that ends the era.
FlowsShrink(c) ==
    /\ flows' \in [Conn -> [FlowId -> Maybe(Flow)]]
    /\ \A d \in Conn \ {c} : flows'[d] = flows[d]
    /\ \A i \in FlowId : flows'[c][i] \in {flows[c][i], None}

\* Ending a request, or none, only takes requests away.
LEMMA EndShrinks ==
    ASSUME TypeOK, NEW c \in Conn, UNCHANGED flows \/ \E i \in FlowId : End(c, i)
    PROVE  FlowsShrink(c)
BY DEF TypeOK, End, FlowsShrink, Maybe

\* reportDisconnect, with whatever request it ends.
LEMMA ReportGood ==
    ASSUME TypeOK, ClientInv, NEW c \in Conn, NEW clean \in BOOLEAN, Report(c, clean),
           FlowsShrink(c)
    PROVE  Good(c)
<1>1. NextEra(c) \in Era
    BY EraIsFree
<1>2. Cleaned(c, TRUE) \in Client
    BY <1>1 DEF Cleaned, NewClient, Client, TypeOK, Maybe
<1>3. /\ client' = [client EXCEPT ![c] = Cleaned(c, TRUE)]
      /\ waiters' = [waiters EXCEPT ![c] = {}]
      /\ wire' = [wire EXCEPT ![c] = "none"]
      /\ \E d : Disconnected(c, clean, d)
      /\ minted' = minted
    BY DEF Report
<1>4. StoreAct(c) /\ staged'[c] = None
    BY <1>3, StoreCalls, StoreLeaves DEF TypeOK
<1>5. /\ Cleaned(c, TRUE).gen = NextEra(c) /\ Cleaned(c, TRUE).turn = 0
      /\ ~Cleaned(c, TRUE).switching
    BY DEF Cleaned, NewClient
<1>6. NewEra(c)
    BY <1>3, <1>4, <1>5 DEF NewEra, TypeOK
<1>7. ConnInv(c)'
    BY <1>6, NewEraKeeps DEF FlowsShrink, ClientInv
<1>8. ClientTypeOK'
    BY <1>2, <1>3 DEF TypeOK, ClientTypeOK, FlowsShrink
<1>9. Elsewhere(c)
    BY <1>3 DEF Elsewhere, FlowsShrink, TypeOK
<1> QED BY <1>4, <1>7, <1>8, <1>9 DEF Good
-----------------------------------------------------------------------------
(* The steps of the user.                                                   *)

\* A new link begins at its dial.
LEMMA ConnectGood ==
    ASSUME TypeOK, ClientInv, NEW c \in Conn, NEW resume \in BOOLEAN, Connect(c, resume)
    PROVE  Good(c)
<1> DEFINE i == NextFlow(c)
           f == [op |-> "dial", via |-> "connect", era |-> NextEra(c),
                 sess |-> IF resume THEN anchor[c] ELSE None, prev |-> None]
<1>1. NextEra(c) \in Era \ UsedEras(c)
    BY EraIsFree
<1>2. Cleaned(c, FALSE) \in Client
    BY <1>1 DEF Cleaned, NewClient, Client, TypeOK, Maybe
<1>3. /\ client' = [client EXCEPT ![c] = Cleaned(c, FALSE)]
      /\ flows' = [flows EXCEPT ![c][i] = f]
      /\ waiters' = [waiters EXCEPT ![c] = {}]
      /\ wire' = [wire EXCEPT ![c] = "none"]
      /\ \E d : Dial(c, resume, d)
      /\ minted' = minted
    BY DEF Connect
<1>4. i \in FlowId /\ flows[c][i] = None
    BY FlowIsFree DEF Connect
<1>5. f \in Flow
    BY <1>1 DEF Flow, TypeOK, StoreTypeOK, Maybe
<1>6. f.op = "dial" /\ f.via = "connect" /\ f.era = NextEra(c)
    OBVIOUS
<1>7. f # None /\ Fits(f)
    BY <1>5, <1>6 DEF Fits
<1> HIDE DEF f, i
<1>8. StoreAct(c) /\ staged'[c] = None /\ status'[c] = "connecting"
    BY <1>3, StoreCalls, StoreLeaves DEF TypeOK
<1>9. /\ flows' \in [Conn -> [FlowId -> Maybe(Flow)]]
      /\ \A d \in Conn \ {c} : flows'[d] = flows[d]
      /\ \A j \in FlowId : flows'[c][j] = IF j = i THEN f ELSE flows[c][j]
    BY <1>3, <1>4, <1>5 DEF TypeOK, Maybe
<1>10. /\ client'[c].gen = NextEra(c) /\ client'[c].turn = 0
       /\ ~client'[c].switching /\ waiters'[c] = {}
    BY <1>3 DEF Cleaned, NewClient, TypeOK
<1>11. \A j \in FlowId \ {i} : flows[c][j] # None => flows[c][j].era # NextEra(c)
    BY <1>1 DEF UsedEras, FreeFlows
<1>12. \A j \in FlowId : Present(c, j)' => j = i
    BY <1>9, <1>10, <1>11 DEF Present, Live
<1>13. flows'[c][i] = f
    BY <1>4, <1>9
<1>14. FlowsFit(c)'
    BY <1>7, <1>9 DEF ClientInv, ConnInv, FlowsFit
<1>15. OneConnect(c)'
    BY <1>6, <1>8, <1>12, <1>13 DEF OneConnect, Via
<1>16. StaleAlone(c)'
    BY <1>6, <1>12, <1>13 DEF StaleAlone
<1>17. \A j \in FlowId : ~Awaits(c, j, "load")'
    BY <1>6, <1>12, <1>13 DEF Awaits, InFlight, Present
<1>18. LoadLocks(c)' /\ TurnIsLive(c)'
    BY <1>8, <1>10, <1>17 DEF LoadLocks, TurnIsLive
<1>19. ConnInv(c)'
    BY <1>14, <1>15, <1>16, <1>18 DEF ConnInv
<1>20. ClientTypeOK'
    BY <1>2, <1>3, <1>9 DEF TypeOK, ClientTypeOK
<1>21. Elsewhere(c)
    BY <1>3, <1>9 DEF Elsewhere, TypeOK
<1> QED BY <1>8, <1>19, <1>20, <1>21 DEF Good

\* A removed connection has nothing left.
LEMMA RemoveGood ==
    ASSUME TypeOK, ClientInv, NEW c \in Conn, Remove(c)
    PROVE  Good(c)
<1>1. NewClient \in Client
    BY DEF NewClient, Client, Maybe
<1>2. NoFlows \in [FlowId -> Maybe(Flow)] /\ \A i \in FlowId : NoFlows[i] = None
    BY DEF NoFlows, Maybe
<1>3. /\ client' = [client EXCEPT ![c] = NewClient]
      /\ flows' = [flows EXCEPT ![c] = NoFlows]
      /\ waiters' = [waiters EXCEPT ![c] = {}]
      /\ wire' = [wire EXCEPT ![c] = "none"]
      /\ CloseConnection(c) /\ minted' = minted
    BY DEF Remove
<1>4. StoreAct(c) /\ staged'[c] = None
    BY <1>3, StoreCalls DEF CloseConnection, TypeOK, StoreTypeOK
<1>5. \A i \in FlowId : flows'[c][i] = None
    BY <1>2, <1>3 DEF TypeOK
<1>6. client'[c].turn = 0 /\ ~client'[c].switching /\ waiters'[c] = {}
    BY <1>3 DEF NewClient, TypeOK
<1>7. ConnInv(c)'
    BY <1>4, <1>5, <1>6 DEF ConnInv, FlowsFit, OneConnect, StaleAlone, LoadLocks, TurnIsLive,
                            Present, Stale, Awaits, InFlight
<1>8. ClientTypeOK'
    BY <1>1, <1>2, <1>3 DEF TypeOK, ClientTypeOK
<1>9. Elsewhere(c)
    BY <1>3 DEF Elsewhere, TypeOK
<1> QED BY <1>4, <1>7, <1>8, <1>9 DEF Good

\* A user's request that is neither a load nor a prompt.
LEMMA AskGood ==
    ASSUME TypeOK, ClientInv, NEW c \in Conn, Drained,
           NEW op \in {"new", "delete", "auth", "mode", "close"}, NEW via \in {"user", "auth"},
           NEW s \in Maybe(Session), Start(c, op, via, s),
           op = "delete" => s # None,
           op \notin {"mode", "close"} => status[c] # "connecting",
           StoreAct(c), staged' = staged, status' = status,
           UNCHANGED <<client, waiters, wire, minted>>
    PROVE  Good(c)
<1> DEFINE i == NextFlow(c)
           f == Started(c, op, via, s)
<1>1. op \in FlowOp
    BY DEF FlowOp
<1>2. i \in FlowId /\ flows[c][i] = None /\ f \in Flow /\ OneFlow(c, i, f)
    BY <1>1, StartMoves
<1>3. f.op = op /\ f.via = via /\ f.era = client[c].gen /\ f.sess = s
    BY DEF Started
<1> HIDE DEF i, f
<1>4. Fits(f)
    BY <1>3 DEF Fits
<1>5. Starts(c, i, f)
    BY <1>2, <1>3 DEF Starts
<1>6. \A j \in FlowId : ~Stale(c, j)
    BY NothingStale DEF ClientInv
<1>7. Plain(c)
    BY DEF Plain, TypeOK
<1>8. ~Awaits(c, i, "load") /\ ~Awaits(c, i, "prompt")
    BY <1>2 DEF Awaits, InFlight
<1> QED BY <1>2, <1>3, <1>4, <1>5, <1>6, <1>7, <1>8, MoveGood DEF Maybe

\* A prompt takes the turn.
LEMMA SendGood ==
    ASSUME TypeOK, ClientInv, NEW c \in Conn, Send(c)
    PROVE  Good(c)
<1> DEFINE i == NextFlow(c)
           s == client[c].sid
           f == Started(c, "prompt", "user", s)
<1>1. /\ Drained /\ client[c].linked /\ status[c] # "connecting"
      /\ \E d : Update(c, d)
      /\ Start(c, "prompt", "user", s)
      /\ client' = [client EXCEPT ![c].turn = i]
      /\ waiters' = waiters /\ wire' = wire /\ minted' = minted
    BY DEF Send, ComposerOpen, Linked
<1>2. s \in Maybe(Session)
    BY DEF TypeOK, Client
<1>3. i \in FlowId /\ flows[c][i] = None /\ f \in Flow /\ OneFlow(c, i, f)
    BY <1>1, <1>2, StartMoves DEF FlowOp
<1>4. f.op = "prompt" /\ f.via = "user" /\ f.era = client[c].gen
    BY DEF Started
<1> HIDE DEF i, f, s
<1>5. f # None /\ Fits(f)
    BY <1>3, <1>4 DEF Fits
<1>6. StoreAct(c) /\ staged' = staged /\ status' = status
    BY <1>1, StoreCalls, StoreLeaves DEF TypeOK
<1>7. /\ client' \in [Conn -> Client]
      /\ \A d \in Conn \ {c} : client'[d] = client[d]
      /\ client'[c].gen = client[c].gen /\ client'[c].turn = i
      /\ client'[c].switching = client[c].switching /\ client'[c].linked
    <2> DEFINE x == [client[c] EXCEPT !.turn = i]
    <2>1. client[c] \in Client
        BY DEF TypeOK
    <2>2. x \in Client
        BY <1>3, <2>1 DEF Client
    <2>3. /\ x.gen = client[c].gen /\ x.turn = i
          /\ x.switching = client[c].switching /\ x.linked = client[c].linked
        BY <2>1 DEF Client
    <2>4. client' = [client EXCEPT ![c] = x]
        BY <1>1 DEF TypeOK
    <2> HIDE DEF x
    <2> QED BY <1>1, <2>2, <2>3, <2>4 DEF TypeOK
<1>8. /\ flows' \in [Conn -> [FlowId -> Maybe(Flow)]]
      /\ \A d \in Conn \ {c} : flows'[d] = flows[d]
      /\ Moves(c, i, f)
    BY <1>3, <1>7, OneFlowMoves DEF Maybe
<1>9. FlowsFit(c) /\ OneConnect(c) /\ StaleAlone(c) /\ LoadLocks(c) /\ TurnIsLive(c)
    BY DEF ClientInv, ConnInv
<1>10. FlowsFit(c)'
    BY <1>3, <1>5, <1>8, <1>9, FitsKept
<1>11. Starts(c, i, f)
    BY <1>1, <1>3, <1>4, <1>6 DEF Starts
<1>12. OneConnect(c)'
    BY <1>3, <1>8, <1>9, <1>11, ConnectKept
<1>13. \A j \in FlowId : ~Stale(c, j)
    BY <1>1, NothingStale DEF ClientInv
<1>14. StaleAlone(c)'
    BY <1>3, <1>4, <1>8, <1>9, <1>13, StaleKept
<1>15. ~Awaits(c, i, "load")
    BY <1>3 DEF Awaits, InFlight
<1>16. LoadLocks(c)'
    BY <1>3, <1>4, <1>6, <1>7, <1>8, <1>9, <1>15, LockKept
<1>17. TurnIsLive(c)'
    BY <1>1, <1>3, <1>4, <1>5, <1>7, <1>8, <1>9, TurnTaken
<1>18. ConnInv(c)'
    BY <1>10, <1>12, <1>14, <1>16, <1>17 DEF ConnInv
<1>19. ClientTypeOK'
    BY <1>1, <1>7, <1>8 DEF TypeOK, ClientTypeOK
<1> QED BY <1>1, <1>6, <1>7, <1>8, <1>18, <1>19 DEF Good, Elsewhere

\* A user's switch takes the lock and stages.
LEMMA OpenSessionGood ==
    ASSUME TypeOK, ClientInv, NEW c \in Conn, NEW s \in Session, OpenSession(c, s)
    PROVE  Good(c)
<1> DEFINE i == NextFlow(c)
           f == Started(c, "load", "user", s)
<1>1. /\ Drained /\ status[c] # "connecting" /\ ~client[c].switching
      /\ \E x \in ForegroundSession(c) : Show(c, x)
      /\ StageSession(c, s, client[c].gen)
      /\ Start(c, "load", "user", s)
      /\ client' = [client EXCEPT ![c].sid = s, ![c].switching = TRUE]
      /\ waiters' = waiters /\ wire' = wire /\ minted' = minted
    BY DEF OpenSession
<1>2. i \in FlowId /\ flows[c][i] = None /\ f \in Flow /\ OneFlow(c, i, f)
    BY <1>1, StartMoves DEF FlowOp, Maybe
<1>3. f.op = "load" /\ f.via = "user" /\ f.era = client[c].gen /\ f.sess = s
    BY DEF Started
<1> HIDE DEF i, f
<1>4. f # None /\ Fits(f)
    BY <1>2, <1>3 DEF Fits
<1>5. FlowsFit(c) /\ OneConnect(c) /\ StaleAlone(c) /\ LoadLocks(c) /\ TurnIsLive(c)
    BY DEF ClientInv, ConnInv
<1>6. staged[c] = None
    BY <1>1, <1>5 DEF LoadLocks
<1>7. client[c].gen \in Era
    BY DEF TypeOK, Client
<1>8. StoreAct(c)
    BY <1>1, <1>6, <1>7, StoreCalls DEF Stage
<1>9. status' = status
    BY <1>1 DEF StageSession
<1>10. staged'[c] # None /\ staged'[c].era = f.era /\ staged'[c].target = f.sess
    <2>1. StoreTypeOK'
        BY <1>8, StoreActKeeps DEF TypeOK
    <2> DEFINE snap == [target |-> s, prev |-> port[c], doc |-> docs[c][s],
                        anchor |-> anchor[c], token |-> NextSelection, era |-> client[c].gen]
    <2>2. staged'[c] = snap
        BY <1>1 DEF StageSession, TypeOK, StoreTypeOK
    <2>3. snap \in Snapshot
        BY <1>7 DEF Snapshot, NextSelection, TypeOK, StoreTypeOK
    <2>4. snap # None
        BY <2>3, NoneAssumption
    <2> QED BY <1>3, <2>2, <2>4
<1>11. /\ client' \in [Conn -> Client]
       /\ \A d \in Conn \ {c} : client'[d] = client[d]
       /\ client'[c].gen = client[c].gen /\ client'[c].turn = client[c].turn
       /\ client'[c].switching /\ client'[c].linked = client[c].linked
    <2> DEFINE x == [client[c] EXCEPT !.sid = s, !.switching = TRUE]
    <2>1. client[c] \in Client
        BY DEF TypeOK
    <2>2. x \in Client
        BY <2>1 DEF Client, Maybe
    <2>3. /\ x.gen = client[c].gen /\ x.turn = client[c].turn
          /\ x.switching /\ x.linked = client[c].linked
        BY <2>1 DEF Client
    <2>4. client' = [client EXCEPT ![c] = x]
        BY <1>1 DEF TypeOK
    <2> HIDE DEF x
    <2> QED BY <2>2, <2>3, <2>4 DEF TypeOK
<1>12. /\ flows' \in [Conn -> [FlowId -> Maybe(Flow)]]
       /\ \A d \in Conn \ {c} : flows'[d] = flows[d]
       /\ Moves(c, i, f)
    BY <1>2, <1>11, OneFlowMoves DEF Maybe
<1>13. FlowsFit(c)'
    BY <1>2, <1>4, <1>5, <1>12, FitsKept
<1>14. Starts(c, i, f)
    BY <1>1, <1>2, <1>3, <1>9 DEF Starts
<1>15. OneConnect(c)'
    BY <1>2, <1>5, <1>12, <1>14, ConnectKept
<1>16. \A j \in FlowId : ~Stale(c, j)
    BY <1>1, NothingStale DEF ClientInv
<1>17. StaleAlone(c)'
    BY <1>2, <1>3, <1>5, <1>12, <1>16, StaleKept
<1>18. LoadLocks(c)'
    BY <1>2, <1>3, <1>4, <1>5, <1>6, <1>10, <1>11, <1>12, LockTaken
<1>19. client[c].turn \in FlowId \cup {0}
    BY DEF TypeOK, Client
<1>20. TurnIsLive(c)'
    BY <1>1, <1>2, <1>5, <1>11, <1>12, <1>19, TurnKept DEF Awaits, InFlight
<1>21. ConnInv(c)'
    BY <1>13, <1>15, <1>17, <1>18, <1>20 DEF ConnInv
<1>22. ClientTypeOK'
    BY <1>1, <1>11, <1>12 DEF TypeOK, ClientTypeOK
<1> QED BY <1>1, <1>8, <1>11, <1>12, <1>21, <1>22 DEF Good, Elsewhere

\* One waiter is answered.
LEMMA SettleGood ==
    ASSUME TypeOK, ClientInv, NEW c \in Conn, NEW w, Settle(c, w)
    PROVE  Good(c)
<1> DEFINE W == waiters[c] \ {w}
<1>1. W \in SUBSET Waiter
    BY DEF TypeOK
<1>2. W # {} => client[c].linked
    BY DEF ClientInv, ConnInv, TurnIsLive
<1>3. waiters' = [waiters EXCEPT ![c] = W] /\ \E d : Update(c, d)
    BY DEF Settle
<1>4. UNCHANGED <<client, flows, wire, minted>>
    BY DEF Settle
<1>5. StoreAct(c) /\ staged' = staged /\ status' = status
    BY <1>3, StoreCalls, StoreLeaves DEF TypeOK
<1> HIDE DEF W
<1>6. wire' \in [Conn -> {"none", "up", "down"}]
    BY <1>4 DEF TypeOK
<1> QED BY <1>1, <1>2, <1>3, <1>4, <1>5, <1>6, QuietGood

\* Every step of the user is good.
LEMMA UserGood ==
    ASSUME TypeOK, ClientInv, NEW c \in Conn, User(c)
    PROVE  Good(c)
<1>0. /\ client[c].sid \in Maybe(Session)
      /\ None \in Maybe(Session) /\ Session \subseteq Maybe(Session) /\ None \notin Session
    BY NoneAssumption DEF TypeOK, Client, Maybe
<1>1. ASSUME NEW resume \in BOOLEAN, Connect(c, resume) PROVE Good(c)
    BY <1>1, ConnectGood
<1>2. CASE Disconnect(c)
    <2>1. CASE DisconnectFirst(c)
        <3>1. StoreAct(c) /\ staged' = staged /\ status' = status
            BY <2>1, StoreCalls, StoreLeaves DEF DisconnectFirst, TypeOK
        <3> QED BY <1>0, <1>2, <2>1, <3>1, AskGood DEF Disconnect, DisconnectFirst
    <2>2. CASE Report(c, TRUE) /\ UNCHANGED flows
        BY <2>2, EndShrinks, ReportGood
    <2> QED BY <1>2, <2>1, <2>2 DEF Disconnect
<1>3. CASE Remove(c)
    BY <1>3, RemoveGood
<1>4. CASE Seed(c) \/ ForegroundConnection(c) \/ \E s \in Session : OpenRetained(c, s)
    <2>1. UNCHANGED clientVars
        BY <1>4 DEF Seed, ForegroundConnection, OpenRetained
    <2>2. SeedConnection(c) \/ Foreground(c) \/ \E s \in Session : ViewRetained(c, s)
        BY <1>4 DEF Seed, ForegroundConnection, OpenRetained
    <2>3. StoreAct(c) /\ staged' = staged /\ status' = status
        BY <2>2, StoreCalls, StoreLeaves DEF TypeOK
    <2> QED BY <2>1, <2>3, SameGood DEF clientVars, TypeOK
<1>5. CASE NewSession(c)
    <2>1. StoreAct(c) /\ staged' = staged /\ status' = status
        BY <1>5, StoreCalls, StoreLeaves DEF NewSession, TypeOK
    <2> QED BY <1>0, <1>5, <2>1, AskGood DEF NewSession
<1>6. ASSUME NEW s \in Session, OpenSession(c, s) PROVE Good(c)
    BY <1>6, OpenSessionGood
<1>7. ASSUME NEW s \in Session, DeleteSession(c, s) PROVE Good(c)
    <2>1. StoreAct(c) /\ staged' = staged /\ status' = status
        BY <1>7, StoreCalls, StoreLeaves DEF DeleteSession, TypeOK
    <2> QED BY <1>0, <1>7, <2>1, AskGood DEF DeleteSession
<1>8. CASE Authenticate(c)
    <2>1. StoreAct(c) /\ staged' = staged /\ status' = status
        BY <1>8, StoreCalls, StoreLeaves DEF Authenticate, TypeOK
    <2> QED BY <1>0, <1>8, <2>1, AskGood DEF Authenticate
<1>9. CASE Send(c)
    BY <1>9, SendGood
<1>10. CASE Cancel(c)
    <2>1. /\ \E d : Update(c, d)
          /\ waiters' = [waiters EXCEPT ![c] = {}] /\ UNCHANGED <<client, flows, wire, minted>>
        BY <1>10 DEF Cancel
    <2>2. StoreAct(c) /\ staged' = staged /\ status' = status
        BY <2>1, StoreCalls, StoreLeaves DEF TypeOK
    <2>3. {} \in SUBSET Waiter /\ wire' \in [Conn -> {"none", "up", "down"}]
        BY <2>1 DEF TypeOK
    <2> QED BY <2>1, <2>2, <2>3, QuietGood
<1>11. ASSUME NEW t \in Tool, ResolvePermission(c, t) PROVE Good(c)
    BY <1>11, SettleGood DEF ResolvePermission
<1>12. CASE SetMode(c)
    <2>1. StoreAct(c) /\ staged' = staged /\ status' = status
        BY <1>12, StoreCalls, StoreLeaves DEF SetMode, TypeOK
    <2> QED BY <1>0, <1>12, <2>1, AskGood DEF SetMode
<1> QED BY <1>1, <1>2, <1>3, <1>4, <1>5, <1>6, <1>7, <1>8, <1>9, <1>10, <1>11, <1>12 DEF User
-----------------------------------------------------------------------------
(* The continuations of requests.                                           *)

\* The other fields of a client are not part of what the invariant looks at.
LEMMA FieldsPlain ==
    ASSUME TypeOK, NEW c \in Conn, NEW x \in Client, client' = [client EXCEPT ![c] = x],
           x.gen = client[c].gen, x.turn = client[c].turn,
           x.switching = client[c].switching, client[c].linked => x.linked,
           waiters' = waiters,
           wire' \in [Conn -> {"none", "up", "down"}], minted' \in [Conn -> SUBSET Session]
    PROVE  Plain(c)
BY DEF Plain, TypeOK

\* In particular the routed session is not.
LEMMA SidPlain ==
    ASSUME TypeOK, NEW c \in Conn, NEW s \in Maybe(Session),
           client' = [client EXCEPT ![c].sid = s], waiters' = waiters, wire' = wire,
           minted' \in [Conn -> SUBSET Session]
    PROVE  Plain(c)
<1> DEFINE x == [client[c] EXCEPT !.sid = s]
<1>1. client[c] \in Client
    BY DEF TypeOK
<1>2. x \in Client
    BY <1>1 DEF Client
<1>3. /\ x.gen = client[c].gen /\ x.turn = client[c].turn
      /\ x.switching = client[c].switching /\ x.linked = client[c].linked
    BY <1>1 DEF Client
<1>4. client' = [client EXCEPT ![c] = x]
    BY DEF TypeOK
<1> HIDE DEF x
<1> QED BY <1>2, <1>3, <1>4, FieldsPlain DEF TypeOK

\* A request that is neither load nor turn goes on to its next await.
LEMMA PassGood ==
    ASSUME TypeOK, ClientInv, NEW c \in Conn, NEW i \in FlowId,
           Present(c, i), flows[c][i].op \notin {"load", "prompt", "mode", "close"},
           Drained \/ flows[c][i].op # "dial",
           NEW op \in {"init", "list", "page", "ready", "resume", "new", "up", "failed"},
           op \notin {"new", "up"} => Via(c, i) = "connect",
           op = "up" => Via(c, i) # "user",
           NEW prev \in Maybe(Session), Become(c, i, op) \/ BecomeFrom(c, i, op, prev),
           StoreAct(c), Plain(c), staged' = staged, status'[c] = status[c]
    PROVE  Good(c)
<1>1. flows[c][i] # None /\ flows[c][i].era = client[c].gen
    BY DEF Present, Live
<1>2. op \in FlowOp
    BY DEF FlowOp
<1>3. PICK f \in Flow : /\ OneFlow(c, i, f)
                        /\ f.op = op /\ f.via = flows[c][i].via
                        /\ f.era = flows[c][i].era /\ f.sess = flows[c][i].sess
    BY <1>1, <1>2, BecomeMoves
<1>4. Fits(f)
    BY <1>3 DEF Fits, Via
<1>5. Passes(c, i, f)
    BY <1>3 DEF Passes, Via
<1>6. \A j \in FlowId : ~Stale(c, j)
    BY NothingStale DEF ClientInv
<1>7. ~Awaits(c, i, "load") /\ ~Awaits(c, i, "prompt") /\ f.op # "load"
    BY <1>3 DEF Awaits, InFlight
<1>8. f \in Maybe(Flow)
    BY DEF Maybe
<1> QED BY <1>1, <1>3, <1>4, <1>5, <1>6, <1>7, <1>8, MoveGood

\* It ends.
LEMMA EndGood ==
    ASSUME TypeOK, ClientInv, NEW c \in Conn, NEW i \in FlowId, End(c, i),
           ~Awaits(c, i, "load"), ~Awaits(c, i, "prompt"),
           StoreAct(c), Plain(c), staged' = staged,
           \/ status'[c] = status[c]
           \/ /\ Present(c, i) /\ flows[c][i].op \notin {"mode", "close"}
              /\ status'[c] # "connecting"
    PROVE  Good(c)
<1>1. None \in Maybe(Flow) /\ OneFlow(c, i, None)
    BY DEF Maybe, End, OneFlow
<1>2. Ends(c, i, None)
    BY DEF Ends
<1> QED BY <1>1, <1>2, MoveGood

\* It fails.
LEMMA FailGood ==
    ASSUME TypeOK, ClientInv, NEW c \in Conn, NEW i \in FlowId, Present(c, i),
           flows[c][i].op \notin {"load", "prompt", "mode", "close"}, ChallengeOrReport(c, i)
    PROVE  Good(c)
<1>1. End(c, i)
    BY DEF ChallengeOrReport
<1>2. CASE Challenge(c)
    <2>1. StoreAct(c) /\ staged' = staged /\ status'[c] # "connecting"
        BY <1>2, StoreCalls, StoreLeaves DEF Challenge, TypeOK
    <2>2. Plain(c)
        BY <1>2 DEF Challenge, Plain, TypeOK
    <2>3. ~Awaits(c, i, "load") /\ ~Awaits(c, i, "prompt")
        BY DEF Awaits, InFlight
    <2> QED BY <1>1, <2>1, <2>2, <2>3, EndGood
<1>3. CASE Report(c, FALSE)
    BY <1>1, <1>3, EndShrinks, ReportGood
<1> QED BY <1>2, <1>3 DEF ChallengeOrReport

\* A load ends its transaction; the link goes on with what f says.
LEMMA LoadGood ==
    ASSUME TypeOK, ClientInv, NEW c \in Conn, NEW i \in FlowId, Drained,
           Awaits(c, i, "load"),
           CommitStaged(c, flows[c][i].era) \/ RollbackStaged(c, flows[c][i].era),
           NEW op \in {"up", "failed"},
           IF Via(c, i) = "user" THEN End(c, i) ELSE Become(c, i, op),
           client' \in [Conn -> Client],
           \A d \in Conn \ {c} : client'[d] = client[d],
           client'[c].gen = client[c].gen, client'[c].turn = client[c].turn,
           ~client'[c].switching, client'[c].linked = client[c].linked,
           waiters' = waiters, wire' = wire, minted' = minted
    PROVE  Good(c)
<1>1. FlowsFit(c) /\ OneConnect(c) /\ StaleAlone(c) /\ LoadLocks(c) /\ TurnIsLive(c)
    BY DEF ClientInv, ConnInv
<1>2. /\ flows[c][i] # None /\ flows[c][i] \in Flow /\ flows[c][i].op = "load"
      /\ flows[c][i].era = client[c].gen /\ Present(c, i)
    BY DEF Awaits, InFlight, Live, Present, TypeOK, Maybe
<1>3. StoreAct(c) /\ status' = status
    BY <1>2, StoreCalls, StoreLeaves DEF TypeOK, Flow
<1>4. staged'[c] = None
    BY <1>1, <1>2, StoreLeaves DEF LoadLocks, TypeOK, Awaits, InFlight, Live
<1>5. Via(c, i) # "user" => Via(c, i) = "connect"
    BY <1>1, <1>2 DEF FlowsFit, Fits, Via, Flow
<1>6. PICK f \in Maybe(Flow) :
        /\ OneFlow(c, i, f)
        /\ f = None \/ (/\ f # None /\ f.op = op /\ f.via = flows[c][i].via
                        /\ f.era = flows[c][i].era /\ Via(c, i) = "connect")
    <2>1. CASE Via(c, i) = "user"
        BY <2>1 DEF End, OneFlow, Maybe
    <2>2. CASE Via(c, i) # "user"
        <3>1. op \in FlowOp /\ None \in Maybe(Session)
            BY DEF FlowOp, Maybe
        <3>2. PICK g \in Flow : /\ OneFlow(c, i, g)
                                /\ g.op = op /\ g.via = flows[c][i].via
                                /\ g.era = flows[c][i].era
            <4>1. Become(c, i, op) \/ BecomeFrom(c, i, op, None)
                BY <2>2
            <4> QED BY <1>2, <3>1, <4>1, BecomeMoves
        <3> QED BY <1>5, <2>2, <3>2 DEF Maybe
    <2> QED BY <2>1, <2>2
<1>7. /\ flows' \in [Conn -> [FlowId -> Maybe(Flow)]]
      /\ \A d \in Conn \ {c} : flows'[d] = flows[d]
      /\ Moves(c, i, f)
    BY <1>6, OneFlowMoves
<1>8. f # None => Fits(f) /\ f.op # "load"
    BY <1>6 DEF Fits, Via
<1>9. FlowsFit(c)'
    BY <1>1, <1>7, <1>8, FitsKept
<1>10. Passes(c, i, f) \/ Ends(c, i, f)
    BY <1>2, <1>3, <1>6 DEF Passes, Ends, Via
<1>11. OneConnect(c)'
    BY <1>1, <1>7, <1>10, ConnectKept
<1>12. \A j \in FlowId : ~Stale(c, j)
    BY NothingStale DEF ClientInv
<1>13. StaleAlone(c)'
    BY <1>1, <1>2, <1>6, <1>7, <1>12, StaleKept
<1>14. LoadLocks(c)'
    BY <1>1, <1>4, <1>7, <1>8, LockReleased
<1>15. client[c].turn \in FlowId \cup {0} /\ ~Awaits(c, i, "prompt")
    BY <1>2 DEF TypeOK, Client, Awaits, InFlight
<1>16. TurnIsLive(c)'
    BY <1>1, <1>7, <1>15, TurnKept
<1>17. ConnInv(c)'
    BY <1>9, <1>11, <1>13, <1>14, <1>16 DEF ConnInv
<1>18. ClientTypeOK'
    BY <1>7 DEF TypeOK, ClientTypeOK
<1> QED BY <1>3, <1>7, <1>17, <1>18 DEF Good, Elsewhere

\* A turn ends, whether it is still the client's turn or not.
LEMMA TurnGood ==
    ASSUME TypeOK, ClientInv, NEW c \in Conn, NEW i \in FlowId, InFlight(c, i, "prompt"),
           NEW d, TurnOver(c, i, d),
           NEW W \in SUBSET waiters[c], waiters' = [waiters EXCEPT ![c] = W]
    PROVE  Good(c)
<1>1. FlowsFit(c) /\ OneConnect(c) /\ StaleAlone(c) /\ LoadLocks(c) /\ TurnIsLive(c)
    BY DEF ClientInv, ConnInv
<1>2. client[c] \in Client /\ client[c].turn \in FlowId \cup {0}
    BY DEF TypeOK, Client
<1> DEFINE turn == IF client[c].turn = i THEN 0 ELSE client[c].turn
           x == [client[c] EXCEPT !.turn = turn]
<1>3. client' = [client EXCEPT ![c] = x] /\ (\E e : Update(c, e)) /\ End(c, i)
      /\ wire' = wire /\ minted' = minted
    BY DEF TurnOver, TypeOK
<1>4. x \in Client /\ x.turn = turn /\ x.gen = client[c].gen
      /\ x.switching = client[c].switching /\ x.linked = client[c].linked
    BY <1>2 DEF Client
<1>5. turn = IF client[c].turn = i THEN 0 ELSE client[c].turn
    OBVIOUS
<1> HIDE DEF x, turn
<1>6. /\ client' \in [Conn -> Client]
      /\ \A e \in Conn \ {c} : client'[e] = client[e]
      /\ client'[c] = x
    BY <1>3, <1>4 DEF TypeOK
<1>7. /\ waiters' \in [Conn -> SUBSET Waiter]
      /\ \A e \in Conn \ {c} : waiters'[e] = waiters[e]
      /\ waiters'[c] \subseteq waiters[c]
    BY DEF TypeOK
<1>8. StoreAct(c) /\ staged' = staged /\ status' = status
    BY <1>3, StoreCalls, StoreLeaves DEF TypeOK
<1>9. None \in Maybe(Flow) /\ OneFlow(c, i, None)
    BY <1>3 DEF End, OneFlow, Maybe
<1>10. /\ flows' \in [Conn -> [FlowId -> Maybe(Flow)]]
       /\ \A e \in Conn \ {c} : flows'[e] = flows[e]
       /\ Moves(c, i, None)
    BY <1>4, <1>6, <1>9, OneFlowMoves
<1>11. FlowsFit(c)'
    BY <1>1, <1>10, FitsKept
<1>12. Ends(c, i, None)
    BY <1>8 DEF Ends
<1>13. OneConnect(c)'
    BY <1>1, <1>10, <1>12, ConnectKept
<1>14. StaleAlone(c)'
    BY <1>1, <1>10, StaleKept
<1>15. ~Awaits(c, i, "load")
    BY DEF Awaits, InFlight
<1>16. LoadLocks(c)'
    BY <1>1, <1>4, <1>6, <1>8, <1>10, <1>15, LockKept
<1>17. TurnIsLive(c)'
    BY <1>1, <1>2, <1>4, <1>5, <1>6, <1>7, <1>10, TurnReleased
<1>18. ConnInv(c)'
    BY <1>11, <1>13, <1>14, <1>16, <1>17 DEF ConnInv
<1>19. ClientTypeOK'
    BY <1>3, <1>6, <1>7, <1>10 DEF TypeOK, ClientTypeOK
<1> QED BY <1>6, <1>7, <1>8, <1>10, <1>18, <1>19 DEF Good, Elsewhere

\* connect replays a session by a load of its own.
LEMMA ReplayGood ==
    ASSUME TypeOK, ClientInv, NEW c \in Conn, NEW i \in FlowId, Awaits(c, i, "ready"),
           flows[c][i].sess # None, Replay(c, i, flows[c][i].sess),
           waiters' = waiters, wire' = wire, minted' = minted
    PROVE  Good(c)
<1> DEFINE s == flows[c][i].sess
<1>1. FlowsFit(c) /\ OneConnect(c) /\ StaleAlone(c) /\ LoadLocks(c) /\ TurnIsLive(c)
    BY DEF ClientInv, ConnInv
<1>2. /\ flows[c][i] # None /\ flows[c][i] \in Flow /\ flows[c][i].op = "ready"
      /\ flows[c][i].era = client[c].gen /\ Present(c, i) /\ Via(c, i) = "connect"
    BY <1>1 DEF Awaits, InFlight, Live, Present, TypeOK, Maybe, FlowsFit, Fits, Via
<1>3. s \in Session
    BY <1>2 DEF Flow, Maybe
<1>4. ASSUME NEW j \in FlowId, Awaits(c, j, "load") PROVE FALSE
    <2>1. Present(c, j) /\ flows[c][j].op = "load" /\ i # j
        BY <1>2, <1>4 DEF Awaits, InFlight, Present
    <2> QED BY <1>1, <1>2, <2>1 DEF OneConnect
<1>5. staged[c] = None
    BY <1>1, <1>4 DEF LoadLocks
<1>6. /\ client' = [client EXCEPT ![c].sid = s, ![c].switching = TRUE]
      /\ StageSession(c, s, client[c].gen)
      /\ UNCHANGED <<activeConn, activeSess>>
      /\ BecomeFrom(c, i, "load", client[c].sid)
    BY DEF Replay
<1>7. client[c] \in Client /\ client[c].gen \in Era /\ client[c].sid \in Maybe(Session)
    BY DEF TypeOK, Client
<1>8. StoreAct(c)
    BY <1>3, <1>5, <1>6, <1>7, StoreCalls DEF Stage
<1>9. status' = status
    BY <1>6 DEF StageSession
<1>10. staged'[c] # None /\ staged'[c].era = client[c].gen /\ staged'[c].target = s
    <2> DEFINE snap == [target |-> s, prev |-> port[c], doc |-> docs[c][s],
                        anchor |-> anchor[c], token |-> NextSelection, era |-> client[c].gen]
    <2>1. staged'[c] = snap
        BY <1>6 DEF StageSession, TypeOK, StoreTypeOK
    <2>2. snap \in Snapshot
        BY <1>3, <1>7 DEF Snapshot, NextSelection, TypeOK, StoreTypeOK
    <2>3. snap # None
        BY <2>2, NoneAssumption
    <2> QED BY <2>1, <2>3
<1>11. PICK f \in Flow : /\ OneFlow(c, i, f)
                         /\ f.op = "load" /\ f.via = flows[c][i].via
                         /\ f.era = flows[c][i].era /\ f.sess = flows[c][i].sess
    BY <1>2, <1>6, <1>7, BecomeMoves DEF FlowOp
<1>12. f # None /\ f \in Maybe(Flow)
    BY DEF Maybe
<1>13. Fits(f)
    BY <1>2, <1>11 DEF Fits, Via
<1>14. /\ client' \in [Conn -> Client]
       /\ \A d \in Conn \ {c} : client'[d] = client[d]
       /\ client'[c].gen = client[c].gen /\ client'[c].turn = client[c].turn
       /\ client'[c].switching /\ client'[c].linked = client[c].linked
    <2> DEFINE x == [client[c] EXCEPT !.sid = s, !.switching = TRUE]
    <2>1. x \in Client
        BY <1>3, <1>7 DEF Client, Maybe
    <2>2. /\ x.gen = client[c].gen /\ x.turn = client[c].turn
          /\ x.switching /\ x.linked = client[c].linked
        BY <1>7 DEF Client
    <2>3. client' = [client EXCEPT ![c] = x]
        BY <1>6 DEF TypeOK
    <2> HIDE DEF x
    <2> QED BY <2>1, <2>2, <2>3 DEF TypeOK
<1>15. /\ flows' \in [Conn -> [FlowId -> Maybe(Flow)]]
       /\ \A d \in Conn \ {c} : flows'[d] = flows[d]
       /\ Moves(c, i, f)
    BY <1>11, <1>12, <1>14, OneFlowMoves
<1>16. FlowsFit(c)'
    BY <1>1, <1>13, <1>15, FitsKept
<1>17. Passes(c, i, f)
    BY <1>2, <1>9, <1>11 DEF Passes, Via
<1>18. OneConnect(c)'
    BY <1>1, <1>15, <1>17, ConnectKept
<1>19. \A j \in FlowId : ~Stale(c, j)
    BY <1>2, NothingStale DEF ClientInv
<1>20. StaleAlone(c)'
    BY <1>1, <1>2, <1>11, <1>15, <1>19, StaleKept
<1>21. LoadLocks(c)'
    BY <1>1, <1>2, <1>5, <1>10, <1>11, <1>12, <1>14, <1>15, LockTaken
<1>22. client[c].turn \in FlowId \cup {0} /\ ~Awaits(c, i, "prompt")
    BY <1>2, <1>7 DEF Client, Awaits, InFlight
<1>23. TurnIsLive(c)'
    BY <1>1, <1>14, <1>15, <1>22, TurnKept
<1>24. ConnInv(c)'
    BY <1>16, <1>18, <1>20, <1>21, <1>23 DEF ConnInv
<1>25. ClientTypeOK'
    BY <1>14, <1>15 DEF TypeOK, ClientTypeOK
<1> QED BY <1>8, <1>14, <1>15, <1>24, <1>25 DEF Good, Elsewhere

\* connect goes on by resume, by replay or by a new session.
LEMMA EstablishGood ==
    ASSUME TypeOK, ClientInv, NEW c \in Conn, NEW i \in FlowId, Establish(c, i)
    PROVE  Good(c)
<1> DEFINE s == flows[c][i].sess
<1>1. /\ flows[c][i] \in Flow /\ flows[c][i].op = "ready" /\ Awaits(c, i, "ready")
      /\ Present(c, i) /\ Via(c, i) = "connect"
    <2>1. flows[c][i] # None /\ flows[c][i].op = "ready" /\ Awaits(c, i, "ready") /\ Present(c, i)
        BY DEF Establish, Awaits, InFlight, Present
    <2>2. flows[c][i] \in Flow
        BY <2>1 DEF TypeOK, Maybe
    <2> QED BY <2>1, <2>2 DEF ClientInv, ConnInv, FlowsFit, Fits, Via
<1>2. waiters' = waiters /\ wire' = wire /\ minted' = minted
    BY DEF Establish
<1>3. client[c].sid \in Maybe(Session)
    BY DEF TypeOK, Client
<1>4. CASE s # None /\ Resume(c, i, s)
    <2>1. s \in Session
        BY <1>1, <1>4 DEF Flow, Maybe
    <2>2. StoreAct(c) /\ staged' = staged /\ status' = status
        BY <1>4, <2>1, StoreCalls, StoreLeaves DEF Resume, TypeOK
    <2>3. Plain(c)
        <3>1. client' = [client EXCEPT ![c].sid = s]
            BY <1>4 DEF Resume
        <3> QED BY <1>2, <2>1, <3>1, SidPlain DEF TypeOK, Maybe
    <2>4. Become(c, i, "resume")
        BY <1>4 DEF Resume
    <2> QED BY <1>1, <1>3, <2>2, <2>3, <2>4, PassGood
<1>5. CASE s # None /\ Replay(c, i, s)
    BY <1>1, <1>2, <1>5, ReplayGood
<1>6. CASE BecomeFrom(c, i, "new", client[c].sid) /\ UNCHANGED <<storeVars, client>>
    <2>1. StoreAct(c) /\ staged' = staged /\ status' = status
        BY <1>6, StoreCalls, StoreLeaves DEF TypeOK
    <2>2. Plain(c)
        BY <1>2, <1>6 DEF Plain, TypeOK
    <2> QED BY <1>1, <1>3, <1>6, <2>1, <2>2, PassGood
<1> QED BY <1>4, <1>5, <1>6 DEF Establish

\* A dial ends, superseded or not.
LEMMA DialGood ==
    ASSUME TypeOK, ClientInv, NEW c \in Conn, NEW i \in FlowId,
           DialDone(c, i) \/ DialFail(c, i)
    PROVE  Good(c)
<1>1. flows[c][i] # None /\ flows[c][i].op = "dial" /\ Drained /\ Via(c, i) = "connect"
    <2>1. flows[c][i] # None /\ flows[c][i].op = "dial" /\ Drained
        BY DEF DialDone, DialFail, InFlight
    <2> QED BY <2>1 DEF ClientInv, ConnInv, FlowsFit, Fits, Via
<1>2. ~Awaits(c, i, "load") /\ ~Awaits(c, i, "prompt")
    BY <1>1 DEF Awaits, InFlight
<1>3. CASE DialDone(c, i)
    <2>1. StoreAct(c) /\ staged' = staged /\ status' = status
        BY <1>3, StoreCalls, StoreLeaves DEF DialDone, TypeOK
    <2>2. CASE Live(c, flows[c][i])
        <3>1. /\ client' = [client EXCEPT ![c].linked = TRUE]
              /\ wire' = [wire EXCEPT ![c] = "up"]
              /\ waiters' = waiters /\ minted' = minted /\ Become(c, i, "init")
            BY <1>3, <2>2 DEF DialDone
        <3>2. Plain(c)
            <4> DEFINE x == [client[c] EXCEPT !.linked = TRUE]
            <4>1. client[c] \in Client
                BY DEF TypeOK
            <4>2. x \in Client
                BY <4>1 DEF Client
            <4>3. /\ x.gen = client[c].gen /\ x.turn = client[c].turn
                  /\ x.switching = client[c].switching /\ x.linked
                BY <4>1 DEF Client
            <4>4. client' = [client EXCEPT ![c] = x]
                BY <3>1 DEF TypeOK
            <4>5. wire' \in [Conn -> {"none", "up", "down"}]
                BY <3>1 DEF TypeOK
            <4> HIDE DEF x
            <4> QED BY <3>1, <4>2, <4>3, <4>4, <4>5, FieldsPlain DEF TypeOK
        <3>3. Present(c, i) /\ None \in Maybe(Session)
            BY <1>1, <2>2 DEF Present, Maybe
        <3> QED BY <1>1, <2>1, <3>1, <3>2, <3>3, PassGood
    <2>3. CASE ~Live(c, flows[c][i])
        <3>1. Plain(c) /\ End(c, i)
            BY <1>3, <2>3 DEF DialDone, Plain, TypeOK
        <3> QED BY <1>2, <2>1, <3>1, EndGood
    <2> QED BY <2>2, <2>3
<1>4. CASE DialFail(c, i)
    <2>1. End(c, i)
        BY <1>4 DEF DialFail
    <2>2. CASE Live(c, flows[c][i])
        BY <1>4, <2>1, <2>2, EndShrinks, ReportGood DEF DialFail
    <2>3. CASE ~Live(c, flows[c][i])
        <3>1. Plain(c) /\ UNCHANGED storeVars
            BY <1>4, <2>3 DEF DialFail, Plain, TypeOK
        <3>2. StoreAct(c) /\ staged' = staged /\ status' = status
            BY <3>1, StoreCalls, StoreLeaves DEF TypeOK
        <3> QED BY <1>2, <2>1, <3>1, <3>2, EndGood
    <2> QED BY <2>2, <2>3
<1> QED BY <1>3, <1>4

\* session/new was answered.
LEMMA NewDoneGood ==
    ASSUME TypeOK, ClientInv, NEW c \in Conn, NEW i \in FlowId, NEW s \in Session,
           NewDone(c, i, s)
    PROVE  Good(c)
<1>1. /\ flows[c][i] # None /\ flows[c][i].op = "new" /\ Present(c, i)
    BY DEF NewDone, Answered, Awaits, InFlight, Present
<1>2. ~Awaits(c, i, "load") /\ ~Awaits(c, i, "prompt") /\ None \in Maybe(Session)
    BY <1>1 DEF Awaits, InFlight, Maybe
<1>3. StoreAct(c) /\ staged' = staged /\ status' = status
    BY StoreCalls, StoreLeaves DEF NewDone, TypeOK
<1>4. Plain(c)
    <2>1. client' = [client EXCEPT ![c].sid = s] /\ waiters' = waiters /\ wire' = wire
        BY DEF NewDone
    <2>2. minted' \in [Conn -> SUBSET Session]
        BY DEF NewDone, TypeOK
    <2> QED BY <2>1, <2>2, SidPlain DEF Maybe
<1>5. CASE Via(c, i) = "user"
    <2>1. End(c, i)
        BY <1>5 DEF NewDone
    <2> QED BY <1>2, <1>3, <1>4, <2>1, EndGood
<1>6. CASE Via(c, i) # "user"
    <2>1. Become(c, i, "up")
        BY <1>6 DEF NewDone
    <2> QED BY <1>1, <1>2, <1>3, <1>4, <1>6, <2>1, PassGood
<1> QED BY <1>5, <1>6

\* session/delete was answered.
LEMMA DeleteDoneGood ==
    ASSUME TypeOK, ClientInv, NEW c \in Conn, NEW i \in FlowId, DeleteDone(c, i)
    PROVE  Good(c)
<1> DEFINE s == flows[c][i].sess
           sid == IF client[c].sid = s THEN None ELSE client[c].sid
<1>1. /\ flows[c][i] \in Flow /\ flows[c][i].op = "delete"
      /\ client[c].sid \in Maybe(Session)
    BY DEF DeleteDone, Answered, Awaits, InFlight, TypeOK, Maybe, Client
<1>2. s \in Session
    <2>1. Fits(flows[c][i])
        BY DEF ClientInv, ConnInv, FlowsFit, DeleteDone, Answered, Awaits, InFlight
    <2> QED BY <1>1, <2>1 DEF Fits, Flow, Maybe
<1>3. RemoveSession(c, s) /\ End(c, i) /\ waiters' = waiters /\ wire' = wire /\ minted' = minted
    BY DEF DeleteDone
<1>4. sid \in Maybe(Session)
    BY <1>1 DEF Maybe
<1>5. client' = [client EXCEPT ![c].sid = sid]
    BY DEF DeleteDone, TypeOK, Client
<1> HIDE DEF sid
<1>6. Plain(c)
    BY <1>3, <1>4, <1>5, SidPlain DEF TypeOK
<1>7. StoreAct(c) /\ staged' = staged /\ status' = status
    BY <1>2, <1>3, StoreCalls, StoreLeaves DEF TypeOK
<1>8. ~Awaits(c, i, "load") /\ ~Awaits(c, i, "prompt")
    BY <1>1 DEF Awaits, InFlight
<1> QED BY <1>3, <1>6, <1>7, <1>8, EndGood

\* session/load was answered or rejected.
LEMMA LoadEndGood ==
    ASSUME TypeOK, ClientInv, NEW c \in Conn, NEW i \in FlowId,
           LoadDone(c, i) \/ LoadFail(c, i)
    PROVE  Good(c)
<1>1. client[c] \in Client /\ Awaits(c, i, "load") /\ Drained
    BY DEF LoadDone, LoadFail, Answered, Rejected, TypeOK
<1>2. flows[c][i] \in Flow /\ flows[c][i].prev \in Maybe(Session)
    BY <1>1 DEF Awaits, InFlight, TypeOK, Maybe, Flow
<1>3. PICK x \in Client : /\ client' = [client EXCEPT ![c] = x]
                          /\ x.gen = client[c].gen /\ x.turn = client[c].turn
                          /\ ~x.switching /\ x.linked = client[c].linked
    <2>1. CASE LoadDone(c, i)
        <3> DEFINE x == [client[c] EXCEPT !.switching = FALSE]
        <3>1. client' = [client EXCEPT ![c] = x]
            BY <2>1 DEF LoadDone, TypeOK
        <3>2. x \in Client
            BY <1>1 DEF Client
        <3>3. /\ x.gen = client[c].gen /\ x.turn = client[c].turn
              /\ ~x.switching /\ x.linked = client[c].linked
            BY <1>1 DEF Client
        <3> HIDE DEF x
        <3> QED BY <3>1, <3>2, <3>3
    <2>2. CASE LoadFail(c, i)
        <3> DEFINE x == [client[c] EXCEPT !.switching = FALSE, !.sid = flows[c][i].prev]
        <3>1. client' = [client EXCEPT ![c] = x]
            BY <2>2 DEF LoadFail, TypeOK
        <3>2. x \in Client
            BY <1>1, <1>2 DEF Client
        <3>3. /\ x.gen = client[c].gen /\ x.turn = client[c].turn
              /\ ~x.switching /\ x.linked = client[c].linked
            BY <1>1 DEF Client
        <3> HIDE DEF x
        <3> QED BY <3>1, <3>2, <3>3
    <2> QED BY <2>1, <2>2
<1>4. /\ client' \in [Conn -> Client]
      /\ \A d \in Conn \ {c} : client'[d] = client[d]
      /\ client'[c] = x
    BY <1>3 DEF TypeOK
<1>5. CASE LoadDone(c, i)
    BY <1>1, <1>3, <1>4, <1>5, LoadGood DEF LoadDone
<1>6. CASE LoadFail(c, i)
    BY <1>1, <1>3, <1>4, <1>6, LoadGood DEF LoadFail
<1> QED BY <1>5, <1>6

\* A request of a dead era settles: nothing of the new one is in its way.
LEMMA SettleStaleGood ==
    ASSUME TypeOK, ClientInv, NEW c \in Conn, NEW i \in FlowId, SettleStale(c, i)
    PROVE  Good(c)
<1>1. flows[c][i] \in Flow /\ flows[c][i] # None /\ ~Live(c, flows[c][i])
    BY DEF SettleStale, TypeOK, Maybe
<1>2. ~Awaits(c, i, "load") /\ ~Awaits(c, i, "prompt")
    BY <1>1 DEF Awaits
<1>3. flows[c][i].op # "dial"
    BY DEF SettleStale
<1>4. ~client[c].switching /\ staged[c] = None
    <2>1. Stale(c, i)
        BY <1>1, <1>3 DEF Stale, Microtask
    <2>2. \A j \in FlowId : ~Awaits(c, j, "load")
        BY <2>1 DEF ClientInv, ConnInv, StaleAlone, Present, Awaits, InFlight
    <2> QED BY <2>2 DEF ClientInv, ConnInv, LoadLocks
<1>5. CASE flows[c][i].op = "load" /\ StaleLoad(c, i)
    <2>1. RollbackStaged(c, flows[c][i].era) /\ flows[c][i].era \in Era
        BY <1>1, <1>5 DEF StaleLoad, Flow
    <2>2. StoreAct(c) /\ staged' = staged /\ status' = status
        BY <1>4, <2>1, StoreCalls DEF RollbackStaged
    <2>3. Plain(c)
        <3> DEFINE x == [client[c] EXCEPT !.switching = FALSE]
        <3>1. client[c] \in Client
            BY DEF TypeOK
        <3>2. x \in Client
            BY <3>1 DEF Client
        <3>3. /\ x.gen = client[c].gen /\ x.turn = client[c].turn
              /\ x.switching = client[c].switching /\ x.linked = client[c].linked
            BY <1>4, <3>1 DEF Client
        <3>4. client' = [client EXCEPT ![c] = x]
            BY <1>5 DEF StaleLoad, TypeOK
        <3> HIDE DEF x
        <3> QED BY <1>5, <3>2, <3>3, <3>4, FieldsPlain DEF StaleLoad, TypeOK
    <2> QED BY <1>2, <1>5, <2>2, <2>3, EndGood DEF StaleLoad
<1>6. CASE flows[c][i].op = "prompt" /\ StaleTurn(c, i)
    <2>1. InFlight(c, i, "prompt") /\ TurnOver(c, i, docs[c])
        BY <1>1, <1>6 DEF InFlight, StaleTurn
    <2>2. waiters[c] \in SUBSET waiters[c] /\ waiters' = [waiters EXCEPT ![c] = waiters[c]]
        BY <1>6 DEF StaleTurn, TypeOK
    <2> QED BY <2>1, <2>2, TurnGood
<1>7. CASE StaleOther(c, i)
    <2>1. StoreAct(c) /\ staged' = staged /\ status' = status
        BY <1>7, StoreCalls, StoreLeaves DEF StaleOther, TypeOK
    <2>2. Plain(c) /\ End(c, i)
        BY <1>7 DEF StaleOther, Plain, TypeOK
    <2> QED BY <1>2, <2>1, <2>2, EndGood
<1> QED BY <1>3, <1>5, <1>6, <1>7 DEF SettleStale

\* initialize was answered.
LEMMA InitDoneGood ==
    ASSUME TypeOK, ClientInv, NEW c \in Conn, NEW i \in FlowId,
           NEW login \in BOOLEAN, InitDone(c, i, login)
    PROVE  Good(c)
<1>1. flows[c][i] # None /\ flows[c][i].op = "init" /\ Present(c, i) /\ Via(c, i) = "connect"
    <2>1. flows[c][i] # None /\ flows[c][i].op = "init" /\ Present(c, i)
        BY DEF InitDone, Answered, Awaits, InFlight, Present
    <2> QED BY <2>1 DEF ClientInv, ConnInv, FlowsFit, Fits, Via
<1>2. StoreAct(c) /\ staged' = staged /\ status' = status
    BY StoreCalls, StoreLeaves DEF InitDone, TypeOK
<1>3. Plain(c)
    <2> DEFINE x == [client[c] EXCEPT !.login = login]
    <2>1. client[c] \in Client
        BY DEF TypeOK
    <2>2. x \in Client
        BY <2>1 DEF Client
    <2>3. /\ x.gen = client[c].gen /\ x.turn = client[c].turn
          /\ x.switching = client[c].switching /\ x.linked = client[c].linked
        BY <2>1 DEF Client
    <2>4. client' = [client EXCEPT ![c] = x]
        BY DEF InitDone, TypeOK
    <2> HIDE DEF x
    <2> QED BY <2>2, <2>3, <2>4, FieldsPlain DEF InitDone, TypeOK
<1>4. None \in Maybe(Session)
    BY DEF Maybe
<1>5. CASE Become(c, i, "list")
    BY <1>1, <1>2, <1>3, <1>4, <1>5, PassGood
<1>6. CASE Become(c, i, "ready")
    BY <1>1, <1>2, <1>3, <1>4, <1>6, PassGood
<1> QED BY <1>5, <1>6 DEF InitDone

\* A page of the session list was answered, or failed.
LEMMA ListGood ==
    ASSUME TypeOK, ClientInv, NEW c \in Conn, NEW i \in FlowId,
           TurnPage(c, i) \/ ListFail(c, i) \/ \E S \in SUBSET minted[c] : ListDone(c, i, S)
    PROVE  Good(c)
<1>1. flows[c][i] # None /\ flows[c][i].op \in {"list", "page"} /\ Present(c, i)
    BY DEF TurnPage, ListFail, ListDone, Listing, Answered, Awaits, InFlight, Present
<1>2. Via(c, i) = "connect" /\ None \in Maybe(Session)
    BY <1>1 DEF ClientInv, ConnInv, FlowsFit, Fits, Via, Maybe
<1>3. StoreAct(c) /\ staged' = staged /\ status' = status
    <2>1. CASE TurnPage(c, i) \/ ListFail(c, i)
        BY <2>1, StoreCalls, StoreLeaves DEF TurnPage, ListFail, TypeOK
    <2>2. ASSUME NEW S \in SUBSET minted[c], ListDone(c, i, S)
          PROVE  StoreAct(c) /\ staged' = staged /\ status' = status
        <3>1. S \in SUBSET Session
            BY DEF TypeOK
        <3> QED BY <2>2, <3>1, StoreCalls, StoreLeaves DEF ListDone, TypeOK
    <2> QED BY <2>1, <2>2
<1>4. Plain(c)
    BY DEF TurnPage, ListFail, ListDone, Plain, TypeOK
<1>5. CASE Become(c, i, "list")
    BY <1>1, <1>2, <1>3, <1>4, <1>5, PassGood
<1>6. CASE Become(c, i, "page")
    BY <1>1, <1>2, <1>3, <1>4, <1>6, PassGood
<1>7. CASE Become(c, i, "ready")
    BY <1>1, <1>2, <1>3, <1>4, <1>7, PassGood
<1> QED BY <1>5, <1>6, <1>7 DEF TurnPage, ListFail, ListDone

\* A step of a request that leaves the client as it was.
LEMMA IdleGood ==
    ASSUME TypeOK, ClientInv, NEW c \in Conn, NEW i \in FlowId,
           Up(c, i) \/ ModeDone(c, i) \/ ModeFail(c, i) \/ ResumeDone(c, i) \/ AuthDone(c, i)
    PROVE  Good(c)
<1>1. flows[c][i] # None /\ Present(c, i)
    BY DEF Up, ModeDone, ModeFail, ResumeDone, AuthDone, Answered, Rejected, Awaits, InFlight,
           Present
<1>2. Plain(c)
    BY DEF Up, ModeDone, ModeFail, ResumeDone, AuthDone, Plain, TypeOK
<1>3. /\ None \in Maybe(Session)
      /\ client[c].sid \in Maybe(Session)
    BY DEF TypeOK, Client, Maybe
<1>4. CASE Up(c, i)
    <2>1. flows[c][i].op = "up" /\ End(c, i)
        BY <1>4 DEF Up, Awaits, InFlight
    <2>2. StoreAct(c) /\ staged' = staged /\ status'[c] # "connecting"
        BY <1>4, StoreCalls, StoreLeaves DEF Up, TypeOK
    <2> QED BY <1>1, <1>2, <2>1, <2>2, EndGood DEF Awaits, InFlight
<1>5. CASE ModeDone(c, i) \/ ModeFail(c, i)
    <2>1. flows[c][i].op = "mode" /\ End(c, i)
        BY <1>5 DEF ModeDone, ModeFail, Answered, Rejected, Awaits, InFlight
    <2>2. StoreAct(c) /\ staged' = staged /\ status' = status
        BY <1>5, StoreCalls, StoreLeaves DEF ModeDone, ModeFail, TypeOK
    <2> QED BY <1>1, <1>2, <2>1, <2>2, EndGood DEF Awaits, InFlight
<1>6. CASE ResumeDone(c, i)
    <2>1. flows[c][i].op = "resume" /\ Become(c, i, "up")
        BY <1>6 DEF ResumeDone, Answered, Awaits, InFlight
    <2>2. Via(c, i) = "connect"
        BY <1>1, <2>1 DEF ClientInv, ConnInv, FlowsFit, Fits, Via
    <2>3. StoreAct(c) /\ staged' = staged /\ status' = status
        BY <1>6, StoreCalls, StoreLeaves DEF ResumeDone, TypeOK
    <2> QED BY <1>1, <1>2, <1>3, <2>1, <2>2, <2>3, PassGood
<1>7. CASE AuthDone(c, i)
    <2>1. flows[c][i].op = "auth" /\ BecomeFrom(c, i, "new", client[c].sid)
        BY <1>7 DEF AuthDone, Answered, Awaits, InFlight
    <2>2. StoreAct(c) /\ staged' = staged /\ status' = status
        BY <1>7, StoreCalls, StoreLeaves DEF AuthDone, TypeOK
    <2> QED BY <1>1, <1>2, <1>3, <2>1, <2>2, PassGood
<1> QED BY <1>4, <1>5, <1>6, <1>7

\* Every continuation of a request is good.
LEMMA ContinueGood ==
    ASSUME TypeOK, ClientInv, NEW c \in Conn, NEW i \in FlowId, Continue(c, i)
    PROVE  Good(c)
<1>1. CASE DialDone(c, i) \/ DialFail(c, i)
    BY <1>1, DialGood
<1>2. ASSUME NEW login \in BOOLEAN, InitDone(c, i, login) PROVE Good(c)
    BY <1>2, InitDoneGood
<1>13. CASE TurnPage(c, i) \/ ListFail(c, i) \/ \E S \in SUBSET minted[c] : ListDone(c, i, S)
    BY <1>13, ListGood
<1>3. CASE InitFail(c, i) \/ ResumeFail(c, i) \/ Failed(c, i) \/ NewFail(c, i) \/ AuthFail(c, i)
    <2>1. Present(c, i) /\ flows[c][i].op \in {"init", "resume", "failed", "new", "auth"}
        BY <1>3 DEF InitFail, ResumeFail, Failed, NewFail, AuthFail, Rejected, Awaits, InFlight,
                    Present
    <2>2. ChallengeOrReport(c, i)
        BY <1>3 DEF InitFail, ResumeFail, Failed, NewFail, AuthFail
    <2> QED BY <2>1, <2>2, FailGood
<1>4. CASE Establish(c, i)
    BY <1>4, EstablishGood
<1>5. CASE Up(c, i) \/ ModeDone(c, i) \/ ModeFail(c, i) \/ ResumeDone(c, i) \/ AuthDone(c, i)
    BY <1>5, IdleGood
<1>6. ASSUME NEW s \in Session, NewDone(c, i, s) PROVE Good(c)
    BY <1>6, NewDoneGood
<1>7. CASE LoadDone(c, i) \/ LoadFail(c, i)
    BY <1>7, LoadEndGood
<1>8. CASE DeleteDone(c, i)
    BY <1>8, DeleteDoneGood
<1>9. CASE DeleteFail(c, i) \/ CloseDone(c, i) \/ Timeout(c, i)
    <2>1. FlowsShrink(c)
        BY <1>9, EndShrinks DEF DeleteFail, CloseDone, Timeout
    <2>2. \E clean \in BOOLEAN : Report(c, clean)
        BY <1>9 DEF DeleteFail, CloseDone, Timeout
    <2> QED BY <2>1, <2>2, ReportGood
<1>10. CASE PromptDone(c, i)
    <2>1. InFlight(c, i, "prompt") /\ TurnOver(c, i, docs[c])
        BY <1>10 DEF PromptDone, Answered, Awaits
    <2>2. waiters[c] \in SUBSET waiters[c] /\ waiters' = [waiters EXCEPT ![c] = waiters[c]]
        BY <1>10 DEF PromptDone, TypeOK
    <2> QED BY <2>1, <2>2, TurnGood
<1>11. CASE PromptFail(c, i)
    <2>1. InFlight(c, i, "prompt") /\ \E d : TurnOver(c, i, d)
        BY <1>11 DEF PromptFail, Rejected, Awaits
    <2>2. {} \in SUBSET waiters[c] /\ waiters' = [waiters EXCEPT ![c] = {}]
        BY <1>11 DEF PromptFail
    <2> QED BY <2>1, <2>2, TurnGood
<1>12. CASE SettleStale(c, i)
    BY <1>12, SettleStaleGood
<1> QED BY <1>1, <1>2, <1>3, <1>4, <1>5, <1>6, <1>7, <1>8, <1>9, <1>10, <1>11, <1>12,
       <1>13
        DEF Continue
-----------------------------------------------------------------------------
(* The steps of the agent and the network.                                  *)

\* Every step of the agent and the network is good.
LEMMA EnvironmentGood ==
    ASSUME TypeOK, ClientInv, NEW c \in Conn, Environment(c)
    PROVE  Good(c)
<1>1. ASSUME NEW s \in Session, AgentUpdate(c, s) PROVE Good(c)
    <2>1. StoreAct(c) /\ staged' = staged /\ status' = status
        BY <1>1, StoreCalls, StoreLeaves DEF AgentUpdate, TypeOK
    <2>2. UNCHANGED clientVars
        BY <1>1 DEF AgentUpdate
    <2> QED BY <2>1, <2>2, SameGood DEF clientVars, TypeOK
<1>2. ASSUME NEW s \in Session, NEW t \in Tool, AgentPermission(c, s, t) PROVE Good(c)
    <2> DEFINE W == waiters[c] \cup {[sess |-> s, tool |-> t]}
    <2>1. /\ waiters' = [waiters EXCEPT ![c] = W]
          /\ UNCHANGED <<client, flows, wire, minted>>
          /\ client[c].linked
        BY <1>2 DEF AgentPermission, TypeOK, Speaks, Linked
    <2>2. W \in SUBSET Waiter
        BY DEF TypeOK, Waiter
    <2>3. StoreAct(c) /\ staged' = staged /\ status' = status
        BY <1>2, StoreCalls, StoreLeaves DEF AgentPermission, TypeOK
    <2>4. wire' \in [Conn -> {"none", "up", "down"}]
        BY <2>1 DEF TypeOK
    <2> HIDE DEF W
    <2> QED BY <2>1, <2>2, <2>3, <2>4, QuietGood
<1>3. ASSUME NEW w \in waiters[c], PermissionAbort(c, w) PROVE Good(c)
    BY <1>3, SettleGood DEF PermissionAbort
<1>4. CASE WireDown(c)
    <2>1. StoreAct(c) /\ staged' = staged /\ status' = status
        BY <1>4, StoreCalls, StoreLeaves DEF WireDown, TypeOK
    <2>2. wire' \in [Conn -> {"none", "up", "down"}]
        BY <1>4 DEF WireDown, TypeOK
    <2> QED BY <1>4, <2>1, <2>2, SameGood DEF WireDown
<1>5. CASE ClosedWatcher(c)
    BY <1>5, EndShrinks, ReportGood DEF ClosedWatcher
<1> QED BY <1>1, <1>2, <1>3, <1>4, <1>5 DEF Environment

\* Every step is good.
LEMMA NextGood ==
    ASSUME TypeOK, ClientInv, NEW c \in Conn,
           User(c) \/ (\E i \in FlowId : Continue(c, i)) \/ Environment(c)
    PROVE  Good(c)
BY UserGood, ContinueGood, EnvironmentGood
-----------------------------------------------------------------------------
(* The theorems.                                                            *)

\* The inductive invariant holds of every reachable state.
LEMMA Inductive == Spec => []IInv
<1>1. Init => IInv
    <2> SUFFICES ASSUME Init PROVE IInv
        OBVIOUS
    <2>1. StoreTypeOK
        BY DEF Init, StoreInit, StoreTypeOK, Maybe, Status, NoDocs
    <2>2. NewClient \in Client /\ NewClient.turn = 0 /\ ~NewClient.switching
        BY DEF NewClient, Client, Maybe
    <2>3. NoFlows \in [FlowId -> Maybe(Flow)] /\ \A i \in FlowId : NoFlows[i] = None
        BY DEF NoFlows, Maybe
    <2>4. TypeOK
        BY <2>1, <2>2, <2>3 DEF Init, TypeOK
    <2>5. \A c \in Conn : /\ \A i \in FlowId : flows[c][i] = None
                          /\ client[c].turn = 0 /\ ~client[c].switching
                          /\ waiters[c] = {} /\ staged[c] = None
        BY <2>2, <2>3 DEF Init, StoreInit
    <2>6. ClientInv
        BY <2>5 DEF ClientInv, ConnInv, FlowsFit, OneConnect, StaleAlone, LoadLocks, TurnIsLive,
                    Present, Stale, Awaits, InFlight
    <2> QED BY <2>4, <2>6 DEF IInv
<1>2. IInv /\ [Next]_vars => IInv'
    <2> SUFFICES ASSUME IInv, [Next]_vars PROVE IInv'
        OBVIOUS
    <2>1. CASE UNCHANGED vars
        BY <2>1 DEF vars, clientVars, storeVars, slotVars, IInv, TypeOK, StoreTypeOK, ClientInv,
                    ConnInv, FlowsFit, OneConnect, StaleAlone, LoadLocks, TurnIsLive, Present,
                    Stale, Live, Microtask, Via, Awaits, InFlight
    <2>2. ASSUME NEW c \in Conn,
                 User(c) \/ (\E i \in FlowId : Continue(c, i)) \/ Environment(c)
          PROVE  IInv'
        BY <2>2, NextGood, GoodKeeps DEF IInv
    <2> QED BY <2>1, <2>2 DEF Next
<1> QED BY <1>1, <1>2, PTL DEF Spec

\* The clients' variables keep their types: in particular a request always
\* carries an era its client may still tell from its own.
THEOREM ClientTypeCorrect == Spec => []TypeOK
<1>1. IInv => TypeOK
    BY DEF IInv
<1> QED BY <1>1, Inductive, PTL

\* A turn slot, a switch lock or a permission waiter never outlives the link it
\* belongs to, whatever is in flight when the link goes.
THEOREM WorkIsLive == Spec => []OnlyLiveWork
<1>1. IInv => OnlyLiveWork
    BY InvImplies DEF IInv
<1> QED BY <1>1, Inductive, PTL

\* Client and store agree on the one switch in flight.
THEOREM LoadsAreStaged == Spec => []SwitchIsOneLoad
<1>1. IInv => SwitchIsOneLoad
    BY InvImplies DEF IInv
<1> QED BY <1>1, Inductive, PTL

\* Every step of the clients is an operation of the store or leaves it alone.
THEOREM StoreIsImplemented == Spec => ImplementsStore
<1>1. Init => StoreInit
    BY DEF Init
<1>2. IInv /\ [Next]_vars => [StoreNext]_storeVars
    <2> SUFFICES ASSUME IInv, [Next]_vars PROVE [StoreNext]_storeVars
        OBVIOUS
    <2>1. CASE UNCHANGED vars
        BY <2>1 DEF vars
    <2>2. ASSUME NEW c \in Conn,
                 User(c) \/ (\E i \in FlowId : Continue(c, i)) \/ Environment(c)
          PROVE  [StoreNext]_storeVars
        BY <2>2, NextGood DEF IInv, Good, StoreAct, StoreNext
    <2> QED BY <2>1, <2>2 DEF Next
<1> QED BY <1>1, <1>2, Inductive, PTL DEF Spec, StoreSpec, ImplementsStore

-----------------------------------------------------------------------------
(* The dead era.  Dead(c, i): a request that the step ends was not of the   *)
(* link its client has now.                                                 *)

Dead(c, i) == flows[c][i] # None /\ ~Live(c, flows[c][i])

\* Only a superseded dial and the settling of a stale request end one, besides
\* the removal of the whole connection.
LEMMA UserLeavesDead ==
    ASSUME TypeOK, NEW c \in Conn, User(c), NEW i \in FlowId, Dead(c, i), flows'[c][i] = None
    PROVE  Remove(c)
<1>1. ASSUME UNCHANGED flows PROVE FALSE
    BY <1>1 DEF Dead
<1>2. ASSUME FreeFlows(c) # {}, NEW f, f # None, flows' = [flows EXCEPT ![c][NextFlow(c)] = f]
      PROVE  FALSE
    BY <1>2, FlowIsFree DEF Dead, TypeOK
<1>3. ASSUME NEW op \in FlowOp, NEW via \in {"user", "auth"}, NEW s \in Maybe(Session),
             Start(c, op, via, s)
      PROVE  FALSE
    <2>1. Started(c, op, via, s) \in Flow
        BY <1>3, StartMoves
    <2> QED BY <1>2, <1>3, <2>1 DEF Start, Started
<1>4. /\ client[c].sid \in Maybe(Session)
      /\ None \in Maybe(Session) /\ Session \subseteq Maybe(Session)
    BY DEF TypeOK, Client, Maybe
<1>5. ASSUME NEW resume \in BOOLEAN, Connect(c, resume) PROVE FALSE
    <2> DEFINE f == [op |-> "dial", via |-> "connect", era |-> NextEra(c),
                     sess |-> IF resume THEN anchor[c] ELSE None, prev |-> None]
    <2>1. f \in Flow
        BY EraIsFree DEF Flow, TypeOK, StoreTypeOK, Maybe
    <2>2. f # None
        BY <2>1
    <2>3. FreeFlows(c) # {} /\ flows' = [flows EXCEPT ![c][NextFlow(c)] = f]
        BY <1>5 DEF Connect
    <2> HIDE DEF f
    <2> QED BY <1>2, <2>2, <2>3
<1>6. CASE Disconnect(c)
    BY <1>1, <1>3, <1>4, <1>6 DEF Disconnect, DisconnectFirst, FlowOp
<1>7. CASE Seed(c) \/ ForegroundConnection(c) \/ \E s \in Session : OpenRetained(c, s)
    BY <1>1, <1>7 DEF Seed, ForegroundConnection, OpenRetained, clientVars
<1>8. CASE NewSession(c)
    BY <1>3, <1>4, <1>8 DEF NewSession, FlowOp
<1>9. ASSUME NEW s \in Session, OpenSession(c, s) PROVE FALSE
    BY <1>3, <1>4, <1>9 DEF OpenSession, FlowOp
<1>10. ASSUME NEW s \in Session, DeleteSession(c, s) PROVE FALSE
    BY <1>3, <1>4, <1>10 DEF DeleteSession, FlowOp
<1>11. CASE Authenticate(c)
    BY <1>3, <1>4, <1>11 DEF Authenticate, FlowOp
<1>12. CASE Send(c)
    BY <1>3, <1>4, <1>12 DEF Send, FlowOp
<1>13. CASE Cancel(c) \/ \E t \in Tool : ResolvePermission(c, t)
    BY <1>1, <1>13 DEF Cancel, ResolvePermission, Settle
<1>14. CASE SetMode(c)
    BY <1>3, <1>4, <1>14 DEF SetMode, FlowOp
<1> QED BY <1>5, <1>6, <1>7, <1>8, <1>9, <1>10, <1>11, <1>12, <1>13, <1>14 DEF User

\* So for the continuations.
LEMMA ContinueLeavesDead ==
    ASSUME TypeOK, NEW c \in Conn, NEW j \in FlowId, Continue(c, j),
           NEW i \in FlowId, Dead(c, i), flows'[c][i] = None
    PROVE  i = j /\ (DialDone(c, i) \/ DialFail(c, i) \/ SettleStale(c, i))
<1>1. ASSUME UNCHANGED flows PROVE FALSE
    BY <1>1 DEF Dead
<1>2. ASSUME NEW x, flows' = [flows EXCEPT ![c][j] = x] PROVE i = j
    BY <1>2 DEF Dead, TypeOK
<1>3. (\E op, prev : End(c, j) \/ Become(c, j, op) \/ BecomeFrom(c, j, op, prev)) => i = j
    BY <1>2 DEF End, Become, BecomeFrom
<1>4. ASSUME NEW op, Awaits(c, j, op) PROVE i # j
    BY <1>4 DEF Awaits, Dead
<1>5. CASE DialDone(c, j) \/ DialFail(c, j) \/ SettleStale(c, j)
    <2>1. i = j
        BY <1>3, <1>5 DEF DialDone, DialFail, SettleStale, StaleLoad, StaleTurn, StaleOther,
                          TurnOver
    <2> QED BY <1>5, <2>1
<1>6. CASE Timeout(c, j)
    BY <1>1, <1>6 DEF Timeout
<1>7. ASSUME NEW login, InitDone(c, j, login) PROVE FALSE
    BY <1>3, <1>4, <1>7 DEF InitDone, Answered
<1>14. CASE TurnPage(c, j) \/ ListFail(c, j) \/ \E S : ListDone(c, j, S)
    BY <1>3, <1>4, <1>14 DEF TurnPage, ListFail, ListDone, Listing, Answered
<1>8. CASE InitFail(c, j) \/ ResumeFail(c, j) \/ Failed(c, j) \/ NewFail(c, j) \/ AuthFail(c, j)
    BY <1>3, <1>4, <1>8 DEF InitFail, ResumeFail, Failed, NewFail, AuthFail, Rejected,
                            ChallengeOrReport
<1>9. CASE Establish(c, j) \/ Up(c, j) \/ ResumeDone(c, j) \/ AuthDone(c, j)
    BY <1>3, <1>4, <1>9 DEF Establish, Resume, Replay, Up, ResumeDone, AuthDone, Answered
<1>10. ASSUME NEW s \in Session, NewDone(c, j, s) PROVE FALSE
    BY <1>3, <1>4, <1>10 DEF NewDone, Answered
<1>11. CASE LoadDone(c, j) \/ LoadFail(c, j)
    BY <1>3, <1>4, <1>11 DEF LoadDone, LoadFail, Answered, Rejected
<1>12. CASE DeleteDone(c, j) \/ DeleteFail(c, j) \/ ModeDone(c, j) \/ ModeFail(c, j)
            \/ CloseDone(c, j)
    BY <1>3, <1>4, <1>12 DEF DeleteDone, DeleteFail, ModeDone, ModeFail, CloseDone, Answered,
                             Rejected
<1>13. CASE PromptDone(c, j) \/ PromptFail(c, j)
    BY <1>3, <1>4, <1>13 DEF PromptDone, PromptFail, TurnOver, Answered, Rejected
<1> QED BY <1>5, <1>6, <1>7, <1>8, <1>9, <1>10, <1>11, <1>12, <1>13, <1>14 DEF Continue

\* The agent and the network end no request.
LEMMA EnvironmentLeavesDead ==
    ASSUME NEW c \in Conn, Environment(c), NEW i \in FlowId, Dead(c, i)
    PROVE  flows'[c][i] # None
BY DEF Environment, AgentUpdate, AgentPermission, PermissionAbort, Settle, WireDown,
       ClosedWatcher, clientVars, Dead

Isolated(c) ==
    /\ UNCHANGED <<client, waiters, wire, minted, status, anchor, listed,
                   switching, port, staged, activeConn, activeSess, selGen>>
    /\ \A s \in Session : docs'[c][s] # docs[c][s] =>
            s = port[c] /\ docs'[c][s].status = "idle"

\* The end of a dead request: only the status of the document is touched.
LEMMA DeadEndIsIsolated ==
    ASSUME TypeOK, ClientInv, NEW c \in Conn, NEW i \in FlowId, Dead(c, i),
           DialDone(c, i) \/ DialFail(c, i) \/ SettleStale(c, i)
    PROVE  Isolated(c)
<1>1. ASSUME UNCHANGED <<storeVars, client, waiters, wire, minted>> PROVE Isolated(c)
    BY <1>1 DEF Isolated, storeVars, slotVars
<1>2. CASE DialDone(c, i) \/ DialFail(c, i)
    BY <1>1, <1>2 DEF DialDone, DialFail, Dead
<1>3. CASE SettleStale(c, i)
    <2>1. Stale(c, i)
        BY <1>3 DEF SettleStale, Stale, Microtask
    <2>2. \A j \in FlowId : ~Awaits(c, j, "load")
        BY <2>1 DEF ClientInv, ConnInv, StaleAlone, Present, Awaits, InFlight
    <2>3. ~client[c].switching /\ staged[c] = None
        BY <2>2 DEF ClientInv, ConnInv, LoadLocks
    <2>4. client[c] \in Client
        BY DEF TypeOK
    <2>5. CASE flows[c][i].op = "load" /\ StaleLoad(c, i)
        <3>1. client' = client
            <4>1. client[c].switching = FALSE
                BY <2>3, <2>4 DEF Client
            <4>2. [client[c] EXCEPT !.switching = FALSE] = client[c]
                BY <2>4, <4>1 DEF Client
            <4> QED BY <2>5, <4>2 DEF StaleLoad, TypeOK
        <3>2. UNCHANGED storeVars
            BY <2>3, <2>5 DEF StaleLoad, RollbackStaged, storeVars, slotVars
        <3> QED BY <1>1, <2>5, <3>1, <3>2 DEF StaleLoad
    <2>6. CASE flows[c][i].op = "prompt" /\ StaleTurn(c, i)
        <3>1. client[c].turn # i
            <4>1. i # 0
                OBVIOUS
            <4> QED BY <4>1 DEF ClientInv, ConnInv, TurnIsLive, Awaits, Dead
        <3>2. [client[c] EXCEPT !.turn = client[c].turn] = client[c]
            BY <2>4 DEF Client
        <3>3. client' = client /\ waiters' = waiters /\ wire' = wire /\ minted' = minted
            BY <2>6, <3>1, <3>2 DEF StaleTurn, TurnOver, TypeOK
        <3>4. \E d \in {docs[c], WithStatus(c, docs[c], "idle")} : Update(c, d)
            BY <2>6 DEF StaleTurn, TurnOver
        <3>5. PICK d \in {docs[c], WithStatus(c, docs[c], "idle")} : Update(c, d)
            BY <3>4
        <3>6. docs'[c] = d
            BY <3>5 DEF Update, TypeOK, StoreTypeOK
        <3>7. Fed(c, docs[c]) \in DocRec
            BY DocIsRecord, DocAssumption DEF Fed, TypeOK, StoreTypeOK, Maybe
        <3>8. [Fed(c, docs[c]) EXCEPT !.status = "idle"].status = "idle"
            BY <3>7 DEF DocRec
        <3>9. docs[c] \in [Session -> Maybe(Doc)]
            BY DEF TypeOK, StoreTypeOK
        <3>10. \A s \in Session : d[s] # docs[c][s] => s = port[c] /\ d[s].status = "idle"
            BY <3>8, <3>9 DEF WithStatus, Fold
        <3> QED BY <3>3, <3>5, <3>6, <3>10 DEF Isolated, Update
    <2>7. CASE StaleOther(c, i)
        BY <1>1, <2>7 DEF StaleOther
    <2> QED BY <1>3, <2>5, <2>6, <2>7 DEF SettleStale
<1> QED BY <1>2, <1>3

\* Whatever is left in flight when a link dies, its end does not reach the link
\* that comes after it.
THEOREM ErasAreIsolated == Spec => EraIsolation
<1> DEFINE Settles(c, i) ==
        (/\ flows[c][i] # None /\ flows[c][i].era # client[c].gen
         /\ flows'[c][i] = None /\ c \in known') => Isolated(c)
<1>1. IInv /\ [Next]_vars => [\A c \in Conn, i \in FlowId : Settles(c, i)]_vars
    <2> SUFFICES ASSUME IInv, NEW d \in Conn,
                        User(d) \/ (\E j \in FlowId : Continue(d, j)) \/ Environment(d),
                        NEW c \in Conn, NEW i \in FlowId, Dead(c, i),
                        flows'[c][i] = None, c \in known'
                 PROVE  Isolated(c)
        BY DEF Next, Dead, Live
    <2>1. Good(d)
        BY NextGood DEF IInv
    <2>2. c = d
        BY <2>1 DEF Good, Elsewhere, Dead
    <2>3. CASE User(d)
        <3>1. Remove(c)
            BY <2>2, <2>3, UserLeavesDead DEF IInv
        <3>2. c \notin known'
            BY <3>1 DEF Remove, CloseConnection
        <3> QED BY <3>2
    <2>4. ASSUME NEW j \in FlowId, Continue(d, j) PROVE Isolated(c)
        BY <2>2, <2>4, ContinueLeavesDead, DeadEndIsIsolated DEF IInv
    <2>5. CASE Environment(d)
        BY <2>2, <2>5, EnvironmentLeavesDead
    <2> QED BY <2>3, <2>4, <2>5
<1> QED BY <1>1, Inductive, PTL DEF Spec, EraIsolation, Isolated
-----------------------------------------------------------------------------
\* What is proved of every driver holds of the clients: no busy marker of theirs is
\* without the switch that clears it.
THEOREM ClientsOwnTheirMarkers == Spec => []MarkerHasOwner
BY StoreIsImplemented, MarkersAreOwned, PTL DEF ImplementsStore

\* Of the switches the clients have in flight at most one is the latest selection.
THEOREM ClientsAgreeOnTheLatest == Spec => []OneSelectionWins
BY StoreIsImplemented, LatestIsUnique, PTL DEF ImplementsStore

\* A client's switch that was superseded ends without moving the settled session or
\* the screen.
THEOREM ClientsLetTheLatestWin == Spec => LateEndMovesNothing
BY StoreIsImplemented, LatestWins, PTL DEF ImplementsStore
=============================================================================
