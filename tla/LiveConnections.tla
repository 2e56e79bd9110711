-------------------------- MODULE LiveConnections --------------------------
(***************************************************************************)
(* The live ACP clients (src/acp/LiveAcpClient.ts) driving the store, one  *)
(* client per connection, together with the user actions the UI offers     *)
(* (src/liveConnections.ts and the gates of the components).               *)
(*                                                                         *)
(* A client talks to its agent by JSON-RPC.  Every request it awaits is a  *)
(* flow: what was asked, by which caller, in which connection era, for     *)
(* which session and from which previous session.  The agent answers flows *)
(* in any order, or never; the transport may die at any moment.            *)
(*                                                                         *)
(* The engine is single-threaded.  A step is one macrotask up to its next  *)
(* await.  A flow whose era has ended, and a continuation that awaits no   *)
(* one, is a microtask: it runs before any other macrotask (Drained).      *)
(* Only the opening of a transport can outlive its era.                    *)
(*                                                                         *)
(* Eras are names: the code counts them, but only ever compares them for   *)
(* equality, so an era that nothing refers to any more may be used again.  *)
(***************************************************************************)
EXTENDS ConnectionStore

CONSTANTS
    Tool,       \* tool call ids an agent asks permission for
    FlowId,     \* slots for requests in flight, 1..n
    MaxEra      \* the eras are 0..MaxEra

VARIABLES
    client,     \* the client's fields
    waiters,    \* permissionWaiters, keyed by session and tool call
    flows,      \* the requests in flight
    wire,       \* the transport under the connection
    minted      \* the sessions each connection's agent has created so far

clientVars == <<client, waiters, flows, wire, minted>>
vars == <<storeVars, clientVars>>

Client == [gen: Era, linked: BOOLEAN, reported: BOOLEAN,
           sid: Maybe(Session), turn: FlowId \cup {0},
           switching: BOOLEAN, login: BOOLEAN]
Waiter == [sess: Session, tool: Tool]
Flow   == [op: {"dial", "init", "list", "page", "ready", "resume", "load", "new", "up",
                "failed", "delete", "mode", "auth", "prompt", "close"},
           via: {"connect", "user", "auth"},
           era: Era, sess: Maybe(Session), prev: Maybe(Session)]

\* A document, as far as the properties look: the turn status, the permission
\* cards on screen, and whether something of another session was written into it.
DocRec == [status: {"idle", "running", "requires_action"},
           cards: SUBSET Tool, mixed: BOOLEAN]

ASSUME DocIsRecord == /\ Doc = DocRec
                      /\ EmptyDoc = [status |-> "idle", cards |-> {}, mixed |-> FALSE]
ASSUME FlowIdAssumption == FlowId \subseteq Nat \ {0}
ASSUME MaxEraAssumption ==
    /\ IsFiniteSet(FlowId)
    /\ MaxEra \in Nat /\ MaxEra > Cardinality(FlowId)
    /\ Era = 0..MaxEra
ASSUME NoneIsNoFlow == None \notin Flow

TypeOK ==
    /\ StoreTypeOK
    /\ client \in [Conn -> Client]
    /\ waiters \in [Conn -> SUBSET Waiter]
    /\ flows \in [Conn -> [FlowId -> Maybe(Flow)]]
    /\ wire \in [Conn -> {"none", "up", "down"}]
    /\ minted \in [Conn -> SUBSET Session]

NewClient == [gen |-> 0, linked |-> FALSE, reported |-> FALSE, sid |-> None,
              turn |-> 0, switching |-> FALSE, login |-> FALSE]
NoFlows == [i \in FlowId |-> None]

Init ==
    /\ StoreInit
    /\ client = [c \in Conn |-> NewClient]
    /\ waiters = [c \in Conn |-> {}]
    /\ flows = [c \in Conn |-> NoFlows]
    /\ wire = [c \in Conn |-> "none"]
    /\ minted \in [Conn -> SUBSET Session]
    /\ \A c, d \in Conn : c # d => minted[c] \cap minted[d] = {}
-----------------------------------------------------------------------------
(* Documents: what an event does to the document the port feeds.           *)

Fed(c, d) == IF port[c] = None \/ d[port[c]] = None THEN EmptyDoc ELSE d[port[c]]
Fold(c, d, doc) == IF port[c] = None THEN d ELSE [d EXCEPT ![port[c]] = doc]

\* status_changed.
WithStatus(c, d, st) == Fold(c, d, [Fed(c, d) EXCEPT !.status = st])

\* A content event that belongs to session s.
WithContent(c, d, s) == Fold(c, d, [Fed(c, d) EXCEPT !.mixed = @ \/ port[c] # s])

\* convergeStatus: waiting permissions come first, then the turn.
Converge(w, turn) ==
    IF w # {} THEN "requires_action" ELSE IF turn # 0 THEN "running" ELSE "idle"

\* finishAllPermissions while the turn slot holds turn: every waiter is answered
\* cancelled, its card is settled and the status converges after each.
Swept(c, d, turn) ==
    IF waiters[c] = {} THEN d
    ELSE Fold(c, d, [Fed(c, d) EXCEPT
                        !.cards = @ \ {w.tool : w \in waiters[c]},
                        !.status = Converge({}, turn)])
-----------------------------------------------------------------------------
(* Flows and eras.                                                         *)

Live(c, f) == f.era = client[c].gen
Microtask(c, f) ==
    \/ f.op \in {"ready", "up", "failed"}
    \/ ~Live(c, f) /\ f.op # "dial"
Drained == \A c \in Conn, i \in FlowId : flows[c][i] # None => ~Microtask(c, flows[c][i])

InFlight(c, i, op) == flows[c][i] # None /\ flows[c][i].op = op
FreeFlows(c) == {i \in FlowId : flows[c][i] = None}
NextFlow(c) == CHOOSE i \in FreeFlows(c) : TRUE

Start(c, op, via, s) ==
    /\ FreeFlows(c) # {}
    /\ flows' = [flows EXCEPT ![c][NextFlow(c)] =
                   [op |-> op, via |-> via, era |-> client[c].gen,
                    sess |-> s, prev |-> client[c].sid]]
Become(c, i, op) == flows' = [flows EXCEPT ![c][i].op = op]
BecomeFrom(c, i, op, prev) ==
    flows' = [flows EXCEPT ![c][i] = [@ EXCEPT !.op = op, !.prev = prev]]
End(c, i) == flows' = [flows EXCEPT ![c][i] = None]

\* connectionGeneration++.
UsedEras(c) == {client[c].gen} \cup {flows[c][i].era : i \in FlowId \ FreeFlows(c)}
NextEra(c) == CHOOSE e \in Era \ UsedEras(c) : TRUE

\* cleanupConnection, the waiters' documents apart: a new era with nothing in it.
\* What initialize said of the agent stays.
CleanedButTurn(c, reported) ==      \* mutant: pendingPrompt survives the era
    [NewClient EXCEPT !.gen = NextEra(c), !.reported = reported, !.login = client[c].login,
                      !.turn = client[c].turn]
Cleaned(c, reported) ==
    [NewClient EXCEPT !.gen = NextEra(c), !.reported = reported, !.login = client[c].login]

\* reportDisconnect: clean up, then tell the store.
Report(c, clean) ==
    /\ ~client[c].reported
    /\ client' = [client EXCEPT ![c] = Cleaned(c, TRUE)]
    /\ waiters' = [waiters EXCEPT ![c] = {}]
    /\ wire' = [wire EXCEPT ![c] = "none"]
    /\ Disconnected(c, clean, Swept(c, docs[c], 0))
    /\ UNCHANGED minted
-----------------------------------------------------------------------------
(* The user.  Each action is offered only where the UI offers it; the      *)
(* guards of the client follow the gates of the UI.                        *)

Linked(c) == c \in known /\ client[c].linked
Running(c) == \E s \in Session : docs[c][s] # None /\ docs[c][s].status = "running"
Busy(c) == switching[c] # None \/ Running(c)
ShownDoc == IF \/ activeConn = None
               \/ activeSess = None
               \/ docs[activeConn][activeSess] = None
            THEN EmptyDoc ELSE docs[activeConn][activeSess]

\* A click on an offline profile, Reconnect or Resume on a failed connection.
Connect(c, resume) ==
    /\ Drained
    /\ FreeFlows(c) # {}
    /\ status[c] # "connected"
    /\ resume => /\ status[c] = "error" /\ anchor[c] # None
                 /\ selGen < MaxSelections
    /\ Dial(c, resume, Swept(c, Restored(c, docs[c]), 0))
    /\ client' = [client EXCEPT ![c] = Cleaned(c, FALSE)]
    /\ flows' = [flows EXCEPT ![c][NextFlow(c)] =
                   [op |-> "dial", via |-> "connect", era |-> NextEra(c),
                    sess |-> IF resume THEN anchor[c] ELSE None, prev |-> None]]
    /\ waiters' = [waiters EXCEPT ![c] = {}]
    /\ wire' = [wire EXCEPT ![c] = "none"]
    /\ UNCHANGED minted

\* disconnectAsync: an agent that advertised session/close is told first and
\* the link drops when it answers, or after 1.5 s.
DisconnectFirst(c) ==
    /\ client[c].linked /\ client[c].sid # None
    /\ Start(c, "close", "user", client[c].sid)
    /\ UNCHANGED <<storeVars, client, waiters, wire, minted>>

Disconnect(c) ==
    /\ Drained
    /\ c \in known
    /\ status[c] \in {"connecting", "connected"}
    /\ \/ DisconnectFirst(c)
       \/ Report(c, TRUE) /\ UNCHANGED flows

\* Removing a connection drops its client, for an agent without session/close.
Remove(c) ==
    /\ Drained
    /\ status[c] # "disconnected"
    /\ CloseConnection(c)
    /\ client' = [client EXCEPT ![c] = NewClient]
    /\ waiters' = [waiters EXCEPT ![c] = {}]
    /\ flows' = [flows EXCEPT ![c] = NoFlows]
    /\ wire' = [wire EXCEPT ![c] = "none"]
    /\ UNCHANGED minted

Seed(c) == Drained /\ SeedConnection(c) /\ UNCHANGED clientVars

ForegroundConnectionOnly(c) ==      \* mutant: the session pointer stays behind
    /\ Drained
    /\ status[c] # "disconnected"
    /\ c \in known
    /\ activeConn' = c
    /\ UNCHANGED <<slotVars, port, staged, activeSess, selGen, clientVars>>

\* A click on a connection that is not offline, or on its settled session.
ForegroundConnection(c) ==
    /\ Drained
    /\ status[c] # "disconnected"
    /\ Foreground(c)
    /\ UNCHANGED clientVars

\* A click on a retained document of a connection that is not up.
OpenRetained(c, s) ==
    /\ Drained
    /\ s \in listed[c] /\ s # anchor[c]
    /\ ViewRetained(c, s)
    /\ UNCHANGED clientVars

\* A new session on a connection that is up and not busy.  It is foregrounded
\* even where the client then ignores the call, which is ForegroundConnection.
NewSession(c) ==
    /\ Drained
    /\ status[c] = "connected" /\ ~Busy(c)
    /\ Linked(c) /\ client[c].turn = 0 /\ ~client[c].switching
    /\ Foreground(c)
    /\ Start(c, "new", "user", None)
    /\ UNCHANGED <<client, waiters, wire, minted>>

\* openLiveSession on a connection that is up: foreground it, then loadSession
\* stages the switch and asks the agent to replay the session.
OpenSession(c, s) ==
    /\ Drained
    /\ selGen < MaxSelections
    /\ s \in listed[c] /\ s # anchor[c]
    /\ ~(activeConn = c /\ activeSess = s)
    /\ status[c] = "connected" /\ ~Busy(c)
    /\ Linked(c) /\ client[c].turn = 0 /\ ~client[c].switching
    /\ \E x \in ForegroundSession(c) : Show(c, x)
    /\ StageSession(c, s, client[c].gen)
    /\ Start(c, "load", "user", s)
    /\ client' = [client EXCEPT ![c].sid = s, ![c].switching = TRUE]
    /\ UNCHANGED <<waiters, wire, minted>>

DeleteSession(c, s) ==
    /\ Drained
    /\ selGen < MaxSelections
    /\ s \in listed[c]
    /\ ~(activeConn = c /\ activeSess = s)
    /\ status[c] = "connected" /\ ~Busy(c)
    /\ Linked(c) /\ ~client[c].switching
    /\ Start(c, "delete", "user", s)
    /\ UNCHANGED <<storeVars, client, waiters, wire, minted>>

\* The login card, and the standing login entry of the status bar: neither
\* looks at the turn or at a switch.
Authenticate(c) ==
    /\ Drained
    /\ activeConn = c /\ Linked(c) /\ client[c].login
    /\ status[c] \in {"auth_required", "connected"}
    /\ Start(c, "auth", "auth", None)
    /\ UNCHANGED <<storeVars, client, waiters, wire, minted>>

\* The composer is open on an idle document of a link that is up.
ComposerOpen ==
    /\ activeConn # None
    /\ status[activeConn] = "connected"
    /\ switching[activeConn] = None
    /\ ShownDoc.status = "idle"

Send(c) ==
    LET s == client[c].sid IN
    /\ Drained
    /\ activeConn = c /\ ComposerOpen
    /\ Linked(c) /\ s # None /\ ~client[c].switching
    /\ Update(c, WithStatus(c, WithContent(c, docs[c], s), "running"))
    /\ Start(c, "prompt", "user", s)
    /\ client' = [client EXCEPT ![c].turn = NextFlow(c)]
    /\ UNCHANGED <<waiters, wire, minted>>

\* Stop: answers every waiter; the turn itself ends when the agent says so.
Cancel(c) ==
    /\ Drained
    /\ activeConn = c /\ status[c] = "connected" /\ ShownDoc.status = "running"
    /\ Linked(c) /\ client[c].sid # None /\ client[c].turn # 0
    /\ Update(c, Swept(c, docs[c], client[c].turn))
    /\ waiters' = [waiters EXCEPT ![c] = {}]
    /\ UNCHANGED <<client, flows, wire, minted>>

\* settlePermission of one waiter.
Settle(c, w) ==
    LET rest == waiters[c] \ {w}
    IN  /\ waiters' = [waiters EXCEPT ![c] = rest]
        /\ Update(c, Fold(c, docs[c], [Fed(c, docs[c]) EXCEPT
                        !.cards = @ \ {w.tool}, !.status = Converge(rest, client[c].turn)]))
        /\ UNCHANGED <<client, flows, wire, minted>>

\* findPermissionWaiter: the routed session's waiter, else any for that tool.
FoundWaiter(c, t) ==
    IF [sess |-> client[c].sid, tool |-> t] \in waiters[c]
    THEN {[sess |-> client[c].sid, tool |-> t]}
    ELSE {w \in waiters[c] : w.tool = t}

ResolvePermission(c, t) ==
    /\ Drained
    /\ activeConn = c /\ t \in ShownDoc.cards
    /\ \E w \in FoundWaiter(c, t) : Settle(c, w)

\* setMode and setConfigOption: the answer is written when it arrives.
SetMode(c) ==
    /\ Drained
    /\ activeConn = c /\ Linked(c) /\ client[c].sid # None
    /\ Start(c, "mode", "user", client[c].sid)
    /\ UNCHANGED <<storeVars, client, waiters, wire, minted>>
-----------------------------------------------------------------------------
(* The continuations of connect.  An agent's answer needs a wire; a failure *)
(* comes from the agent or from a dead wire.                               *)

Awaits(c, i, op) == InFlight(c, i, op) /\ Live(c, flows[c][i])
Answered(c, i, op) == Drained /\ Awaits(c, i, op) /\ wire[c] = "up"
Rejected(c, i, op) == Drained /\ Awaits(c, i, op)
Via(c, i) == flows[c][i].via

\* isAuthRequired with login methods at hand: the link stays up behind the
\* login card.
Challenge(c) ==
    /\ client[c].login
    /\ SetStatus(c, "auth_required")
    /\ UNCHANGED <<client, waiters, wire, minted>>

ChallengeOrReport(c, i) ==
    /\ End(c, i)
    /\ Challenge(c) \/ Report(c, FALSE)

\* transport.connect() resolves.  A dial that was superseded closes its
\* transport and nothing else.
DialDone(c, i) ==
    /\ Drained
    /\ InFlight(c, i, "dial")
    /\ IF Live(c, flows[c][i])
       THEN /\ Become(c, i, "init")
            /\ client' = [client EXCEPT ![c].linked = TRUE]
            /\ wire' = [wire EXCEPT ![c] = "up"]
       ELSE End(c, i) /\ UNCHANGED <<client, wire>>
    /\ UNCHANGED <<storeVars, waiters, minted>>

DialFail(c, i) ==
    /\ Drained
    /\ InFlight(c, i, "dial")
    /\ End(c, i)
    /\ IF Live(c, flows[c][i])
       THEN Report(c, FALSE)
       ELSE UNCHANGED <<storeVars, client, waiters, wire, minted>>

\* initialize says whether the agent has login methods, and whether its sessions
\* can be listed.
InitDone(c, i, login) ==
    /\ Answered(c, i, "init")
    /\ client' = [client EXCEPT ![c].login = login]
    /\ Become(c, i, "list") \/ Become(c, i, "ready")
    /\ UNCHANGED <<storeVars, waiters, wire, minted>>

\* fetchSessionList: a request for each page, called "list" and "page" in turn, as
\* long as the agent names a next one.  What the pages hold is merged at the end;
\* a failure is not fatal.
Listing(c, i) == Awaits(c, i, "list") \/ Awaits(c, i, "page")

TurnPage(c, i) ==
    /\ \/ Answered(c, i, "list") /\ Become(c, i, "page")
       \/ Answered(c, i, "page") /\ Become(c, i, "list")
    /\ UNCHANGED <<storeVars, client, waiters, wire, minted>>

ListDone(c, i, S) ==
    /\ Drained /\ Listing(c, i) /\ wire[c] = "up"
    /\ MergeSessions(c, S)
    /\ Become(c, i, "ready")
    /\ UNCHANGED <<client, waiters, wire, minted>>

ListFail(c, i) ==
    /\ Drained /\ Listing(c, i)
    /\ Become(c, i, "ready")
    /\ UNCHANGED <<storeVars, client, waiters, wire, minted>>

\* Resume without replay, replay by session/load, or a new session: what the
\* agent can do decides.
Resume(c, i, s) ==
    /\ client' = [client EXCEPT ![c].sid = s]
    /\ AdoptSession(c, s)
    /\ Become(c, i, "resume")

Replay(c, i, s) ==
    /\ client' = [client EXCEPT ![c].sid = s, ![c].switching = TRUE]
    /\ StageSession(c, s, client[c].gen)
    /\ UNCHANGED <<activeConn, activeSess>>
    /\ BecomeFrom(c, i, "load", client[c].sid)

Establish(c, i) ==
    LET s == flows[c][i].sess IN
    /\ Awaits(c, i, "ready")
    /\ \/ s # None /\ Resume(c, i, s)
       \/ s # None /\ Replay(c, i, s)
       \/ BecomeFrom(c, i, "new", client[c].sid) /\ UNCHANGED <<storeVars, client>>
    /\ UNCHANGED <<waiters, wire, minted>>

ResumeDone(c, i) ==
    /\ Answered(c, i, "resume")
    /\ Become(c, i, "up")
    /\ UNCHANGED <<storeVars, client, waiters, wire, minted>>

\* onConnected: after a connect, and after a login.
Up(c, i) ==
    /\ Awaits(c, i, "up")
    /\ SetStatus(c, "connected")
    /\ End(c, i)
    /\ UNCHANGED <<client, waiters, wire, minted>>

InitFail(c, i)   == Rejected(c, i, "init") /\ ChallengeOrReport(c, i)
ResumeFail(c, i) == Rejected(c, i, "resume") /\ ChallengeOrReport(c, i)
Failed(c, i)     == Awaits(c, i, "failed") /\ ChallengeOrReport(c, i)
-----------------------------------------------------------------------------
(* The continuations of the user's requests.                               *)

\* establishSession's second half.
NewDone(c, i, s) ==
    /\ Answered(c, i, "new")
    /\ \A d \in Conn : s \notin minted[d]
    /\ minted' = [minted EXCEPT ![c] = @ \cup {s}]
    /\ client' = [client EXCEPT ![c].sid = s]
    /\ AdoptSession(c, s)
    /\ IF Via(c, i) = "user" THEN End(c, i) ELSE Become(c, i, "up")
    /\ UNCHANGED <<waiters, wire>>

NewFail(c, i) == Rejected(c, i, "new") /\ ChallengeOrReport(c, i)

\* loadSessionInternal's second half, commit path and catch path.
LoadDoneLocked(c, i) ==     \* mutant: the in-flight flag is released on failure only
    /\ Answered(c, i, "load")
    /\ CommitStaged(c, flows[c][i].era)
    /\ IF Via(c, i) = "user" THEN End(c, i) ELSE Become(c, i, "up")
    /\ UNCHANGED <<client, waiters, wire, minted>>

LoadDone(c, i) ==
    /\ Answered(c, i, "load")
    /\ CommitStaged(c, flows[c][i].era)
    /\ client' = [client EXCEPT ![c].switching = FALSE]
    /\ IF Via(c, i) = "user" THEN End(c, i) ELSE Become(c, i, "up")
    /\ UNCHANGED <<waiters, wire, minted>>

LoadFail(c, i) ==
    /\ Rejected(c, i, "load")
    /\ RollbackStaged(c, flows[c][i].era)
    /\ client' = [client EXCEPT ![c].switching = FALSE, ![c].sid = flows[c][i].prev]
    /\ IF Via(c, i) = "user" THEN End(c, i) ELSE Become(c, i, "failed")
    /\ UNCHANGED <<waiters, wire, minted>>

\* authenticate goes on to establish a session.
AuthDone(c, i) ==
    /\ Answered(c, i, "auth")
    /\ BecomeFrom(c, i, "new", client[c].sid)
    /\ UNCHANGED <<storeVars, client, waiters, wire, minted>>

AuthFail(c, i) == Rejected(c, i, "auth") /\ ChallengeOrReport(c, i)

DeleteDone(c, i) ==
    LET s == flows[c][i].sess IN
    /\ Answered(c, i, "delete")
    /\ client' = [client EXCEPT ![c].sid = IF @ = s THEN None ELSE @]
    /\ RemoveSession(c, s)
    /\ End(c, i)
    /\ UNCHANGED <<waiters, wire, minted>>

DeleteFail(c, i) == Rejected(c, i, "delete") /\ End(c, i) /\ Report(c, FALSE)

ModeDone(c, i) ==
    /\ Answered(c, i, "mode")
    /\ Update(c, WithContent(c, docs[c], flows[c][i].sess))
    /\ End(c, i)
    /\ UNCHANGED <<client, waiters, wire, minted>>

ModeFail(c, i) ==
    /\ Rejected(c, i, "mode")
    /\ End(c, i)
    /\ UNCHANGED <<storeVars, client, waiters, wire, minted>>

\* send's finally: the turn slot is released by its owner only, and an empty
\* slot settles the document.
TurnOver(c, i, d) ==
    LET turn == IF client[c].turn = i THEN 0 ELSE client[c].turn
    IN  /\ client' = [client EXCEPT ![c].turn = turn]
        /\ Update(c, IF turn = 0 THEN WithStatus(c, d, "idle") ELSE d)
        /\ End(c, i)
        /\ UNCHANGED <<wire, minted>>

PromptDone(c, i) ==
    /\ Answered(c, i, "prompt")
    /\ TurnOver(c, i, docs[c])
    /\ UNCHANGED waiters

PromptFail(c, i) ==
    /\ Rejected(c, i, "prompt")
    /\ TurnOver(c, i, Swept(c, docs[c], client[c].turn))
    /\ waiters' = [waiters EXCEPT ![c] = {}]

\* session/close was answered, failed, or 1.5 s are over.
CloseDone(c, i) ==
    /\ Rejected(c, i, "close")
    /\ End(c, i)
    /\ Report(c, TRUE)

\* The requests that go through controlRequest.
BoundedButLoad == {"init", "list", "page", "resume", "new", "delete", "mode"}   \* mutant
BoundedButList == {"init", "resume", "load", "new", "delete", "mode"}           \* mutant
Bounded == {"init", "list", "page", "resume", "load", "new", "delete", "mode"}

\* controlRequest gives up on an agent that does not answer: the link drops
\* and the flow finds itself superseded.
Timeout(c, i) ==
    /\ Drained
    /\ \E op \in Bounded : Awaits(c, i, op)
    /\ Report(c, FALSE)
    /\ UNCHANGED flows

\* A flow whose era is over: the cleanup has closed its connection, so its
\* request is rejected.  A load rolls back what it staged, if that is still its
\* own; a turn settles; every other flow just returns.
StaleLoadRestores(c, i) ==      \* mutant: the routing of the dead era comes back
    /\ RollbackStaged(c, flows[c][i].era)
    /\ client' = [client EXCEPT ![c].switching = FALSE, ![c].sid = flows[c][i].prev]
    /\ End(c, i)
    /\ UNCHANGED <<waiters, wire, minted>>

StaleLoad(c, i) ==
    /\ RollbackStaged(c, flows[c][i].era)
    /\ client' = [client EXCEPT ![c].switching = FALSE]
    /\ End(c, i)
    /\ UNCHANGED <<waiters, wire, minted>>

StaleTurn(c, i) == TurnOver(c, i, docs[c]) /\ UNCHANGED waiters

StaleOther(c, i) == End(c, i) /\ UNCHANGED <<storeVars, client, waiters, wire, minted>>

SettleStale(c, i) ==
    /\ flows[c][i] # None
    /\ ~Live(c, flows[c][i])
    /\ CASE flows[c][i].op = "load"   -> StaleLoad(c, i)
         [] flows[c][i].op = "prompt" -> StaleTurn(c, i)
         [] flows[c][i].op = "dial"   -> FALSE
         [] OTHER                     -> StaleOther(c, i)
-----------------------------------------------------------------------------
(* The agent and the network.                                              *)

\* Updates and requests of a foreign session are dropped, or answered
\* cancelled; without a session of its own the client takes them all.
Routed(c, s) == client[c].sid \in {s, None}
Speaks(c) == Drained /\ Linked(c) /\ wire[c] = "up"

AgentUpdate(c, s) ==
    /\ Speaks(c)
    /\ s \in minted[c] /\ Routed(c, s)
    /\ Update(c, WithContent(c, docs[c], s))
    /\ UNCHANGED clientVars

\* A repeated request supersedes the waiter under its key: the old one is
\* answered, the card is asked again.
AgentPermission(c, s, t) ==
    /\ Speaks(c)
    /\ s \in minted[c] /\ Routed(c, s)
    /\ waiters' = [waiters EXCEPT ![c] = @ \cup {[sess |-> s, tool |-> t]}]
    /\ Update(c, Fold(c, docs[c], [Fed(c, WithContent(c, docs[c], s)) EXCEPT
                    !.cards = @ \cup {t}, !.status = "requires_action"]))
    /\ UNCHANGED <<client, flows, wire, minted>>

\* The agent withdraws a request it made.
PermissionAbort(c, w) == Speaks(c) /\ w \in waiters[c] /\ Settle(c, w)

WireDown(c) ==
    /\ Drained
    /\ wire[c] = "up"
    /\ wire' = [wire EXCEPT ![c] = "down"]
    /\ UNCHANGED <<storeVars, client, waiters, flows, minted>>

\* connection.closed, with the close code where the link was not established.
ClosedWatcher(c) ==
    /\ Drained
    /\ wire[c] = "down" /\ Linked(c)
    /\ Report(c, FALSE)
    /\ UNCHANGED flows
-----------------------------------------------------------------------------
User(c) ==
    \/ \E resume \in BOOLEAN : Connect(c, resume)
    \/ Disconnect(c)
    \/ Remove(c)
    \/ Seed(c)
    \/ ForegroundConnection(c)
    \/ \E s \in Session : OpenRetained(c, s)
    \/ NewSession(c)
    \/ \E s \in Session : OpenSession(c, s)
    \/ \E s \in Session : DeleteSession(c, s)
    \/ Authenticate(c)
    \/ Send(c)
    \/ Cancel(c)
    \/ \E t \in Tool : ResolvePermission(c, t)
    \/ SetMode(c)

Continue(c, i) ==
    \/ DialDone(c, i)
    \/ DialFail(c, i)
    \/ \E login \in BOOLEAN : InitDone(c, i, login)
    \/ TurnPage(c, i)
    \/ \E S \in SUBSET minted[c] : ListDone(c, i, S)
    \/ ListFail(c, i)
    \/ InitFail(c, i)
    \/ Establish(c, i)
    \/ ResumeDone(c, i)
    \/ ResumeFail(c, i)
    \/ Failed(c, i)
    \/ Up(c, i)
    \/ \E s \in Session : NewDone(c, i, s)
    \/ NewFail(c, i)
    \/ LoadDone(c, i)
    \/ LoadFail(c, i)
    \/ AuthDone(c, i)
    \/ AuthFail(c, i)
    \/ DeleteDone(c, i)
    \/ DeleteFail(c, i)
    \/ ModeDone(c, i)
    \/ ModeFail(c, i)
    \/ PromptDone(c, i)
    \/ PromptFail(c, i)
    \/ CloseDone(c, i)
    \/ Timeout(c, i)
    \/ SettleStale(c, i)

Environment(c) ==
    \/ \E s \in Session : AgentUpdate(c, s)
    \/ \E s \in Session, t \in Tool : AgentPermission(c, s, t)
    \/ \E w \in waiters[c] : PermissionAbort(c, w)
    \/ WireDown(c)
    \/ ClosedWatcher(c)

Next == \E c \in Conn : User(c) \/ (\E i \in FlowId : Continue(c, i)) \/ Environment(c)

Spec == Init /\ [][Next]_vars

\* The timer of a request: it does not pend for good.  Each page has a request, and
\* a timer, of its own.
Pending(c, i, ops) == \E op \in ops \cap Bounded : Awaits(c, i, op)
TimerFires(c, i, ops) == []<>~Pending(c, i, ops) \/ []<><<Timeout(c, i)>>_vars

\* The engine runs every microtask; the operating system opens a transport or
\* refuses it; the timer of a request that stays unanswered fires, and so does the
\* watcher of a closed connection.  Microtasks of other flows may come between,
\* hence SF.
Fairness ==
    \A c \in Conn :
        /\ \A i \in FlowId :
            /\ WF_vars(SettleStale(c, i) \/ Establish(c, i) \/ Up(c, i) \/ Failed(c, i))
            /\ SF_vars(DialDone(c, i) \/ DialFail(c, i))
            /\ TimerFires(c, i, Bounded \ {"page"})
            /\ TimerFires(c, i, {"page"})
        /\ SF_vars(ClosedWatcher(c))

LiveSpec == Spec /\ Fairness
-----------------------------------------------------------------------------
(* What the clients promise.                                               *)

\* The clients, their users and their agents do to the store what some driver
\* could do, and nothing else: what is proved of every driver holds of them.
ImplementsStore == StoreSpec

\* Latest era wins: when a flow of a dead era settles, it changes nothing of
\* the connection that replaced it, except that a turn that died with its link
\* leaves the document idle.
EraIsolation ==
    [][\A c \in Conn, i \in FlowId :
         (/\ flows[c][i] # None /\ flows[c][i].era # client[c].gen
          /\ flows'[c][i] = None /\ c \in known') =>
            /\ UNCHANGED <<client, waiters, wire, minted, status, anchor, listed,
                           switching, port, staged, activeConn, activeSess, selGen>>
            /\ \A s \in Session : docs'[c][s] # docs[c][s] =>
                    s = port[c] /\ docs'[c][s].status = "idle"]_vars

\* Everything a client holds open belongs to a request of the live link that
\* will end it: the turn slot to a prompt, the switch lock to a load, and the
\* permission waiters to an agent that can still be answered.
OnlyLiveWork ==
    \A c \in Conn :
        /\ client[c].turn # 0 =>
               Awaits(c, client[c].turn, "prompt") /\ client[c].linked
        /\ client[c].switching => \E i \in FlowId : Awaits(c, i, "load")
        /\ waiters[c] # {} => client[c].linked

\* The client and the store agree on the switch in flight: there is at most one,
\* and the load that will commit it or roll it back is the one it was staged for.
SwitchIsOneLoad ==
    \A c \in Conn :
        /\ client[c].switching <=> staged[c] # None
        /\ staged[c] # None =>
              \E i \in FlowId : /\ Awaits(c, i, "load")
                                /\ flows[c][i].era = staged[c].era
                                /\ flows[c][i].sess = staged[c].target
        /\ \A i, j \in FlowId : Awaits(c, i, "load") /\ Awaits(c, j, "load") => i = j

\* What the agent says about the session the client is routed to never lands
\* in the document of another one.
NeverMisfed ==
    \A c \in Conn : Linked(c) /\ client[c].sid # None => port[c] \in {client[c].sid, None}

\* A prompt goes to the session the user is looking at.
PromptGoesWhereShown ==
    Drained /\ ComposerOpen /\ Linked(activeConn) /\ client[activeConn].sid # None =>
        activeSess = client[activeConn].sid

\* A document that shows a turn running is the one the client is routed to, so
\* the updates that end the turn can reach it.
RunningIsRouted ==
    \A c \in Conn, s \in Session :
        Drained /\ docs[c][s] # None /\ docs[c][s].status = "running" =>
            client[c].turn # 0 /\ client[c].sid = s

\* While the agent waits for an answer on the session in use, its document waits
\* for the user.
WaitersHoldTurn ==
    \A c \in Conn : \A w \in waiters[c] :
        w.sess = client[c].sid /\ port[c] = w.sess /\ staged[c] = None =>
            Fed(c, docs[c]).status = "requires_action"

\* The switch in flight has a target to land on.
StagedTargetListed == \A c \in Conn : staged[c] # None => staged[c].target \in listed[c]

\* No document holds what was said of another session.
NoForeignContent ==
    \A c \in Conn, s \in Session : docs[c][s] # None => ~docs[c][s].mixed

\* A switch never locks its connection for good.
SwitchSettles == \A c \in Conn : switching[c] # None ~> switching[c] = None

\* Connecting lasts for good in one case only: the agent answers every page of its
\* session list and names a next one, again and again (fetchSessionList).
ConnectSettles ==
    \A c \in Conn : \/ []<>(status[c] # "connecting")
                    \/ []<><<\E i \in FlowId : TurnPage(c, i)>>_vars

\* Connecting never lasts for good (CONTROL_REQUEST_TIMEOUT_MS): refuted, see
\* ConnectSettles.
ConnectIsBounded == \A c \in Conn : status[c] = "connecting" ~> status[c] # "connecting"
=============================================================================
