-------------------------- MODULE ConnectionStore --------------------------
(***************************************************************************)
(* The client-side store of live connections: one slot per connection      *)
(* (src/store.ts) and the bookkeeping each connection's driver keeps next  *)
(* to it (the entry and the wired handlers of src/liveConnections.ts).     *)
(*                                                                         *)
(* A slot holds the connection's status, its settled session (the anchor), *)
(* the session documents, the sidebar list and the marker of a session     *)
(* switch in flight.  A driver writes through a port that remembers the    *)
(* session it feeds.  The UI shows one session of one connection.          *)
(*                                                                         *)
(* Session switches are transactions: stage, then commit or roll back.  A  *)
(* global counter, selGen, says which of them is the latest selection.     *)
(*                                                                         *)
(* The actions of this module are the operations of the port and of the    *)
(* handlers; StoreNext lets any driver call them in any order the handlers *)
(* allow.  LiveConnections replaces that driver by the real client.        *)
(***************************************************************************)
EXTENDS Naturals, FiniteSets

CONSTANTS
    Conn,           \* connection ids
    Session,        \* session ids
    Doc,            \* what a session document can hold
    EmptyDoc,       \* emptySession()
    None,           \* null, undefined, an absent document
    Era,            \* connection generations a driver can name
    MaxSelections   \* bound on selGen, tested where a switch or a deletion starts

Maybe(S) == S \cup {None}

\* SessionSwitchSnapshot, with the era the entry files it under.
Snapshot == [target: Session, prev: Maybe(Session), doc: Maybe(Doc),
             anchor: Maybe(Session), token: Nat, era: Era]
Marker   == [sess: Session, token: Nat]
Status   == {"disconnected", "connecting", "connected", "auth_required", "error"}

ASSUME NoneAssumption == /\ None \notin Conn \cup Session \cup Doc
                         /\ None \notin Snapshot \cup Marker
ASSUME DocAssumption  == EmptyDoc \in Doc
ASSUME EraAssumption  == Era \subseteq Nat
ASSUME SelAssumption  == MaxSelections \in Nat

VARIABLES
    known,      \* the connections that have a slot
    status,     \* connection.status
    anchor,     \* connection.sessionId: the settled session
    docs,       \* the slot's documents, None where there is none
    listed,     \* the sessions in the slot's sidebar list
    switching,  \* the slot's switch marker
    port,       \* currentSessionId of the connection's port
    staged,     \* entry.stagedSwitch
    activeConn, activeSess,     \* the UI pointer
    selGen      \* selectionGeneration

slotVars  == <<known, status, anchor, docs, listed, switching>>
storeVars == <<slotVars, port, staged, activeConn, activeSess, selGen>>

StoreTypeOK ==
    /\ known \subseteq Conn
    /\ status \in [Conn -> Status]
    /\ anchor \in [Conn -> Maybe(Session)]
    /\ docs \in [Conn -> [Session -> Maybe(Doc)]]
    /\ listed \in [Conn -> SUBSET Session]
    /\ switching \in [Conn -> Maybe(Marker)]
    /\ port \in [Conn -> Maybe(Session)]
    /\ staged \in [Conn -> Maybe(Snapshot)]
    /\ activeConn \in Maybe(Conn)
    /\ activeSess \in Maybe(Session)
    /\ selGen \in Nat

NoDocs == [s \in Session |-> None]

\* The sidebar has seeded one offline slot per profile; the first one seeded
\* is in the foreground.
StoreInit ==
    /\ known = Conn
    /\ status = [c \in Conn |-> "disconnected"]
    /\ anchor = [c \in Conn |-> None]
    /\ docs = [c \in Conn |-> NoDocs]
    /\ listed = [c \in Conn |-> {}]
    /\ switching = [c \in Conn |-> None]
    /\ port = [c \in Conn |-> None]
    /\ staged = [c \in Conn |-> None]
    /\ activeConn \in Conn
    /\ activeSess = None
    /\ selGen = 0
-----------------------------------------------------------------------------
(* Shared vocabulary of the operations.                                    *)

\* Only the foreground connection moves what the user looks at.
CarriesUiPointer(c) == activeConn \in {c, None}

\* A document that is there already is kept.
Opened(d, s) == IF d[s] = None THEN [d EXCEPT ![s] = EmptyDoc] ELSE d

\* What the documents d of c can become by writes through its port.
Written(c, d) ==
    {d} \cup (IF port[c] = None THEN {} ELSE {[d EXCEPT ![port[c]] = x] : x \in Doc})

\* The documents d of c once its staged switch, if any, is rolled back: the
\* target gets back what it was, unless it was deleted meanwhile.
Restored(c, d) ==
    IF staged[c] # None /\ staged[c].target \in listed[c]
    THEN [d EXCEPT ![staged[c].target] = staged[c].doc]
    ELSE d

\* Staging a switch makes it the latest selection.
SameSelection == selGen         \* mutant: ++selectionGeneration forgotten
NextSelection == selGen + 1

NeverSuperseded(c) == FALSE     \* mutant: the token is not compared
Superseded(c) == staged[c].token # selGen

\* Only the transaction's own marker is cleared.
LeaveMarker(c) == UNCHANGED switching       \* mutant: the busy marker stays
ClearMarker(c) ==
    switching' = IF switching[c] # None /\ switching[c].token = staged[c].token
                 THEN [switching EXCEPT ![c] = None]
                 ELSE switching

\* abandonStagedSwitch, its documents apart (they are Restored by the caller):
\* it invalidates first, so the rollback is superseded and moves no pointer.
Abandon(c) ==
    IF staged[c] = None
    THEN UNCHANGED <<staged, switching, selGen>>
    ELSE /\ selGen' = selGen + 1
         /\ ClearMarker(c)
         /\ staged' = [staged EXCEPT ![c] = None]

\* What foregrounding c may show; which retained document is the newest one
\* is left open.
ForegroundSession(c) ==
    IF anchor[c] # None THEN {anchor[c]}
    ELSE IF /\ activeConn = c
            /\ activeSess # None
            /\ docs[c][activeSess] # None
         THEN {activeSess}
         ELSE LET retained == {s \in listed[c] : docs[c][s] # None}
              IN  IF retained = {} THEN {None} ELSE retained
-----------------------------------------------------------------------------
(* The operations.                                                         *)

\* seedProfileSlots for a profile without a slot.  The list comes back from
\* the endpoint's memory; resetDocument writes through a port that has no
\* session yet.
SeedConnection(c) ==
    /\ c \notin known
    /\ known' = known \cup {c}
    /\ activeConn' = IF activeConn = None THEN c ELSE activeConn
    /\ UNCHANGED <<status, anchor, docs, listed, switching, port, staged,
                   activeSess, selGen>>

\* connectLiveConnection up to the client's connect, which settles the old
\* era's business into the document the port feeds: d is the result.
Dial(c, resume, d) ==
    /\ known' = known \cup {c}
    /\ activeConn' = c                                   \* ensureConnection
    /\ status' = [status EXCEPT ![c] = "connecting"]
    /\ anchor' = [anchor EXCEPT ![c] = IF resume THEN @ ELSE None]
    /\ Abandon(c)
    /\ d \in Written(c, Restored(c, docs[c]))
    /\ docs' = [docs EXCEPT ![c] = d]
    /\ UNCHANGED <<listed, port, activeSess>>

\* onConnected and onAuthChallenge: setConnection({status, ...}).
SetStatus(c, st) ==
    /\ c \in known
    /\ status' = [status EXCEPT ![c] = st]
    /\ UNCHANGED <<known, anchor, docs, listed, switching, port, staged,
                   activeConn, activeSess, selGen>>

\* onDisconnected.  An unexpected end keeps the anchor so that the user can
\* resume, a clean one drops it.  d is the documents after the client's
\* cleanup settled what was pending.
Disconnected(c, clean, d) ==
    /\ c \in known
    /\ d \in Written(c, docs[c])
    /\ Abandon(c)
    /\ docs' = [docs EXCEPT ![c] = Restored(c, d)]
    /\ status' = [status EXCEPT ![c] = IF clean THEN "disconnected" ELSE "error"]
    /\ anchor' = [anchor EXCEPT ![c] = IF clean THEN None ELSE @]
    /\ UNCHANGED <<known, listed, port, activeConn, activeSess>>

\* adoptSession.
AdoptSession(c, s) ==
    /\ c \in known
    /\ port' = [port EXCEPT ![c] = s]
    /\ docs' = [docs EXCEPT ![c] = Opened(@, s)]
    /\ anchor' = [anchor EXCEPT ![c] = s]
    /\ listed' = [listed EXCEPT ![c] = @ \cup {s}]
    /\ activeSess' = IF CarriesUiPointer(c) THEN s ELSE activeSess
    /\ UNCHANGED <<known, status, switching, staged, activeConn, selGen>>

\* mergeSessions.
MergeUnchecked(c, S) ==     \* mutant: an entry without an id is not dropped
    /\ c \in known
    /\ listed' = [listed EXCEPT ![c] = @ \cup S \cup {None}]
    /\ UNCHANGED <<known, status, anchor, docs, switching, port, staged,
                   activeConn, activeSess, selGen>>

MergeSessions(c, S) ==
    /\ c \in known
    /\ listed' = [listed EXCEPT ![c] = @ \cup S]
    /\ UNCHANGED <<known, status, anchor, docs, switching, port, staged,
                   activeConn, activeSess, selGen>>

\* update: whatever the event, it lands in the document the port feeds.
Update(c, d) ==
    /\ c \in known
    /\ d \in Written(c, docs[c])
    /\ docs' = [docs EXCEPT ![c] = d]
    /\ UNCHANGED <<known, status, anchor, listed, switching, port, staged,
                   activeConn, activeSess, selGen>>

\* onSessionSwitchStage and the onReplayStart that follows it: snapshot the
\* pre-state, mint the token, route the port to the target and clear the
\* target's document for the replay.  The UI pointer is the caller's: a click
\* on a session foregrounds its connection in the same step.
StageSession(c, s, e) ==
    /\ c \in known
    /\ selGen' = NextSelection
    /\ staged' = [staged EXCEPT ![c] =
                    [target |-> s, prev |-> port[c], doc |-> docs[c][s],
                     anchor |-> anchor[c], token |-> NextSelection, era |-> e]]
    /\ switching' = [switching EXCEPT ![c] = [sess |-> s, token |-> NextSelection]]
    /\ port' = [port EXCEPT ![c] = s]
    /\ docs' = [docs EXCEPT ![c][s] = EmptyDoc]
    /\ listed' = [listed EXCEPT ![c] = @ \cup {s}]
    /\ UNCHANGED <<known, status, anchor>>

\* onSessionSwitchCommit for the era the staged switch belongs to.
CommitStaged(c, e) ==
    /\ c \in known
    /\ IF staged[c] = None \/ staged[c].era # e
       THEN UNCHANGED <<anchor, activeSess, switching, staged>>
       ELSE /\ staged' = [staged EXCEPT ![c] = None]
            /\ IF Superseded(c)
               THEN ClearMarker(c) /\ UNCHANGED <<anchor, activeSess>>
               ELSE /\ switching' = [switching EXCEPT ![c] = None]
                    /\ anchor' = [anchor EXCEPT ![c] = staged[c].target]
                    /\ activeSess' = IF CarriesUiPointer(c)
                                     THEN staged[c].target ELSE activeSess
    /\ UNCHANGED <<known, status, docs, listed, port, activeConn, selGen>>

\* onSessionSwitchRollback for the era the staged switch belongs to.
RollbackStaged(c, e) ==
    /\ c \in known
    /\ IF staged[c] = None \/ staged[c].era # e
       THEN UNCHANGED <<anchor, docs, port, switching, staged>>
       ELSE /\ staged' = [staged EXCEPT ![c] = None]
            /\ docs' = [docs EXCEPT ![c] = Restored(c, @)]
            /\ ClearMarker(c)
            /\ IF Superseded(c)
               THEN UNCHANGED <<anchor, port>>
               ELSE /\ port' = [port EXCEPT ![c] = staged[c].prev]
                    /\ anchor' = [anchor EXCEPT ![c] = staged[c].anchor]
    /\ UNCHANGED <<known, status, listed, activeConn, activeSess, selGen>>

\* removeSession.  Deleting a session that is routed, staged or settled here
\* invalidates the selections in flight.
RemoveSession(c, s) ==
    LET touches == \/ port[c] = s
                   \/ anchor[c] = s
                   \/ switching[c] # None /\ switching[c].sess = s
    IN
    /\ c \in known
    /\ selGen' = IF touches THEN selGen + 1 ELSE selGen
    /\ port' = [port EXCEPT ![c] = IF @ = s THEN None ELSE @]
    /\ anchor' = [anchor EXCEPT ![c] = IF @ = s THEN None ELSE @]
    /\ docs' = [docs EXCEPT ![c][s] = None]
    /\ listed' = [listed EXCEPT ![c] = @ \ {s}]
    /\ activeSess' = IF activeSess = s THEN None ELSE activeSess
    /\ UNCHANGED <<known, status, switching, staged, activeConn>>

\* setActiveConnection: both pointers move at once, to an explicit session or
\* to the one foregrounding c shows.
Show(c, s) == activeConn' = c /\ activeSess' = s

SetActiveConnection(c, s) ==
    /\ c \in known
    /\ Show(c, s)
    /\ UNCHANGED <<slotVars, port, staged, selGen>>

\* removeLiveConnection.  The client's disconnect reports first, which abandons
\* a staged switch; then the entry goes (its port with it) and closeConnection
\* drops the slot.  The sessions stay in the endpoint's memory, from which the
\* next seed or dial lists them again.
CloseConnection(c) ==
    /\ c \in known
    /\ selGen' = IF staged[c] # None THEN selGen + 1 ELSE selGen
    /\ known' = known \ {c}
    /\ status' = [status EXCEPT ![c] = "disconnected"]
    /\ anchor' = [anchor EXCEPT ![c] = None]
    /\ docs' = [docs EXCEPT ![c] = NoDocs]
    /\ switching' = [switching EXCEPT ![c] = None]
    /\ port' = [port EXCEPT ![c] = None]
    /\ staged' = [staged EXCEPT ![c] = None]
    /\ activeConn' = IF activeConn = c THEN None ELSE activeConn
    /\ activeSess' = IF activeConn = c THEN None ELSE activeSess
    /\ UNCHANGED listed
-----------------------------------------------------------------------------
(* Any driver: it stages one switch at a time, everything else is free.    *)

Foreground(c) == \E s \in ForegroundSession(c) : SetActiveConnection(c, s)

\* openLiveSession on an offline slot: look at a retained document.
ViewRetained(c, s) ==
    /\ status[c] # "connected"
    /\ docs[c][s] # None
    /\ SetActiveConnection(c, s)

Stage(c, s, e) ==
    /\ staged[c] = None
    /\ StageSession(c, s, e)
    /\ \/ UNCHANGED <<activeConn, activeSess>>
       \/ \E x \in ForegroundSession(c) : Show(c, x)

\* One operation; mayStart bounds the model: whether a switch or a deletion may
\* start here.
StoreStep(c, mayStart) ==
    \/ SeedConnection(c)
    \/ \E resume \in BOOLEAN, d \in Written(c, Restored(c, docs[c])) : Dial(c, resume, d)
    \/ \E st \in {"connected", "auth_required"} : SetStatus(c, st)
    \/ \E clean \in BOOLEAN, d \in Written(c, docs[c]) : Disconnected(c, clean, d)
    \/ \E d \in Written(c, docs[c]) : Update(c, d)
    \/ \E S \in SUBSET Session : MergeSessions(c, S)
    \/ \E s \in Session : AdoptSession(c, s)
    \/ \E s \in Session, e \in Era : mayStart /\ Stage(c, s, e)
    \/ \E e \in Era : CommitStaged(c, e)
    \/ \E e \in Era : RollbackStaged(c, e)
    \/ \E s \in Session : mayStart /\ RemoveSession(c, s)
    \/ Foreground(c)
    \/ \E s \in Session : ViewRetained(c, s)
    \/ CloseConnection(c)

StoreNext == \E c \in Conn : StoreStep(c, TRUE)
StoreSpec == StoreInit /\ [][StoreNext]_storeVars

\* The same with selections bounded, to be enumerated.
BoundedNext == \E c \in Conn : StoreStep(c, selGen < MaxSelections)
BoundedSpec == StoreInit /\ [][BoundedNext]_storeVars
-----------------------------------------------------------------------------
(* What the store promises.                                                *)

\* A switch marker locks the slot's UI as busy (connectionLifecycle.busy), so
\* it never outlives its transaction: whoever staged it is still pending and
\* will clear it, by commit, by rollback or when the connection goes.
MarkerHasOwner ==
    \A c \in Conn : switching[c] # None =>
        /\ staged[c] # None
        /\ staged[c].token = switching[c].token
        /\ staged[c].target = switching[c].sess

\* Of all the switches in flight, on all connections, at most one can still
\* move a pointer: the one whose token is the newest.
OneSelectionWins ==
    \A c, d \in Conn :
        /\ c # d
        /\ staged[c] # None
        /\ staged[d] # None
        => staged[c].token # staged[d].token

\* No staged switch holds a token that was not minted yet.
TokensMinted == \A c \in Conn : staged[c] # None => staged[c].token \in 1..selGen

\* Latest wins: the end of a switch that was superseded, or abandoned with its
\* connection, never brings its target on screen and never makes it the
\* settled session.
LateEndMovesNothing ==
    [][\A c \in Conn :
         (staged[c] # None /\ staged[c].token # selGen /\ staged'[c] = None) =>
            /\ activeSess' \in {activeSess, None}
            /\ anchor'[c] \in {anchor[c], None}]_storeVars
=============================================================================
