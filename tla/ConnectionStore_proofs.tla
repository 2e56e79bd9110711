----------------------- MODULE ConnectionStore_proofs -----------------------
(***************************************************************************)
(* What holds of the store for every set of connections, sessions and      *)
(* documents, whatever order the drivers call it in.                       *)
(***************************************************************************)
EXTENDS ConnectionStore, TLAPS

USE NoneAssumption, DocAssumption, EraAssumption

Docs == [Session -> Maybe(Doc)]

\* Writing through a port keeps documents documents.
LEMMA WrittenType ==
    ASSUME StoreTypeOK, NEW c \in Conn, NEW d \in Docs
    PROVE  Written(c, d) \subseteq Docs
BY DEF StoreTypeOK, Written, Docs, Maybe

\* Rolling a staged switch back keeps documents documents.
LEMMA RestoredType ==
    ASSUME StoreTypeOK, NEW c \in Conn, NEW d \in Docs
    PROVE  Restored(c, d) \in Docs
<1>1. CASE staged[c] = None
    BY <1>1 DEF Restored
<1>2. CASE staged[c] # None
    <2>1. staged[c] \in Snapshot
        BY <1>2 DEF StoreTypeOK, Maybe
    <2>2. staged[c].doc \in Maybe(Doc)
        BY <2>1 DEF Snapshot
    <2> QED BY <2>2 DEF Restored, Docs
<1> QED BY <1>1, <1>2

\* Abandoning a staged switch keeps the bookkeeping well typed.
LEMMA AbandonType ==
    ASSUME StoreTypeOK, NEW c \in Conn, Abandon(c)
    PROVE  /\ staged' \in [Conn -> Maybe(Snapshot)]
           /\ switching' \in [Conn -> Maybe(Marker)]
           /\ selGen' \in Nat
BY DEF StoreTypeOK, Abandon, ClearMarker, Maybe

\* Foregrounding a connection shows a session or nothing.
LEMMA ForegroundType ==
    ASSUME StoreTypeOK, NEW c \in Conn
    PROVE  ForegroundSession(c) \subseteq Maybe(Session)
BY DEF StoreTypeOK, ForegroundSession, Maybe
-----------------------------------------------------------------------------
\* Every operation of the store keeps its variables well typed.
LEMMA StepType ==
    ASSUME StoreTypeOK, NEW c \in Conn, StoreStep(c, TRUE)
    PROVE  StoreTypeOK'
<1>1. docs[c] \in Docs
    BY DEF StoreTypeOK, Docs
<1>2. CASE SeedConnection(c)
    BY <1>2 DEF SeedConnection, StoreTypeOK, Maybe
<1>3. ASSUME NEW resume \in BOOLEAN, NEW d, Dial(c, resume, d) PROVE StoreTypeOK'
    <2>1. d \in Docs
        BY <1>1, <1>3, RestoredType, WrittenType DEF Dial
    <2> QED BY <1>3, <2>1, AbandonType DEF Dial, StoreTypeOK, Maybe, Docs, Status
<1>4. ASSUME NEW st \in {"connected", "auth_required"}, SetStatus(c, st)
      PROVE  StoreTypeOK'
    BY <1>4 DEF SetStatus, StoreTypeOK, Status
<1>5. ASSUME NEW clean \in BOOLEAN, NEW d, Disconnected(c, clean, d)
      PROVE  StoreTypeOK'
    <2>1. Restored(c, d) \in Docs
        BY <1>1, <1>5, RestoredType, WrittenType DEF Disconnected
    <2> QED BY <1>5, <2>1, AbandonType DEF Disconnected, StoreTypeOK, Maybe, Docs, Status
<1>6. ASSUME NEW d, Update(c, d) PROVE StoreTypeOK'
    <2>1. d \in Docs
        BY <1>1, <1>6, WrittenType DEF Update
    <2> QED BY <1>6, <2>1 DEF Update, StoreTypeOK, Docs
<1>7. ASSUME NEW S \in SUBSET Session, MergeSessions(c, S) PROVE StoreTypeOK'
    BY <1>7 DEF MergeSessions, StoreTypeOK
<1>8. ASSUME NEW s \in Session, AdoptSession(c, s) PROVE StoreTypeOK'
    BY <1>8 DEF AdoptSession, StoreTypeOK, Opened, Maybe
<1>9. ASSUME NEW s \in Session, NEW e \in Era, Stage(c, s, e) PROVE StoreTypeOK'
    <2>1. /\ staged' \in [Conn -> Maybe(Snapshot)]
          /\ switching' \in [Conn -> Maybe(Marker)]
        BY <1>9 DEF Stage, StageSession, NextSelection, StoreTypeOK, Snapshot, Marker, Maybe
    <2>2. activeConn' \in Maybe(Conn) /\ activeSess' \in Maybe(Session)
        BY <1>9, ForegroundType DEF Stage, Show, StoreTypeOK, Maybe
    <2> QED BY <1>9, <2>1, <2>2 DEF Stage, StageSession, NextSelection, StoreTypeOK, Maybe
<1>10. ASSUME NEW e \in Era, CommitStaged(c, e) PROVE StoreTypeOK'
    <2>1. staged[c] # None => staged[c] \in Snapshot /\ staged[c].target \in Session
        BY DEF StoreTypeOK, Maybe, Snapshot
    <2> QED BY <1>10, <2>1 DEF CommitStaged, ClearMarker, StoreTypeOK, Maybe
<1>11. ASSUME NEW e \in Era, RollbackStaged(c, e) PROVE StoreTypeOK'
    <2>1. staged[c] # None => /\ staged[c].prev \in Maybe(Session)
                              /\ staged[c].anchor \in Maybe(Session)
        BY DEF StoreTypeOK, Maybe, Snapshot
    <2>2. Restored(c, docs[c]) \in Docs
        BY <1>1, RestoredType
    <2>3. docs' \in [Conn -> Docs]
        BY <1>11, <2>2 DEF RollbackStaged, StoreTypeOK, Docs
    <2>4. switching' \in [Conn -> Maybe(Marker)] /\ staged' \in [Conn -> Maybe(Snapshot)]
        BY <1>11 DEF RollbackStaged, ClearMarker, StoreTypeOK, Maybe
    <2>5. port' \in [Conn -> Maybe(Session)] /\ anchor' \in [Conn -> Maybe(Session)]
        BY <1>11, <2>1 DEF RollbackStaged, StoreTypeOK
    <2> QED BY <1>11, <2>3, <2>4, <2>5 DEF RollbackStaged, StoreTypeOK, Docs
<1>12. ASSUME NEW s \in Session, RemoveSession(c, s) PROVE StoreTypeOK'
    BY <1>12 DEF RemoveSession, StoreTypeOK, Maybe
<1>13. CASE Foreground(c)
    BY <1>13, ForegroundType DEF Foreground, SetActiveConnection, Show, slotVars,
                                 StoreTypeOK, Maybe
<1>14. ASSUME NEW s \in Session, ViewRetained(c, s) PROVE StoreTypeOK'
    BY <1>14 DEF ViewRetained, SetActiveConnection, Show, slotVars, StoreTypeOK, Maybe
<1>15. CASE CloseConnection(c)
    BY <1>15 DEF CloseConnection, StoreTypeOK, Maybe, Status, NoDocs
<1> QED BY <1>2, <1>3, <1>4, <1>5, <1>6, <1>7, <1>8, <1>9, <1>10, <1>11,
           <1>12, <1>13, <1>14, <1>15 DEF StoreStep

\* The store's variables keep their types: in particular every staged switch
\* carries a complete snapshot, which is what a rollback restores from.
THEOREM StoreTypeCorrect == StoreSpec => []StoreTypeOK
<1>1. StoreInit => StoreTypeOK
    BY DEF StoreInit, StoreTypeOK, Maybe, Status, NoDocs
<1>2. StoreTypeOK /\ [StoreNext]_storeVars => StoreTypeOK'
    <2>1. StoreTypeOK /\ UNCHANGED storeVars => StoreTypeOK'
        BY DEF storeVars, slotVars, StoreTypeOK
    <2> QED BY <2>1, StepType DEF StoreNext
<1> QED BY <1>1, <1>2, PTL DEF StoreSpec
-----------------------------------------------------------------------------
(* The selection tokens.  Every operation but the staging of a switch only  *)
(* retires switches: it may end one, with its marker, and move selGen on.   *)

TokenInv == TokensMinted /\ OneSelectionWins /\ MarkerHasOwner

Retires ==
    /\ selGen' \in Nat /\ selGen' >= selGen
    /\ \A d \in Conn :
          /\ staged'[d] \in {staged[d], None}
          /\ \/ switching'[d] = None
             \/ switching'[d] = switching[d] /\ staged'[d] = staged[d]

\* Retiring switches keeps the others' tokens minted, distinct and owned.
LEMMA RetiringIsSafe ==
    ASSUME StoreTypeOK, TokenInv, Retires
    PROVE  TokenInv'
<1>1. \A d \in Conn : staged[d] # None => staged[d].token \in Nat
    BY DEF StoreTypeOK, Maybe, Snapshot
<1>2. TokensMinted'
    BY <1>1 DEF TokenInv, TokensMinted, Retires, StoreTypeOK
<1>3. OneSelectionWins'
    BY DEF TokenInv, OneSelectionWins, Retires
<1>4. MarkerHasOwner'
    BY DEF TokenInv, MarkerHasOwner, Retires
<1> QED BY <1>2, <1>3, <1>4 DEF TokenInv

\* Abandoning a switch retires it: its marker is its own, so it is cleared.
LEMMA AbandonRetires ==
    ASSUME StoreTypeOK, TokenInv, NEW c \in Conn, Abandon(c)
    PROVE  Retires
<1>1. CASE staged[c] = None
    BY <1>1 DEF Abandon, Retires, StoreTypeOK
<1>2. CASE staged[c] # None
    BY <1>2 DEF Abandon, Retires, StoreTypeOK, ClearMarker, TokenInv, MarkerHasOwner
<1> QED BY <1>1, <1>2

\* Staging mints a token no other switch has.
LEMMA StageMints ==
    ASSUME StoreTypeOK, TokenInv, NEW c \in Conn, NEW s \in Session, NEW e \in Era,
           StageSession(c, s, e)
    PROVE  TokenInv'
<1> DEFINE snap == [target |-> s, prev |-> port[c], doc |-> docs[c][s],
                    anchor |-> anchor[c], token |-> selGen + 1, era |-> e]
           mark == [sess |-> s, token |-> selGen + 1]
<1>1. /\ selGen' = selGen + 1
      /\ \A d \in Conn : d # c => staged'[d] = staged[d] /\ switching'[d] = switching[d]
      /\ staged'[c] = snap /\ switching'[c] = mark
    BY DEF StageSession, NextSelection, StoreTypeOK
<1>2. snap.token = selGen + 1 /\ snap.target = s /\ mark.token = selGen + 1 /\ mark.sess = s
    OBVIOUS
<1>3. snap # None
    BY DEF StoreTypeOK, Snapshot, Maybe
<1>4. selGen \in Nat
    BY DEF StoreTypeOK
<1>5. \A d \in Conn : staged[d] # None => staged[d].token \in 1..selGen
    BY DEF TokenInv, TokensMinted
<1> HIDE DEF snap, mark
<1>6. TokensMinted'
    BY <1>1, <1>2, <1>4, <1>5 DEF TokensMinted
<1>7. OneSelectionWins'
    <2> SUFFICES ASSUME NEW x \in Conn, NEW y \in Conn, x # y,
                        staged'[x] # None, staged'[y] # None
                 PROVE  staged'[x].token # staged'[y].token
        BY DEF OneSelectionWins
    <2>1. CASE x # c /\ y # c
        BY <2>1, <1>1 DEF TokenInv, OneSelectionWins
    <2>2. CASE x = c \/ y = c
        BY <2>2, <1>1, <1>2, <1>4, <1>5
    <2> QED BY <2>1, <2>2
<1>8. MarkerHasOwner'
    BY <1>1, <1>2, <1>3 DEF TokenInv, MarkerHasOwner
<1> QED BY <1>6, <1>7, <1>8 DEF TokenInv

\* Every step of the store either stages a switch or retires some.
LEMMA StepRetires ==
    ASSUME StoreTypeOK, TokenInv, NEW c \in Conn, StoreStep(c, TRUE)
    PROVE  Retires \/ \E s \in Session, e \in Era : StageSession(c, s, e)
<1>0. selGen \in Nat
    BY DEF StoreTypeOK
<1>1. ASSUME UNCHANGED <<staged, switching, selGen>> PROVE Retires
    BY <1>0, <1>1 DEF Retires
<1>2. CASE SeedConnection(c)
    BY <1>1, <1>2 DEF SeedConnection
<1>3. ASSUME NEW resume \in BOOLEAN, NEW d, Dial(c, resume, d) PROVE Retires
    BY <1>3, AbandonRetires DEF Dial
<1>4. ASSUME NEW st, SetStatus(c, st) PROVE Retires
    BY <1>1, <1>4 DEF SetStatus
<1>5. ASSUME NEW clean \in BOOLEAN, NEW d, Disconnected(c, clean, d) PROVE Retires
    BY <1>5, AbandonRetires DEF Disconnected
<1>6. ASSUME NEW d, Update(c, d) PROVE Retires
    BY <1>1, <1>6 DEF Update
<1>7. ASSUME NEW S, MergeSessions(c, S) PROVE Retires
    BY <1>1, <1>7 DEF MergeSessions
<1>8. ASSUME NEW s, AdoptSession(c, s) PROVE Retires
    BY <1>1, <1>8 DEF AdoptSession
<1>9. ASSUME NEW s \in Session, NEW e \in Era, Stage(c, s, e) PROVE StageSession(c, s, e)
    BY <1>9 DEF Stage
<1>10. ASSUME NEW e \in Era, CommitStaged(c, e) PROVE Retires
    BY <1>0, <1>10 DEF CommitStaged, ClearMarker, Retires, StoreTypeOK, TokenInv, MarkerHasOwner
<1>11. ASSUME NEW e \in Era, RollbackStaged(c, e) PROVE Retires
    <2>1. CASE staged[c] = None \/ staged[c].era # e
        BY <1>1, <1>11, <2>1 DEF RollbackStaged
    <2>2. CASE ~(staged[c] = None \/ staged[c].era # e)
        <3>1. staged' = [staged EXCEPT ![c] = None] /\ ClearMarker(c) /\ selGen' = selGen
            BY <1>11, <2>2 DEF RollbackStaged
        <3> QED BY <1>0, <2>2, <3>1 DEF ClearMarker, Retires, StoreTypeOK, TokenInv, MarkerHasOwner
    <2> QED BY <2>1, <2>2
<1>12. ASSUME NEW s \in Session, RemoveSession(c, s) PROVE Retires
    BY <1>0, <1>12 DEF RemoveSession, Retires
<1>13. CASE Foreground(c)
    BY <1>1, <1>13 DEF Foreground, SetActiveConnection, slotVars
<1>14. ASSUME NEW s \in Session, ViewRetained(c, s) PROVE Retires
    BY <1>1, <1>14 DEF ViewRetained, SetActiveConnection, slotVars
<1>15. CASE CloseConnection(c)
    BY <1>0, <1>15 DEF CloseConnection, Retires, StoreTypeOK
<1> QED BY <1>2, <1>3, <1>4, <1>5, <1>6, <1>7, <1>8, <1>9, <1>10, <1>11, <1>12, <1>13,
           <1>14, <1>15 DEF StoreStep

\* The token discipline is an invariant: tokens in use were minted, no two
\* switches share one, and each marker has the switch that will clear it.
LEMMA TokenInvariant == StoreSpec => [](StoreTypeOK /\ TokenInv)
<1>1. StoreInit => TokenInv
    BY DEF StoreInit, TokenInv, TokensMinted, OneSelectionWins, MarkerHasOwner
<1>2. StoreTypeOK /\ TokenInv /\ [StoreNext]_storeVars => TokenInv'
    <2> SUFFICES ASSUME StoreTypeOK, TokenInv, [StoreNext]_storeVars PROVE TokenInv'
        OBVIOUS
    <2>1. CASE UNCHANGED storeVars
        BY <2>1 DEF storeVars, slotVars, TokenInv, TokensMinted, OneSelectionWins, MarkerHasOwner
    <2>2. ASSUME NEW c \in Conn, StoreStep(c, TRUE) PROVE TokenInv'
        BY <2>2, StepRetires, RetiringIsSafe, StageMints
    <2> QED BY <2>1, <2>2 DEF StoreNext
<1>3. StoreSpec => []StoreTypeOK
    BY StoreTypeCorrect
<1> QED BY <1>1, <1>2, <1>3, PTL DEF StoreSpec

\* Of all the switches in flight at most one is the latest selection.
THEOREM LatestIsUnique == StoreSpec => []OneSelectionWins
<1>1. TokenInv => OneSelectionWins
    BY DEF TokenInv
<1> QED BY <1>1, TokenInvariant, PTL

\* No busy marker is ever left without the transaction that clears it.
THEOREM MarkersAreOwned == StoreSpec => []MarkerHasOwner
<1>1. TokenInv => MarkerHasOwner
    BY DEF TokenInv
<1> QED BY <1>1, TokenInvariant, PTL
-----------------------------------------------------------------------------
\* Latest wins, for every interleaving of any number of connections: a switch
\* that was superseded ends without moving the settled session or the screen.
THEOREM LatestWins == StoreSpec => LateEndMovesNothing
<1> DEFINE Late(c) ==
        (staged[c] # None /\ staged[c].token # selGen /\ staged'[c] = None) =>
            /\ activeSess' \in {activeSess, None}
            /\ anchor'[c] \in {anchor[c], None}
<1>1. StoreTypeOK /\ [StoreNext]_storeVars => [\A c \in Conn : Late(c)]_storeVars
    <2> SUFFICES ASSUME StoreTypeOK, NEW d \in Conn, StoreStep(d, TRUE), NEW c \in Conn,
                        staged[c] # None, staged[c].token # selGen, staged'[c] = None
                 PROVE  /\ activeSess' \in {activeSess, None}
                        /\ anchor'[c] \in {anchor[c], None}
        BY DEF StoreNext
    <2>1. ASSUME staged' = staged PROVE FALSE
        BY <2>1
    <2>2. ASSUME NEW x, staged' = [staged EXCEPT ![d] = x] PROVE c = d
        BY <2>2 DEF StoreTypeOK
    <2>3. CASE SeedConnection(d)
        BY <2>1, <2>3 DEF SeedConnection
    <2>4. ASSUME NEW resume \in BOOLEAN, NEW x, Dial(d, resume, x)
          PROVE  activeSess' = activeSess /\ anchor'[c] \in {anchor[c], None}
        BY <2>4 DEF Dial, StoreTypeOK
    <2>5. ASSUME NEW st, SetStatus(d, st) PROVE FALSE
        BY <2>1, <2>5 DEF SetStatus
    <2>6. ASSUME NEW clean \in BOOLEAN, NEW x, Disconnected(d, clean, x)
          PROVE  activeSess' = activeSess /\ anchor'[c] \in {anchor[c], None}
        BY <2>6 DEF Disconnected, StoreTypeOK
    <2>7. ASSUME NEW x, Update(d, x) PROVE FALSE
        BY <2>1, <2>7 DEF Update
    <2>8. ASSUME NEW S, MergeSessions(d, S) PROVE FALSE
        BY <2>1, <2>8 DEF MergeSessions
    <2>9. ASSUME NEW s, AdoptSession(d, s) PROVE FALSE
        BY <2>1, <2>9 DEF AdoptSession
    <2>10. ASSUME NEW s \in Session, NEW e \in Era, Stage(d, s, e) PROVE FALSE
        BY <2>2, <2>10 DEF Stage, StageSession
    <2>11. ASSUME NEW e \in Era, CommitStaged(d, e)
           PROVE  activeSess' = activeSess /\ anchor' = anchor
        <3>1. ~(staged[d] = None \/ staged[d].era # e)
            BY <2>1, <2>11 DEF CommitStaged
        <3>2. d = c
            BY <2>2, <2>11, <3>1 DEF CommitStaged
        <3> QED BY <2>11, <3>1, <3>2 DEF CommitStaged, Superseded
    <2>12. ASSUME NEW e \in Era, RollbackStaged(d, e)
           PROVE  activeSess' = activeSess /\ anchor' = anchor
        <3>1. ~(staged[d] = None \/ staged[d].era # e)
            BY <2>1, <2>12 DEF RollbackStaged
        <3>2. d = c
            BY <2>2, <2>12, <3>1 DEF RollbackStaged
        <3> QED BY <2>12, <3>1, <3>2 DEF RollbackStaged, Superseded
    <2>13. ASSUME NEW s \in Session, RemoveSession(d, s) PROVE FALSE
        BY <2>1, <2>13 DEF RemoveSession
    <2>14. CASE Foreground(d)
        BY <2>1, <2>14 DEF Foreground, SetActiveConnection
    <2>15. ASSUME NEW s \in Session, ViewRetained(d, s) PROVE FALSE
        BY <2>1, <2>15 DEF ViewRetained, SetActiveConnection
    <2>16. CASE CloseConnection(d)
        BY <2>16 DEF CloseConnection, StoreTypeOK
    <2> QED BY <2>3, <2>4, <2>5, <2>6, <2>7, <2>8, <2>9, <2>10, <2>11, <2>12, <2>13,
               <2>14, <2>15, <2>16 DEF StoreStep
<1>2. StoreSpec => []StoreTypeOK
    BY StoreTypeCorrect
<1> QED BY <1>1, <1>2, PTL DEF StoreSpec, LateEndMovesNothing
=============================================================================
