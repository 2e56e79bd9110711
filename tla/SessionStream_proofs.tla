------------------------ MODULE SessionStream_proofs ------------------------
(***************************************************************************)
(* Theorems about one session of the client, for any sets of calls,        *)
(* elicitations, compactions, contents and notifications.  CardsInv ties   *)
(* waiters, records and answers to each other; ToolDoc is what every fold  *)
(* keeps of the flow (one block per call, a reason for every stub, each    *)
(* request listed once), by induction over the events that are folded and  *)
(* over the requests that are placed; NoticesInv counts the notices.       *)
(* FlowInv is about the messages: those shown are in the order of the wire *)
(* and earlier than those held back, and each that was heard is shown,     *)
(* held back or the echo of a prompt.                                      *)
(***************************************************************************)
EXTENDS SessionStream, WellFoundedInduction, SequenceTheorems, FiniteSetTheorems, TLAPS

\* A document, by its fields.
Doc(d) ==
    d = [turns |-> d.turns, status |-> d.status, permissions |-> d.permissions,
         requested |-> d.requested, elicitations |-> d.elicitations,
         compactions |-> d.compactions]

\* e is d with another flow, or other compactions.
Keeps(d, e) ==
    /\ Doc(e) /\ e.status = d.status
    /\ e.permissions = d.permissions /\ e.requested = d.requested
    /\ e.elicitations = d.elicitations

EventKinds ==
    {"user_message", "user_message_confirmed", "agent_message", "thought", "tool_call",
     "tool_call_update", "compaction_update", "compaction_summary_chunk", "unsupported",
     "turn_notice"}

\* Induction over the numbers up to N, for a set: from the least of the numbers
\* it misses.
LessThan == {p \in Nat \X Nat : p[1] < p[2]}

LEMMA Induction ==
    ASSUME NEW N \in Nat, NEW P, 0 \in P,
           \A n \in 1 .. N : n - 1 \in P => n \in P
    PROVE  \A n \in 0 .. N : n \in P
<1> DEFINE S == {n \in 0 .. N : n \notin P}
<1>1. SUFFICES ASSUME S # {} PROVE FALSE
    OBVIOUS
<1>2. OpToRel(<, Nat) = LessThan
    BY DEF OpToRel, LessThan
<1>3. IsWellFoundedOn(LessThan, Nat)
    BY <1>2, NatLessThanWellFounded
<1>4. S \subseteq Nat
    OBVIOUS
<1>5. \E m \in S : \A k \in S : ~(<<k, m>> \in LessThan)
    BY <1>1, <1>3, <1>4, WFMin
<1>6. PICK m \in S : \A k \in S : ~(<<k, m>> \in LessThan)
    BY <1>5
<1>7. \A k \in S : ~(k < m)
    <2> HIDE DEF S
    <2> QED BY <1>4, <1>6 DEF LessThan
<1>8. m \in 1 .. N /\ m - 1 \notin S
    BY <1>7
<1> QED BY <1>8

\* A fold that writes the turns only.
LEMMA TurnsKeep ==
    ASSUME NEW d, Doc(d), NEW t PROVE Keeps(d, [d EXCEPT !.turns = t])
BY DEF Doc, Keeps

\* No event of the conversation touches status, permissions or elicitations.
LEMMA EventKeeps ==
    ASSUME NEW d, Doc(d), NEW e, e.kind \in EventKinds
    PROVE  Keeps(d, ApplyUpdate(d, e))
<1>1. ASSUME NEW x, Doc(x), NEW b, NEW n PROVE Keeps(x, AppendBlock(x, b, n))
    BY <1>1, TurnsKeep DEF AppendBlock
<1>2. ASSUME NEW b PROVE Keeps(d, ReplaceLastBlock(d, b))
    BY TurnsKeep DEF ReplaceLastBlock
<1>3. CASE e.kind = "user_message"
    BY <1>1, <1>2, <1>3 DEF ApplyUpdate, AppendUserMessage
<1>4. CASE e.kind = "user_message_confirmed"
    BY <1>2, <1>4 DEF ApplyUpdate, ConfirmUserMessage, Keeps
<1>5. CASE e.kind \in {"agent_message", "thought"}
    BY <1>1, <1>2, <1>5 DEF ApplyUpdate, AppendChunk
<1>6. CASE e.kind = "tool_call"
    <2>1. Keeps(d, d)
        BY DEF Keeps
    <2> QED BY <1>1, <1>6, <2>1, TurnsKeep DEF ApplyUpdate, UpsertToolCall, ReplaceTools
<1>7. CASE e.kind = "tool_call_update"
    BY <1>7, TurnsKeep DEF ApplyUpdate, PatchToolCall, ReplaceTools
<1>8. CASE e.kind = "compaction_update"
    <2> DEFINE x == [d EXCEPT !.compactions[e.compaction] =
            [status |-> e.status, summary |-> IF e.replaces THEN e.summary ELSE @.summary]]
           y == AppendBlock(x, [kind |-> "compaction_notice", id |-> e.compaction,
                                outcome |-> e.status], FALSE)
    <2>1. Keeps(d, x)
        BY DEF Doc, Keeps
    <2>2. Keeps(x, y)
        <3>1. Doc(x)
            BY <2>1 DEF Keeps
        <3> HIDE DEF x
        <3> QED BY <1>1, <3>1
    <2>3. Keeps(d, y)
        <3> HIDE DEF x, y
        <3> QED BY <2>1, <2>2 DEF Keeps
    <2>4. ApplyUpdate(d, e) \in {x, y}
        <3>1. ApplyUpdate(d, e) = PatchCompaction(d, e)
            BY <1>8 DEF ApplyUpdate
        <3> QED BY <3>1 DEF PatchCompaction
    <2> HIDE DEF x, y
    <2> QED BY <2>1, <2>3, <2>4
<1>9. CASE e.kind = "compaction_summary_chunk"
    BY <1>9 DEF ApplyUpdate, AppendSummary, Keeps, Doc
<1>10. CASE e.kind = "unsupported"
    BY <1>1, <1>10 DEF ApplyUpdate
<1>11. CASE e.kind = "turn_notice"
    BY <1>1, <1>11 DEF ApplyUpdate
<1> QED BY <1>3, <1>4, <1>5, <1>6, <1>7, <1>8, <1>9, <1>10, <1>11 DEF EventKinds

\* The recursion of ApplyAll: a function that takes each event in turn exists,
\* and is the one the definition chooses.
LEMMA ApplyAllSteps ==
    ASSUME NEW d, NEW events, Len(events) \in Nat
    PROVE  \E f : /\ f[0] = d /\ ApplyAll(d, events) = f[Len(events)]
                  /\ \A i \in 1 .. Len(events) : f[i] = ApplyUpdate(f[i - 1], events[i])
<1> DEFINE N == Len(events)
           Step(f, i) == IF i = 0 THEN d ELSE ApplyUpdate(f[i - 1], events[i])
           IsUpTo(f, n) == f = [i \in 0 .. n |-> Step(f, i)]
           P == {n \in 0 .. N : \E f : IsUpTo(f, n)}
<1>1. 0 \in P
    <2> DEFINE f == [i \in 0 .. 0 |-> d]
    <2>1. \A i \in 0 .. 0 : Step(f, i) = d
        OBVIOUS
    <2>2. IsUpTo(f, 0)
        <3> HIDE DEF Step
        <3> QED BY <2>1
    <2>3. 0 \in 0 .. N
        OBVIOUS
    <2> HIDE DEF f, IsUpTo, N
    <2> QED BY <2>2, <2>3
<1>2. ASSUME NEW n \in 1 .. N, n - 1 \in P PROVE n \in P
    <2>1. PICK f : IsUpTo(f, n - 1)
        BY <1>2
    <2> DEFINE g == [i \in 0 .. n |-> IF i = n THEN ApplyUpdate(f[n - 1], events[n]) ELSE f[i]]
    <2>2. ASSUME NEW i \in 0 .. n PROVE g[i] = Step(g, i)
        <3>1. CASE i = n
            <4>1. n - 1 \in 0 .. n /\ n \in 0 .. n /\ n # 0 /\ n - 1 # n
                OBVIOUS
            <4> QED BY <3>1, <4>1
        <3>2. CASE i # n /\ i # 0
            <4>1. i \in 0 .. n - 1 /\ i - 1 \in 0 .. n /\ i - 1 # n
                BY <3>2
            <4>2. f[i] = Step(f, i)
                <5> HIDE DEF Step
                <5> QED BY <2>1, <4>1
            <4> QED BY <3>2, <4>1, <4>2
        <3>3. CASE i # n /\ i = 0
            <4>1. i \in 0 .. n - 1
                BY <3>3
            <4>2. f[i] = Step(f, i)
                <5> HIDE DEF Step
                <5> QED BY <2>1, <4>1
            <4> QED BY <3>3, <4>2
        <3> QED BY <3>1, <3>2, <3>3
    <2>3. g = [i \in 0 .. n |-> g[i]]
        OBVIOUS
    <2>4. IsUpTo(g, n)
        <3> HIDE DEF g, Step
        <3> QED BY <2>2, <2>3
    <2>5. n \in 0 .. N
        OBVIOUS
    <2> HIDE DEF g, IsUpTo, N
    <2> QED BY <2>4, <2>5
<1>3. N \in P
    <2> HIDE DEF P
    <2>1. \A n \in 0 .. N : n \in P
        BY <1>1, <1>2, Induction
    <2> QED BY <2>1
<1> DEFINE u == CHOOSE g : IsUpTo(g, N)
<1>4. IsUpTo(u, N)
    <2>1. \E g : IsUpTo(g, N)
        BY <1>3
    <2> HIDE DEF IsUpTo
    <2> QED BY <2>1
<1>5. ApplyAll(d, events) = u[N]
    BY DEF ApplyAll
<1> HIDE DEF u
<1>6. \A i \in 0 .. N : u[i] = Step(u, i)
    <2> HIDE DEF Step, N
    <2> QED BY <1>4
<1>7. ASSUME NEW i \in 1 .. N PROVE u[i] = ApplyUpdate(u[i - 1], events[i])
    <2>1. i \in 0 .. N /\ i # 0
        OBVIOUS
    <2>2. u[i] = Step(u, i)
        <3> HIDE DEF Step, N
        <3> QED BY <1>6, <2>1
    <2> QED BY <2>1, <2>2
<1>8. u[0] = d
    <2>1. 0 \in 0 .. N
        OBVIOUS
    <2>2. u[0] = Step(u, 0)
        <3> HIDE DEF Step, N
        <3> QED BY <1>6, <2>1
    <2> QED BY <2>2
<1> QED BY <1>5, <1>7, <1>8

\* So what each event keeps, a sequence of events keeps.
LEMMA EventsKeep ==
    ASSUME NEW d, Doc(d), NEW events, Len(events) \in Nat,
           \A i \in 1 .. Len(events) : events[i].kind \in EventKinds
    PROVE  Keeps(d, ApplyAll(d, events))
<1>1. PICK f : /\ f[0] = d /\ ApplyAll(d, events) = f[Len(events)]
               /\ \A i \in 1 .. Len(events) : f[i] = ApplyUpdate(f[i - 1], events[i])
    BY ApplyAllSteps
<1> DEFINE N == Len(events)
           P == {n \in 0 .. N : Keeps(d, f[n])}
<1>2. 0 \in P
    BY <1>1 DEF Keeps
<1>3. ASSUME NEW n \in 1 .. N, n - 1 \in P PROVE n \in P
    <2>1. Keeps(d, f[n - 1]) /\ n \in 0 .. N /\ f[n] = ApplyUpdate(f[n - 1], events[n])
        BY <1>1, <1>3
    <2>2. Doc(f[n - 1])
        BY <2>1 DEF Keeps
    <2>3. Keeps(f[n - 1], f[n])
        BY <2>1, <2>2, EventKeeps
    <2> QED BY <2>1, <2>3 DEF Keeps
<1>4. N \in P
    <2> HIDE DEF P
    <2>1. \A n \in 0 .. N : n \in P
        BY <1>2, <1>3, Induction
    <2> QED BY <2>1
<1> QED BY <1>1, <1>4

-----------------------------------------------------------------------------
\* Cards.  The types of what a document records of them, and that it records
\* what waits.
Statuses == {"idle", "running", "requires_action"}
Outcomes == {"none", "cancelled", "denied-by-policy", "remembered", "selected"}
Response == [outcome : Outcomes, kind : {"none"} \cup Approvals \cup Refusals]
Permission == [status : {"none", "pending", "resolved", "cancelled"}, response : Response]
CardDoc(d) ==
    /\ Doc(d) /\ d.status \in Statuses
    /\ d.permissions \in [Tool -> Permission]
    /\ d.elicitations \in [Elicitation ->
            {"none", "pending", "opened", "resolved", "cancelled", "completed"}]
WaitsFor(d, w) ==
    /\ \A t \in Tool : w[t] # 0 <=> d.permissions[t].status = "pending"
    /\ \A e \in Elicitation :
        /\ d.elicitations[e] = "pending" => w[e] # 0
        /\ w[e] # 0 => \/ d.elicitations[e] = "pending"
                       \/ d.elicitations[e] = "opened" /\ w[e] > 1

\* A link was opened at an earlier request's card.
OpenedWasAsked(d) == \A e \in Elicitation : d.elicitations[e] = "opened" => asked[e] # 0

CardsInv ==
    /\ CardDoc(doc) /\ WaitsFor(doc, waiter) /\ OpenedWasAsked(doc)
    /\ waiter \in [Card -> Nat] /\ asked \in [Card -> Nat]
    /\ \A c \in Card : waiter[c] <= asked[c]
    /\ offered \in [Tool -> SUBSET (Approvals \cup Refusals)]
    /\ memory \in [Action -> {"none", "allow_always", "reject_always"}]
    /\ NoLeakedRequest /\ NoPhantomAction
    /\ \A t \in Denied : waiter[t] = 0
    /\ DeniedStaysDenied

\* What the operations on cards make of a document.
LEMMA StatusSet ==
    ASSUME NEW d, CardDoc(d), NEW status \in Statuses
    PROVE  /\ CardDoc(SetStatus(d, status)) /\ SetStatus(d, status).status = status
           /\ SetStatus(d, status).permissions = d.permissions
           /\ SetStatus(d, status).elicitations = d.elicitations
           /\ SetStatus(d, status).turns = d.turns /\ SetStatus(d, status).requested = d.requested
           /\ SetStatus(d, status).compactions = d.compactions
BY DEF CardDoc, Doc, SetStatus

\* Resolving writes the records of the known calls of the set, and no other.
LEMMA PermissionsResolved ==
    ASSUME NEW d, CardDoc(d), NEW calls, NEW response \in Response,
           NEW e, e = ResolvePermissions(d, calls, response)
    PROVE  /\ CardDoc(e)
           /\ e.status = d.status /\ e.requested = d.requested
           /\ e.elicitations = d.elicitations /\ e.compactions = d.compactions
           /\ \A t \in Tool :
                IF t \in calls /\ d.permissions[t].status # "none"
                THEN e.permissions[t].status # "none" /\ e.permissions[t].status # "pending"
                     /\ e.permissions[t].response = response
                ELSE e.permissions[t] = d.permissions[t]
<1> DEFINE known == {t \in calls : d.permissions[t].status # "none"}
           status == IF response.outcome = "cancelled" THEN "cancelled" ELSE "resolved"
           permissions == [t \in Tool |->
                IF t \in known THEN [status |-> status, response |-> response]
                               ELSE d.permissions[t]]
           recorded == [d EXCEPT !.permissions = permissions]
<1>1. permissions \in [Tool -> Permission]
    BY DEF CardDoc, Permission
<1>2. /\ CardDoc(recorded)
      /\ recorded.status = d.status /\ recorded.requested = d.requested
      /\ recorded.elicitations = d.elicitations /\ recorded.compactions = d.compactions
      /\ recorded.permissions = permissions
    <2> HIDE DEF permissions
    <2> QED BY <1>1 DEF CardDoc, Doc
<1>3. \A t \in Tool : IF t \in known
                      THEN permissions[t].status = status /\ permissions[t].response = response
                      ELSE permissions[t] = d.permissions[t]
    OBVIOUS
<1>4. status # "none" /\ status # "pending"
    OBVIOUS
<1>5. \/ e = recorded
      \/ \E t : e = [recorded EXCEPT !.turns = t]
    <2>1. e = IF ToolWillNotRun(response) THEN RetirePendingToolCalls(recorded, known)
                                          ELSE recorded
        BY DEF ResolvePermissions
    <2>2. \E t : RetirePendingToolCalls(recorded, known) = [recorded EXCEPT !.turns = t]
        <3> HIDE DEF recorded
        <3> QED BY DEF RetirePendingToolCalls, ReplaceTools
    <2> QED BY <2>1, <2>2
<1>6. /\ CardDoc(e)
      /\ e.status = d.status /\ e.requested = d.requested
      /\ e.elicitations = d.elicitations /\ e.compactions = d.compactions
      /\ e.permissions = permissions
    <2> HIDE DEF recorded, permissions
    <2>1. Doc(recorded)
        BY <1>2 DEF CardDoc
    <2>2. CASE e = recorded
        BY <1>2, <2>2
    <2>3. ASSUME NEW t, e = [recorded EXCEPT !.turns = t]
          PROVE  /\ Keeps(recorded, e) /\ e.compactions = recorded.compactions
        BY <2>1, <2>3, TurnsKeep DEF Doc
    <2> QED BY <1>2, <1>5, <2>2, <2>3 DEF CardDoc, Keeps
<1> HIDE DEF permissions, status, recorded
<1> QED BY <1>3, <1>4, <1>6

\* A request is listed once, at its first time, and its record is pending anew.
LEMMA PermissionRequested ==
    ASSUME NEW d, CardDoc(d), NEW t \in Tool, NEW e, e = RequestPermission(d, t)
    PROVE  /\ CardDoc(e)
           /\ e.status = d.status /\ e.elicitations = d.elicitations
           /\ e.compactions = d.compactions
           /\ e.requested = IF d.permissions[t].status = "none" THEN Append(d.requested, t)
                                                               ELSE d.requested
           /\ e.permissions = [d.permissions EXCEPT
                    ![t] = [status |-> "pending", response |-> NoResponse]]
<1> DEFINE recorded == [d EXCEPT
            !.permissions[t] = [status |-> "pending", response |-> NoResponse],
            !.requested = IF d.permissions[t].status = "none" THEN Append(@, t) ELSE @]
<1>1. /\ CardDoc(recorded)
      /\ recorded.status = d.status /\ recorded.elicitations = d.elicitations
      /\ recorded.compactions = d.compactions
      /\ recorded.requested = IF d.permissions[t].status = "none" THEN Append(d.requested, t)
                                                                  ELSE d.requested
      /\ recorded.permissions = [d.permissions EXCEPT
                    ![t] = [status |-> "pending", response |-> NoResponse]]
    <2> DEFINE pending == [status |-> "pending", response |-> NoResponse]
    <2>1. pending \in Permission
        BY DEF Permission, Response, Outcomes, NoResponse
    <2>2. /\ recorded.status = d.status /\ recorded.elicitations = d.elicitations
          /\ recorded.turns = d.turns /\ recorded.compactions = d.compactions
          /\ recorded.requested = IF d.permissions[t].status = "none" THEN Append(d.requested, t)
                                                                      ELSE d.requested
          /\ recorded.permissions = [d.permissions EXCEPT ![t] = pending]
        <3> HIDE DEF pending
        <3> QED BY DEF CardDoc, Doc, pending
    <2>3. Doc(recorded)
        <3> DEFINE set(x, y) == [d EXCEPT !.permissions = x, !.requested = y]
        <3>1. ASSUME NEW x, NEW y PROVE Doc(set(x, y))
            <4>1. set(x, y) = [[d EXCEPT !.permissions = x] EXCEPT !.requested = y]
                OBVIOUS
            <4>2. Doc([d EXCEPT !.permissions = x])
                BY DEF CardDoc, Doc
            <4>3. ASSUME NEW a, Doc(a) PROVE Doc([a EXCEPT !.requested = y])
                BY <4>3 DEF Doc
            <4> HIDE DEF set
            <4> QED BY <4>1, <4>2, <4>3
        <3> QED BY <3>1
    <2>4. [d.permissions EXCEPT ![t] = pending] \in [Tool -> Permission]
        <3> HIDE DEF pending
        <3> QED BY <2>1 DEF CardDoc
    <2> HIDE DEF recorded
    <2> QED BY <2>2, <2>3, <2>4 DEF CardDoc
<1>2. e = recorded \/ \E turns : e = [recorded EXCEPT !.turns = turns]
    <2>1. e = IF ToolPlaces(d, t) # {} THEN recorded
              ELSE UpsertToolCall(recorded, t, ToolBlock(t, "pending", <<>>))
        BY DEF RequestPermission
    <2> HIDE DEF recorded
    <2> QED BY <2>1 DEF UpsertToolCall, ReplaceTools, AppendBlock
<1> HIDE DEF recorded
<1>3. Doc(recorded)
    BY <1>1 DEF CardDoc
<1>4. ASSUME NEW turns, e = [recorded EXCEPT !.turns = turns]
      PROVE  Keeps(recorded, e) /\ e.compactions = recorded.compactions
    BY <1>3, <1>4, TurnsKeep DEF Doc
<1> QED BY <1>1, <1>2, <1>4 DEF Keeps, CardDoc

\* A move writes the elicitations of the set that have one of the statuses.
LEMMA ElicitationsMoved ==
    ASSUME NEW d, CardDoc(d), NEW es, NEW from,
           NEW to \in {"pending", "opened", "resolved", "cancelled", "completed"},
           NEW e, e = MoveElicitations(d, es, from, to)
    PROVE  /\ CardDoc(e)
           /\ e.status = d.status /\ e.permissions = d.permissions
           /\ e.requested = d.requested /\ e.turns = d.turns /\ e.compactions = d.compactions
           /\ \A x \in Elicitation : e.elicitations[x] =
                    IF x \in es /\ d.elicitations[x] \in from THEN to ELSE d.elicitations[x]
BY DEF CardDoc, Doc, MoveElicitations

\* Settling cards whose outcomes the document has keeps the invariant.
LEMMA Answered ==
    ASSUME CardsInv, NEW cards \in SUBSET Card, NEW d, CardDoc(d), NEW n, Answer(cards, d, n),
           WaitsFor(d, [c \in Card |-> IF c \in cards THEN 0 ELSE waiter[c]]),
           OpenedWasAsked(d), cards = {} /\ d.status = "requires_action" => doc.status = "requires_action",
           asked' = asked, memory' \in [Action -> {"none", "allow_always", "reject_always"}],
           \A t \in Denied : d.permissions[t].response.kind \notin Approvals
    PROVE  CardsInv'
<1>1. /\ waiter' = [c \in Card |-> IF c \in cards THEN 0 ELSE waiter[c]]
      /\ offered' = [t \in Tool |-> IF t \in cards THEN {} ELSE offered[t]]
      /\ answered' = answered \cup {<<c, waiter[c]>> : c \in cards}
      /\ doc' = IF cards = {} THEN d ELSE SetStatus(d, Converged(waiter', n))
    BY DEF Answer
<1>2. Converged(waiter', n) \in Statuses
    BY DEF Converged, Statuses
<1>3. /\ CardDoc(doc') /\ doc'.permissions = d.permissions
      /\ doc'.elicitations = d.elicitations
    BY <1>1, <1>2, StatusSet
<1>4. WaitsFor(doc', waiter') /\ OpenedWasAsked(doc)'
    BY <1>1, <1>3 DEF WaitsFor, OpenedWasAsked
<1>5. waiter' \in [Card -> Nat] /\ \A c \in Card : waiter'[c] \in {0, waiter[c]}
    BY <1>1 DEF CardsInv
<1>6. \A c \in Card : waiter'[c] <= asked'[c]
    BY <1>5 DEF CardsInv
<1>7. offered' \in [Tool -> SUBSET (Approvals \cup Refusals)]
    BY <1>1 DEF CardsInv
<1>8. NoLeakedRequest'
    BY <1>1 DEF CardsInv, NoLeakedRequest
<1>9. NoPhantomAction'
    <2>1. CASE cards = {}
        BY <1>1, <2>1 DEF CardsInv, NoPhantomAction, Waiting
    <2>2. CASE cards # {}
        <3>1. doc'.status = Converged(waiter', n)
            BY <1>1, <1>2, <2>2, StatusSet
        <3> QED BY <3>1 DEF NoPhantomAction, Converged, Waiting
    <2> QED BY <2>1, <2>2
<1>10. \A t \in Denied : waiter'[t] = 0
    BY <1>5, StreamAssumption DEF CardsInv, Card
<1>11. DeniedStaysDenied'
    BY <1>3 DEF DeniedStaysDenied
<1> QED BY <1>3, <1>4, <1>5, <1>6, <1>7, <1>8, <1>9, <1>10, <1>11 DEF CardsInv

\* The document after cards are cancelled.
LEMMA CardsCancelled ==
    ASSUME NEW d, CardDoc(d), NEW cards, NEW e, e = CancelCards(d, cards)
    PROVE  /\ CardDoc(e) /\ e.status = d.status /\ e.requested = d.requested
           /\ \A t \in Tool :
                IF t \in cards /\ d.permissions[t].status # "none"
                THEN e.permissions[t].status # "none" /\ e.permissions[t].status # "pending"
                     /\ e.permissions[t].response = Cancelled
                ELSE e.permissions[t] = d.permissions[t]
           /\ \A x \in Elicitation : e.elicitations[x] =
                    IF x \in cards /\ d.elicitations[x] = "pending" THEN "cancelled"
                                                                   ELSE d.elicitations[x]
<1>1. PICK m : m = ResolvePermissions(d, cards \cap Tool, Cancelled)
    OBVIOUS
<1>2. Cancelled \in Response
    BY DEF Cancelled, Response, Outcomes
<1>3. /\ CardDoc(m)
      /\ m.status = d.status /\ m.requested = d.requested /\ m.elicitations = d.elicitations
      /\ \A t \in Tool :
            IF t \in cards \cap Tool /\ d.permissions[t].status # "none"
            THEN m.permissions[t].status # "none" /\ m.permissions[t].status # "pending"
                 /\ m.permissions[t].response = Cancelled
            ELSE m.permissions[t] = d.permissions[t]
    BY <1>1, <1>2, PermissionsResolved
<1>4. e = MoveElicitations(m, cards \cap Elicitation, {"pending"}, "cancelled")
    BY <1>1 DEF CancelCards, ResolveElicitations
<1>5. /\ CardDoc(e)
      /\ e.status = m.status /\ e.permissions = m.permissions /\ e.requested = m.requested
      /\ \A x \in Elicitation : e.elicitations[x] =
            IF x \in cards \cap Elicitation /\ m.elicitations[x] \in {"pending"}
            THEN "cancelled" ELSE m.elicitations[x]
    BY <1>3, <1>4, ElicitationsMoved
<1> QED BY <1>3, <1>5

\* Cancelled cards wait no longer, and were not approved.
LEMMA CancelledRest ==
    ASSUME CardsInv, NEW cards, NEW e, e = CancelCards(doc, cards)
    PROVE  /\ CardDoc(e) /\ e.status = doc.status
           /\ WaitsFor(e, [c \in Card |-> IF c \in cards THEN 0 ELSE waiter[c]])
           /\ OpenedWasAsked(e)
           /\ \A t \in Denied : e.permissions[t].response.kind \notin Approvals
<1>1. CardDoc(doc) /\ WaitsFor(doc, waiter) /\ OpenedWasAsked(doc)
    BY DEF CardsInv
<1>2. /\ CardDoc(e) /\ e.status = doc.status
      /\ \A t \in Tool :
            IF t \in cards /\ doc.permissions[t].status # "none"
            THEN e.permissions[t].status # "none" /\ e.permissions[t].status # "pending"
                 /\ e.permissions[t].response = Cancelled
            ELSE e.permissions[t] = doc.permissions[t]
      /\ \A x \in Elicitation : e.elicitations[x] =
            IF x \in cards /\ doc.elicitations[x] = "pending" THEN "cancelled"
                                                             ELSE doc.elicitations[x]
    BY <1>1, CardsCancelled
<1>3. WaitsFor(e, [c \in Card |-> IF c \in cards THEN 0 ELSE waiter[c]])
    <2>1. Tool \subseteq Card /\ Elicitation \subseteq Card
        BY DEF Card
    <2> QED BY <1>1, <1>2, <2>1 DEF WaitsFor
<1>5. OpenedWasAsked(e)
    BY <1>1, <1>2 DEF OpenedWasAsked
<1>4. \A t \in Denied : e.permissions[t].response.kind \notin Approvals
    <2>1. Cancelled.kind \notin Approvals /\ Denied \subseteq Tool
        BY StreamAssumption DEF Cancelled, Approvals
    <2>2. \A t \in Denied : doc.permissions[t].response.kind \notin Approvals
        BY DEF CardsInv, DeniedStaysDenied
    <2> QED BY <1>2, <2>1, <2>2
<1> QED BY <1>2, <1>3, <1>4, <1>5

\* What changes no card, and asks for the user no more than before.
LEMMA CardsUntouched ==
    ASSUME CardsInv, Keeps(doc, doc') \/ doc'.status # "requires_action",
           CardDoc(doc'), doc'.permissions = doc.permissions,
           doc'.elicitations = doc.elicitations,
           UNCHANGED <<waiter, asked, offered, answered>>,
           memory' \in [Action -> {"none", "allow_always", "reject_always"}]
    PROVE  CardsInv'
<1>1. NoPhantomAction'
    BY DEF CardsInv, NoPhantomAction, Keeps, Waiting
<1>2. WaitsFor(doc', waiter') /\ OpenedWasAsked(doc)'
    BY DEF CardsInv, WaitsFor, OpenedWasAsked
<1>3. NoLeakedRequest' /\ DeniedStaysDenied'
    BY DEF CardsInv, NoLeakedRequest, DeniedStaysDenied
<1> QED BY <1>1, <1>2, <1>3 DEF CardsInv

\* The events of notifications that were heard.
WireEvents == {Event(i) : i \in DOMAIN heard'}

\* Events, as a sequence of events of what was heard.
LEMMA EventsOfWire ==
    ASSUME NEW raws \in Seq(DOMAIN heard')
    PROVE  /\ Events(raws) \in Seq(WireEvents) /\ Len(Events(raws)) = Len(raws)
           /\ Len(raws) \in Nat
           /\ \A k \in 1 .. Len(raws) : Events(raws)[k] = Event(raws[k])
BY DEF Events, WireEvents

\* What comes off the wire is folded as events of the conversation.
LEMMA KindsOfWire ==
    ASSUME heard' \in Seq(Wire), NEW events \in Seq(WireEvents)
    PROVE  Len(events) \in Nat /\ \A k \in 1 .. Len(events) : events[k].kind \in EventKinds
<1>1. ASSUME NEW i \in DOMAIN heard' PROVE Event(i).kind \in EventKinds
    <2>1. heard'[i].kind \in {"user_message_chunk", "agent_message", "thought", "tool_call",
                "tool_call_update", "compaction_update", "compaction_summary_chunk"}
        BY StreamAssumption
    <2> QED BY <2>1 DEF Event, EventKinds
<1> QED BY <1>1 DEF WireEvents
-----------------------------------------------------------------------------
\* The types of what is heard, sent and held back.
EchoType ==
    /\ echo = [prompt |-> echo.prompt, buffered |-> echo.buffered, id |-> echo.id,
               closed |-> echo.closed]
    /\ echo.prompt \in Seq(Content) /\ echo.buffered \in Seq(DOMAIN heard)
    /\ echo.closed \in BOOLEAN
    /\ echo.closed => echo.buffered = <<>>
    /\ ~echo.closed => turn # 0
StreamType ==
    /\ heard \in Seq(Wire) /\ Len(heard) <= MaxHeard
    /\ prompts \in Seq(Prompt) /\ Len(prompts) <= MaxTurns
    /\ turn \in {0, awaiting} /\ awaiting \in 0 .. Len(prompts)
    /\ up \in BOOLEAN
    /\ ~up => turn = 0
    /\ EchoType

\* The histories and the reconciler's state after a notification.
LEMMA EchoHeard ==
    ASSUME StreamType, NEW n \in Wire, Hear(n)
    PROVE  /\ heard' \in Seq(Wire) /\ Len(heard') = Len(heard) + 1 /\ Len(heard) \in Nat
           /\ heard'[Len(heard) + 1] = n
           /\ \A i \in DOMAIN heard : i \in DOMAIN heard' /\ heard'[i] = heard[i]
           /\ DOMAIN heard' = 1 .. Len(heard) + 1
           /\ echo.buffered \in Seq(DOMAIN heard')
           /\ Append(echo.buffered, Len(heard) + 1) \in Seq(DOMAIN heard')
           /\ EchoType'
<1>1. /\ heard' \in Seq(Wire) /\ Len(heard') = Len(heard) + 1 /\ Len(heard) \in Nat
      /\ heard'[Len(heard) + 1] = n
      /\ \A i \in DOMAIN heard : i \in DOMAIN heard' /\ heard'[i] = heard[i]
      /\ DOMAIN heard' = 1 .. Len(heard) + 1 /\ DOMAIN heard = 1 .. Len(heard)
    BY DEF Hear, StreamType
<1> DEFINE i == Len(heard) + 1
<1>2. echo.buffered \in Seq(DOMAIN heard')
    BY <1>1 DEF StreamType, EchoType
<1>3. Append(echo.buffered, i) \in Seq(DOMAIN heard')
    BY <1>1, <1>2
<1>4. EchoType'
    <2> DEFINE EchoWith(b, id, closed) ==
                    [prompt |-> echo.prompt, buffered |-> b, id |-> id, closed |-> closed]
    <2>1. ASSUME NEW b \in Seq(DOMAIN heard'), NEW id, NEW closed \in BOOLEAN,
                 echo' = EchoWith(b, id, closed), closed => b = <<>>, ~closed => turn # 0
          PROVE  EchoType'
        BY <2>1 DEF EchoType, StreamType, Hear
    <2>2. /\ echo = EchoWith(echo.buffered, echo.id, echo.closed) /\ echo.closed \in BOOLEAN
          /\ echo.closed => echo.buffered = <<>>
          /\ ~echo.closed => turn # 0
          /\ <<>> \in Seq(DOMAIN heard')
        BY DEF EchoType, StreamType
    <2>3. CASE PassThrough(i)
        <3>1. echo' = echo \/ echo' = EchoWith(<<>>, echo.id, TRUE)
            BY <2>2, <2>3 DEF PassThrough, AfterFlush, ClosedEcho
        <3> HIDE DEF EchoWith
        <3> QED BY <1>2, <2>1, <2>2, <3>1
    <2>4. CASE ~echo.closed /\ Reconcile(i)
        <3>1. \E id : echo' \in {EchoWith(<<>>, id, TRUE), EchoWith(Append(echo.buffered, i), id, FALSE)}
            BY <2>2, <2>4 DEF Reconcile, ClosedEcho
        <3> HIDE DEF EchoWith
        <3> QED BY <1>3, <2>1, <2>2, <2>4, <3>1
    <2> QED BY <2>3, <2>4 DEF Hear
<1> QED BY <1>1, <1>2, <1>3, <1>4

\* The types of the turn, of the echo and of the histories.
LEMMA StreamTypeHolds == Spec => []StreamType
<1>1. Init => StreamType
    BY StreamAssumption DEF Init, StreamType, EchoType, NoEcho
<1>2. ASSUME StreamType, [Next]_vars PROVE StreamType'
    <2>1. ASSUME NEW n \in Wire, Hear(n) PROVE StreamType'
        <3>1. EchoType' /\ heard' \in Seq(Wire) /\ Len(heard') = Len(heard) + 1 /\ Len(heard) \in Nat
            BY <1>2, <2>1, EchoHeard
        <3>2. Len(heard') <= MaxHeard
            BY <1>2, <2>1, <3>1, StreamAssumption DEF Hear
        <3>3. UNCHANGED <<turn, awaiting, prompts, up>>
            BY <1>2, <2>1 DEF Hear
        <3> QED BY <1>2, <3>1, <3>2, <3>3 DEF StreamType
    <2>2. ASSUME UNCHANGED <<turnVars, up, heard>> PROVE StreamType'
        <3>1. echo' = echo /\ turn' = turn /\ awaiting' = awaiting /\ prompts' = prompts
              /\ up' = up /\ heard' = heard
            BY <1>2, <2>2 DEF turnVars
        <3>2. EchoType'
            BY <1>2, <3>1 DEF StreamType, EchoType
        <3> QED BY <1>2, <3>1, <3>2 DEF StreamType
    <2>3. ASSUME NEW content \in Prompt, Send(content) PROVE StreamType'
        <3>1. /\ prompts' \in Seq(Prompt) /\ Len(prompts') = Len(prompts) + 1
              /\ Len(prompts) \in Nat
            BY <1>2, <2>3 DEF Send, StreamType
        <3>2. content \in Seq(Content)
            BY <1>2, StreamAssumption
        <3>3. /\ turn' = Len(prompts') /\ awaiting' = turn' /\ heard' = heard /\ up' = up /\ up
              /\ echo' = [prompt |-> content, buffered |-> <<>>, id |-> NoId, closed |-> FALSE]
              /\ Len(prompts) < MaxTurns
            BY <1>2, <2>3 DEF Send
        <3>4. turn' # 0 /\ turn' \in {0, awaiting'} /\ awaiting' \in 0 .. Len(prompts')
            BY <1>2, <3>1, <3>3
        <3>5. EchoType'
            <4>1. <<>> \in Seq(DOMAIN heard')
                OBVIOUS
            <4> QED BY <1>2, <3>2, <3>3, <3>4, <4>1 DEF EchoType
        <3>6. Len(prompts') <= MaxTurns
            BY <1>2, <3>1, <3>3, StreamAssumption
        <3> QED BY <1>2, <3>1, <3>3, <3>4, <3>5, <3>6 DEF StreamType
    <2>4. ASSUME echo' = NoEcho, turn' = 0, awaiting' \in {0, awaiting}, up' \in BOOLEAN,
                 UNCHANGED <<prompts, heard>>
          PROVE  StreamType'
        <3>1. EchoType'
            <4>1. <<>> \in Seq(Content) /\ <<>> \in Seq(DOMAIN heard')
                OBVIOUS
            <4> QED BY <1>2, <2>4, <4>1 DEF EchoType, NoEcho
        <3>2. awaiting' \in 0 .. Len(prompts')
            BY <1>2, <2>4 DEF StreamType
        <3> QED BY <1>2, <2>4, <3>1, <3>2 DEF StreamType
    <2>5. ASSUME NEW stopReason, TurnEnds(stopReason) PROVE StreamType'
        BY <1>2, <2>4, <2>5 DEF TurnEnds, StreamType
    <2>6. CASE TurnFails
        BY <1>2, <2>4, <2>6 DEF TurnFails, StreamType
    <2>7. CASE Disconnect
        BY <1>2, <2>4, <2>7 DEF Disconnect
    <2>8. CASE SendRejected
        <3>1. turn = 0 /\ awaiting' = 0 /\ Len(prompts) \in Nat
              /\ UNCHANGED <<echo, turn, prompts, up, heard>>
            BY <1>2, <2>8 DEF SendRejected, StreamType
        <3>2. EchoType'
            BY <1>2, <3>1 DEF StreamType, EchoType
        <3> QED BY <1>2, <3>1, <3>2 DEF StreamType
    <2>9. CASE UNCHANGED vars
        BY <1>2, <2>2, <2>9 DEF vars
    <2>10. CASE Cancel
        BY <1>2, <2>2, <2>10 DEF Cancel
    <2>11. ASSUME NEW t, NEW offer, AskPermission(t, offer) PROVE StreamType'
        BY <1>2, <2>2, <2>11 DEF AskPermission
    <2>12. ASSUME NEW t, NEW kind, PickPermission(t, kind) PROVE StreamType'
        BY <1>2, <2>2, <2>12 DEF PickPermission
    <2>13. ASSUME NEW e, AskElicitation(e) \/ AnswerElicitation(e) \/ OpenUrl(e) \/ CompleteUrl(e)
          PROVE  StreamType'
        BY <1>2, <2>2, <2>13 DEF AskElicitation, AnswerElicitation, OpenUrl, CompleteUrl, turnVars
    <2>14. ASSUME NEW c, NEW n, Abort(c, n) PROVE StreamType'
        BY <1>2, <2>2, <2>14 DEF Abort
    <2> QED BY <1>2, <2>1, <2>3, <2>5, <2>6, <2>7, <2>8, <2>9, <2>10, <2>11, <2>12, <2>13, <2>14
            DEF Next, User, Agent, Ask
<1> QED BY <1>1, <1>2, PTL DEF Spec

-----------------------------------------------------------------------------
\* Each step keeps the cards in order.
LEMMA InitCards == Init => CardsInv
<1> SUFFICES ASSUME Init PROVE CardsInv
    OBVIOUS
<1>1. CardDoc(doc)
    BY DEF Init, emptySession, CardDoc, Doc, Statuses, Permission, Response, Outcomes, NoResponse
<1>2. doc.status = "idle" /\ doc.permissions = [t \in Tool |->
            [status |-> "none", response |-> NoResponse]]
      /\ doc.elicitations = [e \in Elicitation |-> "none"]
    BY DEF Init, emptySession
<1>3. WaitsFor(doc, waiter) /\ OpenedWasAsked(doc)
    BY <1>2 DEF Init, WaitsFor, OpenedWasAsked, Card
<1>4. NoLeakedRequest /\ NoPhantomAction
    BY <1>2 DEF Init, NoLeakedRequest, NoPhantomAction
<1>5. DeniedStaysDenied /\ \A t \in Denied : waiter[t] = 0
    BY <1>2, StreamAssumption DEF Init, DeniedStaysDenied, NoResponse, Approvals, Card
<1> QED BY <1>1, <1>3, <1>4, <1>5 DEF Init, CardsInv

\* handleUpdate writes the flow and the compactions only.
LEMMA HearKeeps ==
    ASSUME StreamType, CardsInv, NEW n \in Wire, Hear(n) PROVE Keeps(doc, doc')
<1> DEFINE i == Len(heard) + 1
           buffered == Append(echo.buffered, i)
<1>1. /\ heard' \in Seq(Wire) /\ DOMAIN heard' = 1 .. Len(heard) + 1 /\ Len(heard) \in Nat
      /\ echo.buffered \in Seq(DOMAIN heard') /\ buffered \in Seq(DOMAIN heard')
    BY EchoHeard
<1>2. CardDoc(doc) /\ Doc(doc)
    BY DEF CardsInv, CardDoc
<1>3. Len(InOrder(i)) \in Nat /\ \A k \in 1 .. Len(InOrder(i)) : InOrder(i)[k].kind \in EventKinds
    <2>1. Flushed \in Seq(WireEvents)
        BY <1>1, EventsOfWire DEF Flushed
    <2>2. Event(i) \in WireEvents
        BY <1>1 DEF WireEvents
    <2>3. InOrder(i) \in Seq(WireEvents)
        BY <2>1, <2>2 DEF InOrder
    <2> QED BY <1>1, <2>3, KindsOfWire
<1>4. PassThrough(i) => Keeps(doc, doc')
    BY <1>2, <1>3, EventsKeep DEF PassThrough
<1>5. Reconcile(i) => Keeps(doc, doc')
    <2>1. ASSUME NEW x, NEW r PROVE Keeps(doc, ApplyUpdate(doc,
                [kind |-> "user_message_confirmed", id |-> x, raws |-> r]))
        BY <1>2, EventKeeps DEF EventKinds
    <2>2. Keeps(doc, ApplyAll(doc, Events(buffered)))
        <3>1. Len(Events(buffered)) \in Nat
              /\ \A k \in 1 .. Len(Events(buffered)) : Events(buffered)[k].kind \in EventKinds
            BY <1>1, EventsOfWire, KindsOfWire
        <3> QED BY <1>2, <3>1, EventsKeep
    <2> QED BY <1>2, <2>1, <2>2 DEF Reconcile, Keeps
<1> QED BY <1>4, <1>5 DEF Hear

\* So it settles no card.
LEMMA CardsHear ==
    ASSUME StreamType, CardsInv, NEW n \in Wire, Hear(n) PROVE CardsInv'
<1>1. Keeps(doc, doc')
    BY HearKeeps
<1>2. CardDoc(doc')
    BY <1>1 DEF CardsInv, CardDoc, Keeps
<1>3. UNCHANGED cardVars /\ memory \in [Action -> {"none", "allow_always", "reject_always"}]
    BY DEF Hear, CardsInv
<1> QED BY <1>1, <1>2, <1>3, CardsUntouched DEF Keeps, cardVars

\* send() settles no card.
LEMMA CardsSend ==
    ASSUME CardsInv, NEW content \in Prompt, Send(content) PROVE CardsInv'
<1>1. PICK d : d = ApplyUpdate(doc, Optimistic(content))
    OBVIOUS
<1>2. CardDoc(doc) /\ Doc(doc)
    BY DEF CardsInv, CardDoc
<1>3. Keeps(doc, d)
    BY <1>1, <1>2, EventKeeps DEF Optimistic, EventKinds
<1>4. CardDoc(d)
    BY <1>2, <1>3 DEF CardDoc, Keeps
<1>5. /\ CardDoc(doc') /\ doc'.status = "running"
      /\ doc'.permissions = d.permissions /\ doc'.elicitations = d.elicitations
    BY <1>1, <1>4, StatusSet DEF Send, Statuses
<1>6. UNCHANGED cardVars /\ memory \in [Action -> {"none", "allow_always", "reject_always"}]
    BY DEF Send, CardsInv
<1> QED BY <1>3, <1>5, <1>6, CardsUntouched DEF Keeps, cardVars

\* What is flushed leaves the cards of a document alone.
LEMMA FlushKeeps ==
    ASSUME StreamType, NEW d, Doc(d), heard' = heard PROVE Keeps(d, ApplyAll(d, Flushed))
<1>1. heard' \in Seq(Wire) /\ echo.buffered \in Seq(DOMAIN heard')
    BY DEF StreamType, EchoType
<1>2. Flushed \in Seq(WireEvents)
    BY <1>1, EventsOfWire DEF Flushed
<1> QED BY <1>1, <1>2, KindsOfWire, EventsKeep

\* The answer of a prompt settles no card.
LEMMA CardsTurnEnds ==
    ASSUME StreamType, CardsInv, NEW stopReason, TurnEnds(stopReason) PROVE CardsInv'
<1>1. PICK noticed : noticed = IF stopReason = "end_turn" THEN doc
                               ELSE ApplyUpdate(doc, [kind |-> "turn_notice"])
    OBVIOUS
<1>2. CardDoc(doc) /\ Doc(doc)
    BY DEF CardsInv, CardDoc
<1>3. Keeps(doc, noticed)
    <2>1. Keeps(doc, ApplyUpdate(doc, [kind |-> "turn_notice"]))
        BY <1>2, EventKeeps DEF EventKinds
    <2> QED BY <1>1, <1>2, <2>1 DEF Keeps
<1>4. PICK d : d = ApplyAll(noticed, Flushed)
    OBVIOUS
<1>5. Keeps(noticed, d)
    <2>1. Doc(noticed) /\ heard' = heard
        BY <1>3 DEF Keeps, TurnEnds
    <2> QED BY <1>4, <2>1, FlushKeeps
<1>6. CardDoc(d) /\ d.permissions = doc.permissions /\ d.elicitations = doc.elicitations
    BY <1>2, <1>3, <1>5 DEF CardDoc, Keeps
<1>7. doc' = SetStatus(d, "idle")
    BY <1>1, <1>4 DEF TurnEnds, Settle
<1>8. /\ CardDoc(doc') /\ doc'.status = "idle"
      /\ doc'.permissions = d.permissions /\ doc'.elicitations = d.elicitations
    BY <1>6, <1>7, StatusSet DEF Statuses
<1>9. UNCHANGED cardVars /\ memory \in [Action -> {"none", "allow_always", "reject_always"}]
    BY DEF TurnEnds, CardsInv
<1> QED BY <1>6, <1>8, <1>9, CardsUntouched DEF cardVars

\* A prompt that failed cancels every card.
LEMMA CardsTurnFails ==
    ASSUME StreamType, CardsInv, TurnFails PROVE CardsInv'
<1>1. PICK cancelled : cancelled = CancelCards(doc, Waiting)
    OBVIOUS
<1>2. /\ CardDoc(cancelled)
      /\ WaitsFor(cancelled, [c \in Card |-> IF c \in Waiting THEN 0 ELSE waiter[c]])
      /\ OpenedWasAsked(cancelled)
      /\ \A t \in Denied : cancelled.permissions[t].response.kind \notin Approvals
    BY <1>1, CancelledRest
<1>3. PICK d : d = ApplyAll(cancelled, Flushed)
    OBVIOUS
<1>4. Keeps(cancelled, d)
    BY <1>2, <1>3, FlushKeeps DEF TurnFails, CardDoc
<1>5. CardDoc(d) /\ d.permissions = cancelled.permissions /\ d.elicitations = cancelled.elicitations
    BY <1>2, <1>4 DEF CardDoc, Keeps
<1>6. PICK s : s = SetStatus(d, "idle")
    OBVIOUS
<1>7. /\ CardDoc(s) /\ s.status = "idle"
      /\ s.permissions = d.permissions /\ s.elicitations = d.elicitations
    BY <1>5, <1>6, StatusSet DEF Statuses
<1>8. /\ WaitsFor(s, [c \in Card |-> IF c \in Waiting THEN 0 ELSE waiter[c]])
      /\ OpenedWasAsked(s)
    BY <1>2, <1>5, <1>7 DEF WaitsFor, OpenedWasAsked
<1>9. Waiting \in SUBSET Card /\ asked' = asked
      /\ memory' \in [Action -> {"none", "allow_always", "reject_always"}]
    BY DEF Waiting, TurnFails, CardsInv
<1>10. Answer(Waiting, s, 0)
    BY <1>1, <1>3, <1>6 DEF TurnFails, Settle
<1>11. \A t \in Denied : s.permissions[t].response.kind \notin Approvals
    BY <1>2, <1>5, <1>7
<1> QED BY <1>7, <1>8, <1>9, <1>10, <1>11, Answered

\* Stop, an abort and a lost connection cancel some of the cards that wait.
LEMMA CardsCancel ==
    ASSUME CardsInv, NEW cards \in SUBSET Card, NEW n, Answer(cards, CancelCards(doc, cards), n),
           asked' = asked, memory' \in [Action -> {"none", "allow_always", "reject_always"}]
    PROVE  CardsInv'
<1>1. PICK d : d = CancelCards(doc, cards)
    OBVIOUS
<1>2. /\ CardDoc(d) /\ d.status = doc.status
      /\ WaitsFor(d, [c \in Card |-> IF c \in cards THEN 0 ELSE waiter[c]])
      /\ OpenedWasAsked(d)
      /\ \A t \in Denied : d.permissions[t].response.kind \notin Approvals
    BY <1>1, CancelledRest
<1> QED BY <1>1, <1>2, Answered

\* The rest of a send() whose connection is gone: no card waits there.
LEMMA CardsSendRejected ==
    ASSUME CardsInv, SendRejected PROVE CardsInv'
<1>1. /\ CardDoc(doc') /\ doc'.status = "idle"
      /\ doc'.permissions = doc.permissions /\ doc'.elicitations = doc.elicitations
    BY StatusSet DEF SendRejected, Settle, CardsInv, Statuses
<1>2. UNCHANGED cardVars /\ memory \in [Action -> {"none", "allow_always", "reject_always"}]
    BY DEF SendRejected, CardsInv
<1> QED BY <1>1, <1>2, CardsUntouched DEF cardVars

\* resolvePermission.
LEMMA CardsPick ==
    ASSUME CardsInv, NEW t \in Tool, NEW kind \in offered[t], PickPermission(t, kind)
    PROVE  CardsInv'
<1> DEFINE response == [outcome |-> "selected", kind |-> kind]
<1>1. kind \in Approvals \cup Refusals /\ response \in Response
    BY DEF CardsInv, Response, Outcomes
<1>2. PICK d : d = ResolvePermission(doc, t, response)
    OBVIOUS
<1>3. CardDoc(doc) /\ WaitsFor(doc, waiter)
    BY DEF CardsInv
<1>4. /\ CardDoc(d)
      /\ d.status = doc.status /\ d.elicitations = doc.elicitations
      /\ \A u \in Tool :
            IF u \in {t} /\ doc.permissions[u].status # "none"
            THEN d.permissions[u].status # "none" /\ d.permissions[u].status # "pending"
                 /\ d.permissions[u].response = response
            ELSE d.permissions[u] = doc.permissions[u]
    <2> HIDE DEF response
    <2> QED BY <1>1, <1>2, <1>3, PermissionsResolved DEF ResolvePermission
<1>5. /\ WaitsFor(d, [c \in Card |-> IF c \in {t} THEN 0 ELSE waiter[c]])
      /\ OpenedWasAsked(d)
    <2>1. \A e \in Elicitation : e # t
        BY StreamAssumption
    <2>2. Tool \subseteq Card /\ Elicitation \subseteq Card
        BY DEF Card
    <2>3. OpenedWasAsked(d)
        BY <1>4 DEF CardsInv, OpenedWasAsked
    <2> QED BY <1>3, <1>4, <2>1, <2>2, <2>3 DEF WaitsFor
<1>6. \A u \in Denied : d.permissions[u].response.kind \notin Approvals
    <2>1. t \notin Denied
        BY DEF PickPermission, CardsInv
    <2>2. \A u \in Denied : u \in Tool /\ doc.permissions[u].response.kind \notin Approvals
        BY StreamAssumption DEF CardsInv, DeniedStaysDenied
    <2> QED BY <1>4, <2>1, <2>2
<1>7. memory' \in [Action -> {"none", "allow_always", "reject_always"}]
    BY DEF PickPermission, Remember, CardsInv
<1>8. {t} \in SUBSET Card /\ asked' = asked /\ Answer({t}, d, turn)
    BY <1>2 DEF PickPermission, Card
<1> QED BY <1>4, <1>5, <1>6, <1>7, <1>8, Answered

\* A card of an elicitation that no longer waits.
LEMMA CardsMove ==
    ASSUME CardsInv, NEW e \in Elicitation, NEW from, "pending" \in from,
           NEW to \in {"opened", "resolved", "cancelled", "completed"}, NEW n,
           Answer({e} \cap Waiting, MoveElicitations(doc, {e}, from, to), n),
           to = "opened" => from = {"pending"}, asked' = asked, memory' = memory
    PROVE  CardsInv'
<1>1. PICK d : d = MoveElicitations(doc, {e}, from, to)
    OBVIOUS
<1>2. CardDoc(doc) /\ WaitsFor(doc, waiter)
    BY DEF CardsInv
<1>3. /\ CardDoc(d) /\ d.status = doc.status /\ d.permissions = doc.permissions
      /\ \A x \in Elicitation : d.elicitations[x] =
            IF x \in {e} /\ doc.elicitations[x] \in from THEN to ELSE doc.elicitations[x]
    BY <1>1, <1>2, ElicitationsMoved
<1>4. WaitsFor(d, [c \in Card |-> IF c \in {e} \cap Waiting THEN 0 ELSE waiter[c]])
    <2>1. \A t \in Tool : t # e
        BY StreamAssumption
    <2>2. to # "pending" /\ \A c \in Card : c \in Waiting <=> waiter[c] # 0
        BY DEF Waiting
    <2>3. Tool \subseteq Card /\ Elicitation \subseteq Card
        BY DEF Card
    <2>4. \A c \in Card \ {e} : c \notin {e} \cap Waiting
        OBVIOUS
    <2> QED BY <1>2, <1>3, <2>1, <2>2, <2>3, <2>4 DEF WaitsFor
<1>7. OpenedWasAsked(d)
    <2>1. doc.elicitations[e] = "pending" => asked[e] # 0
        BY <1>2 DEF CardsInv, WaitsFor, Card
    <2> QED BY <1>3, <2>1 DEF CardsInv, OpenedWasAsked
<1>5. {e} \cap Waiting \in SUBSET Card /\ memory' \in [Action -> {"none", "allow_always", "reject_always"}]
    BY DEF CardsInv, Card
<1>6. \A t \in Denied : d.permissions[t].response.kind \notin Approvals
    BY <1>3 DEF CardsInv, DeniedStaysDenied
<1> QED BY <1>1, <1>3, <1>4, <1>5, <1>6, <1>7, Answered

\* resolveElicitation, openElicitationUrl, handleElicitationComplete.
LEMMA CardsElicitations ==
    ASSUME CardsInv, NEW e \in Elicitation,
           AnswerElicitation(e) \/ OpenUrl(e) \/ CompleteUrl(e)
    PROVE  CardsInv'
<1>1. waiter[e] # 0 => {e} \cap Waiting = {e}
    BY DEF Waiting, Card
<1>2. CASE AnswerElicitation(e)
    <2>1. /\ Answer({e} \cap Waiting, MoveElicitations(doc, {e}, {"pending"}, "resolved"), turn)
          /\ asked' = asked /\ memory' = memory
        BY <1>1, <1>2 DEF AnswerElicitation, Answerable, ResolveElicitations
    <2> QED BY <2>1, CardsMove
<1>3. CASE OpenUrl(e)
    <2>1. /\ Answer({e} \cap Waiting, MoveElicitations(doc, {e}, {"pending"}, "opened"), turn)
          /\ asked' = asked /\ memory' = memory
        BY <1>1, <1>3 DEF OpenUrl, Answerable, OpenElicitationUrl
    <2> QED BY <2>1, CardsMove
<1>4. CASE CompleteUrl(e)
    <2>1. /\ Answer({e} \cap Waiting, MoveElicitations(doc, {e}, Unfinished, "completed"), turn)
          /\ asked' = asked /\ memory' = memory /\ "pending" \in Unfinished
        BY <1>4 DEF CompleteUrl, CompleteCard, CompleteElicitationUrl, Unfinished
    <2> QED BY <2>1, CardsMove
<1> QED BY <1>2, <1>3, <1>4

\* $/cancel_request.
LEMMA CardsAbort ==
    ASSUME CardsInv, NEW c \in Card, NEW n \in 1 .. asked[c], Abort(c, n) PROVE CardsInv'
<1>1. CASE waiter[c] = n
    BY <1>1, CardsCancel DEF Abort, AbortHits, CardsInv
<1>2. CASE waiter[c] # n
    BY <1>2 DEF Abort, AbortHits, CardsInv, CardDoc, WaitsFor, OpenedWasAsked, NoLeakedRequest,
                NoPhantomAction, Waiting, DeniedStaysDenied
<1> QED BY <1>1, <1>2

\* handleElicitationCreate: a repeat of an id that waits is declined.
LEMMA CardsDecline ==
    ASSUME CardsInv, NEW e \in Elicitation, AskElicitation(e), waiter[e] # 0 PROVE CardsInv'
<1>1. /\ e \in Card /\ asked[e] \in Nat /\ asked' = [asked EXCEPT ![e] = asked[e] + 1]
      /\ UNCHANGED <<doc, waiter, offered, memory>>
      /\ answered' = answered \cup {<<e, asked[e] + 1>>}
    BY DEF AskElicitation, DeclineRepeat, CardsInv, Card
<1>2. /\ asked' \in [Card -> Nat] /\ asked'[e] = asked[e] + 1
      /\ \A c \in Card \ {e} : asked'[c] = asked[c]
    BY <1>1 DEF CardsInv
<1>3. \A c \in Card : waiter'[c] <= asked'[c]
    BY <1>1, <1>2 DEF CardsInv
<1>4. OpenedWasAsked(doc)'
    BY <1>1, <1>2 DEF CardsInv, OpenedWasAsked, Card
<1>5. NoLeakedRequest'
    <2>1. ASSUME NEW c \in Card, NEW n \in 1 .. asked'[c]
          PROVE  <<c, n>> \in answered' \/ waiter'[c] = n
        <3>1. CASE c = e /\ n = asked[e] + 1
            BY <1>1, <3>1
        <3>2. CASE c # e \/ n # asked[e] + 1
            <4>1. n \in 1 .. asked[c]
                BY <1>1, <1>2, <3>2
            <4> QED BY <1>1, <4>1 DEF CardsInv, NoLeakedRequest
        <3> QED BY <3>1, <3>2
    <2> QED BY <2>1 DEF NoLeakedRequest
<1>6. /\ CardDoc(doc') /\ WaitsFor(doc', waiter')
      /\ NoPhantomAction' /\ DeniedStaysDenied' /\ \A t \in Denied : waiter'[t] = 0
    BY <1>1 DEF CardsInv, CardDoc, WaitsFor, NoPhantomAction, Waiting, DeniedStaysDenied
<1> QED BY <1>1, <1>2, <1>3, <1>4, <1>5, <1>6 DEF CardsInv

\* Any other elicitation waits from now on, by a card of its own, or by the one whose
\* link was opened.
LEMMA CardsShow ==
    ASSUME CardsInv, NEW e \in Elicitation, AskElicitation(e), waiter[e] = 0 PROVE CardsInv'
<1>1. PICK d : d = RequestElicitation(doc, e)
    OBVIOUS
<1>2. CardDoc(doc) /\ WaitsFor(doc, waiter) /\ OpenedWasAsked(doc)
    BY DEF CardsInv
<1>3. /\ CardDoc(d) /\ d.status = doc.status /\ d.permissions = doc.permissions
      /\ \A x \in Elicitation : d.elicitations[x] =
            IF x \in {e} /\ doc.elicitations[x] \in {"none", "resolved", "cancelled", "completed"}
            THEN "pending" ELSE doc.elicitations[x]
    BY <1>1, <1>2, ElicitationsMoved DEF RequestElicitation
<1>4. /\ \/ d.elicitations[e] = "pending"
         \/ d.elicitations[e] = "opened" /\ asked[e] # 0
      /\ \A x \in Elicitation \ {e} : d.elicitations[x] = doc.elicitations[x]
    <2>1. doc.elicitations[e] # "pending"
        BY <1>2 DEF WaitsFor
    <2>2. doc.elicitations[e] \in {"none", "opened", "resolved", "cancelled", "completed"}
        BY <1>2, <2>1 DEF CardDoc
    <2>3. doc.elicitations[e] = "opened" => asked[e] # 0
        BY <1>2 DEF OpenedWasAsked
    <2> QED BY <1>3, <2>2, <2>3
<1>5. /\ e \in Card /\ asked[e] \in Nat /\ asked' = [asked EXCEPT ![e] = asked[e] + 1]
      /\ waiter' = [waiter EXCEPT ![e] = asked[e] + 1]
      /\ doc' = SetStatus(d, Converged(waiter', turn))
      /\ UNCHANGED <<offered, memory, answered>>
    BY <1>1 DEF AskElicitation, ShowElicitation, CardsInv, Card
<1>6. /\ waiter' \in [Card -> Nat] /\ asked' \in [Card -> Nat]
      /\ \A c \in Card : waiter'[c] <= asked'[c]
      /\ waiter'[e] = asked[e] + 1 /\ asked'[e] = asked[e] + 1
      /\ \A c \in Card \ {e} : waiter'[c] = waiter[c] /\ asked'[c] = asked[c]
    BY <1>5 DEF CardsInv
<1>7. Converged(waiter', turn) = "requires_action"
    BY <1>5, <1>6 DEF Converged
<1>8. /\ CardDoc(doc') /\ doc'.permissions = doc.permissions
      /\ doc'.elicitations = d.elicitations
    BY <1>3, <1>5, <1>7, StatusSet DEF Statuses
<1>9. WaitsFor(doc', waiter')
    <2>1. Tool \subseteq Card \ {e} /\ Elicitation \subseteq Card
        BY StreamAssumption DEF Card
    <2>2. waiter'[e] # 0 /\ (asked[e] # 0 => waiter'[e] > 1)
        BY <1>5, <1>6
    <2>3. \A t \in Tool : waiter'[t] # 0 <=> doc'.permissions[t].status = "pending"
        BY <1>2, <1>6, <1>8, <2>1 DEF WaitsFor
    <2>4. ASSUME NEW x \in Elicitation
          PROVE  /\ doc'.elicitations[x] = "pending" => waiter'[x] # 0
                 /\ waiter'[x] # 0 => \/ doc'.elicitations[x] = "pending"
                                      \/ doc'.elicitations[x] = "opened" /\ waiter'[x] > 1
        <3>1. CASE x = e
            BY <1>4, <1>8, <2>2, <3>1
        <3>2. CASE x # e
            BY <1>2, <1>4, <1>6, <1>8, <2>1, <3>2 DEF WaitsFor
        <3> QED BY <3>1, <3>2
    <2> QED BY <2>3, <2>4 DEF WaitsFor
<1>10. NoLeakedRequest'
    <2>1. \A c \in Card : \A n \in 1 .. asked[c] : <<c, n>> \in answered \/ waiter[c] = n
        BY DEF CardsInv, NoLeakedRequest
    <2>2. ASSUME NEW c \in Card, NEW n \in 1 .. asked'[c]
          PROVE  <<c, n>> \in answered' \/ waiter'[c] = n
        <3>1. CASE c = e /\ n # asked[e] + 1
            <4>1. n \in 1 .. asked[e] /\ n # 0
                BY <1>5, <1>6, <3>1
            <4> QED BY <1>5, <2>1, <3>1, <4>1
        <3>2. CASE c = e /\ n = asked[e] + 1
            BY <1>6, <3>2
        <3>3. CASE c # e
            BY <1>5, <1>6, <2>1, <3>3
        <3> QED BY <3>1, <3>2, <3>3
    <2> QED BY <2>2 DEF NoLeakedRequest
<1>11. NoPhantomAction'
    BY <1>5, <1>6 DEF NoPhantomAction, Waiting
<1>12. DeniedStaysDenied' /\ \A t \in Denied : waiter'[t] = 0
    <2>1. \A t \in Denied : t # e /\ t \in Card
        BY StreamAssumption DEF Card
    <2> QED BY <1>6, <1>8, <2>1 DEF CardsInv, DeniedStaysDenied
<1>13. OpenedWasAsked(doc)'
    <2>1. Elicitation \subseteq Card
        BY DEF Card
    <2> QED BY <1>2, <1>4, <1>5, <1>6, <1>8, <2>1 DEF OpenedWasAsked
<1>14. offered' \in [Tool -> SUBSET (Approvals \cup Refusals)]
       /\ memory' \in [Action -> {"none", "allow_always", "reject_always"}]
    BY <1>5 DEF CardsInv
<1> QED BY <1>6, <1>8, <1>9, <1>10, <1>11, <1>12, <1>13, <1>14 DEF CardsInv

LEMMA CardsAskElicitation ==
    ASSUME CardsInv, NEW e \in Elicitation, AskElicitation(e) PROVE CardsInv'
BY CardsDecline, CardsShow

\* A denied call is always answered at once, and never with an approval.
LEMMA AutoAnswerTyped ==
    ASSUME CardsInv, NEW t \in Tool, NEW offer \in Offer
    PROVE  /\ AutoAnswer(t, offer) \in Response
           /\ t \in Denied => AutoAnswer(t, offer) # NoResponse
                              /\ AutoAnswer(t, offer).kind \notin Approvals
<1>1. memory[ActionOf[t]] \in offer => memory[ActionOf[t]] \in Approvals \cup Refusals
    BY StreamAssumption
<1>2. CASE t \in Denied
    BY <1>2 DEF AutoAnswer, Response, Outcomes, NoResponse, Approvals
<1>3. CASE t \notin Denied /\ memory[ActionOf[t]] \in offer
    BY <1>1, <1>3 DEF AutoAnswer, Response, Outcomes
<1>4. CASE t \notin Denied /\ memory[ActionOf[t]] \notin offer
    BY <1>4 DEF AutoAnswer, Response, Outcomes, NoResponse
<1> QED BY <1>2, <1>3, <1>4

\* handlePermissionRequest.
LEMMA CardsAskPermission ==
    ASSUME CardsInv, NEW t \in Tool, NEW offer \in Offer, AskPermission(t, offer)
    PROVE  CardsInv'
<1>1. PICK auto, requested, before :
        /\ auto = AutoAnswer(t, offer)
        /\ before = Superseded(t)
        /\ requested = RequestPermission(before, t)
    OBVIOUS
<1>2. CardDoc(doc) /\ WaitsFor(doc, waiter)
    BY DEF CardsInv
<1>3. /\ CardDoc(before) /\ before.status = doc.status /\ before.elicitations = doc.elicitations
      /\ \A u \in Tool \ {t} : before.permissions[u] = doc.permissions[u]
    <2>1. Cancelled \in Response
        BY DEF Cancelled, Response, Outcomes
    <2>2. before = doc \/ before = ResolvePermissions(doc, {t}, Cancelled)
        BY <1>1 DEF Superseded, ResolvePermission
    <2> QED BY <1>2, <2>1, <2>2, PermissionsResolved
<1>4. /\ CardDoc(requested)
      /\ requested.status = doc.status /\ requested.elicitations = doc.elicitations
      /\ requested.permissions[t].status = "pending"
      /\ requested.permissions[t].response = NoResponse
      /\ \A u \in Tool \ {t} : requested.permissions[u] = doc.permissions[u]
    <2>1. /\ CardDoc(requested)
          /\ requested.status = before.status /\ requested.elicitations = before.elicitations
          /\ requested.permissions = [before.permissions EXCEPT
                    ![t] = [status |-> "pending", response |-> NoResponse]]
        BY <1>1, <1>3, PermissionRequested
    <2> QED BY <1>3, <2>1 DEF CardDoc
<1>5. /\ t \in Card /\ asked[t] \in Nat /\ asked' = [asked EXCEPT ![t] = asked[t] + 1]
      /\ asked' \in [Card -> Nat] /\ asked'[t] = asked[t] + 1
      /\ \A c \in Card \ {t} : asked'[c] = asked[c]
      /\ memory' = memory
    BY DEF AskPermission, CardsInv, Card
<1>6. auto \in Response /\ (t \in Denied => auto # NoResponse /\ auto.kind \notin Approvals)
    BY <1>1, AutoAnswerTyped
<1>7. /\ \A u \in Denied : u \in Tool /\ u \in Card /\ waiter[u] = 0
                           /\ doc.permissions[u].response.kind \notin Approvals
      /\ \A e \in Elicitation : e # t
    BY StreamAssumption DEF CardsInv, DeniedStaysDenied, Card
<1>8. ASSUME NEW c \in Card, NEW n \in 1 .. asked'[c], c # t \/ n # asked[t] + 1,
             answered \cup SettledStale(t) \subseteq answered',
             \A d \in Card \ {t} : waiter'[d] = waiter[d]
      PROVE  <<c, n>> \in answered' \/ waiter'[c] = n
    <2>1. n \in 1 .. asked[c]
        BY <1>5, <1>8
    <2>2. <<c, n>> \in answered \/ waiter[c] = n
        BY <2>1 DEF CardsInv, NoLeakedRequest
    <2>3. CASE c = t /\ waiter[c] = n
        BY <1>8, <2>1, <2>3 DEF SettledStale
    <2> QED BY <1>8, <2>2, <2>3
<1>9. CASE auto # NoResponse
    <2>1. PICK d : d = ResolvePermission(requested, t, auto)
        OBVIOUS
    <2>2. PICK s : s = IF waiter[t] # 0 THEN Converged([waiter EXCEPT ![t] = 0], turn) ELSE doc.status
        OBVIOUS
    <2>3. /\ doc' = SetStatus(d, s)
          /\ answered' = answered \cup SettledStale(t) \cup {<<t, asked[t] + 1>>}
          /\ waiter' = [waiter EXCEPT ![t] = 0]
          /\ offered' = [offered EXCEPT ![t] = {}]
        BY <1>1, <1>9, <2>1, <2>2 DEF AskPermission
    <2>4. /\ CardDoc(d) /\ d.elicitations = doc.elicitations
          /\ d.permissions[t].status # "pending" /\ d.permissions[t].response = auto
          /\ \A u \in Tool \ {t} : d.permissions[u] = doc.permissions[u]
        BY <1>4, <1>6, <2>1, PermissionsResolved DEF ResolvePermission
    <2>5. s \in Statuses
        BY <2>2 DEF Converged, Statuses, CardsInv, CardDoc
    <2>6. /\ CardDoc(doc') /\ doc'.status = s
          /\ doc'.permissions = d.permissions /\ doc'.elicitations = d.elicitations
        BY <2>3, <2>4, <2>5, StatusSet
    <2>7. /\ waiter' \in [Card -> Nat] /\ waiter'[t] = 0
          /\ \A c \in Card \ {t} : waiter'[c] = waiter[c]
          /\ \A c \in Card : waiter'[c] <= asked'[c]
        BY <1>5, <2>3 DEF CardsInv
    <2>8. WaitsFor(doc', waiter') /\ OpenedWasAsked(doc)'
        <3>1. Tool \subseteq Card /\ Elicitation \subseteq Card \ {t}
            BY <1>7 DEF Card
        <3>2. OpenedWasAsked(doc)'
            BY <1>5, <2>4, <2>6, <3>1 DEF CardsInv, OpenedWasAsked
        <3> QED BY <1>2, <2>4, <2>6, <2>7, <3>1, <3>2 DEF WaitsFor
    <2>9. NoLeakedRequest'
        BY <1>5, <1>8, <2>3, <2>7 DEF NoLeakedRequest
    <2>10. NoPhantomAction'
        <3>1. CASE waiter[t] # 0
            BY <2>2, <2>3, <2>6, <3>1 DEF Converged, NoPhantomAction, Waiting
        <3>2. CASE waiter[t] = 0
            <4>1. \A c \in Card : waiter'[c] = waiter[c]
                BY <2>7, <3>2
            <4> QED BY <2>2, <2>6, <3>2, <4>1 DEF CardsInv, NoPhantomAction, Waiting
        <3> QED BY <3>1, <3>2
    <2>11. DeniedStaysDenied' /\ \A u \in Denied : waiter'[u] = 0
        BY <1>6, <1>7, <2>4, <2>6, <2>7 DEF DeniedStaysDenied
    <2>12. offered' \in [Tool -> SUBSET (Approvals \cup Refusals)]
        BY <2>3 DEF CardsInv
    <2> QED BY <1>5, <2>6, <2>7, <2>8, <2>9, <2>10, <2>11, <2>12 DEF CardsInv
<1>10. CASE auto = NoResponse
    <2>1. /\ doc' = SetStatus(requested, Converged(waiter', turn))
          /\ answered' = answered \cup SettledStale(t)
          /\ waiter' = [waiter EXCEPT ![t] = asked[t] + 1]
          /\ offered' = [offered EXCEPT ![t] = offer]
        BY <1>1, <1>10 DEF AskPermission
    <2>2. /\ waiter' \in [Card -> Nat] /\ waiter'[t] = asked[t] + 1 /\ waiter'[t] # 0
          /\ \A c \in Card \ {t} : waiter'[c] = waiter[c]
          /\ \A c \in Card : waiter'[c] <= asked'[c]
        BY <1>5, <2>1 DEF CardsInv
    <2>3. Converged(waiter', turn) = "requires_action"
        BY <1>5, <2>2 DEF Converged
    <2>4. /\ CardDoc(doc')
          /\ doc'.permissions = requested.permissions /\ doc'.elicitations = doc.elicitations
        BY <1>4, <2>1, <2>3, StatusSet DEF Statuses
    <2>5. WaitsFor(doc', waiter') /\ OpenedWasAsked(doc)'
        <3>1. Tool \subseteq Card /\ Elicitation \subseteq Card \ {t}
            BY <1>7 DEF Card
        <3>2. OpenedWasAsked(doc)'
            BY <1>5, <2>4, <3>1 DEF CardsInv, OpenedWasAsked
        <3> QED BY <1>2, <1>4, <2>2, <2>4, <3>1, <3>2 DEF WaitsFor
    <2>6. NoLeakedRequest'
        BY <1>5, <1>8, <2>1, <2>2 DEF NoLeakedRequest
    <2>7. NoPhantomAction'
        BY <1>5, <2>2 DEF NoPhantomAction, Waiting
    <2>8. t \notin Denied
        BY <1>6, <1>10
    <2>9. DeniedStaysDenied' /\ \A u \in Denied : waiter'[u] = 0
        BY <1>4, <1>7, <2>2, <2>4, <2>8 DEF DeniedStaysDenied
    <2>10. offered' \in [Tool -> SUBSET (Approvals \cup Refusals)]
        BY <2>1, StreamAssumption DEF CardsInv
    <2> QED BY <1>5, <2>2, <2>4, <2>5, <2>6, <2>7, <2>9, <2>10 DEF CardsInv
<1> QED BY <1>9, <1>10

\* Every step keeps the cards.
LEMMA CardsStep == ASSUME StreamType, CardsInv, [Next]_vars PROVE CardsInv'
<1>1. CASE UNCHANGED vars
    BY <1>1 DEF vars, cardVars, CardsInv, CardDoc, WaitsFor, OpenedWasAsked, NoLeakedRequest, NoPhantomAction,
                Waiting, DeniedStaysDenied
<1>2. CASE Disconnect
    <2>1. /\ memory' \in [Action -> {"none", "allow_always", "reject_always"}]
          /\ Waiting \in SUBSET Card /\ asked' = asked
        BY <1>2 DEF Disconnect, Waiting
    <2> QED BY <1>2, <2>1, CardsCancel DEF Disconnect
<1>3. CASE Cancel
    <2>1. /\ memory' \in [Action -> {"none", "allow_always", "reject_always"}]
          /\ Waiting \in SUBSET Card /\ asked' = asked
        BY <1>3 DEF Cancel, Waiting, CardsInv
    <2> QED BY <1>3, <2>1, CardsCancel DEF Cancel
<1> QED BY <1>1, <1>2, <1>3, CardsHear, CardsSend, CardsTurnEnds, CardsTurnFails, CardsSendRejected,
           CardsPick, CardsElicitations, CardsAbort, CardsAskElicitation, CardsAskPermission
        DEF Next, User, Agent, Ask

\* The cards, their requests and their records agree in every reachable state.
LEMMA CardsHold == Spec => []CardsInv
<1>1. StreamType /\ CardsInv /\ [Next]_vars => CardsInv'
    BY CardsStep
<1> QED BY <1>1, InitCards, StreamTypeHolds, PTL DEF Spec

\* RequestsAreShown, for every set of calls, elicitations and offers: settlePermission,
\* settleElicitation and convergeStatus part no card from its request.
THEOREM EveryRequestIsShown == Spec => []RequestsAreShown
<1>1. CardsInv => RequestsAreShown
    BY DEF CardsInv, WaitsFor, RequestsAreShown, WaiterHasCard
<1> QED BY <1>1, CardsHold, PTL

\* A step that gives up a request is that request's abort, which moves no other
\* waiter.
LEMMA AbortStep ==
    ASSUME CardsInv, [Next]_vars, NEW c \in Card, NEW n \in 1 .. asked[c],
           <<c, n>> \in aborted' \ aborted, NEW d \in Card, waiter'[d] # waiter[d]
    PROVE  d = c /\ waiter[c] = n
<1>1. aborted' # aborted
    OBVIOUS
<1>2. PICK x, m : x \in Card /\ m \in 1 .. asked[x] /\ Abort(x, m)
    BY <1>1 DEF Next, User, Agent, Ask, vars, cardVars, Hear, AskPermission, AskElicitation,
                CompleteUrl, TurnEnds, TurnFails, Send, Cancel, PickPermission, AnswerElicitation,
                OpenUrl, Disconnect, SendRejected
<1>3. <<c, n>> = <<x, m>>
    BY <1>2 DEF Abort
<1>4. waiter[x] = m /\ waiter' = [y \in Card |-> IF y \in {x} THEN 0 ELSE waiter[y]]
    BY <1>2 DEF Abort, AbortHits, Answer, CardsInv
<1> QED BY <1>3, <1>4

\* AnswersAreOwn, likewise: the policy outranks the memory (handlePermissionRequest),
\* and an abort takes down its own waiter only.
THEOREM NoAnswerForAnother == Spec => AnswersAreOwn
<1>1. CardsInv => DeniedStaysDenied
    BY DEF CardsInv
<1>2. CardsInv /\ [Next]_vars =>
        [\A c \in Card : \A n \in 1 .. asked[c] :
            <<c, n>> \in aborted' \ aborted =>
                \A d \in Card : waiter'[d] # waiter[d] => d = c /\ waiter[c] = n]_vars
    BY AbortStep
<1> QED BY <1>1, <1>2, CardsHold, PTL DEF Spec, AnswersAreOwn, AbortIsOwn

-----------------------------------------------------------------------------
\* The flow: turns of blocks, none of them empty.
IsFlow(turns) ==
    /\ \E S : turns \in Seq(Seq(S))
    /\ \A i \in DOMAIN turns : turns[i] # <<>>

\* e is d with one more block at its end; with another last block.
Adds(d, e, block) ==
    \E p : /\ p \notin Places(d) /\ Places(e) = Places(d) \cup {p} /\ At(e, p) = block
           /\ \A q \in Places(d) : At(e, q) = At(d, q) /\ Before(q, p)
Revises(d, e, block) ==
    \E p \in Places(d) :
        /\ Places(e) = Places(d) /\ At(e, p) = block /\ At(d, p) = LastBlock(d)
        /\ \A q \in Places(d) \ {p} : At(e, q) = At(d, q) /\ Before(q, p)

\* The places are the indices of the blocks.
LEMMA PlacesOf ==
    ASSUME NEW d
    PROVE  /\ \A i \in DOMAIN d.turns : \A j \in DOMAIN d.turns[i] :
                <<i, j>> \in Places(d) /\ At(d, <<i, j>>) = d.turns[i][j]
           /\ \A p \in Places(d) :
                /\ p = <<p[1], p[2]>> /\ p[1] \in DOMAIN d.turns
                /\ p[2] \in DOMAIN d.turns[p[1]] /\ At(d, p) = d.turns[p[1]][p[2]]
BY DEF Places, At

\* appendBlock adds one block after all others, in the last turn or in a new one.
LEMMA BlockAdded ==
    ASSUME NEW d, Doc(d), IsFlow(d.turns), NEW block, NEW newTurn \in BOOLEAN,
           NEW e, e = AppendBlock(d, block, newTurn)
    PROVE  IsFlow(e.turns) /\ Adds(d, e, block)
<1>1. PICK S : d.turns \in Seq(Seq(S))
    BY DEF IsFlow
<1> DEFINE n == Len(d.turns)
           T == S \cup {block}
<1>2. /\ n \in Nat /\ DOMAIN d.turns = 1 .. n
      /\ \A i \in 1 .. n : /\ d.turns[i] \in Seq(S) /\ d.turns[i] # <<>>
                           /\ Len(d.turns[i]) \in Nat
                           /\ DOMAIN d.turns[i] = 1 .. Len(d.turns[i])
    BY <1>1 DEF IsFlow
<1>3. \A s \in Seq(S) : s \in Seq(T)
    OBVIOUS
<1>4. CASE newTurn \/ d.turns = <<>>
    <2>1. e.turns = Append(d.turns, <<block>>)
        BY <1>4 DEF AppendBlock, Doc
    <2>2. <<block>> \in Seq(T) /\ d.turns \in Seq(Seq(T))
        BY <1>1, <1>2, <1>3
    <2>3. /\ e.turns \in Seq(Seq(T)) /\ DOMAIN e.turns = 1 .. n + 1
          /\ \A i \in 1 .. n : e.turns[i] = d.turns[i]
          /\ e.turns[n + 1] = <<block>>
        BY <2>1, <2>2
    <2>4. IsFlow(e.turns)
        <3>1. <<block>> # <<>>
            OBVIOUS
        <3>2. ASSUME NEW i \in 1 .. n + 1 PROVE e.turns[i] # <<>>
            <4>1. i \in 1 .. n \/ i = n + 1
                BY <1>2
            <4> QED BY <1>2, <2>3, <3>1, <4>1
        <3> QED BY <2>3, <3>2 DEF IsFlow
    <2> DEFINE p == <<n + 1, 1>>
    <2>5. p \notin Places(d)
        BY <1>2, PlacesOf
    <2>6. p \in Places(e) /\ At(e, p) = block
        <3>1. 1 \in DOMAIN e.turns[n + 1] /\ n + 1 \in DOMAIN e.turns /\ e.turns[n + 1][1] = block
            BY <1>2, <2>3
        <3> QED BY <3>1, PlacesOf
    <2>7. ASSUME NEW q \in Places(d) PROVE q \in Places(e) /\ At(e, q) = At(d, q) /\ Before(q, p)
        <3>1. /\ q = <<q[1], q[2]>> /\ q[1] \in 1 .. n /\ q[2] \in DOMAIN d.turns[q[1]]
              /\ At(d, q) = d.turns[q[1]][q[2]]
            BY <1>2, PlacesOf
        <3>2. e.turns[q[1]] = d.turns[q[1]] /\ q[1] \in DOMAIN e.turns
            BY SMTT(30), <1>2, <2>3, <3>1
        <3>3. q \in Places(e) /\ At(e, q) = At(d, q)
            BY <3>1, <3>2, PlacesOf
        <3>4. Before(q, p)
            BY <1>2, <3>1 DEF Before
        <3> QED BY <3>3, <3>4
    <2>8. ASSUME NEW q \in Places(e), q # p PROVE q \in Places(d)
        <3>1. /\ q = <<q[1], q[2]>> /\ q[1] \in 1 .. n + 1 /\ q[2] \in DOMAIN e.turns[q[1]]
            BY <1>2, <2>3, PlacesOf
        <3>2. q[1] # n + 1
            BY <1>2, <2>3, <2>8, <3>1
        <3>3. q[1] \in 1 .. n
            BY <1>2, <3>1, <3>2
        <3>4. q[1] \in DOMAIN d.turns /\ q[2] \in DOMAIN d.turns[q[1]]
            BY <1>2, <2>3, <3>1, <3>3
        <3> QED BY <3>1, <3>4, PlacesOf
    <2> HIDE DEF p
    <2> QED BY <2>4, <2>5, <2>6, <2>7, <2>8 DEF Adds
<1>5. CASE ~newTurn /\ d.turns # <<>>
    <2> DEFINE m == Len(d.turns[n])
    <2>1. e.turns = [d.turns EXCEPT ![n] = Append(d.turns[n], block)] /\ n \in 1 .. n
        BY <1>1, <1>5, <1>2 DEF AppendBlock, Doc
    <2>2. /\ Append(d.turns[n], block) \in Seq(T) /\ d.turns \in Seq(Seq(T)) /\ m \in Nat
          /\ DOMAIN Append(d.turns[n], block) = 1 .. m + 1
          /\ Append(d.turns[n], block)[m + 1] = block
          /\ \A j \in 1 .. m : Append(d.turns[n], block)[j] = d.turns[n][j]
          /\ Append(d.turns[n], block) # <<>>
        <3>1. d.turns[n] \in Seq(T) /\ block \in T
            BY <1>2, <1>3, <2>1
        <3>2. m \in Nat /\ d.turns \in Seq(Seq(T))
            BY <1>1, <1>2, <1>3, <2>1
        <3>3. PICK s : s = d.turns[n]
            OBVIOUS
        <3>4. s \in Seq(T) /\ Len(s) = m
            BY <3>1, <3>3
        <3>5. /\ Append(s, block) \in Seq(T) /\ Len(Append(s, block)) = m + 1
              /\ Append(s, block)[m + 1] = block
              /\ \A j \in 1 .. m : Append(s, block)[j] = s[j]
            BY <3>1, <3>4, AppendProperties
        <3>6. Append(s, block) # <<>> /\ DOMAIN Append(s, block) = 1 .. m + 1
            BY SMTT(30), <3>2, <3>5
        <3> QED BY <3>2, <3>3, <3>5, <3>6
    <2>3. /\ e.turns \in Seq(Seq(T)) /\ DOMAIN e.turns = 1 .. n
          /\ \A i \in 1 .. n : i # n => e.turns[i] = d.turns[i]
          /\ e.turns[n] = Append(d.turns[n], block)
        BY <1>2, <2>1, <2>2
    <2>4. IsFlow(e.turns)
        BY <1>2, <2>2, <2>3 DEF IsFlow
    <2> DEFINE p == <<n, m + 1>>
    <2>5. p \notin Places(d)
        BY <1>2, <2>2, PlacesOf
    <2>6. p \in Places(e) /\ At(e, p) = block
        <3>1. m + 1 \in DOMAIN e.turns[n] /\ n \in DOMAIN e.turns /\ e.turns[n][m + 1] = block
            BY <2>1, <2>2, <2>3
        <3> QED BY <3>1, PlacesOf
    <2>7. ASSUME NEW q \in Places(d) PROVE q \in Places(e) /\ At(e, q) = At(d, q) /\ Before(q, p)
        <3>1. /\ q = <<q[1], q[2]>> /\ q[1] \in 1 .. n /\ q[2] \in 1 .. Len(d.turns[q[1]])
              /\ At(d, q) = d.turns[q[1]][q[2]]
            BY <1>2, PlacesOf
        <3>2. /\ q[1] \in DOMAIN e.turns /\ q[2] \in DOMAIN e.turns[q[1]]
              /\ e.turns[q[1]][q[2]] = d.turns[q[1]][q[2]]
            <4>1. CASE q[1] = n
                <5>1. q[2] \in 1 .. m + 1 /\ q[2] \in 1 .. m
                    BY <2>2, <3>1, <4>1
                <5> QED BY <2>1, <2>2, <2>3, <4>1, <5>1
            <4>2. CASE q[1] # n
                BY <1>2, <2>3, <3>1, <4>2
            <4> QED BY <4>1, <4>2
        <3>3. q \in Places(e) /\ At(e, q) = At(d, q)
            BY <3>1, <3>2, PlacesOf
        <3>4. Before(q, p)
            BY <1>2, <2>2, <3>1 DEF Before
        <3> QED BY <3>3, <3>4
    <2>8. ASSUME NEW q \in Places(e), q # p PROVE q \in Places(d)
        <3>1. /\ q = <<q[1], q[2]>> /\ q[1] \in 1 .. n /\ q[2] \in DOMAIN e.turns[q[1]]
            BY <1>2, <2>3, PlacesOf
        <3>2. q[2] \in DOMAIN d.turns[q[1]]
            BY SMTT(30), <1>2, <2>2, <2>3, <2>8, <3>1
        <3> QED BY <1>2, <3>1, <3>2, PlacesOf
    <2> HIDE DEF p
    <2> QED BY <2>4, <2>5, <2>6, <2>7, <2>8 DEF Adds
<1> QED BY <1>4, <1>5

\* The last block has the last place.
LEMMA LastPlace ==
    ASSUME NEW d, IsFlow(d.turns), d.turns # <<>>
    PROVE  \E p \in Places(d) :
                /\ At(d, p) = LastBlock(d) /\ p[1] = Len(d.turns) /\ p[2] = Len(Last(d.turns))
                /\ \A q \in Places(d) \ {p} : Before(q, p)
<1>1. PICK S : d.turns \in Seq(Seq(S))
    BY DEF IsFlow
<1> DEFINE n == Len(d.turns)
           m == Len(d.turns[n])
<1>2. /\ n \in Nat /\ DOMAIN d.turns = 1 .. n /\ n \in 1 .. n
      /\ \A i \in 1 .. n : /\ d.turns[i] \in Seq(S) /\ d.turns[i] # <<>>
                           /\ Len(d.turns[i]) \in Nat
                           /\ DOMAIN d.turns[i] = 1 .. Len(d.turns[i])
    BY <1>1 DEF IsFlow
<1>3. m \in Nat /\ m \in DOMAIN d.turns[n] /\ m # 0
    BY <1>2
<1>4. LastBlock(d) = d.turns[n][m] /\ Last(d.turns) = d.turns[n]
    BY DEF LastBlock, Last
<1>5. <<n, m>> \in Places(d) /\ At(d, <<n, m>>) = d.turns[n][m]
    BY <1>2, <1>3, PlacesOf
<1>6. ASSUME NEW q \in Places(d), q # <<n, m>> PROVE Before(q, <<n, m>>)
    <2>1. q = <<q[1], q[2]>> /\ q[1] \in 1 .. n /\ q[2] \in 1 .. Len(d.turns[q[1]])
        BY <1>2, PlacesOf
    <2>2. q[1] # n \/ q[2] # m
        BY <1>6, <2>1
    <2> QED BY <1>2, <1>3, <2>1, <2>2 DEF Before
<1>7. <<n, m>>[1] = n /\ <<n, m>>[2] = m
    OBVIOUS
<1> QED BY <1>4, <1>5, <1>6, <1>7

\* A function on 1 .. n is a sequence.
LEMMA FunctionIsSeq ==
    ASSUME NEW n \in Nat, NEW S, NEW f \in [1 .. n -> S]
    PROVE  f \in Seq(S) /\ Len(f) = n /\ DOMAIN f = 1 .. n
OBVIOUS

\* Turns of the same lengths have the same places.
LEMMA Redrawn ==
    ASSUME NEW d, IsFlow(d.turns), NEW e,
           \E T : e.turns \in [DOMAIN d.turns -> T],
           \A i \in DOMAIN d.turns : \E T : e.turns[i] \in [DOMAIN d.turns[i] -> T]
    PROVE  IsFlow(e.turns) /\ Places(e) = Places(d)
<1>1. PICK S : d.turns \in Seq(Seq(S))
    BY DEF IsFlow
<1> DEFINE n == Len(d.turns)
           T == {e.turns[p[1]][p[2]] : p \in Places(d)}
<1>2. /\ n \in Nat /\ DOMAIN d.turns = 1 .. n
      /\ \A i \in 1 .. n : /\ d.turns[i] \in Seq(S) /\ d.turns[i] # <<>>
                           /\ Len(d.turns[i]) \in Nat /\ Len(d.turns[i]) # 0
                           /\ DOMAIN d.turns[i] = 1 .. Len(d.turns[i])
    BY <1>1 DEF IsFlow
<1>3. ASSUME NEW i \in 1 .. n
      PROVE  e.turns[i] \in Seq(T) /\ e.turns[i] # <<>> /\ DOMAIN e.turns[i] = DOMAIN d.turns[i]
    <2>1. PICK f : f = e.turns[i]
        OBVIOUS
    <2>2. DOMAIN f = 1 .. Len(d.turns[i]) /\ f = [j \in 1 .. Len(d.turns[i]) |-> f[j]]
        BY <1>2, <2>1
    <2>3. ASSUME NEW j \in 1 .. Len(d.turns[i]) PROVE f[j] \in T
        <3>1. <<i, j>> \in Places(d) /\ <<i, j>>[1] = i /\ <<i, j>>[2] = j
            BY <1>2, PlacesOf
        <3>2. e.turns[<<i, j>>[1]][<<i, j>>[2]] \in T
            BY <3>1
        <3> QED BY <2>1, <3>1, <3>2
    <2> HIDE DEF T
    <2>5. f \in [1 .. Len(d.turns[i]) -> T]
        BY <2>2, <2>3
    <2>4. f \in Seq(T) /\ Len(f) = Len(d.turns[i]) /\ DOMAIN f = 1 .. Len(d.turns[i])
        BY <1>2, <2>5, FunctionIsSeq
    <2> QED BY <1>2, <2>1, <2>4
<1>4. e.turns \in Seq(Seq(T)) /\ DOMAIN e.turns = 1 .. n
    <2>1. PICK f : f = e.turns
        OBVIOUS
    <2>2. DOMAIN f = 1 .. n /\ f = [i \in 1 .. n |-> f[i]]
        BY <1>2, <2>1
    <2> HIDE DEF T
    <2>3. \A i \in 1 .. n : f[i] \in Seq(T)
        BY <1>3, <2>1
    <2>4. f \in [1 .. n -> Seq(T)]
        BY <2>2, <2>3
    <2>5. f \in Seq(Seq(T)) /\ DOMAIN f = 1 .. n
        BY <1>2, <2>4, FunctionIsSeq
    <2> QED BY <2>1, <2>5
<1>5. IsFlow(e.turns)
    BY <1>3, <1>4 DEF IsFlow
<1>6. ASSUME NEW p \in Places(d) PROVE p \in Places(e)
    <2>1. p = <<p[1], p[2]>> /\ p[1] \in 1 .. n /\ p[2] \in DOMAIN d.turns[p[1]]
        BY <1>2, PlacesOf
    <2>2. p[1] \in DOMAIN e.turns /\ p[2] \in DOMAIN e.turns[p[1]]
        BY <1>3, <1>4, <2>1
    <2> QED BY <2>1, <2>2, PlacesOf
<1>7. ASSUME NEW p \in Places(e) PROVE p \in Places(d)
    <2>1. p = <<p[1], p[2]>> /\ p[1] \in 1 .. n /\ p[2] \in DOMAIN e.turns[p[1]]
        BY <1>4, PlacesOf
    <2>2. p[1] \in DOMAIN d.turns /\ p[2] \in DOMAIN d.turns[p[1]]
        BY <1>2, <1>3, <2>1
    <2> QED BY <2>1, <2>2, PlacesOf
<1> QED BY <1>5, <1>6, <1>7

\* replaceLastTurn replaces the last block and keeps the others.
LEMMA BlockReplaced ==
    ASSUME NEW d, Doc(d), IsFlow(d.turns), d.turns # <<>>, NEW block,
           NEW e, e = ReplaceLastBlock(d, block)
    PROVE  IsFlow(e.turns) /\ Revises(d, e, block)
<1>1. PICK p \in Places(d) :
        /\ At(d, p) = LastBlock(d) /\ p[1] = Len(d.turns) /\ p[2] = Len(Last(d.turns))
        /\ \A q \in Places(d) \ {p} : Before(q, p)
    BY LastPlace
<1> DEFINE last == Last(d.turns)
<1>2. PICK S : d.turns \in Seq(Seq(S))
    BY DEF IsFlow
<1>3. e.turns = [d.turns EXCEPT ![Len(d.turns)] = [last EXCEPT ![Len(last)] = block]]
    BY DEF ReplaceLastBlock, Doc
<1>4. /\ p = <<p[1], p[2]>> /\ p[1] \in DOMAIN d.turns /\ p[2] \in DOMAIN d.turns[p[1]]
      /\ last = d.turns[p[1]]
    BY <1>1, PlacesOf DEF Last
<1>5. e.turns = [i \in DOMAIN d.turns |-> [j \in DOMAIN d.turns[i] |->
                    IF i = p[1] /\ j = p[2] THEN block ELSE d.turns[i][j]]]
    <2>1. e.turns = [i \in DOMAIN d.turns |->
                        IF i = p[1] THEN [j \in DOMAIN d.turns[p[1]] |->
                                            IF j = p[2] THEN block ELSE d.turns[p[1]][j]]
                                    ELSE d.turns[i]]
        BY <1>1, <1>3, <1>4
    <2>2. \A i \in DOMAIN d.turns : d.turns[i] = [j \in DOMAIN d.turns[i] |-> d.turns[i][j]]
        BY <1>2
    <2> QED BY <2>1, <2>2
<1>6. IsFlow(e.turns) /\ Places(e) = Places(d)
    <2> DEFINE T == {At(d, q) : q \in Places(d)} \cup {block}
    <2>1. ASSUME NEW i \in DOMAIN d.turns
          PROVE  /\ e.turns[i] \in [DOMAIN d.turns[i] -> T]
                 /\ e.turns[i] \in Range(e.turns)
        <3>1. ASSUME NEW j \in DOMAIN d.turns[i] PROVE d.turns[i][j] \in T
            <4>1. <<i, j>> \in Places(d) /\ At(d, <<i, j>>) = d.turns[i][j]
                BY PlacesOf
            <4> QED BY <4>1
        <3>2. e.turns[i] = [j \in DOMAIN d.turns[i] |->
                                IF i = p[1] /\ j = p[2] THEN block ELSE d.turns[i][j]]
              /\ DOMAIN e.turns = DOMAIN d.turns
            BY <1>5
        <3> HIDE DEF T
        <3> QED BY <3>1, <3>2 DEF Range, T
    <2> HIDE DEF T
    <2>2. e.turns \in [DOMAIN d.turns -> Range(e.turns)]
        BY <1>5, <2>1
    <2> QED BY <2>1, <2>2, Redrawn
<1>7. ASSUME NEW q \in Places(d) PROVE At(e, q) = IF q = p THEN block ELSE At(d, q)
    <2>1. /\ q = <<q[1], q[2]>> /\ q[1] \in DOMAIN d.turns /\ q[2] \in DOMAIN d.turns[q[1]]
          /\ At(d, q) = d.turns[q[1]][q[2]]
        BY PlacesOf
    <2>2. q = p <=> q[1] = p[1] /\ q[2] = p[2]
        BY <1>4, <2>1
    <2> QED BY <1>5, <2>1, <2>2 DEF At
<1> QED BY <1>1, <1>6, <1>7 DEF Revises

IsTool(b, calls) == b.kind = "tool_call" /\ b.id \in calls
Replaced(d, t, block) == ReplaceTools(d, {t}, LAMBDA b : block)
Patched(b, u) ==
    [b EXCEPT !.status = IF u.status = "none" THEN @ ELSE u.status, !.raws = @ \o u.raws]

\* upsertToolCall in place: the blocks of the call are the new one, the others stay.
LEMMA ToolReplaced ==
    ASSUME NEW d, Doc(d), IsFlow(d.turns), NEW t, NEW block,
           NEW e, e = Replaced(d, t, block)
    PROVE  /\ IsFlow(e.turns) /\ Places(e) = Places(d)
           /\ \A p \in Places(d) :
                At(e, p) = IF IsTool(At(d, p), {t}) THEN block ELSE At(d, p)
<1>1. e.turns = [i \in DOMAIN d.turns |-> [j \in DOMAIN d.turns[i] |->
            IF IsTool(d.turns[i][j], {t}) THEN block ELSE d.turns[i][j]]]
    BY DEF Replaced, ReplaceTools, Doc, IsTool
<1> DEFINE T == {At(e, q) : q \in Places(d)}
<1>2. ASSUME NEW i \in DOMAIN d.turns
      PROVE  e.turns[i] \in [DOMAIN d.turns[i] -> T] /\ e.turns[i] \in Range(e.turns)
    <2>1. ASSUME NEW j \in DOMAIN d.turns[i] PROVE e.turns[i][j] \in T
        <3>1. <<i, j>> \in Places(d) /\ At(e, <<i, j>>) = e.turns[i][j]
            BY PlacesOf DEF At
        <3> QED BY <3>1
    <2>2. DOMAIN e.turns[i] = DOMAIN d.turns[i] /\ DOMAIN e.turns = DOMAIN d.turns
          /\ e.turns[i] = [j \in DOMAIN d.turns[i] |-> e.turns[i][j]]
        BY <1>1
    <2> HIDE DEF T
    <2> QED BY <2>1, <2>2 DEF Range
<1> HIDE DEF T
<1>3. e.turns \in [DOMAIN d.turns -> Range(e.turns)]
    BY <1>1, <1>2
<1>4. IsFlow(e.turns) /\ Places(e) = Places(d)
    BY <1>2, <1>3, Redrawn
<1>5. ASSUME NEW p \in Places(d)
      PROVE  At(e, p) = IF IsTool(At(d, p), {t}) THEN block ELSE At(d, p)
    <2>1. p[1] \in DOMAIN d.turns /\ p[2] \in DOMAIN d.turns[p[1]]
          /\ At(d, p) = d.turns[p[1]][p[2]]
        BY PlacesOf
    <2>2. At(e, p) = e.turns[p[1]][p[2]]
        BY DEF At
    <2>3. e.turns[p[1]] = [j \in DOMAIN d.turns[p[1]] |->
            IF IsTool(d.turns[p[1]][j], {t}) THEN block ELSE d.turns[p[1]][j]]
        BY <1>1, <2>1
    <2> QED BY <2>1, <2>2, <2>3
<1> QED BY <1>4, <1>5

\* tool_call_update: the blocks of the call are patched, the others stay.
LEMMA ToolPatched ==
    ASSUME NEW d, Doc(d), IsFlow(d.turns), NEW u, NEW e, e = PatchToolCall(d, u)
    PROVE  /\ IsFlow(e.turns) /\ Places(e) = Places(d)
           /\ \A p \in Places(d) :
                At(e, p) = IF IsTool(At(d, p), {u.tool})
                           THEN Patched(At(d, p), u) ELSE At(d, p)
<1> DEFINE New(b) == Patched(b, u)
<1>1. e.turns = [i \in DOMAIN d.turns |-> [j \in DOMAIN d.turns[i] |->
            IF IsTool(d.turns[i][j], {u.tool}) THEN New(d.turns[i][j]) ELSE d.turns[i][j]]]
    BY DEF PatchToolCall, ReplaceTools, Doc, IsTool, Patched
<1> DEFINE T == {At(e, q) : q \in Places(d)}
<1>2. ASSUME NEW i \in DOMAIN d.turns
      PROVE  e.turns[i] \in [DOMAIN d.turns[i] -> T] /\ e.turns[i] \in Range(e.turns)
    <2>1. ASSUME NEW j \in DOMAIN d.turns[i] PROVE e.turns[i][j] \in T
        <3>1. <<i, j>> \in Places(d) /\ At(e, <<i, j>>) = e.turns[i][j]
            BY PlacesOf DEF At
        <3> QED BY <3>1
    <2>2. DOMAIN e.turns[i] = DOMAIN d.turns[i] /\ DOMAIN e.turns = DOMAIN d.turns
          /\ e.turns[i] = [j \in DOMAIN d.turns[i] |-> e.turns[i][j]]
        <3> HIDE DEF New
        <3> QED BY <1>1
    <2> HIDE DEF T
    <2> QED BY <2>1, <2>2 DEF Range
<1> HIDE DEF T
<1>3. e.turns \in [DOMAIN d.turns -> Range(e.turns)]
    <2> HIDE DEF New
    <2> QED BY <1>1, <1>2
<1>4. IsFlow(e.turns) /\ Places(e) = Places(d)
    BY <1>2, <1>3, Redrawn
<1>5. ASSUME NEW p \in Places(d)
      PROVE  At(e, p) = IF IsTool(At(d, p), {u.tool}) THEN New(At(d, p)) ELSE At(d, p)
    <2> HIDE DEF New
    <2> QED BY <1>1, PlacesOf DEF At
<1> QED BY <1>4, <1>5

\* retirePendingToolCall: the pending blocks of the calls are cancelled, the others stay.
LEMMA ToolsRetired ==
    ASSUME NEW d, Doc(d), IsFlow(d.turns), NEW calls, NEW e, e = RetirePendingToolCalls(d, calls)
    PROVE  /\ IsFlow(e.turns) /\ Places(e) = Places(d)
           /\ \A p \in Places(d) :
                At(e, p) = IF IsTool(At(d, p), calls) /\ At(d, p).status = "pending"
                           THEN [At(d, p) EXCEPT !.status = "cancelled"]
                           ELSE At(d, p)
<1> DEFINE New(b) == IF b.status = "pending" THEN [b EXCEPT !.status = "cancelled"] ELSE b
<1>1. e.turns = [i \in DOMAIN d.turns |-> [j \in DOMAIN d.turns[i] |->
            IF IsTool(d.turns[i][j], calls) THEN New(d.turns[i][j]) ELSE d.turns[i][j]]]
    BY DEF RetirePendingToolCalls, ReplaceTools, Doc, IsTool
<1> DEFINE T == {At(e, q) : q \in Places(d)}
<1>2. ASSUME NEW i \in DOMAIN d.turns
      PROVE  e.turns[i] \in [DOMAIN d.turns[i] -> T] /\ e.turns[i] \in Range(e.turns)
    <2>1. ASSUME NEW j \in DOMAIN d.turns[i] PROVE e.turns[i][j] \in T
        <3>1. <<i, j>> \in Places(d) /\ At(e, <<i, j>>) = e.turns[i][j]
            BY PlacesOf DEF At
        <3> QED BY <3>1
    <2>2. DOMAIN e.turns[i] = DOMAIN d.turns[i] /\ DOMAIN e.turns = DOMAIN d.turns
          /\ e.turns[i] = [j \in DOMAIN d.turns[i] |-> e.turns[i][j]]
        <3> HIDE DEF New
        <3> QED BY <1>1
    <2> HIDE DEF T
    <2> QED BY <2>1, <2>2 DEF Range
<1> HIDE DEF T
<1>3. e.turns \in [DOMAIN d.turns -> Range(e.turns)]
    <2> HIDE DEF New
    <2> QED BY <1>1, <1>2
<1>4. IsFlow(e.turns) /\ Places(e) = Places(d)
    BY <1>2, <1>3, Redrawn
<1>5. ASSUME NEW p \in Places(d)
      PROVE  At(e, p) = IF IsTool(At(d, p), calls) THEN New(At(d, p)) ELSE At(d, p)
    <2> HIDE DEF New
    <2> QED BY <1>1, PlacesOf DEF At
<1> QED BY <1>4, <1>5

-----------------------------------------------------------------------------
\* The blocks of a flow, the events, and the kinds of blocks an event touches.
IsBlock(b) ==
    \/ /\ b = UserBlock(b.content, b.optimistic, b.id, b.raws)
       /\ b.optimistic \in BOOLEAN /\ b.raws \in Seq(Nat)
    \/ /\ b = StreamBlock(b.kind, b.id, b.parts, b.raws)
       /\ b.kind \in {"agent_message", "thought"} /\ b.raws \in Seq(Nat)
    \/ b = ToolBlock(b.id, b.status, b.raws) /\ b.raws \in Seq(Nat)
    \/ b = [kind |-> "unsupported", raws |-> b.raws] /\ b.raws \in Seq(Nat)
    \/ b = [kind |-> "turn_notice"]
    \/ b = [kind |-> "compaction_notice", id |-> b.id, outcome |-> b.outcome]
FlowDoc(d) == Doc(d) /\ IsFlow(d.turns) /\ \A p \in Places(d) : IsBlock(At(d, p))

MessageEvents ==
    {"user_message", "user_message_confirmed", "agent_message", "thought", "unsupported"}
IsEvent(e) ==
    /\ e.kind \in EventKinds
    /\ e.kind \in MessageEvents \cup {"tool_call", "tool_call_update"} => e.raws \in Seq(Nat)
    /\ e.kind \in {"tool_call", "tool_call_update"} => e.raws # <<>>
    /\ e.kind = "user_message" => e.optimistic \in BOOLEAN
Touched(e) ==
    IF e.kind \in MessageEvents THEN MessageKinds
    ELSE IF e.kind \in {"tool_call", "tool_call_update"} THEN {"tool_call"}
    ELSE IF e.kind = "compaction_update" THEN {"compaction_notice"}
    ELSE IF e.kind = "turn_notice" THEN {"turn_notice"} ELSE {}

\* e shows the same blocks of the kinds as d, at the same places.
Same(d, e, kinds) ==
    \A p : /\ p \in Places(d) /\ At(d, p).kind \in kinds => p \in Places(e) /\ At(e, p) = At(d, p)
           /\ p \in Places(e) /\ At(e, p).kind \in kinds => p \in Places(d) /\ At(e, p) = At(d, p)

\* One more block leaves the blocks of other kinds where they were.
LEMMA AddsFlow ==
    ASSUME NEW d, FlowDoc(d), NEW b, IsBlock(b), NEW newTurn \in BOOLEAN,
           NEW e, e = AppendBlock(d, b, newTurn), NEW kinds, b.kind \notin kinds
    PROVE  FlowDoc(e) /\ Same(d, e, kinds)
<1>1. IsFlow(e.turns) /\ Adds(d, e, b)
    BY BlockAdded DEF FlowDoc
<1>2. Doc(e)
    BY TurnsKeep DEF AppendBlock, Keeps, FlowDoc
<1>3. PICK p : /\ p \notin Places(d) /\ Places(e) = Places(d) \cup {p} /\ At(e, p) = b
               /\ \A q \in Places(d) : At(e, q) = At(d, q)
    BY <1>1 DEF Adds
<1>4. \A q \in Places(e) : IsBlock(At(e, q))
    BY <1>3 DEF FlowDoc
<1>5. Same(d, e, kinds)
    BY <1>3 DEF Same
<1> QED BY <1>1, <1>2, <1>4, <1>5 DEF FlowDoc

\* Another last block, likewise.
LEMMA RevisesFlow ==
    ASSUME NEW d, FlowDoc(d), d.turns # <<>>, NEW b, IsBlock(b), NEW e, e = ReplaceLastBlock(d, b),
           NEW kinds, b.kind \notin kinds, LastBlock(d).kind \notin kinds
    PROVE  FlowDoc(e) /\ Same(d, e, kinds)
<1>1. IsFlow(e.turns) /\ Revises(d, e, b)
    BY BlockReplaced DEF FlowDoc
<1>2. Doc(e)
    BY TurnsKeep DEF ReplaceLastBlock, Keeps, FlowDoc
<1>3. PICK p \in Places(d) :
            /\ Places(e) = Places(d) /\ At(e, p) = b /\ At(d, p) = LastBlock(d)
            /\ \A q \in Places(d) \ {p} : At(e, q) = At(d, q)
    BY <1>1 DEF Revises
<1>4. \A q \in Places(e) : IsBlock(At(e, q))
    BY <1>3 DEF FlowDoc
<1>5. Same(d, e, kinds)
    BY <1>3 DEF Same
<1> QED BY <1>1, <1>2, <1>4, <1>5 DEF FlowDoc

\* The last block of a flow is one of its blocks.
LEMMA LastIsBlock ==
    ASSUME NEW d, FlowDoc(d), LastBlock(d).kind # "none"
    PROVE  d.turns # <<>> /\ IsBlock(LastBlock(d))
<1>1. d.turns # <<>>
    BY DEF LastBlock, NoBlock
<1> QED BY <1>1, LastPlace DEF FlowDoc

\* Notifications and notifications are notifications.
LEMMA RawsJoined == ASSUME NEW a \in Seq(Nat), NEW b \in Seq(Nat) PROVE a \o b \in Seq(Nat)
    OBVIOUS

\* What a merge, a confirmation and a chunk make of a block.
LEMMA UserMerged ==
    ASSUME NEW last, last = UserBlock(last.content, last.optimistic, last.id, last.raws), NEW u
    PROVE  Merged(last, u) = UserBlock(last.content \o u.content, last.optimistic, last.id,
                                       last.raws \o u.raws)
<1>1. PICK c, o, i, r : last = UserBlock(c, o, i, r)
    OBVIOUS
<1>2. last.content = c /\ last.optimistic = o /\ last.id = i /\ last.raws = r
    BY <1>1 DEF UserBlock
<1>3. PICK y, z : y = c \o u.content /\ z = r \o u.raws
    OBVIOUS
<1>4. Merged(last, u) = [[last EXCEPT !.content = y] EXCEPT !.raws = z]
    BY <1>1, <1>3 DEF UserBlock, Merged
<1>5. [last EXCEPT !.content = y] = UserBlock(y, o, i, r)
    BY <1>1 DEF UserBlock
<1>6. [UserBlock(y, o, i, r) EXCEPT !.raws = z] = UserBlock(y, o, i, z)
    BY DEF UserBlock
<1>7. Merged(last, u) = UserBlock(y, o, i, z)
    BY <1>4, <1>5, <1>6
<1> QED BY <1>2, <1>3, <1>7

\* A confirmed block is a user block: the local marker stays when there is no id.
LEMMA UserConfirmed ==
    ASSUME NEW last, last = UserBlock(last.content, last.optimistic, last.id, last.raws),
           NEW u
    PROVE  \E o \in BOOLEAN :
                (o <=> u.id = NoId) /\ Confirmed(last, u) = UserBlock(last.content, o, u.id, last.raws \o u.raws)
<1>1. PICK c, p, i, r : last = UserBlock(c, p, i, r)
    OBVIOUS
<1>2. last.content = c /\ last.raws = r
    BY <1>1 DEF UserBlock
<1>3. PICK y : y = r \o u.raws
    OBVIOUS
<1>4. PICK o \in BOOLEAN : o = (u.id = NoId)
    OBVIOUS
<1>5. Confirmed(last, u) = [[[last EXCEPT !.optimistic = o] EXCEPT !.id = u.id] EXCEPT !.raws = y]
    BY <1>1, <1>3, <1>4 DEF UserBlock, Confirmed
<1>6. [last EXCEPT !.optimistic = o] = UserBlock(c, o, i, r)
    BY <1>1 DEF UserBlock
<1>7. [UserBlock(c, o, i, r) EXCEPT !.id = u.id] = UserBlock(c, o, u.id, r)
    BY DEF UserBlock
<1>8. [UserBlock(c, o, u.id, r) EXCEPT !.raws = y] = UserBlock(c, o, u.id, y)
    BY DEF UserBlock
<1>9. Confirmed(last, u) = UserBlock(c, o, u.id, y)
    BY <1>5, <1>6, <1>7, <1>8
<1> QED BY <1>2, <1>3, <1>4, <1>9

\* A chunk appended to a streaming block leaves a streaming block.
Extended(last, u) == [last EXCEPT !.parts = AppendPart(@, u.chunk), !.raws = @ \o u.raws]
LEMMA StreamRevised ==
    ASSUME NEW last, last = StreamBlock(last.kind, last.id, last.parts, last.raws), NEW u
    PROVE  Extended(last, u)
                = StreamBlock(last.kind, last.id, AppendPart(last.parts, u.chunk), last.raws \o u.raws)
<1>1. PICK k, i, p, r : last = StreamBlock(k, i, p, r)
    OBVIOUS
<1>2. last.kind = k /\ last.id = i /\ last.parts = p /\ last.raws = r
    BY <1>1 DEF StreamBlock
<1>3. PICK y, z : y = AppendPart(p, u.chunk) /\ z = r \o u.raws
    OBVIOUS
<1>4. Extended(last, u) = [[last EXCEPT !.parts = y] EXCEPT !.raws = z]
    BY <1>1, <1>3 DEF StreamBlock, Extended
<1>5. [last EXCEPT !.parts = y] = StreamBlock(k, i, y, r)
    BY <1>1 DEF StreamBlock
<1>6. [StreamBlock(k, i, y, r) EXCEPT !.raws = z] = StreamBlock(k, i, y, z)
    BY DEF StreamBlock
<1>7. Extended(last, u) = StreamBlock(k, i, y, z)
    BY <1>4, <1>5, <1>6
<1> QED BY <1>2, <1>3, <1>7

\* What an event makes of a flow, by its kind.
LEMMA MessageFlow ==
    ASSUME NEW d, FlowDoc(d), NEW u, IsEvent(u), u.kind \in MessageEvents,
           NEW e, e = ApplyUpdate(d, u), NEW kinds, kinds \cap MessageKinds = {}
    PROVE  FlowDoc(e) /\ Same(d, e, kinds)
<1>1. PICK last : last = LastBlock(d)
    OBVIOUS
<1>2. u.raws \in Seq(Nat)
    BY DEF IsEvent
<1>3. last.kind # "none" => d.turns # <<>> /\ IsBlock(last)
    BY <1>1, LastIsBlock
<1>4. FlowDoc(d) /\ Same(d, d, kinds)
    BY DEF Same
<1>5. CASE u.kind = "user_message"
    <2>1. e = AppendUserMessage(d, u)
        BY <1>5 DEF ApplyUpdate
    <2>2. CASE Mergeable(last, u)
        <3>1. e = ReplaceLastBlock(d, Merged(last, u))
            BY <1>1, <2>1, <2>2 DEF AppendUserMessage
        <3>2. last.kind = "user_message" /\ last = UserBlock(last.content, last.optimistic, last.id, last.raws)
              /\ last.raws \in Seq(Nat) /\ last.optimistic \in BOOLEAN
            BY <1>3, <2>2 DEF Mergeable, IsBlock, StreamBlock, ToolBlock
        <3>3. Merged(last, u) = UserBlock(last.content \o u.content, last.optimistic, last.id,
                                          last.raws \o u.raws)
            BY <3>2, UserMerged
        <3>5. last.raws \o u.raws \in Seq(Nat)
            BY <1>2, <3>2, RawsJoined
        <3>4. IsBlock(Merged(last, u)) /\ Merged(last, u).kind = "user_message"
            BY <3>2, <3>3, <3>5 DEF IsBlock, UserBlock
        <3> QED BY <1>1, <1>3, <3>1, <3>2, <3>4, RevisesFlow DEF MessageKinds
    <2>3. CASE ~Mergeable(last, u)
        <3> DEFINE b == UserBlock(u.content, u.optimistic, u.id, u.raws)
        <3>1. \E n \in BOOLEAN : e = AppendBlock(d, b, n)
            <4> HIDE DEF b
            <4> QED BY <1>1, <2>1, <2>3 DEF AppendUserMessage, b
        <3>2. IsBlock(b) /\ b.kind = "user_message"
            BY <1>2, <1>5 DEF IsBlock, UserBlock, IsEvent
        <3> HIDE DEF b
        <3> QED BY <3>1, <3>2, AddsFlow DEF MessageKinds
    <2> QED BY <2>2, <2>3
<1>6. CASE u.kind = "user_message_confirmed"
    <2>1. e = ConfirmUserMessage(d, u)
        BY <1>6 DEF ApplyUpdate
    <2>2. CASE last.kind = "user_message" /\ last.optimistic
        <3>1. e = ReplaceLastBlock(d, Confirmed(last, u))
            BY <1>1, <2>1, <2>2 DEF ConfirmUserMessage
        <3>2. last = UserBlock(last.content, last.optimistic, last.id, last.raws)
              /\ last.raws \in Seq(Nat) /\ last.optimistic \in BOOLEAN
            BY <1>3, <2>2 DEF IsBlock, UserBlock, StreamBlock, ToolBlock
        <3>3. PICK o \in BOOLEAN : Confirmed(last, u) = UserBlock(last.content, o, u.id, last.raws \o u.raws)
            BY <3>2, UserConfirmed
        <3>5. last.raws \o u.raws \in Seq(Nat)
            BY <1>2, <3>2, RawsJoined
        <3>4. IsBlock(Confirmed(last, u)) /\ Confirmed(last, u).kind = "user_message"
            BY <3>2, <3>3, <3>5 DEF IsBlock, UserBlock
        <3> QED BY <1>1, <1>3, <2>2, <3>1, <3>4, RevisesFlow DEF MessageKinds
    <2>3. CASE ~(last.kind = "user_message" /\ last.optimistic)
        BY <1>1, <1>4, <2>1, <2>3 DEF ConfirmUserMessage
    <2> QED BY <2>2, <2>3
<1>7. CASE u.kind \in {"agent_message", "thought"}
    <2>1. e = AppendChunk(d, u)
        BY <1>7 DEF ApplyUpdate
    <2>2. CASE last.kind = u.kind /\ (u.id = NoId \/ last.id = u.id)
        <3>0. PICK b : b = Extended(last, u)
            OBVIOUS
        <3>1. e = ReplaceLastBlock(d, b)
            BY <1>1, <2>1, <2>2, <3>0 DEF AppendChunk, Extended
        <3>2. last = StreamBlock(last.kind, last.id, last.parts, last.raws)
              /\ last.raws \in Seq(Nat)
            BY <1>3, <1>7, <2>2 DEF IsBlock, UserBlock, ToolBlock
        <3>3. b = StreamBlock(last.kind, last.id, AppendPart(last.parts, u.chunk), last.raws \o u.raws)
            BY <3>0, <3>2, StreamRevised
        <3>5. last.raws \o u.raws \in Seq(Nat)
            BY <1>2, <3>2, RawsJoined
        <3>4. IsBlock(b) /\ b.kind = u.kind
            BY <1>7, <2>2, <3>2, <3>3, <3>5 DEF IsBlock, StreamBlock
        <3> QED BY <1>1, <1>3, <1>7, <2>2, <3>1, <3>4, RevisesFlow DEF MessageKinds
    <2>3. CASE ~(last.kind = u.kind /\ (u.id = NoId \/ last.id = u.id))
        <3> DEFINE b == StreamBlock(u.kind, IF u.id = NoId THEN AutoMessageId(d, u.kind) ELSE u.id,
                                    <<u.chunk>>, u.raws)
        <3>1. e = AppendBlock(d, b, FALSE)
            BY <1>1, <2>1, <2>3 DEF AppendChunk
        <3>2. IsBlock(b) /\ b.kind = u.kind
            BY <1>2, <1>7 DEF IsBlock, StreamBlock
        <3> HIDE DEF b
        <3> QED BY <1>7, <3>1, <3>2, AddsFlow DEF MessageKinds
    <2> QED BY <2>2, <2>3
<1>8. CASE u.kind = "unsupported"
    <2> DEFINE b == [kind |-> "unsupported", raws |-> u.raws]
    <2>1. e = AppendBlock(d, b, FALSE)
        BY <1>8 DEF ApplyUpdate
    <2>2. IsBlock(b) /\ b.kind = "unsupported"
        BY <1>2 DEF IsBlock
    <2> HIDE DEF b
    <2> QED BY <2>1, <2>2, AddsFlow DEF MessageKinds
<1> QED BY <1>5, <1>6, <1>7, <1>8 DEF MessageEvents

\* Another field than the turns leaves the flow as it is.
LEMMA SameTurns ==
    ASSUME NEW d, FlowDoc(d), NEW e, Doc(e), e.turns = d.turns
    PROVE  /\ FlowDoc(e) /\ Places(e) = Places(d) /\ \A p : At(e, p) = At(d, p)
           /\ \A kinds : Same(d, e, kinds)
<1>1. Places(e) = Places(d) /\ \A p : At(e, p) = At(d, p)
    BY DEF Places, At
<1> QED BY <1>1 DEF FlowDoc, Same

\* A tool call has one block; a stub is the block of a call that was not heard.
OneBlock(d) ==
    \A p, q \in Places(d) :
        At(d, p).kind = "tool_call" /\ At(d, q).kind = "tool_call" /\ At(d, p).id = At(d, q).id
            => p = q
Stub(d, p) == p \in Places(d) /\ At(d, p).kind = "tool_call" /\ At(d, p).raws = <<>>
ToolFlow(d, e) ==
    /\ OneBlock(d) => OneBlock(e)
    /\ \A p : Stub(e, p) => Stub(d, p) /\ At(e, p) = At(d, p)

\* With the same tool blocks, the tool flow is the same.
LEMMA SameTools ==
    ASSUME NEW d, NEW e, Same(d, e, {"tool_call"}) PROVE ToolFlow(d, e)
BY DEF Same, ToolFlow, OneBlock, Stub

\* A patched tool block is a tool block of the same call.
LEMMA ToolRevised ==
    ASSUME NEW last, last = ToolBlock(last.id, last.status, last.raws), NEW u
    PROVE  Patched(last, u)
                = ToolBlock(last.id, IF u.status = "none" THEN last.status ELSE u.status,
                            last.raws \o u.raws)
<1>1. PICK i, s, r : last = ToolBlock(i, s, r)
    OBVIOUS
<1>2. last.id = i /\ last.status = s /\ last.raws = r
    BY <1>1 DEF ToolBlock
<1>3. PICK y, z : y = (IF u.status = "none" THEN s ELSE u.status) /\ z = r \o u.raws
    OBVIOUS
<1>4. Patched(last, u)
        = [[last EXCEPT !.status = y] EXCEPT !.raws = z]
    BY <1>1, <1>3 DEF ToolBlock, Patched
<1>5. [last EXCEPT !.status = y] = ToolBlock(i, y, r)
    BY <1>1 DEF ToolBlock
<1>6. [ToolBlock(i, y, r) EXCEPT !.raws = z] = ToolBlock(i, y, z)
    BY DEF ToolBlock
<1>7. Patched(last, u)
        = ToolBlock(i, y, z)
    BY <1>4, <1>5, <1>6
<1> QED BY <1>2, <1>3, <1>7

\* The shape of a tool block.
LEMMA ToolIsBlock ==
    ASSUME NEW b, IsBlock(b), b.kind = "tool_call"
    PROVE  b = ToolBlock(b.id, b.status, b.raws) /\ b.raws \in Seq(Nat)
BY DEF IsBlock, UserBlock, StreamBlock, ToolBlock

\* tool_call and tool_call_update: one block per call stays one, and no stub comes.
LEMMA ToolEventFlow ==
    ASSUME NEW d, FlowDoc(d), NEW u, IsEvent(u), u.kind \in {"tool_call", "tool_call_update"},
           NEW e, e = ApplyUpdate(d, u)
    PROVE  /\ FlowDoc(e) /\ ToolFlow(d, e)
           /\ \A kinds : "tool_call" \notin kinds => Same(d, e, kinds)
<1>1. u.raws \in Seq(Nat) /\ u.raws # <<>>
    BY DEF IsEvent
<1>2. Doc(e) /\ Doc(d)
    BY EventKeeps DEF Keeps, IsEvent, FlowDoc
<1>3. CASE u.kind = "tool_call"
    <2> DEFINE block == ToolBlock(u.tool, u.status, u.raws)
    <2>1. e = UpsertToolCall(d, u.tool, block)
        BY <1>3 DEF ApplyUpdate
    <2>2. /\ block.kind = "tool_call" /\ block.id = u.tool /\ block.raws = u.raws /\ IsBlock(block)
        BY <1>1 DEF ToolBlock, IsBlock
    <2> HIDE DEF block
    <2>3. CASE ToolPlaces(d, u.tool) # {}
        <3>1. e = Replaced(d, u.tool, block)
            BY <2>1, <2>3 DEF UpsertToolCall, Replaced
        <3>2. /\ IsFlow(e.turns) /\ Places(e) = Places(d)
              /\ \A p \in Places(d) :
                    At(e, p) = IF IsTool(At(d, p), {u.tool}) THEN block ELSE At(d, p)
            BY <3>1, ToolReplaced DEF FlowDoc
        <3>3. FlowDoc(e)
            BY <1>2, <2>2, <3>2 DEF FlowDoc
        <3>4. \A kinds : "tool_call" \notin kinds => Same(d, e, kinds)
            BY <2>2, <3>2 DEF Same, IsTool
        <3>5. ToolFlow(d, e)
            BY <1>1, <2>2, <3>2 DEF ToolFlow, OneBlock, Stub, IsTool
        <3> QED BY <3>3, <3>4, <3>5
    <2>4. CASE ToolPlaces(d, u.tool) = {} /\ d.turns = <<>>
        <3>1. e = d
            BY <2>1, <2>4 DEF UpsertToolCall
        <3> QED BY <3>1 DEF Same, ToolFlow
    <2>5. CASE ToolPlaces(d, u.tool) = {} /\ d.turns # <<>>
        <3>1. e = AppendBlock(d, block, FALSE)
            BY <2>1, <2>5 DEF UpsertToolCall
        <3>2. ASSUME NEW kinds, "tool_call" \notin kinds PROVE FlowDoc(e) /\ Same(d, e, kinds)
            BY <2>2, <3>1, <3>2, AddsFlow
        <3>3. Adds(d, e, block)
            BY <3>1, BlockAdded DEF FlowDoc
        <3>4. ToolFlow(d, e)
            BY <1>1, <2>2, <2>5, <3>3 DEF ToolFlow, OneBlock, Stub, Adds, ToolPlaces
        <3>5. FlowDoc(e)
            <4>1. "tool_call" \notin {}
                OBVIOUS
            <4> QED BY <3>2, <4>1
        <3> QED BY <3>2, <3>4, <3>5
    <2> QED BY <2>3, <2>4, <2>5
<1>4. CASE u.kind = "tool_call_update"
    <2>1. e = PatchToolCall(d, u)
        BY <1>4 DEF ApplyUpdate
    <2>2. /\ IsFlow(e.turns) /\ Places(e) = Places(d)
          /\ \A p \in Places(d) :
                At(e, p) = IF IsTool(At(d, p), {u.tool})
                           THEN Patched(At(d, p), u) ELSE At(d, p)
        BY <2>1, ToolPatched DEF FlowDoc
    <2>3. ASSUME NEW p \in Places(d), IsTool(At(d, p), {u.tool})
          PROVE  /\ IsBlock(At(e, p)) /\ At(e, p).kind = "tool_call"
                 /\ At(e, p).id = At(d, p).id /\ At(e, p).raws # <<>>
        <3>1. PICK b : b = At(d, p)
            OBVIOUS
        <3>2. b = ToolBlock(b.id, b.status, b.raws) /\ b.raws \in Seq(Nat)
            BY <2>3, <3>1, ToolIsBlock DEF FlowDoc, IsTool
        <3>3. At(e, p) = Patched(b, u)
            BY <2>2, <2>3, <3>1
        <3>4. PICK s, r : s = (IF u.status = "none" THEN b.status ELSE u.status)
                          /\ r = b.raws \o u.raws
            OBVIOUS
        <3>5. At(e, p) = ToolBlock(b.id, s, r)
            BY <3>2, <3>3, <3>4, ToolRevised
        <3>6. r \in Seq(Nat) /\ r # <<>>
            BY <1>1, <3>2, <3>4
        <3> QED BY <3>1, <3>5, <3>6 DEF IsBlock, ToolBlock
    <2>4. ASSUME NEW p \in Places(d), ~IsTool(At(d, p), {u.tool}) PROVE At(e, p) = At(d, p)
        BY <2>2, <2>4
    <2>5. FlowDoc(e)
        BY <1>2, <2>2, <2>3, <2>4 DEF FlowDoc
    <2>6. \A kinds : "tool_call" \notin kinds => Same(d, e, kinds)
        BY <2>2, <2>3, <2>4 DEF Same, IsTool
    <2>7. ToolFlow(d, e)
        <3>1. ASSUME OneBlock(d) PROVE OneBlock(e)
            <4>1. ASSUME NEW p \in Places(d), At(e, p).kind = "tool_call"
                  PROVE  At(d, p).kind = "tool_call" /\ At(e, p).id = At(d, p).id
                BY <2>3, <2>4, <4>1 DEF IsTool
            <4> QED BY <2>2, <3>1, <4>1 DEF OneBlock
        <3>2. ASSUME NEW p, Stub(e, p) PROVE Stub(d, p) /\ At(e, p) = At(d, p)
            BY <2>2, <2>3, <2>4, <3>2 DEF Stub
        <3> QED BY <3>1, <3>2 DEF ToolFlow
    <2> QED BY <2>5, <2>6, <2>7
<1> QED BY <1>3, <1>4

\* Compactions and notices leave the other blocks alone.
LEMMA OtherEventFlow ==
    ASSUME NEW d, FlowDoc(d), NEW u,
           u.kind \in {"compaction_update", "compaction_summary_chunk", "turn_notice"},
           NEW e, e = ApplyUpdate(d, u), NEW kinds, kinds \cap Touched(u) = {}
    PROVE  FlowDoc(e) /\ Same(d, e, kinds)
<1>1. Doc(d)
    BY DEF FlowDoc
<1>2. CASE u.kind = "compaction_update"
    <2> DEFINE status == [status |-> u.status,
                          summary |-> IF u.replaces THEN u.summary
                                      ELSE d.compactions[u.compaction].summary]
               x == [d EXCEPT !.compactions = [d.compactions EXCEPT ![u.compaction] = status]]
               b == [kind |-> "compaction_notice", id |-> u.compaction, outcome |-> u.status]
    <2>1. e \in {x, AppendBlock(x, b, FALSE)}
        <3>1. e = PatchCompaction(d, u)
            BY <1>2 DEF ApplyUpdate
        <3> QED BY <3>1 DEF PatchCompaction
    <2>2. Doc(x) /\ x.turns = d.turns
        <3> HIDE DEF status
        <3> QED BY <1>1 DEF Doc
    <2>3. b.kind \notin kinds /\ b.kind = "compaction_notice" /\ IsBlock(b)
        BY <1>2 DEF Touched, MessageEvents, IsBlock
    <2> HIDE DEF x, b
    <2>4. FlowDoc(x) /\ Same(d, x, kinds)
        BY <2>2, SameTurns
    <2>5. FlowDoc(AppendBlock(x, b, FALSE)) /\ Same(x, AppendBlock(x, b, FALSE), kinds)
        BY <2>3, <2>4, AddsFlow
    <2> QED BY <2>1, <2>4, <2>5 DEF Same
<1>3. CASE u.kind = "compaction_summary_chunk"
    <2>1. e = AppendSummary(d, u)
        BY <1>3 DEF ApplyUpdate
    <2>2. Doc(e) /\ e.turns = d.turns
        BY <1>1, <2>1 DEF AppendSummary, Doc
    <2> QED BY <2>2, SameTurns
<1>4. CASE u.kind = "turn_notice"
    <2> DEFINE b == [kind |-> "turn_notice"]
    <2>1. e = AppendBlock(d, b, FALSE)
        BY <1>4 DEF ApplyUpdate
    <2>2. b.kind \notin kinds /\ IsBlock(b)
        BY <1>4 DEF Touched, MessageEvents, IsBlock
    <2> HIDE DEF b
    <2> QED BY <2>1, <2>2, AddsFlow
<1> QED BY <1>2, <1>3, <1>4

\* An event leaves a flow, a tool call keeps one block, and the blocks of the
\* kinds the event does not touch are the same.
LEMMA EventFlow ==
    ASSUME NEW d, FlowDoc(d), NEW u, IsEvent(u), NEW e, e = ApplyUpdate(d, u)
    PROVE  /\ FlowDoc(e) /\ ToolFlow(d, e)
           /\ \A kinds : kinds \cap Touched(u) = {} => Same(d, e, kinds)
<1>1. CASE u.kind \in {"tool_call", "tool_call_update"}
    <2>1. "tool_call" \in Touched(u)
        BY <1>1 DEF Touched, MessageEvents
    <2>2. \A kinds : kinds \cap Touched(u) = {} => "tool_call" \notin kinds
        BY <2>1
    <2> QED BY <1>1, <2>2, ToolEventFlow
<1>2. CASE u.kind \notin {"tool_call", "tool_call_update"}
    <2>1. ASSUME NEW kinds, kinds \cap Touched(u) = {} PROVE FlowDoc(e) /\ Same(d, e, kinds)
        <3>1. CASE u.kind \in MessageEvents
            BY <2>1, <3>1, MessageFlow DEF Touched
        <3>2. CASE u.kind \notin MessageEvents
            BY <1>2, <2>1, <3>2, OtherEventFlow DEF IsEvent, EventKinds, MessageEvents
        <3> QED BY <3>1, <3>2
    <2>2. {"tool_call"} \cap Touched(u) = {}
        BY <1>2 DEF Touched, MessageKinds
    <2> QED BY <2>1, <2>2, SameTools
<1> QED BY <1>1, <1>2

\* A fold of some events, by induction over them.
LEMMA EventsFlow ==
    ASSUME NEW d, FlowDoc(d), NEW events, Len(events) \in Nat,
           \A i \in 1 .. Len(events) : IsEvent(events[i])
    PROVE  /\ FlowDoc(ApplyAll(d, events)) /\ ToolFlow(d, ApplyAll(d, events))
           /\ \A kinds : (\A i \in 1 .. Len(events) : kinds \cap Touched(events[i]) = {})
                            => Same(d, ApplyAll(d, events), kinds)
<1>1. PICK f : /\ f[0] = d /\ ApplyAll(d, events) = f[Len(events)]
               /\ \A i \in 1 .. Len(events) : f[i] = ApplyUpdate(f[i - 1], events[i])
    BY ApplyAllSteps
<1> DEFINE N == Len(events)
           P == {n \in 0 .. N : FlowDoc(f[n]) /\ ToolFlow(d, f[n])}
<1>2. 0 \in P
    BY <1>1 DEF ToolFlow
<1>3. ASSUME NEW n \in 1 .. N, n - 1 \in P PROVE n \in P
    <2>1. FlowDoc(f[n - 1]) /\ ToolFlow(d, f[n - 1]) /\ n \in 0 .. N
          /\ f[n] = ApplyUpdate(f[n - 1], events[n])
        BY <1>1, <1>3
    <2>2. FlowDoc(f[n]) /\ ToolFlow(f[n - 1], f[n])
        BY <2>1, EventFlow
    <2> QED BY <2>1, <2>2 DEF ToolFlow
<1>4. \A n \in 0 .. N : n \in P
    <2> HIDE DEF P
    <2> QED BY <1>2, <1>3, Induction
<1>5. ASSUME NEW kinds, \A i \in 1 .. N : kinds \cap Touched(events[i]) = {}
      PROVE  Same(d, f[N], kinds)
    <2> DEFINE Q == {n \in 0 .. N : Same(d, f[n], kinds)}
    <2>1. 0 \in Q
        BY <1>1 DEF Same
    <2>2. ASSUME NEW n \in 1 .. N, n - 1 \in Q PROVE n \in Q
        <3>1. FlowDoc(f[n - 1]) /\ Same(d, f[n - 1], kinds) /\ n \in 0 .. N
              /\ f[n] = ApplyUpdate(f[n - 1], events[n])
            BY <1>1, <1>4, <2>2
        <3>2. Same(f[n - 1], f[n], kinds)
            BY <1>5, <3>1, EventFlow
        <3> QED BY <3>1, <3>2 DEF Same
    <2>3. N \in Q
        <3> HIDE DEF Q
        <3>1. \A n \in 0 .. N : n \in Q
            BY <2>1, <2>2, Induction
        <3> QED BY <3>1
    <2> QED BY <2>3
<1>6. N \in P
    BY <1>4
<1> QED BY <1>1, <1>5, <1>6

-----------------------------------------------------------------------------
\* What the requests and the answers make of the flow: a stub for a call that
\* was not heard, and no pending call for an answer that stops it.
LEMMA RequestFlow ==
    ASSUME NEW d, CardDoc(d), FlowDoc(d), NEW t \in Tool, NEW e, e = RequestPermission(d, t)
    PROVE  /\ FlowDoc(e) /\ (OneBlock(d) => OneBlock(e))
           /\ \A p : Stub(e, p) => (Stub(d, p) /\ At(e, p) = At(d, p)) \/ At(e, p).id = t
           /\ \A kinds : "tool_call" \notin kinds => Same(d, e, kinds)
<1> DEFINE recorded == [d EXCEPT
            !.permissions[t] = [status |-> "pending", response |-> NoResponse],
            !.requested = IF d.permissions[t].status = "none" THEN Append(@, t) ELSE @]
           b == ToolBlock(t, "pending", <<>>)
<1>1. recorded.turns = d.turns
    BY DEF CardDoc, Doc
<1>2. Doc(recorded)
    <2> DEFINE set(x, y) == [d EXCEPT !.permissions = x, !.requested = y]
    <2>1. ASSUME NEW x, NEW y PROVE Doc(set(x, y))
        <3>1. set(x, y) = [[d EXCEPT !.permissions = x] EXCEPT !.requested = y]
            OBVIOUS
        <3>2. Doc([d EXCEPT !.permissions = x])
            BY DEF CardDoc, Doc
        <3>3. ASSUME NEW a, Doc(a) PROVE Doc([a EXCEPT !.requested = y])
            BY <3>3 DEF Doc
        <3> HIDE DEF set
        <3> QED BY <3>1, <3>2, <3>3
    <2> QED BY <2>1
<1>3. e = IF ToolPlaces(d, t) # {} THEN recorded ELSE UpsertToolCall(recorded, t, b)
    BY DEF RequestPermission
<1> HIDE DEF recorded
<1>4. /\ FlowDoc(recorded) /\ Places(recorded) = Places(d) /\ \A p : At(recorded, p) = At(d, p)
      /\ \A kinds : Same(d, recorded, kinds)
    BY <1>1, <1>2, SameTurns
<1>5. ToolPlaces(recorded, t) = ToolPlaces(d, t)
    BY <1>4 DEF ToolPlaces
<1>6. CASE e = recorded
    BY <1>4, <1>6 DEF OneBlock, Stub
<1>7. CASE ToolPlaces(d, t) = {} /\ e = AppendBlock(recorded, b, FALSE)
    <2>1. b.kind = "tool_call" /\ b.id = t /\ IsBlock(b)
        BY DEF ToolBlock, IsBlock
    <2> HIDE DEF b
    <2>2. ASSUME NEW kinds, "tool_call" \notin kinds PROVE FlowDoc(e) /\ Same(recorded, e, kinds)
        BY <1>4, <1>7, <2>1, <2>2, AddsFlow
    <2>3. Adds(recorded, e, b)
        BY <1>4, <1>7, BlockAdded DEF FlowDoc
    <2>4. OneBlock(d) => OneBlock(e)
        BY <1>4, <1>5, <1>7, <2>1, <2>3 DEF OneBlock, Adds, ToolPlaces
    <2>5. \A p : Stub(e, p) => (Stub(d, p) /\ At(e, p) = At(d, p)) \/ At(e, p).id = t
        BY <1>4, <2>1, <2>3 DEF Adds, Stub
    <2>6. FlowDoc(e)
        <3>1. "tool_call" \notin {}
            OBVIOUS
        <3> QED BY <2>2, <3>1
    <2>7. \A kinds : "tool_call" \notin kinds => Same(d, e, kinds)
        BY <1>4, <2>2 DEF Same
    <2> QED BY <2>4, <2>5, <2>6, <2>7
<1>8. e = recorded \/ (ToolPlaces(d, t) = {} /\ e = AppendBlock(recorded, b, FALSE))
    <2> HIDE DEF b
    <2>1. CASE ToolPlaces(d, t) # {}
        BY <1>3, <2>1
    <2>2. CASE ToolPlaces(d, t) = {}
        <3>1. e = UpsertToolCall(recorded, t, b) /\ ~(ToolPlaces(recorded, t) # {})
            BY <1>3, <1>5, <2>2
        <3>2. UpsertToolCall(recorded, t, b)
                = IF recorded.turns = <<>> THEN recorded ELSE AppendBlock(recorded, b, FALSE)
            BY <3>1 DEF UpsertToolCall
        <3> QED BY <2>2, <3>1, <3>2
    <2> QED BY <2>1, <2>2
<1> QED BY <1>6, <1>7, <1>8

\* A retired tool block is a cancelled block of the same call.
LEMMA ToolRetired ==
    ASSUME NEW b, IsBlock(b), b.kind = "tool_call", NEW c, c = [b EXCEPT !.status = "cancelled"]
    PROVE  /\ IsBlock(c) /\ c.kind = "tool_call" /\ c.id = b.id /\ c.raws = b.raws
           /\ c.status = "cancelled"
<1>1. b = ToolBlock(b.id, b.status, b.raws) /\ b.raws \in Seq(Nat)
    BY ToolIsBlock
<1>2. c = ToolBlock(b.id, "cancelled", b.raws)
    BY <1>1 DEF ToolBlock
<1> QED BY <1>1, <1>2 DEF ToolBlock, IsBlock

\* resolvePermission leaves no pending stub of a call that will not run.
LEMMA ResolveFlow ==
    ASSUME NEW d, Doc(d), FlowDoc(d), NEW calls, NEW response,
           NEW e, e = ResolvePermissions(d, calls, response)
    PROVE  /\ FlowDoc(e) /\ (OneBlock(d) => OneBlock(e))
           /\ \A p : Stub(e, p) =>
                /\ Stub(d, p) /\ At(e, p).id = At(d, p).id
                /\ At(e, p).status = "pending" =>
                    /\ At(d, p).status = "pending"
                    /\ ~(/\ ToolWillNotRun(response) /\ At(d, p).id \in calls
                         /\ d.permissions[At(d, p).id].status # "none")
           /\ \A kinds : "tool_call" \notin kinds => Same(d, e, kinds)
<1> DEFINE known == {t \in calls : d.permissions[t].status # "none"}
           status == IF response.outcome = "cancelled" THEN "cancelled" ELSE "resolved"
           permissions == [t \in Tool |->
                IF t \in known THEN [status |-> status, response |-> response]
                               ELSE d.permissions[t]]
           recorded == [d EXCEPT !.permissions = permissions]
<1>1. Doc(recorded) /\ recorded.turns = d.turns
    <2> HIDE DEF permissions
    <2> QED BY DEF Doc
<1>2. e = IF ToolWillNotRun(response) THEN RetirePendingToolCalls(recorded, known) ELSE recorded
    BY DEF ResolvePermissions
<1>3. \A t : t \in known <=> t \in calls /\ d.permissions[t].status # "none"
    OBVIOUS
<1> HIDE DEF recorded, known
<1>4. /\ FlowDoc(recorded) /\ Places(recorded) = Places(d) /\ \A p : At(recorded, p) = At(d, p)
      /\ \A kinds : Same(d, recorded, kinds)
    BY <1>1, SameTurns
<1>5. CASE ~ToolWillNotRun(response)
    BY <1>2, <1>4, <1>5 DEF OneBlock, Stub
<1>6. CASE ToolWillNotRun(response)
    <2>1. /\ IsFlow(e.turns) /\ Places(e) = Places(d)
          /\ \A p \in Places(d) :
                At(e, p) = IF IsTool(At(d, p), known) /\ At(d, p).status = "pending"
                           THEN [At(d, p) EXCEPT !.status = "cancelled"]
                           ELSE At(d, p)
        <3>1. e = RetirePendingToolCalls(recorded, known)
            BY <1>2, <1>6
        <3> QED BY <1>4, <3>1, ToolsRetired DEF FlowDoc
    <2>2. Doc(e)
        <3>1. e = RetirePendingToolCalls(recorded, known)
            BY <1>2, <1>6
        <3>2. \E t : e = [recorded EXCEPT !.turns = t]
            BY <3>1 DEF RetirePendingToolCalls, ReplaceTools
        <3> QED BY <1>1, <3>2, TurnsKeep DEF Keeps
    <2>3. ASSUME NEW p \in Places(d), At(e, p) # At(d, p)
          PROVE  /\ IsBlock(At(e, p)) /\ At(d, p).kind = "tool_call" /\ At(e, p).kind = "tool_call"
                 /\ At(e, p).id = At(d, p).id /\ At(e, p).raws = At(d, p).raws
                 /\ At(e, p).status = "cancelled"
        <3>1. At(d, p).kind = "tool_call" /\ At(e, p) = [At(d, p) EXCEPT !.status = "cancelled"]
            BY <2>1, <2>3 DEF IsTool
        <3> QED BY <3>1, ToolRetired DEF FlowDoc
    <2>4. FlowDoc(e)
        BY <2>1, <2>2, <2>3 DEF FlowDoc
    <2>5. OneBlock(d) => OneBlock(e)
        <3>1. ASSUME NEW p \in Places(d), At(e, p).kind = "tool_call"
              PROVE  At(d, p).kind = "tool_call" /\ At(e, p).id = At(d, p).id
            BY <2>3, <3>1
        <3> QED BY <2>1, <3>1 DEF OneBlock
    <2>6. \A kinds : "tool_call" \notin kinds => Same(d, e, kinds)
        BY <2>1, <2>3 DEF Same
    <2>7. ASSUME NEW p, Stub(e, p)
          PROVE  /\ Stub(d, p) /\ At(e, p).id = At(d, p).id
                 /\ At(e, p).status = "pending" =>
                        /\ At(d, p).status = "pending"
                        /\ ~(At(d, p).id \in calls /\ d.permissions[At(d, p).id].status # "none")
        <3>1. p \in Places(d)
            BY <2>1, <2>7 DEF Stub
        <3>2. CASE At(e, p) # At(d, p)
            BY <2>3, <2>7, <3>1, <3>2 DEF Stub
        <3>3. CASE At(e, p) = At(d, p)
            <4>1. Stub(d, p)
                BY <2>7, <3>1, <3>3 DEF Stub
            <4>2. ASSUME At(d, p).status = "pending", At(d, p).id \in known PROVE FALSE
                <5>1. At(e, p) = [At(d, p) EXCEPT !.status = "cancelled"]
                    BY <2>1, <3>1, <4>1, <4>2 DEF IsTool, Stub
                <5>2. At(e, p).status = "cancelled"
                    BY <3>1, <4>1, <5>1, ToolRetired DEF Stub, FlowDoc
                <5> QED BY <3>3, <4>2, <5>2
            <4> QED BY <1>3, <3>3, <4>1, <4>2
        <3> QED BY <3>2, <3>3
    <2> QED BY <2>4, <2>5, <2>6, <2>7
<1> QED BY <1>5, <1>6

-----------------------------------------------------------------------------
\* The document of the cards and the flow: a call has one block, a stub that is
\* pending has a reason, and the requests are listed once each.
Reasons(d) ==
    \A p : Stub(d, p) /\ At(d, p).status = "pending" /\ At(d, p).id \in Tool =>
        \/ d.permissions[At(d, p).id].status = "pending"
        \/ d.permissions[At(d, p).id].response.kind \in Approvals
Requests(d) ==
    /\ d.requested \in Seq(Tool)
    /\ \A i, j \in DOMAIN d.requested : d.requested[i] = d.requested[j] => i = j
    /\ \A t \in Tool : d.permissions[t].status # "none" <=> \E i \in DOMAIN d.requested : d.requested[i] = t
ToolDoc(d) == CardDoc(d) /\ FlowDoc(d) /\ OneBlock(d) /\ Reasons(d) /\ Requests(d)

\* The messages and the notices of e are those of d.
NoticeKinds == MessageKinds \cup {"compaction_notice"}
Untold(d, e) == Same(d, e, NoticeKinds) /\ e.compactions = d.compactions

\* A fold of the flow keeps the document.
LEMMA ToolDocKept ==
    ASSUME NEW d, ToolDoc(d), NEW e, FlowDoc(e), ToolFlow(d, e), Keeps(d, e)
    PROVE  ToolDoc(e)
<1>1. CardDoc(e)
    BY DEF ToolDoc, CardDoc, Keeps
<1>2. OneBlock(e)
    BY DEF ToolDoc, ToolFlow
<1>3. Reasons(e)
    BY DEF ToolDoc, ToolFlow, Reasons, Keeps
<1>4. Requests(e)
    BY DEF ToolDoc, Requests, Keeps
<1> QED BY <1>1, <1>2, <1>3, <1>4 DEF ToolDoc

\* Any event keeps it.
LEMMA ToolDocEvent ==
    ASSUME NEW d, ToolDoc(d), NEW u, IsEvent(u) PROVE ToolDoc(ApplyUpdate(d, u))
<1>1. PICK e : e = ApplyUpdate(d, u)
    OBVIOUS
<1>2. FlowDoc(d) /\ Doc(d)
    BY DEF ToolDoc, FlowDoc
<1>3. FlowDoc(e) /\ ToolFlow(d, e)
    BY <1>1, <1>2, EventFlow
<1>4. Keeps(d, e)
    BY <1>1, <1>2, EventKeeps DEF IsEvent
<1> QED BY <1>1, <1>3, <1>4, ToolDocKept

\* So do some events.
LEMMA ToolDocEvents ==
    ASSUME NEW d, ToolDoc(d), NEW events, Len(events) \in Nat,
           \A i \in 1 .. Len(events) : IsEvent(events[i])
    PROVE  ToolDoc(ApplyAll(d, events))
<1>1. PICK e : e = ApplyAll(d, events)
    OBVIOUS
<1>2. FlowDoc(d) /\ Doc(d)
    BY DEF ToolDoc, FlowDoc
<1>3. FlowDoc(e) /\ ToolFlow(d, e)
    BY <1>1, <1>2, EventsFlow
<1>4. Keeps(d, e)
    BY <1>1, <1>2, EventsKeep DEF IsEvent
<1> QED BY <1>1, <1>3, <1>4, ToolDocKept

\* So does a change of the status, which tells nothing.
LEMMA ToolDocStatus ==
    ASSUME NEW d, ToolDoc(d), NEW status \in Statuses, NEW e, e = SetStatus(d, status)
    PROVE  ToolDoc(e) /\ Untold(d, e)
<1>1. /\ CardDoc(d) /\ FlowDoc(d)
      /\ CardDoc(e) /\ e.permissions = d.permissions /\ e.requested = d.requested
      /\ e.turns = d.turns /\ e.compactions = d.compactions
    BY StatusSet DEF ToolDoc
<1>2. /\ FlowDoc(e) /\ Places(e) = Places(d) /\ \A p : At(e, p) = At(d, p)
      /\ \A kinds : Same(d, e, kinds)
    BY <1>1, SameTurns DEF CardDoc
<1>3. OneBlock(e) /\ Reasons(e) /\ Requests(e)
    BY <1>1, <1>2 DEF ToolDoc, OneBlock, Reasons, Stub, Requests
<1> QED BY <1>1, <1>2, <1>3 DEF ToolDoc, Untold

\* So does a change of elicitations.
LEMMA ToolDocMoved ==
    ASSUME NEW d, ToolDoc(d), NEW es, NEW from,
           NEW to \in {"pending", "opened", "resolved", "cancelled", "completed"},
           NEW e, e = MoveElicitations(d, es, from, to)
    PROVE  ToolDoc(e) /\ Untold(d, e)
<1>1. /\ CardDoc(d) /\ FlowDoc(d)
      /\ CardDoc(e) /\ e.permissions = d.permissions /\ e.requested = d.requested
      /\ e.turns = d.turns /\ e.compactions = d.compactions
    BY ElicitationsMoved DEF ToolDoc
<1>2. /\ FlowDoc(e) /\ Places(e) = Places(d) /\ \A p : At(e, p) = At(d, p)
      /\ \A kinds : Same(d, e, kinds)
    BY <1>1, SameTurns DEF CardDoc
<1>3. OneBlock(e) /\ Reasons(e) /\ Requests(e)
    BY <1>1, <1>2 DEF ToolDoc, OneBlock, Reasons, Stub, Requests
<1> QED BY <1>1, <1>2, <1>3 DEF ToolDoc, Untold

\* So does a request.
LEMMA ToolDocRequested ==
    ASSUME NEW d, ToolDoc(d), NEW t \in Tool, NEW e, e = RequestPermission(d, t)
    PROVE  ToolDoc(e) /\ Untold(d, e)
<1>1. CardDoc(d) /\ FlowDoc(d)
    BY DEF ToolDoc
<1>2. /\ CardDoc(e) /\ e.compactions = d.compactions
      /\ e.requested = IF d.permissions[t].status = "none" THEN Append(d.requested, t)
                                                          ELSE d.requested
      /\ e.permissions = [d.permissions EXCEPT
                ![t] = [status |-> "pending", response |-> NoResponse]]
    BY <1>1, PermissionRequested
<1>3. /\ FlowDoc(e) /\ (OneBlock(d) => OneBlock(e))
      /\ \A p : Stub(e, p) => (Stub(d, p) /\ At(e, p) = At(d, p)) \/ At(e, p).id = t
      /\ \A kinds : "tool_call" \notin kinds => Same(d, e, kinds)
    BY <1>1, RequestFlow
<1>4. e.permissions[t].status = "pending" /\ \A x \in Tool : x # t => e.permissions[x] = d.permissions[x]
    BY <1>1, <1>2 DEF CardDoc
<1>5. Reasons(e)
    BY <1>3, <1>4 DEF ToolDoc, Reasons
<1>6. Requests(e)
    <2>1. CASE d.permissions[t].status = "none"
        <3>1. /\ e.requested \in Seq(Tool) /\ Len(d.requested) \in Nat
              /\ DOMAIN d.requested = 1 .. Len(d.requested)
              /\ DOMAIN e.requested = 1 .. Len(d.requested) + 1
              /\ \A i \in 1 .. Len(d.requested) : e.requested[i] = d.requested[i]
              /\ e.requested[Len(d.requested) + 1] = t
            BY <1>2, <2>1 DEF ToolDoc, Requests
        <3>2. \A i \in DOMAIN d.requested : d.requested[i] # t
            BY <2>1 DEF ToolDoc, Requests
        <3>3. \A i, j \in DOMAIN e.requested : e.requested[i] = e.requested[j] => i = j
            BY SMTT(30), <3>1, <3>2 DEF ToolDoc, Requests
        <3>4. ASSUME NEW x \in Tool
              PROVE  e.permissions[x].status # "none" <=> \E i \in DOMAIN e.requested : e.requested[i] = x
            <4>1. CASE x = t
                <5>1. Len(d.requested) + 1 \in DOMAIN e.requested
                    BY <3>1
                <5> QED BY <1>4, <3>1, <4>1, <5>1
            <4>2. CASE x # t
                <5>1. e.permissions[x] = d.permissions[x]
                    BY <1>4, <4>2
                <5>2. d.permissions[x].status # "none" <=> \E i \in DOMAIN d.requested : d.requested[i] = x
                    BY DEF ToolDoc, Requests
                <5>3. \A i \in DOMAIN e.requested : e.requested[i] = x => i \in DOMAIN d.requested
                    BY <3>1, <4>2
                <5>4. \A i \in DOMAIN d.requested : i \in DOMAIN e.requested
                    BY <3>1
                <5> QED BY <3>1, <5>1, <5>2, <5>3, <5>4
            <4> QED BY <4>1, <4>2
        <3> QED BY <3>1, <3>3, <3>4 DEF Requests
    <2>2. CASE d.permissions[t].status # "none"
        BY <1>2, <1>4, <2>2 DEF ToolDoc, Requests
    <2> QED BY <2>1, <2>2
<1>7. Same(d, e, NoticeKinds)
    BY <1>3 DEF NoticeKinds, MessageKinds
<1> QED BY <1>2, <1>3, <1>5, <1>6, <1>7 DEF ToolDoc, Untold

\* So does an outcome: its stub is retired, or was approved.
LEMMA ToolDocResolved ==
    ASSUME NEW d, ToolDoc(d), NEW calls, NEW response \in Response,
           ToolWillNotRun(response) \/ response.kind \in Approvals,
           NEW e, e = ResolvePermissions(d, calls, response)
    PROVE  ToolDoc(e) /\ Untold(d, e)
<1>1. CardDoc(d) /\ FlowDoc(d) /\ Doc(d)
    BY DEF ToolDoc, FlowDoc
<1>2. /\ CardDoc(e)
      /\ e.requested = d.requested /\ e.compactions = d.compactions
      /\ \A t \in Tool :
            IF t \in calls /\ d.permissions[t].status # "none"
            THEN e.permissions[t].status # "none" /\ e.permissions[t].status # "pending"
                 /\ e.permissions[t].response = response
            ELSE e.permissions[t] = d.permissions[t]
    BY <1>1, PermissionsResolved
<1>3. /\ FlowDoc(e) /\ (OneBlock(d) => OneBlock(e))
      /\ \A p : Stub(e, p) =>
            /\ Stub(d, p) /\ At(e, p).id = At(d, p).id
            /\ At(e, p).status = "pending" =>
                /\ At(d, p).status = "pending"
                /\ ~(/\ ToolWillNotRun(response) /\ At(d, p).id \in calls
                     /\ d.permissions[At(d, p).id].status # "none")
      /\ \A kinds : "tool_call" \notin kinds => Same(d, e, kinds)
    BY <1>1, ResolveFlow
<1>4. Reasons(e)
    <2> SUFFICES ASSUME NEW p, Stub(e, p), At(e, p).status = "pending", At(e, p).id \in Tool
                 PROVE  \/ e.permissions[At(e, p).id].status = "pending"
                        \/ e.permissions[At(e, p).id].response.kind \in Approvals
        BY DEF Reasons
    <2>1. PICK t \in Tool : t = At(e, p).id
        OBVIOUS
    <2>2. /\ Stub(d, p) /\ At(d, p).id = t /\ At(d, p).status = "pending"
          /\ ~(ToolWillNotRun(response) /\ t \in calls /\ d.permissions[t].status # "none")
        BY <1>3, <2>1
    <2>3. d.permissions[t].status = "pending" \/ d.permissions[t].response.kind \in Approvals
        BY <2>2 DEF ToolDoc, Reasons
    <2>4. CASE t \in calls /\ d.permissions[t].status # "none"
        BY <1>2, <2>1, <2>2, <2>4
    <2>5. CASE ~(t \in calls /\ d.permissions[t].status # "none")
        <3>1. e.permissions[t] = d.permissions[t]
            BY <1>2, <2>5
        <3> QED BY <2>1, <2>3, <3>1
    <2> QED BY <2>4, <2>5
<1>5. Requests(e)
    BY <1>2 DEF ToolDoc, Requests
<1>6. Same(d, e, NoticeKinds)
    BY <1>3 DEF NoticeKinds, MessageKinds
<1> QED BY <1>2, <1>3, <1>4, <1>5, <1>6 DEF ToolDoc, Untold

\* So does the end of some cards.
LEMMA ToolDocCancelled ==
    ASSUME NEW d, ToolDoc(d), NEW cards, NEW e, e = CancelCards(d, cards)
    PROVE  ToolDoc(e) /\ Untold(d, e)
<1>1. PICK m : m = ResolvePermissions(d, cards \cap Tool, Cancelled)
    OBVIOUS
<1>2. Cancelled \in Response /\ ToolWillNotRun(Cancelled)
    BY DEF Cancelled, Response, Outcomes, ToolWillNotRun
<1>3. ToolDoc(m) /\ Untold(d, m)
    BY <1>1, <1>2, ToolDocResolved
<1>4. e = MoveElicitations(m, cards \cap Elicitation, {"pending"}, "cancelled")
    BY <1>1 DEF CancelCards, ResolveElicitations
<1>5. ToolDoc(e) /\ Untold(m, e)
    BY <1>3, <1>4, ToolDocMoved
<1> QED BY <1>3, <1>5 DEF Untold, Same

-----------------------------------------------------------------------------
\* A recursion over a sequence of steps on a set has a solution, and only one.
AreSteps(G, N, S) == N \in Nat /\ G \in [1 .. N -> [S -> S]]
Solution(f, a, G, N, S) ==
    f \in [0 .. N -> S] /\ f[0] = a /\ \A i \in 1 .. N : f[i] = G[i][f[i - 1]]

\* A recursion over the numbers up to N has a solution,
LEMMA Recursion ==
    ASSUME NEW N, NEW S, NEW a \in S, NEW G, AreSteps(G, N, S)
    PROVE  \E f : Solution(f, a, G, N, S)
<1>0. N \in Nat /\ G \in [1 .. N -> [S -> S]]
    BY DEF AreSteps
<1> DEFINE Solves(f, n) == f[0] = a /\ \A i \in 1 .. n : f[i] = G[i][f[i - 1]]
           P == {n \in 0 .. N : \E f \in [0 .. n -> S] : Solves(f, n)}
<1>1. 0 \in P
    <2> DEFINE f == [i \in 0 .. 0 |-> a]
    <2>1. f \in [0 .. 0 -> S] /\ f[0] = a /\ 0 \in 0 .. N
        BY <1>0
    <2> HIDE DEF f
    <2>2. Solves(f, 0)
        BY <2>1
    <2> QED BY <2>1, <2>2
<1>2. ASSUME NEW n \in 1 .. N, n - 1 \in P PROVE n \in P
    <2>1. PICK f \in [0 .. n - 1 -> S] : Solves(f, n - 1)
        BY <1>2
    <2> DEFINE g == [i \in 0 .. n |-> IF i = n THEN G[n][f[n - 1]] ELSE f[i]]
    <2>2. /\ n - 1 \in 0 .. n - 1 /\ n \in 0 .. N /\ n \in 0 .. n
          /\ \A i \in 0 .. n : i # n => i \in 0 .. n - 1
        BY <1>0
    <2>3. G[n][f[n - 1]] \in S
        BY <1>0, <2>1, <2>2
    <2>4. g \in [0 .. n -> S] /\ g[n] = G[n][f[n - 1]] /\ \A i \in 0 .. n - 1 : g[i] = f[i]
        BY <1>0, <2>1, <2>2, <2>3
    <2> HIDE DEF g
    <2>5. g[0] = a
        BY <2>1, <2>4
    <2>6. ASSUME NEW i \in 1 .. n PROVE g[i] = G[i][g[i - 1]]
        <3>1. CASE i = n
            BY <2>2, <2>4, <3>1
        <3>2. CASE i # n
            <4>1. i \in 1 .. n - 1 /\ i \in 0 .. n - 1 /\ i - 1 \in 0 .. n - 1
                BY <1>0, <3>2
            <4> QED BY <2>1, <2>4, <4>1
        <3> QED BY <3>1, <3>2
    <2> QED BY <2>2, <2>4, <2>5, <2>6
<1>3. N \in P
    <2> HIDE DEF P
    <2>1. \A n \in 0 .. N : n \in P
        BY <1>0, <1>1, <1>2, Induction
    <2> QED BY <1>0, <2>1
<1> QED BY <1>0, <1>3 DEF Solution

Follows(u, f, N) == N \in Nat /\ u[0] = f[0] /\ \A i \in 1 .. N : u[i - 1] = f[i - 1] => u[i] = f[i]
\* and it is the only one.
LEMMA RecursionIsUnique ==
    ASSUME NEW N, NEW f, NEW u, Follows(u, f, N) PROVE u[N] = f[N]
<1>0. N \in Nat /\ u[0] = f[0] /\ \A i \in 1 .. N : u[i - 1] = f[i - 1] => u[i] = f[i]
    BY DEF Follows
<1> DEFINE Q == {n \in 0 .. N : u[n] = f[n]}
<1>1. 0 \in Q
    BY <1>0
<1>2. ASSUME NEW n \in 1 .. N, n - 1 \in Q PROVE n \in Q
    BY <1>0, <1>2
<1>3. N \in Q
    <2> HIDE DEF Q
    <2>1. \A n \in 0 .. N : n \in Q
        BY <1>0, <1>1, <1>2, Induction
    <2> QED BY <1>0, <2>1
<1> QED BY <1>3

\* Where the permissions of a document are shown.
LEMMA SoleBlock ==
    ASSUME NEW d, OneBlock(d), NEW t, ToolPlaces(d, t) # {}
    PROVE  \E p \in Places(d) : ToolPlaces(d, t) = {p} /\ First(ToolPlaces(d, t)) = p
<1>1. PICK p : p \in ToolPlaces(d, t)
    OBVIOUS
<1>2. ToolPlaces(d, t) = {p} /\ p \in Places(d)
    BY <1>1 DEF ToolPlaces, OneBlock
<1>3. First({p}) = p
    BY DEF First
<1> QED BY <1>2, <1>3

\* The fallback is one block at most.
LEMMA FallbackIsSole ==
    ASSUME NEW d, FlowDoc(d), NEW p \in Fallback(d)
    PROVE  Fallback(d) = {p}
<1> DEFINE pending == {q \in Places(d) : /\ q[1] = Len(d.turns)
                                         /\ At(d, q).kind = "tool_call"
                                         /\ At(d, q).status = "pending"}
           L == Len(d.turns)
           M == Len(d.turns[L])
<1>1. Fallback(d) = pending /\ Cardinality(pending) = 1 /\ p \in pending
    BY DEF Fallback
<1>2. PICK S : d.turns \in Seq(Seq(S))
    BY DEF FlowDoc, IsFlow
<1>3. p \in Places(d) /\ p[1] = L
    BY <1>1
<1>4. L \in Nat /\ L \in DOMAIN d.turns
    BY <1>2, <1>3, PlacesOf
<1>5. M \in Nat /\ DOMAIN d.turns[L] = 1 .. M
    BY <1>2, <1>4
<1>6. \A q \in pending : q \in {L} \X (1 .. M)
    <2> SUFFICES ASSUME NEW q \in pending PROVE q \in {L} \X (1 .. M)
        OBVIOUS
    <2>1. q \in Places(d) /\ q[1] = L
        OBVIOUS
    <2>2. q = <<q[1], q[2]>> /\ q[2] \in DOMAIN d.turns[q[1]]
        BY <2>1, PlacesOf
    <2> HIDE DEF pending, L, M
    <2> QED BY <1>5, <2>1, <2>2
<1> HIDE DEF pending, L, M
<1>7. IsFiniteSet({L} \X (1 .. M))
    <2>1. IsFiniteSet({L})
        BY FS_Singleton
    <2>2. 1 \in Int /\ M \in Int
        BY <1>5
    <2>3. IsFiniteSet(1 .. M)
        BY <2>2, FS_Interval
    <2> QED BY <2>1, <2>3, FS_Product
<1>8. IsFiniteSet(pending)
    BY <1>6, <1>7, FS_Subset
<1>9. \E q : pending = {q}
    BY <1>1, <1>8, FS_Singleton
<1> QED BY <1>1, <1>9

\* A permission claims a free block: its own call's if that is free, else the
\* fallback.
LEMMA Claimed ==
    ASSUME NEW d, OneBlock(d), NEW placed, NEW t, NEW x, x = PlaceIn(Claim(d, placed, t))
    PROVE  /\ x = Standalone \/ (x \in Places(d) /\ x \notin Taken(placed))
           /\ \A p : ToolPlaces(d, t) = {p} /\ p \notin Taken(placed) => x = p
           /\ x = Standalone \/ ToolPlaces(d, t) = {x} \/ x \in Fallback(d)
<1>1. PICK own : own = IF ToolPlaces(d, t) = {} THEN {} ELSE {First(ToolPlaces(d, t))}
    OBVIOUS
<1>2. Claim(d, placed, t) = IF own \ Taken(placed) # {} THEN own \ Taken(placed)
                                                       ELSE Fallback(d) \ Taken(placed)
    BY <1>1 DEF Claim
<1>3. /\ own \subseteq Places(d) /\ \A p : ToolPlaces(d, t) = {p} => own = {p}
      /\ \A p \in own : ToolPlaces(d, t) = {p}
    BY <1>1, SoleBlock
<1>4. Fallback(d) \subseteq Places(d)
    BY DEF Fallback
<1>5. x = Standalone \/ x \in Claim(d, placed, t)
    BY DEF PlaceIn
<1>6. ASSUME NEW p, ToolPlaces(d, t) = {p}, p \notin Taken(placed) PROVE x = p
    <2>1. Claim(d, placed, t) = {p}
        BY <1>2, <1>3, <1>6
    <2> QED BY <2>1 DEF PlaceIn
<1>7. x = Standalone \/ ToolPlaces(d, t) = {x} \/ x \in Fallback(d)
    BY <1>2, <1>3, <1>5
<1> QED BY <1>2, <1>3, <1>4, <1>5, <1>6, <1>7

\* Placement, permission by permission.
LEMMA PlacementSteps ==
    ASSUME NEW d, OneBlock(d), Requests(d)
    PROVE  \E f : /\ f[0] = <<>> /\ Placement(d) = f[Len(d.requested)]
                  /\ f \in [0 .. Len(d.requested) -> Seq(Tool \X (Places(d) \cup {Standalone}))]
                  /\ \A i \in 1 .. Len(d.requested) :
                        f[i] = IF Rendered(d, d.requested[i])
                               THEN Append(f[i - 1], <<d.requested[i],
                                        PlaceIn(Claim(d, f[i - 1], d.requested[i]))>>)
                               ELSE f[i - 1]
<1> DEFINE N == Len(d.requested)
           S == Seq(Tool \X (Places(d) \cup {Standalone}))
           Next1(i, x) == IF Rendered(d, d.requested[i])
                          THEN Append(x, <<d.requested[i], PlaceIn(Claim(d, x, d.requested[i]))>>)
                          ELSE x
           G == [i \in 1 .. N |-> [x \in S |-> Next1(i, x)]]
<1>1. N \in Nat /\ \A i \in 1 .. N : d.requested[i] \in Tool
    BY DEF Requests
<1>2. ASSUME NEW i \in 1 .. N, NEW x \in S PROVE Next1(i, x) \in S
    <2>1. d.requested[i] \in Tool
        BY <1>1
    <2>2. PlaceIn(Claim(d, x, d.requested[i])) \in Places(d) \cup {Standalone}
        BY Claimed
    <2>3. <<d.requested[i], PlaceIn(Claim(d, x, d.requested[i]))>> \in Tool \X (Places(d) \cup {Standalone})
        BY <2>1, <2>2
    <2> QED BY <2>3
<1>3. <<>> \in S
    OBVIOUS
<1> HIDE DEF N, S, Next1
<1>4. AreSteps(G, N, S)
    BY <1>1, <1>2 DEF AreSteps
<1>5. PICK f : f \in [0 .. N -> S] /\ f[0] = <<>> /\ \A i \in 1 .. N : f[i] = G[i][f[i - 1]]
    <2> HIDE DEF G
    <2>1. \E f : Solution(f, <<>>, G, N, S)
        BY <1>3, <1>4, Recursion
    <2> QED BY <2>1 DEF Solution
<1>6. \A i \in 1 .. N : \A x \in S : G[i][x] = Next1(i, x)
    OBVIOUS
<1> HIDE DEF G
<1>7. ASSUME NEW i \in 1 .. N PROVE f[i] = Next1(i, f[i - 1])
    <2>1. i - 1 \in 0 .. N
        BY <1>1
    <2> QED BY <1>5, <1>6, <2>1
<1> DEFINE IsUpTo(g) == g = [i \in 0 .. N |-> IF i = 0 THEN <<>> ELSE Next1(i, g[i - 1])]
           u == CHOOSE g : IsUpTo(g)
<1>8. IsUpTo(f)
    <2>1. \A i \in 0 .. N : f[i] = IF i = 0 THEN <<>> ELSE Next1(i, f[i - 1])
        BY <1>1, <1>5, <1>7
    <2> QED BY <1>5, <2>1
<1>9. IsUpTo(u)
    <2> HIDE DEF IsUpTo
    <2> QED BY <1>8
<1>10. Placement(d) = u[N]
    BY DEF Placement, N, Next1
<1> HIDE DEF u
<1>11. \A i \in 0 .. N : u[i] = IF i = 0 THEN <<>> ELSE Next1(i, u[i - 1])
    BY <1>9
<1>12. u[0] = <<>> /\ \A i \in 1 .. N : u[i] = Next1(i, u[i - 1])
    <2>1. 0 \in 0 .. N /\ \A i \in 1 .. N : i \in 0 .. N /\ i # 0
        BY <1>1
    <2> QED BY <1>11, <2>1
<1>13. u[N] = f[N]
    <2>1. Follows(u, f, N)
        BY <1>1, <1>5, <1>7, <1>12 DEF Follows
    <2> QED BY <2>1, RecursionIsUnique
<1> QED BY <1>5, <1>7, <1>10, <1>13 DEF N, S, Next1

\* Every card has its place.
LEMMA CardsPlaced ==
    ASSUME NEW d, ToolDoc(d), NEW placed, placed = Placement(d)
    PROVE  /\ \A i, j \in DOMAIN placed :
                i # j /\ placed[i][2] = placed[j][2] => placed[i][2] = Standalone
           /\ \A i \in DOMAIN placed :
                \/ placed[i][2] \in ToolPlaces(d, placed[i][1])
                \/ ToolPlaces(d, placed[i][1]) = {}
                \/ /\ placed[i][2] = Standalone
                   /\ \E j \in DOMAIN placed :
                        /\ j < i /\ ToolPlaces(d, placed[j][1]) = {}
                        /\ placed[j][2] \in ToolPlaces(d, placed[i][1])
<1>1. OneBlock(d) /\ Requests(d) /\ FlowDoc(d)
    BY DEF ToolDoc
<1> DEFINE N == Len(d.requested)
           Entry == Tool \X (Places(d) \cup {Standalone})
           Claimed1(x, i) == PlaceIn(Claim(d, x, d.requested[i]))
<1>2. PICK f : /\ f[0] = <<>> /\ placed = f[N] /\ f \in [0 .. N -> Seq(Entry)]
               /\ \A i \in 1 .. N :
                    f[i] = IF Rendered(d, d.requested[i])
                           THEN Append(f[i - 1], <<d.requested[i], Claimed1(f[i - 1], i)>>)
                           ELSE f[i - 1]
    BY <1>1, PlacementSteps
<1>3. /\ N \in Nat /\ \A i \in 1 .. N : d.requested[i] \in Tool
      /\ \A i, j \in 1 .. N : d.requested[i] = d.requested[j] => i = j
    BY <1>1 DEF Requests
<1> HIDE DEF N, Entry, Claimed1
\* One step: an entry for a request that is rendered, or nothing.
<1>4. ASSUME NEW n \in 1 .. N
      PROVE  /\ n - 1 \in 0 .. N /\ n \in 0 .. N
             /\ Len(f[n - 1]) \in Nat /\ DOMAIN f[n - 1] = 1 .. Len(f[n - 1])
             /\ Rendered(d, d.requested[n]) =>
                    /\ DOMAIN f[n] = 1 .. Len(f[n - 1]) + 1
                    /\ \A i \in 1 .. Len(f[n - 1]) : f[n][i] = f[n - 1][i]
                    /\ f[n][Len(f[n - 1]) + 1] = <<d.requested[n], Claimed1(f[n - 1], n)>>
             /\ ~Rendered(d, d.requested[n]) => f[n] = f[n - 1]
    <2>1. n - 1 \in 0 .. N /\ n \in 0 .. N
        BY <1>3
    <2>2. PICK x : x = f[n - 1]
        OBVIOUS
    <2>3. x \in Seq(Entry)
        BY <1>2, <2>1, <2>2
    <2>4. ASSUME Rendered(d, d.requested[n])
          PROVE  /\ DOMAIN f[n] = 1 .. Len(x) + 1 /\ \A i \in 1 .. Len(x) : f[n][i] = x[i]
                 /\ f[n][Len(x) + 1] = <<d.requested[n], Claimed1(x, n)>>
        <3>1. PICK y : y = <<d.requested[n], Claimed1(x, n)>>
            OBVIOUS
        <3>2. f[n] = Append(x, y)
            BY <1>2, <2>2, <2>4, <3>1
        <3> QED BY <2>3, <3>1, <3>2
    <2>5. ~Rendered(d, d.requested[n]) => f[n] = f[n - 1]
        BY <1>2
    <2> QED BY <2>1, <2>2, <2>3, <2>4, <2>5
<1>5. \A i, j \in DOMAIN placed :
            i # j /\ placed[i][2] = placed[j][2] => placed[i][2] = Standalone
    <2> DEFINE P == {n \in 0 .. N : \A i, j \in DOMAIN f[n] :
                        i # j /\ f[n][i][2] = f[n][j][2] => f[n][i][2] = Standalone}
    <2>1. 0 \in P
        BY <1>2, <1>3
    <2>2. ASSUME NEW n \in 1 .. N, n - 1 \in P PROVE n \in P
        <3>1. CASE ~Rendered(d, d.requested[n])
            BY <1>4, <2>2, <3>1
        <3>2. CASE Rendered(d, d.requested[n])
            <4> DEFINE m == Len(f[n - 1]) + 1
            <4>1. /\ m \in Nat /\ DOMAIN f[n] = 1 .. m /\ DOMAIN f[n - 1] = 1 .. m - 1 /\ n \in 0 .. N
                  /\ \A i \in 1 .. m : i # m => i \in 1 .. m - 1 /\ f[n][i] = f[n - 1][i]
                  /\ f[n][m][2] = Claimed1(f[n - 1], n)
                BY <1>4, <3>2
            <4>2. \/ f[n][m][2] = Standalone
                  \/ \A i \in 1 .. m - 1 : f[n - 1][i][2] # f[n][m][2]
                <5>1. \/ Claimed1(f[n - 1], n) = Standalone
                      \/ Claimed1(f[n - 1], n) \notin Taken(f[n - 1])
                    BY <1>1, Claimed DEF Claimed1
                <5> QED BY <4>1, <5>1 DEF Taken
            <4>3. \A i, j \in 1 .. m - 1 :
                        i # j /\ f[n - 1][i][2] = f[n - 1][j][2] => f[n - 1][i][2] = Standalone
                BY <2>2, <4>1
            <4> HIDE DEF m
            <4>4. ASSUME NEW i \in 1 .. m, NEW j \in 1 .. m, i # j, f[n][i][2] = f[n][j][2]
                  PROVE  f[n][i][2] = Standalone
                <5>1. CASE i # m /\ j # m
                    BY <4>1, <4>3, <4>4, <5>1
                <5>2. CASE i = m \/ j = m
                    BY <4>1, <4>2, <4>4, <5>2
                <5> QED BY <5>1, <5>2
            <4> QED BY <4>1, <4>4
        <3> QED BY <3>1, <3>2
    <2>3. N \in P
        <3> HIDE DEF P
        <3>1. \A n \in 0 .. N : n \in P
            BY <1>3, <2>1, <2>2, Induction
        <3> QED BY <1>3, <3>1
    <2> QED BY <1>2, <2>3
\* Each entry is for a request of its own, and stands on its call's block, on the
\* fallback for want of one, or alone; alone with a block only if an earlier entry
\* without one took that block for the fallback.
<1> DEFINE Source(g, i, n) == \E k \in 1 .. n : g[i][1] = d.requested[k]
           Place(g, i) == \/ g[i][2] = Standalone
                          \/ ToolPlaces(d, g[i][1]) = {g[i][2]}
                          \/ ToolPlaces(d, g[i][1]) = {} /\ g[i][2] \in Fallback(d)
           Fine(g, i) == \/ g[i][2] \in ToolPlaces(d, g[i][1])
                         \/ ToolPlaces(d, g[i][1]) = {}
                         \/ /\ g[i][2] = Standalone
                            /\ \E j \in DOMAIN g : /\ j < i /\ ToolPlaces(d, g[j][1]) = {}
                                                  /\ g[j][2] \in ToolPlaces(d, g[i][1])
           Sound(g, n) == \A j \in DOMAIN g : Source(g, j, n) /\ Place(g, j)
           Settled(g, p, x) ==
               \/ x = p
               \/ /\ x = Standalone
                  /\ \E j \in DOMAIN g : ToolPlaces(d, g[j][1]) = {} /\ g[j][2] = p
<1>7. Standalone \notin Places(d)
    <2>1. ASSUME Standalone \in Places(d) PROVE FALSE
        <3>1. Standalone[1] \in DOMAIN d.turns
            BY <2>1, PlacesOf
        <3>2. \E S : d.turns \in Seq(S)
            BY <1>1 DEF FlowDoc, IsFlow
        <3> QED BY <3>1, <3>2 DEF Standalone
    <2> QED BY <2>1
\* The new entry of a step.
<1>8. ASSUME NEW n \in 1 .. N, NEW g, NEW p, NEW x, x = Claimed1(g, n),
             ToolPlaces(d, d.requested[n]) = {p}, Sound(g, n - 1)
      PROVE  Settled(g, p, x)
    <2>1. /\ p \notin Taken(g) => x = p
          /\ x = Standalone \/ x \notin Taken(g)
          /\ x = Standalone \/ ToolPlaces(d, d.requested[n]) = {x} \/ x \in Fallback(d)
        BY <1>1, <1>8, Claimed DEF Claimed1
    <2>2. CASE p \notin Taken(g)
        BY <2>1, <2>2
    <2>3. CASE p \in Taken(g)
        <3>1. PICK j \in DOMAIN g : g[j][2] = p
            BY <2>3 DEF Taken
        <3>2. p # Standalone
            BY <1>7, <1>8 DEF ToolPlaces
        <3>3. ToolPlaces(d, g[j][1]) # {p}
            <4>1. SUFFICES ASSUME ToolPlaces(d, g[j][1]) = {p} PROVE FALSE
                OBVIOUS
            <4>2. PICK k \in 1 .. n - 1 : g[j][1] = d.requested[k]
                BY <1>8
            <4>3. d.requested[k] = d.requested[n]
                BY <1>8, <4>1, <4>2 DEF ToolPlaces
            <4> QED BY <1>3, <4>2, <4>3
        <3>4. ToolPlaces(d, g[j][1]) = {} /\ p \in Fallback(d)
            BY <1>8, <3>1, <3>2, <3>3
        <3>5. Fallback(d) = {p}
            BY <1>1, <3>4, FallbackIsSole
        <3>6. x # p
            BY <2>1, <2>3, <3>2
        <3>7. x = Standalone
            BY <1>8, <2>1, <3>5, <3>6
        <3> QED BY <3>1, <3>4, <3>7
    <2> QED BY <2>2, <2>3
<1>9. \A i \in DOMAIN placed : Fine(placed, i)
    <2> DEFINE Q == {n \in 0 .. N : \A i \in DOMAIN f[n] :
                        Source(f[n], i, n) /\ Place(f[n], i) /\ Fine(f[n], i)}
    <2>1. 0 \in Q
        BY <1>2, <1>3
    <2>2. ASSUME NEW n \in 1 .. N, n - 1 \in Q PROVE n \in Q
        <3>1. n \in 0 .. N /\ \A k \in 1 .. n - 1 : k \in 1 .. n
            BY <1>3
        <3>2. CASE ~Rendered(d, d.requested[n])
            <4>1. f[n] = f[n - 1]
                BY <1>4, <3>2
            <4> QED BY <2>2, <3>1, <4>1
        <3>3. CASE Rendered(d, d.requested[n])
            <4> DEFINE m == Len(f[n - 1]) + 1
            <4>1. /\ m \in Nat /\ DOMAIN f[n] = 1 .. m /\ DOMAIN f[n - 1] = 1 .. m - 1
                  /\ \A i \in 1 .. m : i # m => i \in 1 .. m - 1 /\ f[n][i] = f[n - 1][i]
                  /\ \A i \in 1 .. m - 1 : i \in 1 .. m /\ f[n][i] = f[n - 1][i] /\ i < m
                  /\ f[n][m][1] = d.requested[n] /\ f[n][m][2] = Claimed1(f[n - 1], n)
                BY <1>4, <3>3
            <4> HIDE DEF m
            <4>2. ASSUME NEW i \in 1 .. m, i # m
                  PROVE  Source(f[n], i, n) /\ Place(f[n], i) /\ Fine(f[n], i)
                <5>1. i \in DOMAIN f[n - 1] /\ f[n][i] = f[n - 1][i]
                    BY <4>1, <4>2
                <5>2. Source(f[n - 1], i, n - 1) /\ Place(f[n - 1], i) /\ Fine(f[n - 1], i)
                    BY <2>2, <5>1
                <5>3. \A j \in DOMAIN f[n - 1] : j \in DOMAIN f[n] /\ f[n][j] = f[n - 1][j]
                    BY <4>1
                <5> QED BY <3>1, <5>1, <5>2, <5>3
            <4>3. Source(f[n], m, n)
                <5>1. n \in 1 .. n
                    BY <1>3
                <5> QED BY <4>1, <5>1
            <4>4. Place(f[n], m) /\ Fine(f[n], m)
                <5>1. CASE ToolPlaces(d, d.requested[n]) = {}
                    <6>1. f[n][m][2] = Standalone \/ f[n][m][2] \in Fallback(d)
                        <7>1. PICK x : x = Claimed1(f[n - 1], n)
                            OBVIOUS
                        <7>2. x = Standalone \/ ToolPlaces(d, d.requested[n]) = {x} \/ x \in Fallback(d)
                            BY <1>1, <7>1, Claimed DEF Claimed1
                        <7> QED BY <4>1, <5>1, <7>1, <7>2
                    <6> QED BY <4>1, <5>1, <6>1
                <5>2. CASE ToolPlaces(d, d.requested[n]) # {}
                    <6>1. PICK p : ToolPlaces(d, d.requested[n]) = {p}
                        BY <1>1, <5>2, SoleBlock
                    <6>2. Sound(f[n - 1], n - 1)
                        BY <2>2
                    <6> HIDE DEF Source, Place
                    <6>3. \/ f[n][m][2] = p
                          \/ /\ f[n][m][2] = Standalone
                             /\ \E j \in DOMAIN f[n - 1] :
                                    ToolPlaces(d, f[n - 1][j][1]) = {} /\ f[n - 1][j][2] = p
                        <7>1. PICK x, g : x = Claimed1(g, n) /\ g = f[n - 1]
                            OBVIOUS
                        <7>2. Settled(g, p, x)
                            <8> HIDE DEF Claimed1, Sound, Settled
                            <8> QED BY <1>8, <6>1, <6>2, <7>1
                        <7> QED BY <4>1, <7>1, <7>2
                    <6>4. CASE f[n][m][2] = p
                        BY <4>1, <6>1, <6>4 DEF Place
                    <6>5. ASSUME f[n][m][2] = Standalone, NEW j \in DOMAIN f[n - 1],
                                 ToolPlaces(d, f[n - 1][j][1]) = {}, f[n - 1][j][2] = p
                          PROVE  Place(f[n], m) /\ Fine(f[n], m)
                        <7>1. j \in DOMAIN f[n] /\ j < m /\ f[n][j] = f[n - 1][j]
                            BY <4>1
                        <7> QED BY <4>1, <6>1, <6>5, <7>1 DEF Place
                    <6> QED BY <6>3, <6>4, <6>5
                <5> QED BY <5>1, <5>2
            <4> HIDE DEF Source, Place, Fine
            <4>5. \A i \in DOMAIN f[n] : Source(f[n], i, n) /\ Place(f[n], i) /\ Fine(f[n], i)
                BY <4>1, <4>2, <4>3, <4>4
            <4> QED BY <3>1, <4>5
        <3> QED BY <3>2, <3>3
    <2>3. N \in Q
        <3> HIDE DEF Q
        <3>1. \A n \in 0 .. N : n \in Q
            BY <1>3, <2>1, <2>2, Induction
        <3> QED BY <1>3, <3>1
    <2> QED BY <1>2, <2>3
<1> QED BY <1>5, <1>9

\* CardPlacement of a document with one block per call.
LEMMA PlacementHolds == ASSUME ToolDoc(doc) PROVE CardPlacement
<1>1. OneBlockPerTool
    <2> SUFFICES ASSUME NEW t \in Tool PROVE Cardinality(ToolPlaces(doc, t)) <= 1
        BY DEF OneBlockPerTool
    <2>1. CASE ToolPlaces(doc, t) = {}
        BY <2>1, FS_EmptySet
    <2>2. CASE ToolPlaces(doc, t) # {}
        <3>1. PICK p : ToolPlaces(doc, t) = {p}
            BY <2>2, SoleBlock DEF ToolDoc
        <3>2. Cardinality({p}) = 1
            BY FS_Singleton
        <3> QED BY <3>1, <3>2
    <2> QED BY <2>1, <2>2
<1>2. PlaceholderHasReason
    BY DEF ToolDoc, Reasons, Stub, PlaceholderHasReason, ToolPlaces
<1>3. OneCardPerBlock /\ ShownOnItsCall
    <2>1. PICK placed : placed = Placement(doc)
        OBVIOUS
    <2>2. \A i, j \in DOMAIN placed :
                i # j /\ placed[i][2] = placed[j][2] => placed[i][2] = Standalone
        BY <2>1, CardsPlaced
    <2>3. \A i \in DOMAIN placed :
                OnItsBlock(placed, i) \/ Homeless(placed, i) \/ Displaced(placed, i)
        BY <2>1, CardsPlaced DEF OnItsBlock, Homeless, Displaced
    <2> QED BY <2>1, <2>2, <2>3 DEF OneCardPerBlock, ShownOnItsCall
<1> QED BY <1>1, <1>2, <1>3 DEF CardPlacement

-----------------------------------------------------------------------------
\* The steps of the session keep the document in order, and the steps of the
\* cards tell nothing in the flow.
LEMMA WireIsEvent ==
    ASSUME heard' \in Seq(Wire), NEW events \in Seq(WireEvents)
    PROVE  Len(events) \in Nat /\ \A k \in 1 .. Len(events) : IsEvent(events[k])
<1>1. ASSUME NEW i \in DOMAIN heard' PROVE IsEvent(Event(i))
    <2>1. heard'[i].kind \in {"user_message_chunk", "agent_message", "thought", "tool_call",
                "tool_call_update", "compaction_update", "compaction_summary_chunk"}
        BY StreamAssumption
    <2>2. i \in Nat /\ <<i>> \in Seq(Nat) /\ <<i>> # <<>>
        OBVIOUS
    <2> QED BY <2>1, <2>2 DEF Event, IsEvent, EventKinds, MessageEvents
<1> QED BY <1>1 DEF WireEvents

\* Untold, step by step.
LEMMA UntoldTrans ==
    ASSUME NEW a, NEW b, NEW c, Untold(a, b), Untold(b, c) PROVE Untold(a, c)
BY DEF Untold, Same

\* The answer of some cards keeps the document and tells nothing.
LEMMA ToolAnswered ==
    ASSUME NEW d, ToolDoc(d), Untold(doc, d), NEW cards, NEW n, Answer(cards, d, n)
    PROVE  ToolDoc(doc') /\ Untold(doc, doc') /\ Untold(d, doc')
<1>1. doc' = d \/ doc' = SetStatus(d, Converged(waiter', n))
    BY DEF Answer
<1>2. Converged(waiter', n) \in Statuses
    BY DEF Converged, Statuses
<1>3. Untold(d, d)
    BY DEF Untold, Same
<1> QED BY <1>1, <1>2, <1>3, ToolDocStatus, UntoldTrans

\* handlePermissionRequest keeps the document.
LEMMA ToolAskPermission ==
    ASSUME CardsInv, ToolDoc(doc), NEW t \in Tool, NEW offer \in Offer, AskPermission(t, offer)
    PROVE  ToolDoc(doc') /\ Untold(doc, doc')
<1>1. PICK auto, requested, before :
        /\ auto = AutoAnswer(t, offer)
        /\ before = Superseded(t)
        /\ requested = RequestPermission(before, t)
    OBVIOUS
<1>2. ToolDoc(before) /\ Untold(doc, before)
    <2>1. Cancelled \in Response /\ ToolWillNotRun(Cancelled)
        BY DEF Cancelled, Response, Outcomes, ToolWillNotRun
    <2>2. before = doc \/ before = ResolvePermissions(doc, {t}, Cancelled)
        BY <1>1 DEF Superseded, ResolvePermission
    <2>3. Untold(doc, doc)
        BY DEF Untold, Same
    <2> QED BY <2>1, <2>2, <2>3, ToolDocResolved
<1>3. ToolDoc(requested) /\ Untold(doc, requested)
    <2>1. ToolDoc(requested) /\ Untold(before, requested)
        BY <1>1, <1>2, ToolDocRequested
    <2> QED BY <1>2, <2>1, UntoldTrans
<1>4. Converged(waiter', turn) \in Statuses /\ Converged([waiter EXCEPT ![t] = 0], turn) \in Statuses
      /\ doc.status \in Statuses
    BY DEF Converged, Statuses, ToolDoc, CardDoc
<1>5. CASE auto # NoResponse
    <2>1. auto \in Response
        BY <1>1, AutoAnswerTyped
    <2>2. ToolWillNotRun(auto) \/ auto.kind \in Approvals
        <3>1. memory[ActionOf[t]] \in {"none", "allow_always", "reject_always"}
            BY StreamAssumption DEF CardsInv
        <3>2. "none" \notin offer
            BY StreamAssumption DEF Approvals, Refusals
        <3> QED BY <1>1, <1>5, <3>1, <3>2 DEF AutoAnswer, ToolWillNotRun, Approvals
    <2>3. PICK d : d = ResolvePermission(requested, t, auto)
        OBVIOUS
    <2>4. ToolDoc(d) /\ Untold(requested, d)
        BY <1>3, <2>1, <2>2, <2>3, ToolDocResolved DEF ResolvePermission
    <2>5. \E s \in Statuses : doc' = SetStatus(d, s)
        <3>1. PICK s : s = IF waiter[t] # 0 THEN Converged([waiter EXCEPT ![t] = 0], turn) ELSE doc.status
            OBVIOUS
        <3>2. doc' = SetStatus(d, s)
            BY <1>1, <1>5, <2>3, <3>1 DEF AskPermission
        <3> QED BY <1>4, <3>1, <3>2
    <2>6. ToolDoc(doc') /\ Untold(d, doc')
        BY <2>4, <2>5, ToolDocStatus
    <2> QED BY <1>3, <2>4, <2>6, UntoldTrans
<1>6. CASE auto = NoResponse
    <2>1. doc' = SetStatus(requested, Converged(waiter', turn))
        BY <1>1, <1>6 DEF AskPermission
    <2>2. ToolDoc(doc') /\ Untold(requested, doc')
        BY <1>3, <1>4, <2>1, ToolDocStatus
    <2> QED BY <1>3, <2>2, UntoldTrans
<1> QED BY <1>5, <1>6

\* resolvePermission keeps the document: what the user picks approves or refuses.
LEMMA ToolPick ==
    ASSUME CardsInv, ToolDoc(doc), NEW t \in Tool, NEW kind \in offered[t], PickPermission(t, kind)
    PROVE  ToolDoc(doc') /\ Untold(doc, doc')
<1>1. PICK response : response = [outcome |-> "selected", kind |-> kind]
    OBVIOUS
<1>2. kind \in Approvals \cup Refusals
    BY DEF CardsInv
<1>3. response \in Response /\ (ToolWillNotRun(response) \/ response.kind \in Approvals)
    BY <1>1, <1>2 DEF Response, Outcomes, ToolWillNotRun
<1>4. PICK d : d = ResolvePermission(doc, t, response)
    OBVIOUS
<1>5. ToolDoc(d) /\ Untold(doc, d)
    BY <1>3, <1>4, ToolDocResolved DEF ResolvePermission
<1>6. Answer({t}, d, turn)
    BY <1>1, <1>4 DEF PickPermission
<1> QED BY <1>5, <1>6, ToolAnswered

\* Elicitations keep the document.
LEMMA ToolElicitations ==
    ASSUME ToolDoc(doc), NEW e,
           AskElicitation(e) \/ AnswerElicitation(e) \/ OpenUrl(e) \/ CompleteUrl(e)
    PROVE  ToolDoc(doc') /\ Untold(doc, doc')
<1>1. CASE AskElicitation(e)
    <2>1. PICK d : d = RequestElicitation(doc, e)
        OBVIOUS
    <2>2. ToolDoc(d) /\ Untold(doc, d)
        BY <2>1, ToolDocMoved DEF RequestElicitation
    <2>3. Converged(waiter', turn) \in Statuses
        BY DEF Converged, Statuses
    <2>4. doc' = doc \/ doc' = SetStatus(d, Converged(waiter', turn))
        BY <1>1, <2>1 DEF AskElicitation, DeclineRepeat, ShowElicitation
    <2>5. Untold(doc, doc)
        BY DEF Untold, Same
    <2> QED BY <2>2, <2>3, <2>4, <2>5, ToolDocStatus, UntoldTrans
<1>2. CASE AnswerElicitation(e)
    <2>1. PICK d : d = ResolveElicitations(doc, {e}, "answered")
        OBVIOUS
    <2>2. ToolDoc(d) /\ Untold(doc, d)
        BY <2>1, ToolDocMoved DEF ResolveElicitations
    <2> QED BY <1>2, <2>1, <2>2, ToolAnswered DEF AnswerElicitation
<1>3. CASE OpenUrl(e)
    <2>1. PICK d : d = OpenElicitationUrl(doc, e)
        OBVIOUS
    <2>2. ToolDoc(d) /\ Untold(doc, d)
        BY <2>1, ToolDocMoved DEF OpenElicitationUrl
    <2> QED BY <1>3, <2>1, <2>2, ToolAnswered DEF OpenUrl
<1>4. CASE CompleteUrl(e)
    <2>1. PICK d : d = CompleteElicitationUrl(doc, e)
        OBVIOUS
    <2>2. ToolDoc(d) /\ Untold(doc, d)
        BY <2>1, ToolDocMoved DEF CompleteElicitationUrl
    <2> QED BY <1>4, <2>1, <2>2, ToolAnswered DEF CompleteUrl, CompleteCard
<1> QED BY <1>1, <1>2, <1>3, <1>4

\* Abort, Stop and the end of the connection keep the document.
LEMMA ToolCancels ==
    ASSUME ToolDoc(doc), (\E c, n : Abort(c, n)) \/ Cancel \/ Disconnect \/ SendRejected
    PROVE  ToolDoc(doc') /\ Untold(doc, doc')
<1>1. Untold(doc, doc)
    BY DEF Untold, Same
<1>2. ASSUME NEW cards, NEW n, Answer(cards, CancelCards(doc, cards), n)
      PROVE  ToolDoc(doc') /\ Untold(doc, doc')
    BY <1>2, ToolDocCancelled, ToolAnswered
<1>3. CASE SendRejected
    BY <1>3, ToolDocStatus DEF SendRejected, Settle, Statuses
<1>4. ASSUME NEW c, NEW n, Abort(c, n) PROVE ToolDoc(doc') /\ Untold(doc, doc')
    BY <1>1, <1>2, <1>4 DEF Abort
<1> QED BY <1>2, <1>3, <1>4 DEF Cancel, Disconnect

\* The end of a turn: what was held back is told, and nothing else.
LEMMA ToolTurnOver ==
    ASSUME StreamType, CardsInv, ToolDoc(doc), (\E r : TurnEnds(r)) \/ TurnFails
    PROVE  \E d, e : /\ ToolDoc(d) /\ Untold(doc, d)
                     /\ ToolDoc(e) /\ e = ApplyAll(d, Flushed)
                     /\ ToolDoc(doc') /\ Untold(e, doc')
<1>1. Flushed \in Seq(WireEvents) /\ heard' \in Seq(Wire) /\ heard' = heard
    <2>1. heard' = heard
        BY DEF TurnEnds, TurnFails
    <2>2. heard' \in Seq(Wire) /\ echo.buffered \in Seq(DOMAIN heard')
        BY <2>1 DEF StreamType, EchoType
    <2> QED BY <2>1, <2>2, EventsOfWire DEF Flushed
<1>2. ASSUME NEW d, ToolDoc(d) PROVE ToolDoc(ApplyAll(d, Flushed))
    BY <1>1, <1>2, WireIsEvent, ToolDocEvents
<1>3. Untold(doc, doc) /\ "idle" \in Statuses
    BY DEF Untold, Same, Statuses
<1>4. ASSUME NEW stopReason, TurnEnds(stopReason)
      PROVE  \E d, e : /\ ToolDoc(d) /\ Untold(doc, d)
                       /\ ToolDoc(e) /\ e = ApplyAll(d, Flushed)
                       /\ ToolDoc(doc') /\ Untold(e, doc')
    <2>1. PICK u : u = [kind |-> "turn_notice"]
        OBVIOUS
    <2>2. PICK d : d = IF stopReason = "end_turn" THEN doc ELSE ApplyUpdate(doc, u)
        OBVIOUS
    <2>3. ToolDoc(d) /\ Untold(doc, d)
        <3>1. IsEvent(u) /\ Touched(u) = {"turn_notice"}
            BY <2>1 DEF IsEvent, EventKinds, MessageEvents, Touched
        <3>2. ToolDoc(ApplyUpdate(doc, u))
            BY <3>1, ToolDocEvent
        <3>3. Same(doc, ApplyUpdate(doc, u), NoticeKinds)
            <4>1. NoticeKinds \cap Touched(u) = {} /\ FlowDoc(doc)
                BY <3>1 DEF NoticeKinds, MessageKinds, ToolDoc
            <4> QED BY <3>1, <4>1, EventFlow
        <3>4. ApplyUpdate(doc, u).compactions = doc.compactions
            BY <2>1 DEF ApplyUpdate, AppendBlock, ToolDoc, CardDoc, Doc
        <3> QED BY <1>3, <2>2, <3>2, <3>3, <3>4 DEF Untold
    <2>4. PICK e : e = ApplyAll(d, Flushed)
        OBVIOUS
    <2>5. doc' = SetStatus(e, "idle")
        BY <1>4, <2>1, <2>2, <2>4 DEF TurnEnds, Settle
    <2> QED BY <1>2, <1>3, <2>3, <2>4, <2>5, ToolDocStatus
<1>5. CASE TurnFails
    <2>1. PICK d : d = CancelCards(doc, Waiting)
        OBVIOUS
    <2>2. ToolDoc(d) /\ Untold(doc, d)
        BY <2>1, ToolDocCancelled
    <2>3. PICK e : e = ApplyAll(d, Flushed)
        OBVIOUS
    <2>4. PICK x : x = SetStatus(e, "idle")
        OBVIOUS
    <2>5. ToolDoc(e) /\ ToolDoc(x) /\ Untold(e, x)
        BY <1>2, <1>3, <2>2, <2>3, <2>4, ToolDocStatus
    <2>6. Answer(Waiting, x, 0)
        BY <1>5, <2>1, <2>3, <2>4 DEF TurnFails, Settle
    <2>7. doc' = x \/ (Converged(waiter', 0) \in Statuses /\ doc' = SetStatus(x, Converged(waiter', 0)))
        BY <2>6 DEF Answer, Converged, Statuses
    <2>8. ToolDoc(doc') /\ Untold(e, doc')
        BY <2>5, <2>7, ToolDocStatus, UntoldTrans
    <2> QED BY <2>2, <2>3, <2>5, <2>8
<1> QED BY <1>4, <1>5

\* handleUpdate keeps the document.
LEMMA ToolHear ==
    ASSUME StreamType, ToolDoc(doc), NEW n \in Wire, Hear(n) PROVE ToolDoc(doc')
<1> DEFINE i == Len(heard) + 1
           buffered == Append(echo.buffered, i)
<1>1. /\ heard' \in Seq(Wire) /\ DOMAIN heard' = 1 .. Len(heard) + 1 /\ Len(heard) \in Nat
      /\ echo.buffered \in Seq(DOMAIN heard') /\ buffered \in Seq(DOMAIN heard')
    BY EchoHeard
<1>2. InOrder(i) \in Seq(WireEvents) /\ Events(buffered) \in Seq(WireEvents)
    <2>1. Flushed \in Seq(WireEvents) /\ Events(buffered) \in Seq(WireEvents)
        BY <1>1, EventsOfWire DEF Flushed
    <2>2. Event(i) \in WireEvents
        BY <1>1 DEF WireEvents
    <2> QED BY <2>1, <2>2 DEF InOrder
<1>3. ToolDoc(ApplyAll(doc, InOrder(i))) /\ ToolDoc(ApplyAll(doc, Events(buffered)))
    BY <1>1, <1>2, WireIsEvent, ToolDocEvents
<1>4. ASSUME NEW id
      PROVE  ToolDoc(ApplyUpdate(doc, [kind |-> "user_message_confirmed", id |-> id, raws |-> buffered]))
    <2>1. buffered \in Seq(Nat)
        BY <1>1
    <2> HIDE DEF buffered
    <2>2. IsEvent([kind |-> "user_message_confirmed", id |-> id, raws |-> buffered])
        BY <2>1 DEF IsEvent, EventKinds, MessageEvents
    <2> QED BY <2>2, ToolDocEvent
<1>5. PassThrough(i) => ToolDoc(doc')
    BY <1>3 DEF PassThrough
<1>6. Reconcile(i) => ToolDoc(doc')
    BY <1>3, <1>4 DEF Reconcile
<1> QED BY <1>5, <1>6 DEF Hear

\* send() keeps the document.
LEMMA ToolSend ==
    ASSUME ToolDoc(doc), NEW content \in Prompt, Send(content)
    PROVE  ToolDoc(doc')
<1>1. IsEvent(Optimistic(content))
    BY DEF Optimistic, IsEvent, EventKinds, MessageEvents
<1>2. ToolDoc(ApplyUpdate(doc, Optimistic(content)))
    BY <1>1, ToolDocEvent
<1> QED BY <1>2, ToolDocStatus DEF Send, Statuses

\* The empty session.
LEMMA ToolInit == Init => ToolDoc(doc)
<1> SUFFICES ASSUME Init PROVE ToolDoc(doc)
    OBVIOUS
<1>1. CardDoc(doc)
    BY InitCards DEF CardsInv
<1>2. doc.turns = <<>> /\ doc.requested = <<>>
      /\ \A t \in Tool : doc.permissions[t].status = "none"
    BY DEF Init, emptySession
<1>3. Places(doc) = {}
    BY <1>2 DEF Places
<1>4. IsFlow(doc.turns)
    BY <1>2 DEF IsFlow
<1>5. FlowDoc(doc) /\ OneBlock(doc) /\ Reasons(doc)
    BY <1>1, <1>3, <1>4 DEF FlowDoc, OneBlock, Reasons, Stub, CardDoc
<1>6. Requests(doc)
    BY <1>2 DEF Requests
<1> QED BY <1>1, <1>5, <1>6 DEF ToolDoc

\* Every step keeps the document.
LEMMA ToolStep ==
    ASSUME StreamType, CardsInv, ToolDoc(doc), [Next]_vars PROVE ToolDoc(doc')
<1>1. CASE UNCHANGED vars
    BY <1>1 DEF vars
<1>2. ASSUME NEW r, TurnEnds(r) PROVE ToolDoc(doc')
    BY <1>2, ToolTurnOver
<1>3. CASE TurnFails
    BY <1>3, ToolTurnOver
<1>4. ASSUME NEW c, NEW n, Abort(c, n) PROVE ToolDoc(doc')
    BY <1>4, ToolCancels
<1> QED BY <1>1, <1>2, <1>3, <1>4, ToolAskPermission, ToolPick, ToolElicitations, ToolCancels, ToolHear,
           ToolSend
        DEF Next, User, Agent, Ask

PlacesInv == ToolDoc(doc)

\* The document is kept in every reachable state.
LEMMA PlacesHold == Spec => []PlacesInv
<1>1. Init => PlacesInv
    BY ToolInit DEF PlacesInv
<1>2. StreamType /\ CardsInv /\ PlacesInv /\ [Next]_vars => PlacesInv'
    BY ToolStep DEF PlacesInv
<1> QED BY <1>1, <1>2, StreamTypeHolds, CardsHold, PTL DEF Spec

\* CardPlacement, for every set of calls, requests and events: the reducer and
\* projectMessageStream put a permission on its own call's block, unless an earlier
\* one without a block has displaced it.
THEOREM EveryCardHasItsPlace == Spec => []CardPlacement
<1>1. PlacesInv => CardPlacement
    BY PlacementHolds DEF PlacesInv
<1> QED BY <1>1, PlacesHold, PTL

-----------------------------------------------------------------------------
\* The notices of a compaction's end.
NoticesIn(d, c) ==
    {p \in Places(d) : At(d, p).kind = "compaction_notice" /\ At(d, p).id = c}
Ended == {"completed", "failed"}
Alike(s, t) == s = t \/ (s \notin Ended /\ t \notin Ended)
IsTable(f) == f = [c \in Compaction |-> f[c]]

\* No notice was added, and no compaction ended.
Unnoticed(d, e) ==
    /\ Same(d, e, {"compaction_notice"})
    /\ IsTable(d.compactions) => IsTable(e.compactions)
    /\ IsTable(d.compactions) => \A c \in Compaction :
            Alike(d.compactions[c].status, e.compactions[c].status)

\* Unnoticed, step by step.
LEMMA UnnoticedTrans ==
    ASSUME NEW a, NEW b, NEW c, Unnoticed(a, b), Unnoticed(b, c) PROVE Unnoticed(a, c)
BY DEF Unnoticed, Same, Alike

\* What tells nothing gives no notice.
LEMMA UntoldUnnoticed == ASSUME NEW d, NEW e, Untold(d, e) PROVE Unnoticed(d, e)
BY DEF Untold, Unnoticed, Same, Alike, NoticeKinds

\* An event of another kind moves only turns.
LEMMA EventTurns ==
    ASSUME NEW d, Doc(d), NEW u,
           u.kind \in MessageEvents \cup {"tool_call", "tool_call_update", "turn_notice"}
    PROVE  ApplyUpdate(d, u).compactions = d.compactions
<1>1. ASSUME NEW t PROVE [d EXCEPT !.turns = t].compactions = d.compactions
    BY DEF Doc
<1>2. ASSUME NEW b, NEW n PROVE AppendBlock(d, b, n).compactions = d.compactions
    BY <1>1 DEF AppendBlock
<1>3. ASSUME NEW b PROVE ReplaceLastBlock(d, b).compactions = d.compactions
    BY <1>1 DEF ReplaceLastBlock
<1>4. CASE u.kind = "user_message"
    BY <1>2, <1>3, <1>4 DEF ApplyUpdate, AppendUserMessage
<1>5. CASE u.kind = "user_message_confirmed"
    BY <1>3, <1>5 DEF ApplyUpdate, ConfirmUserMessage
<1>6. CASE u.kind \in {"agent_message", "thought"}
    BY <1>2, <1>3, <1>6 DEF ApplyUpdate, AppendChunk
<1>7. CASE u.kind = "tool_call"
    BY <1>1, <1>2, <1>7 DEF ApplyUpdate, UpsertToolCall, ReplaceTools
<1>8. CASE u.kind = "tool_call_update"
    BY <1>1, <1>8 DEF ApplyUpdate, PatchToolCall, ReplaceTools
<1>9. CASE u.kind = "unsupported"
    BY <1>2, <1>9 DEF ApplyUpdate
<1>10. CASE u.kind = "turn_notice"
    BY <1>2, <1>10 DEF ApplyUpdate
<1> QED BY <1>4, <1>5, <1>6, <1>7, <1>8, <1>9, <1>10 DEF MessageEvents

\* Nor does any event but an update end a compaction.
LEMMA EventUnnoticed ==
    ASSUME NEW d, FlowDoc(d), NEW u, IsEvent(u), u.kind # "compaction_update",
           NEW e, e = ApplyUpdate(d, u)
    PROVE  Unnoticed(d, e)
<1>1. Doc(d) /\ u.kind \in EventKinds
    BY DEF FlowDoc, IsEvent
<1>2. Same(d, e, {"compaction_notice"})
    <2>1. {"compaction_notice"} \cap Touched(u) = {}
        BY <1>1 DEF Touched, MessageKinds
    <2> QED BY <2>1, EventFlow
<1>3. CASE u.kind # "compaction_summary_chunk"
    <2>1. e.compactions = d.compactions
        BY <1>1, <1>3, EventTurns DEF EventKinds, MessageEvents
    <2> QED BY <1>2, <2>1 DEF Unnoticed, Alike
<1>4. CASE u.kind = "compaction_summary_chunk"
    <2>1. e = AppendSummary(d, u)
        BY <1>4 DEF ApplyUpdate
    <2> DEFINE k == u.compaction
               new == [status |-> IF d.compactions[k].status = "none" THEN "in_progress"
                                  ELSE d.compactions[k].status,
                       summary |-> d.compactions[k].summary \o u.raws]
    <2>2. e.compactions = [d.compactions EXCEPT ![k] = new]
        BY <1>1, <2>1 DEF AppendSummary, Doc
    <2>3. Alike(d.compactions[k].status, new.status)
        BY DEF Alike, Ended
    <2> HIDE DEF new
    <2>4. ASSUME IsTable(d.compactions)
          PROVE  /\ IsTable(e.compactions)
                 /\ \A c \in Compaction : e.compactions[c] = IF c = k THEN new ELSE d.compactions[c]
        BY <2>2, <2>4 DEF IsTable
    <2>5. \A c : Alike(d.compactions[c].status, d.compactions[c].status)
        BY DEF Alike
    <2> QED BY <1>2, <2>3, <2>4, <2>5 DEF Unnoticed
<1> QED BY <1>3, <1>4

\* Events without an update of a compaction give no notice, by induction.
LEMMA EventsUnnoticed ==
    ASSUME NEW d, FlowDoc(d), NEW events, Len(events) \in Nat,
           \A i \in 1 .. Len(events) : IsEvent(events[i]) /\ events[i].kind # "compaction_update"
    PROVE  Unnoticed(d, ApplyAll(d, events))
<1>1. PICK f : /\ f[0] = d /\ ApplyAll(d, events) = f[Len(events)]
               /\ \A i \in 1 .. Len(events) : f[i] = ApplyUpdate(f[i - 1], events[i])
    BY ApplyAllSteps
<1> DEFINE N == Len(events)
           P == {n \in 0 .. N : FlowDoc(f[n]) /\ Unnoticed(d, f[n])}
<1>2. 0 \in P
    <2>1. Unnoticed(d, d)
        BY DEF Unnoticed, Same, Alike
    <2> QED BY <1>1, <2>1
<1>3. ASSUME NEW n \in 1 .. N, n - 1 \in P PROVE n \in P
    <2>1. FlowDoc(f[n - 1]) /\ Unnoticed(d, f[n - 1]) /\ n \in 0 .. N
          /\ f[n] = ApplyUpdate(f[n - 1], events[n])
        BY <1>1, <1>3
    <2>2. FlowDoc(f[n])
        BY <2>1, EventFlow
    <2>3. Unnoticed(f[n - 1], f[n])
        BY <2>1, EventUnnoticed
    <2> QED BY <2>1, <2>2, <2>3, UnnoticedTrans
<1>4. N \in P
    <2> HIDE DEF P
    <2>1. \A n \in 0 .. N : n \in P
        BY <1>2, <1>3, Induction
    <2> QED BY <2>1
<1> QED BY <1>1, <1>4

\* The last of some events is folded last.
LEMMA ApplyLast ==
    ASSUME NEW d, NEW S, NEW events \in Seq(S), NEW u \in S
    PROVE  ApplyAll(d, events \o <<u>>) = ApplyUpdate(ApplyAll(d, events), u)
<1> DEFINE all == events \o <<u>>
           N == Len(events)
<1>1. /\ N \in Nat /\ Len(all) = N + 1 /\ all[N + 1] = u
      /\ \A i \in 1 .. N : all[i] = events[i]
    OBVIOUS
<1> HIDE DEF all, N
<1>2. PICK f : /\ f[0] = d /\ ApplyAll(d, all) = f[N + 1]
               /\ \A i \in 1 .. N + 1 : f[i] = ApplyUpdate(f[i - 1], all[i])
    <2>1. Len(all) \in Nat
        BY <1>1
    <2>2. PICK f : /\ f[0] = d /\ ApplyAll(d, all) = f[Len(all)]
                   /\ \A i \in 1 .. Len(all) : f[i] = ApplyUpdate(f[i - 1], all[i])
        BY <2>1, ApplyAllSteps
    <2> QED BY <1>1, <2>2
<1>3. PICK g : /\ g[0] = d /\ ApplyAll(d, events) = g[N]
               /\ \A i \in 1 .. N : g[i] = ApplyUpdate(g[i - 1], events[i])
    BY SMTT(30), <1>1, ApplyAllSteps DEF N
<1>4. Follows(g, f, N)
    BY <1>1, <1>2, <1>3 DEF Follows
<1>5. g[N] = f[N]
    BY <1>4, RecursionIsUnique
<1>6. f[N + 1] = ApplyUpdate(f[N], u)
    <2>1. N + 1 \in 1 .. N + 1 /\ (N + 1) - 1 = N
        BY <1>1
    <2> QED BY <1>1, <1>2, <2>1
<1> QED BY <1>2, <1>3, <1>5, <1>6 DEF all

\* As many notices as ends, and a status that is the one last heard.
Latest(c) ==
    \/ UpdatesOf(c) = {} /\ doc.compactions[c].status \notin Ended
    \/ \E j \in UpdatesOf(c) : /\ \A k \in UpdatesOf(c) : k <= j
                               /\ Alike(doc.compactions[c].status, heard[j].status)
HeldEchoes == \A k \in DOMAIN echo.buffered : heard[echo.buffered[k]].kind = "user_message_chunk"
NoticesInv ==
    /\ IsTable(doc.compactions)
    /\ HeldEchoes
    /\ \A c \in Compaction :
        /\ IsFiniteSet(NoticesOf(c)) /\ Cardinality(NoticesOf(c)) = Cardinality(EndsOf(c))
        /\ Latest(c)

\* A step without an update.
LEMMA NothingEnds ==
    ASSUME NoticesInv, Unnoticed(doc, doc'), NEW c \in Compaction,
           UpdatesOf(c)' = UpdatesOf(c), \A i \in DOMAIN heard : heard'[i] = heard[i]
    PROVE  /\ IsTable(doc.compactions)'
           /\ (IsFiniteSet(NoticesOf(c)) /\ Cardinality(NoticesOf(c)) = Cardinality(EndsOf(c)))'
           /\ Latest(c)'
<1>1. NoticesOf(c)' = NoticesOf(c)
    <2>1. NoticesOf(c) = NoticesIn(doc, c) /\ NoticesOf(c)' = NoticesIn(doc', c)
        BY DEF NoticesOf, NoticesIn
    <2>2. NoticesIn(doc', c) = NoticesIn(doc, c)
        BY DEF NoticesIn, Unnoticed, Same
    <2> QED BY <2>1, <2>2
<1>2. \A i \in UpdatesOf(c) : i \in DOMAIN heard /\ heard'[i] = heard[i]
    BY DEF UpdatesOf
<1>3. EndsOf(c)' = EndsOf(c)
    BY <1>2 DEF EndsOf
<1>4. Latest(c)'
    <2>1. Alike(doc.compactions[c].status, doc'.compactions[c].status)
        BY DEF NoticesInv, Unnoticed
    <2>2. Latest(c)
        BY DEF NoticesInv
    <2>3. CASE UpdatesOf(c) = {} /\ doc.compactions[c].status \notin Ended
        <3>1. doc'.compactions[c].status \notin Ended
            BY <2>1, <2>3 DEF Alike
        <3> QED BY <2>3, <3>1 DEF Latest
    <2>4. ASSUME NEW j \in UpdatesOf(c), \A k \in UpdatesOf(c) : k <= j,
                 Alike(doc.compactions[c].status, heard[j].status)
          PROVE  Latest(c)'
        <3>1. Alike(doc'.compactions[c].status, heard'[j].status)
            BY <1>2, <2>1, <2>4 DEF Alike
        <3> QED BY <2>4, <3>1 DEF Latest
    <2> QED BY <2>2, <2>3, <2>4 DEF Latest
<1>5. IsTable(doc.compactions)'
    BY DEF NoticesInv, Unnoticed
<1>6. (IsFiniteSet(NoticesOf(c)) /\ Cardinality(NoticesOf(c)) = Cardinality(EndsOf(c)))'
    BY <1>1, <1>3 DEF NoticesInv
<1> QED BY <1>4, <1>5, <1>6

\* An update that was heard: it ends the compaction exactly when its notice is due.
LEMMA UpdateEnds ==
    ASSUME StreamType, NoticesInv, NEW n \in Wire, n.kind = "compaction_update", heard' = Append(heard, n),
           NEW m, FlowDoc(m), Unnoticed(doc, m), NEW u, u.kind = "compaction_update",
           u.compaction = n.compaction, u.status = n.status, doc' = ApplyUpdate(m, u),
           NEW c \in Compaction
    PROVE  /\ IsTable(doc.compactions)'
           /\ (IsFiniteSet(NoticesOf(c)) /\ Cardinality(NoticesOf(c)) = Cardinality(EndsOf(c)))'
           /\ Latest(c)'
<1> DEFINE i == Len(heard) + 1
           x == n.compaction
           entry == [status |-> u.status,
                     summary |-> IF u.replaces THEN u.summary ELSE m.compactions[x].summary]
           patched == [m EXCEPT !.compactions = [m.compactions EXCEPT ![x] = entry]]
           b == [kind |-> "compaction_notice", id |-> x, outcome |-> n.status]
           due == NoticeDue(m.compactions[x].status, n.status)
<1>1. /\ Len(heard) \in Nat /\ i \in Nat /\ heard'[i] = n /\ DOMAIN heard' = 1 .. i
      /\ DOMAIN heard = 1 .. Len(heard) /\ \A k \in DOMAIN heard : heard'[k] = heard[k] /\ k < i
    BY DEF StreamType
<1>2. doc' = IF due THEN AppendBlock(patched, b, FALSE) ELSE patched
    <2>1. doc' = PatchCompaction(m, u)
        BY DEF ApplyUpdate
    <2> QED BY <2>1 DEF PatchCompaction
<1>3. Doc(m) /\ IsTable(m.compactions) /\ x \in Compaction
    <2>1. x \in Compaction
        BY StreamAssumption
    <2> QED BY <2>1 DEF FlowDoc, NoticesInv, Unnoticed
<1>4. /\ Doc(patched) /\ patched.turns = m.turns
      /\ patched.compactions = [m.compactions EXCEPT ![x] = entry]
    <2> HIDE DEF entry
    <2> QED BY <1>3 DEF Doc
<1>5. entry.status = n.status /\ b.kind = "compaction_notice" /\ b.id = x /\ IsBlock(b)
    BY DEF IsBlock
<1>6. /\ IsTable(patched.compactions)
      /\ patched.compactions[x].status = n.status
      /\ \A k \in Compaction : k # x => patched.compactions[k] = m.compactions[k]
    <2> HIDE DEF entry, patched
    <2> QED BY <1>3, <1>4, <1>5 DEF IsTable
<1> HIDE DEF patched, entry, b, i
<1>7. /\ FlowDoc(patched) /\ Places(patched) = Places(m) /\ \A p : At(patched, p) = At(m, p)
    BY <1>4, SameTurns
<1>8. /\ doc'.compactions = patched.compactions
      /\ \A k : NoticesIn(doc', k) = NoticesIn(m, k) \/ (k = x /\ due)
      /\ due => \E p : p \notin NoticesIn(m, x) /\ NoticesIn(doc', x) = NoticesIn(m, x) \cup {p}
    <2>1. CASE ~due
        BY <1>2, <1>7, <2>1 DEF NoticesIn
    <2>2. CASE due
        <3>1. doc' = AppendBlock(patched, b, FALSE)
            BY <1>2, <2>2
        <3>2. doc'.compactions = patched.compactions
            BY <1>4, <3>1 DEF AppendBlock, Doc
        <3>3. Adds(patched, doc', b)
            BY <1>7, <3>1, BlockAdded DEF FlowDoc
        <3>4. PICK p : /\ p \notin Places(m) /\ Places(doc') = Places(m) \cup {p} /\ At(doc', p) = b
                       /\ \A q \in Places(m) : At(doc', q) = At(m, q)
            BY <1>7, <3>3 DEF Adds
        <3>5. ASSUME NEW k, k # x PROVE NoticesIn(doc', k) = NoticesIn(m, k)
            BY <1>5, <3>4, <3>5 DEF NoticesIn
        <3>6. p \notin NoticesIn(m, x) /\ NoticesIn(doc', x) = NoticesIn(m, x) \cup {p}
            BY <1>5, <3>4 DEF NoticesIn
        <3> QED BY <2>2, <3>2, <3>5, <3>6
    <2> QED BY <2>1, <2>2
<1>9. /\ NoticesIn(m, c) = NoticesOf(c) /\ NoticesOf(c)' = NoticesIn(doc', c)
      /\ Alike(doc.compactions[c].status, m.compactions[c].status)
    BY DEF NoticesOf, NoticesIn, Unnoticed, Same, NoticesInv
<1>10. /\ IsFiniteSet(NoticesOf(c)) /\ Cardinality(NoticesOf(c)) = Cardinality(EndsOf(c))
       /\ Latest(c)
    BY DEF NoticesInv
<1>11. IsTable(doc.compactions)'
    BY <1>6, <1>8
<1>12. \A k \in UpdatesOf(c) : k \in DOMAIN heard /\ heard'[k] = heard[k] /\ k < i /\ k \in Nat
    BY <1>1 DEF UpdatesOf
<1>13. CASE c # x
    <2>1. UpdatesOf(c)' = UpdatesOf(c)
        BY <1>1, <1>13 DEF UpdatesOf, i
    <2>2. EndsOf(c)' = EndsOf(c)
        BY <1>12, <2>1 DEF EndsOf
    <2>3. NoticesOf(c)' = NoticesOf(c)
        BY <1>8, <1>9, <1>13
    <2>4. Alike(doc.compactions[c].status, doc'.compactions[c].status)
        BY <1>6, <1>8, <1>9, <1>13
    <2>5. ASSUME UpdatesOf(c) = {} /\ doc.compactions[c].status \notin Ended
          PROVE  Latest(c)'
        BY <2>1, <2>4, <2>5 DEF Latest, Alike
    <2>6. ASSUME NEW j \in UpdatesOf(c), \A k \in UpdatesOf(c) : k <= j,
                 Alike(doc.compactions[c].status, heard[j].status)
          PROVE  Latest(c)'
        <3>1. Alike(doc'.compactions[c].status, heard'[j].status)
            BY <1>12, <2>4, <2>6 DEF Alike
        <3> QED BY <2>1, <2>6, <3>1 DEF Latest
    <2>7. Latest(c)'
        BY <1>10, <2>5, <2>6 DEF Latest
    <2> QED BY <1>10, <1>11, <2>2, <2>3, <2>7
<1>14. CASE c = x
    <2>1. UpdatesOf(c)' = UpdatesOf(c) \cup {i} /\ i \notin UpdatesOf(c)
        <3>1. i \in UpdatesOf(c)' /\ i \notin UpdatesOf(c)
            BY <1>1, <1>14 DEF UpdatesOf, i
        <3>2. ASSUME NEW k, k # i PROVE k \in UpdatesOf(c)' <=> k \in UpdatesOf(c)
            BY <1>1, <3>2 DEF UpdatesOf, i
        <3> QED BY <3>1, <3>2
    <2>2. Latest(c)'
        <3>1. \A k \in UpdatesOf(c)' : k <= i
            BY <1>1, <1>12, <2>1
        <3>2. Alike(doc'.compactions[c].status, heard'[i].status)
            BY <1>1, <1>6, <1>8, <1>14 DEF Alike
        <3> QED BY <2>1, <3>1, <3>2 DEF Latest
    <2>3. ASSUME NEW k \in UpdatesOf(c) PROVE k \in EndsOf(c)' <=> k \in EndsOf(c)
        <3>1. ASSUME NEW j \in UpdatesOf(c), j < k
              PROVE  (\A y \in UpdatesOf(c)' : y <= j \/ y >= k) <=> (\A y \in UpdatesOf(c) : y <= j \/ y >= k)
            <4>1. i >= k
                BY <1>1, <1>12
            <4> QED BY <2>1, <4>1
        <3>2. ~(i < k)
            BY <1>1, <1>12
        <3> QED BY <1>12, <2>1, <3>1, <3>2 DEF EndsOf
    <2>4. i \in EndsOf(c)' <=> due
        <3>1. i \in EndsOf(c)' <=>
                /\ n.status \in Ended
                /\ \A j \in UpdatesOf(c) : (\A k \in UpdatesOf(c) : k <= j) => heard[j].status # n.status
            <4>1. ASSUME NEW j \in UpdatesOf(c)
                  PROVE  (\A k \in UpdatesOf(c)' : k <= j \/ k >= i) <=> \A k \in UpdatesOf(c) : k <= j
                <5>1. \A k \in UpdatesOf(c) : ~(k >= i)
                    BY <1>1, <1>12
                <5>2. i >= i
                    BY <1>1
                <5> QED BY <2>1, <5>1, <5>2
            <4>2. ~(i < i)
                BY <1>1
            <4> QED BY <1>1, <1>12, <2>1, <4>1, <4>2 DEF EndsOf, Ended
        <3>2. CASE UpdatesOf(c) = {} /\ doc.compactions[c].status \notin Ended
            BY <1>9, <1>14, <3>1, <3>2 DEF NoticeDue, Alike, Ended
        <3>3. ASSUME NEW j \in UpdatesOf(c), \A k \in UpdatesOf(c) : k <= j,
                     Alike(doc.compactions[c].status, heard[j].status)
              PROVE  i \in EndsOf(c)' <=> due
            <4>1. \A k \in UpdatesOf(c) : (\A l \in UpdatesOf(c) : l <= k) => k = j
                BY <1>12, <3>3
            <4>2. i \in EndsOf(c)' <=> n.status \in Ended /\ heard[j].status # n.status
                BY <3>1, <3>3, <4>1
            <4>3. Alike(m.compactions[c].status, heard[j].status)
                BY <1>9, <3>3 DEF Alike
            <4> QED BY <1>14, <4>2, <4>3 DEF NoticeDue, Alike, Ended
        <3> QED BY <1>10, <3>2, <3>3 DEF Latest
    <2>5. EndsOf(c)' = IF due THEN EndsOf(c) \cup {i} ELSE EndsOf(c)
        <3>1. \A k \in EndsOf(c)' : k \in UpdatesOf(c) \cup {i}
            BY <2>1 DEF EndsOf
        <3>2. \A k \in EndsOf(c) : k \in UpdatesOf(c)
            BY DEF EndsOf
        <3> DEFINE was == EndsOf(c)
                   is == EndsOf(c)'
        <3>3. /\ \A k \in is : k \in UpdatesOf(c) \cup {i}
              /\ \A k \in was : k \in UpdatesOf(c)
              /\ \A k \in UpdatesOf(c) : k \in is <=> k \in was
              /\ i \in is <=> due
              /\ i \notin was
            BY <2>1, <2>3, <2>4, <3>1, <3>2
        <3> HIDE DEF was, is, due
        <3>4. is = IF due THEN was \cup {i} ELSE was
            <4>1. CASE due
                BY <3>3, <4>1
            <4>2. CASE ~due
                <5>1. \A k : k \in is <=> k \in was
                    BY <3>3, <4>2
                <5>2. is \subseteq was /\ was \subseteq is
                    BY <5>1
                <5> QED BY <4>2, <5>2
            <4> QED BY <4>1, <4>2
        <3> QED BY <3>4 DEF was, is
    <2>6. IsFiniteSet(EndsOf(c)) /\ i \notin EndsOf(c)
        <3>1. EndsOf(c) \in SUBSET (1 .. Len(heard))
            BY <1>1 DEF EndsOf, UpdatesOf
        <3>2. IsFiniteSet(1 .. Len(heard))
            <4>1. PICK l \in Nat : l = Len(heard)
                BY <1>1
            <4>2. 1 \in Int /\ l \in Int
                BY <4>1
            <4>3. IsFiniteSet(1 .. l)
                BY <4>2, FS_Interval
            <4> QED BY <4>1, <4>3
        <3>3. i \notin EndsOf(c)
            BY <2>1 DEF EndsOf
        <3> QED BY <3>1, <3>2, <3>3, FS_Subset
    <2>7. IsFiniteSet(NoticesOf(c)') /\ Cardinality(NoticesOf(c)') = Cardinality(EndsOf(c)')
        <3>1. CASE ~due
            BY <1>8, <1>9, <1>10, <2>5, <3>1
        <3>2. CASE due
            <4>1. PICK p : p \notin NoticesOf(c) /\ NoticesOf(c)' = NoticesOf(c) \cup {p}
                BY <1>8, <1>9, <1>14, <3>2
            <4>2. IsFiniteSet(NoticesOf(c)') /\ Cardinality(NoticesOf(c)') = Cardinality(NoticesOf(c)) + 1
                BY <1>10, <4>1, FS_AddElement
            <4>3. Cardinality(EndsOf(c)') = Cardinality(EndsOf(c)) + 1
                BY <2>5, <2>6, <3>2, FS_AddElement
            <4> QED BY <1>10, <4>2, <4>3
        <3> QED BY <3>1, <3>2
    <2> QED BY <1>11, <2>2, <2>7
<1> QED BY <1>13, <1>14

\* The event of a notification is a compaction's update when the notification is.
LEMMA EventOf ==
    ASSUME heard' \in Seq(Wire), NEW i \in DOMAIN heard'
    PROVE  /\ IsEvent(Event(i))
           /\ Event(i).kind = "compaction_update" <=> heard'[i].kind = "compaction_update"
           /\ heard'[i].kind = "compaction_update" =>
                Event(i).compaction = heard'[i].compaction /\ Event(i).status = heard'[i].status
<1>1. IsEvent(Event(i))
    <2>1. <<Event(i)>> \in Seq(WireEvents) /\ Len(<<Event(i)>>) = 1 /\ <<Event(i)>>[1] = Event(i)
        BY DEF WireEvents
    <2> DEFINE one == <<Event(i)>>
    <2>2. one \in Seq(WireEvents) /\ 1 \in 1 .. Len(one) /\ one[1] = Event(i)
        BY <2>1
    <2> HIDE DEF one
    <2> QED BY <2>2, WireIsEvent
<1>2. heard'[i].kind \in {"user_message_chunk", "agent_message", "thought", "tool_call",
            "tool_call_update", "compaction_update", "compaction_summary_chunk"}
    <2>1. heard'[i] \in Wire
        OBVIOUS
    <2> QED BY <2>1, StreamAssumption
<1>3. CASE heard'[i].kind = "compaction_update"
    BY <1>1, <1>3 DEF Event
<1>4. CASE heard'[i].kind # "compaction_update"
    BY <1>1, <1>2, <1>4 DEF Event
<1> QED BY <1>3, <1>4

\* What is held back is no compaction's update, and what is told of it no notice.
LEMMA FlushedUnnoticed ==
    ASSUME StreamType, NoticesInv, heard' \in Seq(Wire),
           \A i \in DOMAIN heard : i \in DOMAIN heard' /\ heard'[i] = heard[i],
           NEW d, FlowDoc(d), NEW e, e = ApplyAll(d, Flushed)
    PROVE  FlowDoc(e) /\ Unnoticed(d, e)
<1>1. echo.buffered \in Seq(DOMAIN heard') /\ Len(echo.buffered) \in Nat
      /\ DOMAIN echo.buffered = 1 .. Len(echo.buffered)
      /\ \A k \in 1 .. Len(echo.buffered) : echo.buffered[k] \in DOMAIN heard
    BY DEF StreamType, EchoType
<1>2. Flushed \in Seq(WireEvents) /\ Len(Flushed) = Len(echo.buffered)
      /\ \A k \in 1 .. Len(Flushed) : Flushed[k] = Event(echo.buffered[k])
    BY <1>1, EventsOfWire DEF Flushed
<1>3. Len(Flushed) \in Nat /\ \A k \in 1 .. Len(Flushed) : IsEvent(Flushed[k])
    BY <1>2, WireIsEvent
<1>4. ASSUME NEW k \in 1 .. Len(Flushed) PROVE Flushed[k].kind # "compaction_update"
    <2>1. echo.buffered[k] \in DOMAIN heard /\ heard[echo.buffered[k]].kind = "user_message_chunk"
        BY <1>1, <1>2, <1>4 DEF NoticesInv, HeldEchoes
    <2>2. PICK i \in DOMAIN heard : i = echo.buffered[k]
        BY <2>1
    <2>3. i \in DOMAIN heard' /\ heard'[i].kind = "user_message_chunk"
        BY <2>1, <2>2
    <2>4. Event(i).kind # "compaction_update"
        BY <2>3, EventOf
    <2> QED BY <1>2, <1>4, <2>2, <2>4
<1>5. FlowDoc(e)
    BY <1>3, EventsFlow
<1> QED BY <1>3, <1>4, <1>5, EventsUnnoticed

\* The reconciliation holds back echoes only.
LEMMA EchoesHeld ==
    ASSUME StreamType, NoticesInv, [Next]_vars
    PROVE  HeldEchoes'
<1>1. HeldEchoes
    BY DEF NoticesInv
<1>2. ASSUME echo'.buffered = <<>> PROVE HeldEchoes'
    BY <1>2 DEF HeldEchoes
<1>3. ASSUME UNCHANGED <<echo, heard>> PROVE HeldEchoes'
    BY <1>1, <1>3 DEF HeldEchoes
<1>4. ASSUME NEW n \in Wire, Hear(n) PROVE HeldEchoes'
    <2> DEFINE i == Len(heard) + 1
    <2>1. /\ Len(heard) \in Nat /\ heard'[i] = n
          /\ \A k \in DOMAIN heard : heard'[k] = heard[k]
        BY <1>4, EchoHeard
    <2>2. echo.buffered \in Seq(DOMAIN heard)
        BY DEF StreamType, EchoType
    <2>3. CASE PassThrough(i)
        <3>1. echo' = echo \/ echo'.buffered = <<>>
            BY <2>3 DEF PassThrough, AfterFlush, ClosedEcho, StreamType, EchoType
        <3> QED BY <1>1, <1>2, <2>1, <2>2, <3>1 DEF HeldEchoes
    <2>4. CASE n.kind = "user_message_chunk" /\ Reconcile(i)
        <3>1. echo'.buffered = <<>> \/ echo'.buffered = Append(echo.buffered, i)
            BY <2>4 DEF Reconcile, ClosedEcho, StreamType, EchoType
        <3>2. CASE echo'.buffered = Append(echo.buffered, i)
            <4>1. PICK b \in Seq(DOMAIN heard) : b = echo.buffered
                BY <2>2
            <4>2. \A k \in DOMAIN Append(b, i) : IF k \in DOMAIN b THEN Append(b, i)[k] = b[k]
                                                                   ELSE Append(b, i)[k] = i
                BY <2>1
            <4>3. \A k \in DOMAIN b : b[k] \in DOMAIN heard
                OBVIOUS
            <4> QED BY <1>1, <2>1, <2>4, <3>2, <4>1, <4>2, <4>3 DEF HeldEchoes
        <3> QED BY <1>2, <3>1, <3>2
    <2> QED BY <1>4, <2>3, <2>4 DEF Hear
<1>5. ASSUME NEW content \in Prompt, Send(content) PROVE HeldEchoes'
    BY <1>2, <1>5 DEF Send
<1>6. ASSUME NEW r, TurnEnds(r) \/ TurnFails \/ Disconnect PROVE HeldEchoes'
    BY <1>2, <1>6 DEF TurnEnds, TurnFails, Disconnect, NoEcho
<1>7. CASE UNCHANGED vars
    BY <1>3, <1>7 DEF vars, turnVars
<1>8. CASE Cancel \/ SendRejected
    BY <1>3, <1>8 DEF Cancel, SendRejected, turnVars
<1>9. ASSUME NEW t, NEW offer, AskPermission(t, offer) PROVE HeldEchoes'
    BY <1>3, <1>9 DEF AskPermission, turnVars
<1>10. ASSUME NEW t, NEW kind, PickPermission(t, kind) PROVE HeldEchoes'
    BY <1>3, <1>10 DEF PickPermission, turnVars
<1>11. ASSUME NEW e, AskElicitation(e) \/ AnswerElicitation(e) \/ OpenUrl(e) \/ CompleteUrl(e)
       PROVE  HeldEchoes'
    BY <1>3, <1>11 DEF AskElicitation, AnswerElicitation, OpenUrl, CompleteUrl, turnVars
<1>12. ASSUME NEW c, NEW n, Abort(c, n) PROVE HeldEchoes'
    BY <1>3, <1>12 DEF Abort, turnVars
<1> QED BY <1>4, <1>5, <1>6, <1>7, <1>8, <1>9, <1>10, <1>11, <1>12 DEF Next, User, Agent, Ask

\* A step that hears nothing.
LEMMA NoticesQuiet ==
    ASSUME NoticesInv, HeldEchoes', Unnoticed(doc, doc'), heard' = heard PROVE NoticesInv'
<1>1. IsTable(doc.compactions)'
    BY DEF NoticesInv, Unnoticed
<1>2. ASSUME NEW c \in Compaction
      PROVE  (/\ IsFiniteSet(NoticesOf(c)) /\ Cardinality(NoticesOf(c)) = Cardinality(EndsOf(c))
              /\ Latest(c))'
    <2>1. UpdatesOf(c)' = UpdatesOf(c)
        BY DEF UpdatesOf
    <2> QED BY <2>1, NothingEnds
<1> QED BY <1>1, <1>2 DEF NoticesInv

\* handleUpdate: an update that ends a compaction is told, and nothing else is.
LEMMA NoticesHear ==
    ASSUME StreamType, ToolDoc(doc), NoticesInv, HeldEchoes', NEW n \in Wire, Hear(n)
    PROVE  NoticesInv'
<1> DEFINE i == Len(heard) + 1
           m == ApplyAll(doc, Flushed)
<1>1. /\ heard' \in Seq(Wire) /\ DOMAIN heard' = 1 .. Len(heard) + 1 /\ Len(heard) \in Nat
      /\ heard'[i] = n /\ i \in DOMAIN heard' /\ i \notin DOMAIN heard
      /\ \A k \in DOMAIN heard : k \in DOMAIN heard' /\ heard'[k] = heard[k]
      /\ DOMAIN heard = 1 .. Len(heard)
      /\ echo.buffered \in Seq(DOMAIN heard') /\ Append(echo.buffered, i) \in Seq(DOMAIN heard')
    BY EchoHeard DEF StreamType
<1>2. FlowDoc(doc) /\ FlowDoc(m) /\ Unnoticed(doc, m)
    BY <1>1, FlushedUnnoticed DEF ToolDoc
<1>3. ApplyAll(doc, InOrder(i)) = ApplyUpdate(m, Event(i))
    <2>1. Flushed \in Seq(WireEvents)
        BY <1>1, EventsOfWire DEF Flushed
    <2>2. Event(i) \in WireEvents
        BY <1>1 DEF WireEvents
    <2> QED BY <2>1, <2>2, ApplyLast DEF InOrder
<1>4. PICK u : u = Event(i)
    OBVIOUS
<1>5. /\ IsEvent(u)
      /\ u.kind = "compaction_update" <=> n.kind = "compaction_update"
      /\ n.kind = "compaction_update" => u.compaction = n.compaction /\ u.status = n.status
    BY <1>1, <1>4, EventOf
<1>6. IsTable(doc.compactions)' /\ \A c \in Compaction :
        (/\ IsFiniteSet(NoticesOf(c)) /\ Cardinality(NoticesOf(c)) = Cardinality(EndsOf(c))
         /\ Latest(c))'
    <2>1. CASE n.kind = "compaction_update"
        <3>1. doc' = ApplyUpdate(m, u)
            BY <1>3, <1>4, <2>1 DEF Hear, PassThrough
        <3>2. heard' = Append(heard, n)
            BY DEF Hear
        <3> HIDE DEF m
        <3>3. ASSUME NEW c \in Compaction
              PROVE  /\ IsTable(doc.compactions)'
                     /\ (IsFiniteSet(NoticesOf(c)) /\ Cardinality(NoticesOf(c)) = Cardinality(EndsOf(c)))'
                     /\ Latest(c)'
            BY <1>2, <1>5, <2>1, <3>1, <3>2, UpdateEnds
        <3>4. n.compaction \in Compaction
            BY <2>1, StreamAssumption
        <3> QED BY <3>3, <3>4
    <2>2. CASE n.kind # "compaction_update"
        <3>1. Unnoticed(doc, ApplyAll(doc, InOrder(i)))
            <4>1. Unnoticed(m, ApplyUpdate(m, u))
                BY <1>2, <1>5, <2>2, EventUnnoticed
            <4> QED BY <1>2, <1>3, <1>4, <4>1, UnnoticedTrans
        <3>2. ASSUME n.kind = "user_message_chunk" /\ Reconcile(i) PROVE Unnoticed(doc, doc')
            <4>1. PICK buffered \in Seq(DOMAIN heard') : buffered = Append(echo.buffered, i)
                BY <1>1
            <4>2. \A k \in DOMAIN buffered : heard'[buffered[k]].kind = "user_message_chunk"
                <5>1. echo.buffered \in Seq(DOMAIN heard)
                    BY DEF StreamType, EchoType
                <5>2. PICK b \in Seq(DOMAIN heard) : b = echo.buffered
                    BY <5>1
                <5>3. \A k \in DOMAIN Append(b, i) : IF k \in DOMAIN b THEN Append(b, i)[k] = b[k]
                                                                       ELSE Append(b, i)[k] = i
                    OBVIOUS
                <5>4. \A k \in DOMAIN b : b[k] \in DOMAIN heard
                    OBVIOUS
                <5> QED BY <1>1, <3>2, <4>1, <5>2, <5>3, <5>4 DEF NoticesInv, HeldEchoes
            <4>3. Len(Events(buffered)) \in Nat
                  /\ \A k \in 1 .. Len(Events(buffered)) :
                        IsEvent(Events(buffered)[k]) /\ Events(buffered)[k].kind # "compaction_update"
                <5>1. /\ Len(buffered) \in Nat /\ Len(Events(buffered)) = Len(buffered)
                      /\ \A k \in 1 .. Len(buffered) : Events(buffered)[k] = Event(buffered[k])
                    BY EventsOfWire
                <5>2. \A k \in 1 .. Len(buffered) : k \in DOMAIN buffered /\ buffered[k] \in DOMAIN heard'
                    OBVIOUS
                <5>3. ASSUME NEW k \in 1 .. Len(buffered)
                      PROVE  IsEvent(Event(buffered[k])) /\ Event(buffered[k]).kind # "compaction_update"
                    BY <1>1, <4>2, <5>2, EventOf
                <5> QED BY <5>1, <5>3
            <4>4. Unnoticed(doc, ApplyAll(doc, Events(buffered)))
                BY <1>2, <4>3, EventsUnnoticed
            <4>5. ASSUME NEW id PROVE Unnoticed(doc, ApplyUpdate(doc,
                        [kind |-> "user_message_confirmed", id |-> id, raws |-> buffered]))
                <5>1. buffered \in Seq(Nat)
                    BY <1>1
                <5>2. IsEvent([kind |-> "user_message_confirmed", id |-> id, raws |-> buffered])
                    BY <5>1 DEF IsEvent, EventKinds, MessageEvents
                <5> QED BY <1>2, <5>2, EventUnnoticed
            <4>6. Unnoticed(doc, doc)
                BY DEF Unnoticed, Same, Alike
            <4>7. \/ \E id : doc' = ApplyUpdate(doc,
                            [kind |-> "user_message_confirmed", id |-> id, raws |-> buffered])
                  \/ doc' = ApplyAll(doc, Events(buffered))
                  \/ doc' = doc
                BY <3>2, <4>1 DEF Reconcile
            <4> QED BY <4>4, <4>5, <4>6, <4>7
        <3>3. Unnoticed(doc, doc')
            BY <3>1, <3>2 DEF Hear, PassThrough
        <3>4. ASSUME NEW c \in Compaction PROVE UpdatesOf(c)' = UpdatesOf(c)
            BY <1>1, <2>2 DEF UpdatesOf
        <3>5. IsTable(doc.compactions)'
            BY <3>3 DEF NoticesInv, Unnoticed
        <3> QED BY <1>1, <3>3, <3>4, <3>5, NothingEnds
    <2> QED BY <2>1, <2>2
<1> QED BY <1>6 DEF NoticesInv

\* send() gives no notice.
LEMMA NoticesSend ==
    ASSUME ToolDoc(doc), NoticesInv, HeldEchoes', NEW content \in Prompt, Send(content)
    PROVE  NoticesInv'
<1>1. IsEvent(Optimistic(content)) /\ Optimistic(content).kind # "compaction_update"
    BY DEF Optimistic, IsEvent, EventKinds, MessageEvents
<1>2. PICK d : d = ApplyUpdate(doc, Optimistic(content))
    OBVIOUS
<1>3. ToolDoc(d) /\ Unnoticed(doc, d)
    BY <1>1, <1>2, ToolDocEvent, EventUnnoticed DEF ToolDoc
<1>4. Unnoticed(d, doc')
    BY <1>2, <1>3, ToolDocStatus, UntoldUnnoticed DEF Send, Statuses
<1>5. heard' = heard
    BY DEF Send
<1> QED BY <1>3, <1>4, <1>5, UnnoticedTrans, NoticesQuiet

\* What is flushed at the end of a turn gives no notice.
LEMMA NoticesTurnOver ==
    ASSUME StreamType, CardsInv, ToolDoc(doc), NoticesInv, HeldEchoes',
           (\E r : TurnEnds(r)) \/ TurnFails
    PROVE  NoticesInv'
<1>1. heard' = heard /\ heard' \in Seq(Wire)
    BY DEF TurnEnds, TurnFails, StreamType
<1>2. PICK d, e : /\ ToolDoc(d) /\ Untold(doc, d)
                  /\ ToolDoc(e) /\ e = ApplyAll(d, Flushed)
                  /\ ToolDoc(doc') /\ Untold(e, doc')
    BY ToolTurnOver
<1>3. Unnoticed(d, e)
    BY <1>1, <1>2, FlushedUnnoticed DEF ToolDoc
<1>4. Unnoticed(doc, d) /\ Unnoticed(e, doc')
    BY <1>2, UntoldUnnoticed
<1> QED BY <1>1, <1>3, <1>4, UnnoticedTrans, NoticesQuiet

\* The empty session has none.
LEMMA NoticesInit == Init => NoticesInv
<1> SUFFICES ASSUME Init PROVE NoticesInv
    OBVIOUS
<1>1. /\ doc.turns = <<>> /\ IsTable(doc.compactions) /\ heard = <<>> /\ echo.buffered = <<>>
      /\ \A c \in Compaction : doc.compactions[c].status = "none"
    BY DEF Init, emptySession, NoEcho, IsTable
<1>2. Places(doc) = {} /\ \A c : UpdatesOf(c) = {}
    BY <1>1 DEF Places, UpdatesOf
<1>3. \A c : NoticesOf(c) = {} /\ EndsOf(c) = {}
    BY <1>2 DEF NoticesOf, EndsOf
<1>4. IsFiniteSet({}) /\ Cardinality({}) = 0
    BY FS_EmptySet
<1>5. HeldEchoes
    BY <1>1 DEF HeldEchoes
<1>6. \A c \in Compaction : Latest(c)
    BY <1>1, <1>2 DEF Latest, Ended
<1> QED BY <1>1, <1>3, <1>4, <1>5, <1>6 DEF NoticesInv

\* Every step keeps the count.
LEMMA NoticesStep ==
    ASSUME StreamType, CardsInv, ToolDoc(doc), NoticesInv, [Next]_vars PROVE NoticesInv'
<1>1. HeldEchoes'
    BY EchoesHeld
<1>2. ASSUME Untold(doc, doc'), heard' = heard PROVE NoticesInv'
    BY <1>1, <1>2, UntoldUnnoticed, NoticesQuiet
<1>3. CASE UNCHANGED vars
    BY <1>2, <1>3 DEF vars, Untold, Same
<1>4. ASSUME NEW n \in Wire, Hear(n) PROVE NoticesInv'
    BY <1>1, <1>4, NoticesHear
<1>5. ASSUME NEW content \in Prompt, Send(content) PROVE NoticesInv'
    BY <1>1, <1>5, NoticesSend
<1>6. ASSUME NEW r, TurnEnds(r) PROVE NoticesInv'
    BY <1>1, <1>6, NoticesTurnOver
<1>7. CASE TurnFails
    BY <1>1, <1>7, NoticesTurnOver
<1>8. CASE Disconnect \/ Cancel \/ SendRejected
    BY <1>2, <1>8, ToolCancels DEF Disconnect, Cancel, SendRejected
<1>9. ASSUME NEW c, NEW n, Abort(c, n) PROVE NoticesInv'
    BY <1>2, <1>9, ToolCancels DEF Abort
<1>10. ASSUME NEW t \in Tool, NEW offer \in Offer, AskPermission(t, offer) PROVE NoticesInv'
    BY <1>2, <1>10, ToolAskPermission DEF AskPermission
<1>11. ASSUME NEW t \in Tool, NEW kind \in offered[t], PickPermission(t, kind) PROVE NoticesInv'
    BY <1>2, <1>11, ToolPick DEF PickPermission
<1>12. ASSUME NEW e, AskElicitation(e) \/ AnswerElicitation(e) \/ OpenUrl(e) \/ CompleteUrl(e)
       PROVE  NoticesInv'
    BY <1>2, <1>12, ToolElicitations DEF AskElicitation, AnswerElicitation, OpenUrl, CompleteUrl
<1> QED BY <1>3, <1>4, <1>5, <1>6, <1>7, <1>8, <1>9, <1>10, <1>11, <1>12 DEF Next, User, Agent, Ask

\* As many notices as ends in every reachable state.
LEMMA NoticesHold == Spec => []NoticesInv
<1>1. Init => NoticesInv
    BY NoticesInit
<1>2. StreamType /\ CardsInv /\ PlacesInv /\ NoticesInv /\ [Next]_vars => NoticesInv'
    BY NoticesStep DEF PlacesInv
<1> QED BY <1>1, <1>2, StreamTypeHolds, CardsHold, PlacesHold, PTL DEF Spec

\* NoticePerEnding, for every set of compactions and notifications: the reducer
\* tells of each end once, however often patchCompaction hears it.
THEOREM EveryEndIsToldOnce == Spec => []NoticePerEnding
<1>1. NoticesInv => NoticePerEnding
    BY DEF NoticesInv, NoticePerEnding
<1> QED BY <1>1, NoticesHold, PTL

-----------------------------------------------------------------------------
\* The notifications the messages of a flow show, their order, and what the
\* blocks marked as local prompts say.
Shown(d) ==
    {n \in Nat : \E p \in Places(d) :
        At(d, p).kind \in MessageKinds /\ \E k \in DOMAIN At(d, p).raws : At(d, p).raws[k] = n}
InOrderOf(d) ==
    \A p, q \in Places(d) :
        At(d, p).kind \in MessageKinds /\ At(d, q).kind \in MessageKinds =>
            \A i \in DOMAIN At(d, p).raws, j \in DOMAIN At(d, q).raws :
                Before(p, q) \/ (p = q /\ i < j) => At(d, p).raws[i] < At(d, q).raws[j]
Locals(d, S) ==
    \A p \in Places(d) :
        At(d, p).kind = "user_message" /\ At(d, p).optimistic => At(d, p).content \in S
Rising(raws) == \A j, k \in DOMAIN raws : j < k => raws[j] < raws[k]
Later(d, raws) == \A n \in Shown(d) : \A k \in DOMAIN raws : n < raws[k]

\* Messages have notifications.
LEMMA MessageIsBlock ==
    ASSUME NEW b, IsBlock(b), b.kind \in MessageKinds PROVE b.raws \in Seq(Nat)
BY DEF IsBlock, UserBlock, StreamBlock, ToolBlock, MessageKinds

\* Of two places, one comes before the other.
LEMMA BeforeIsStrict ==
    ASSUME NEW d, IsFlow(d.turns), NEW p \in Places(d), NEW q \in Places(d), Before(p, q)
    PROVE  p # q /\ ~Before(q, p)
<1>1. PICK S : d.turns \in Seq(Seq(S))
    BY DEF IsFlow
<1>2. ASSUME NEW r \in Places(d) PROVE r[1] \in Nat /\ r[2] \in Nat
    <2>1. r[1] \in DOMAIN d.turns /\ r[2] \in DOMAIN d.turns[r[1]]
        BY PlacesOf
    <2>2. d.turns[r[1]] \in Seq(S)
        BY <1>1, <2>1
    <2> QED BY <1>1, <2>1, <2>2
<1> QED BY <1>2 DEF Before

\* The same messages show the same, in the same order.
LEMMA SameTold ==
    ASSUME NEW d, NEW e, Same(d, e, MessageKinds)
    PROVE  /\ Shown(e) = Shown(d) /\ (InOrderOf(d) => InOrderOf(e))
           /\ \A S : Locals(d, S) => Locals(e, S)
<1>1. Shown(e) = Shown(d)
    BY DEF Same, Shown
<1>2. InOrderOf(d) => InOrderOf(e)
    BY DEF Same, InOrderOf
<1>3. \A S : Locals(d, S) => Locals(e, S)
    BY DEF Same, Locals, MessageKinds
<1> QED BY <1>1, <1>2, <1>3

\* A message of later notifications, added or appended to the last one.
LEMMA AddsTold ==
    ASSUME NEW d, NEW e, FlowDoc(d), FlowDoc(e), NEW b, Adds(d, e, b), b.kind \in MessageKinds,
           IsBlock(b), InOrderOf(d), Rising(b.raws), Later(d, b.raws)
    PROVE  InOrderOf(e) /\ Shown(e) = Shown(d) \cup Range(b.raws)
<1>1. PICK p : /\ p \notin Places(d) /\ Places(e) = Places(d) \cup {p} /\ At(e, p) = b
               /\ \A q \in Places(d) : At(e, q) = At(d, q) /\ Before(q, p)
    BY DEF Adds
<1>2. b.raws \in Seq(Nat)
    BY MessageIsBlock
<1>3. Shown(e) = Shown(d) \cup Range(b.raws)
    <2>1. ASSUME NEW n \in Shown(e) PROVE n \in Shown(d) \cup Range(b.raws)
        BY <1>1 DEF Shown, Range
    <2>2. ASSUME NEW n \in Shown(d) PROVE n \in Shown(e)
        BY <1>1 DEF Shown
    <2>3. ASSUME NEW n \in Range(b.raws) PROVE n \in Shown(e)
        BY <1>1, <1>2 DEF Shown, Range
    <2> QED BY <2>1, <2>2, <2>3
<1>4. ASSUME NEW q \in Places(e), NEW r \in Places(e),
             At(e, q).kind \in MessageKinds, At(e, r).kind \in MessageKinds,
             NEW i \in DOMAIN At(e, q).raws, NEW j \in DOMAIN At(e, r).raws,
             Before(q, r) \/ (q = r /\ i < j)
      PROVE  At(e, q).raws[i] < At(e, r).raws[j]
    <2>1. CASE q \in Places(d) /\ r \in Places(d)
        BY <1>1, <1>4, <2>1 DEF InOrderOf
    <2>2. CASE q \in Places(d) /\ r = p
        <3>1. IsBlock(At(d, q)) /\ At(d, q) = At(e, q)
            BY <1>1, <2>2 DEF FlowDoc
        <3>2. At(e, q).raws[i] \in Shown(d)
            BY <1>4, <2>2, <3>1, MessageIsBlock DEF Shown
        <3> QED BY <1>1, <2>2, <3>2 DEF Later
    <2>3. CASE q = p /\ r \in Places(d)
        <3>1. Before(r, q)
            BY <1>1, <2>3
        <3> QED BY <1>4, <2>3, <3>1, BeforeIsStrict DEF FlowDoc
    <2>4. CASE q = p /\ r = p
        <3>1. ~Before(q, r)
            BY <2>4, BeforeIsStrict DEF FlowDoc
        <3> QED BY <1>1, <1>4, <2>4, <3>1 DEF Rising
    <2> QED BY <1>1, <2>1, <2>2, <2>3, <2>4
<1> QED BY <1>3, <1>4 DEF InOrderOf

\* The same, when the last block takes later notifications in.
LEMMA RevisesTold ==
    ASSUME NEW d, NEW e, FlowDoc(d), FlowDoc(e), NEW b, Revises(d, e, b), b.kind \in MessageKinds,
           IsBlock(b), LastBlock(d).kind \in MessageKinds,
           NEW raws \in Seq(Nat), b.raws = LastBlock(d).raws \o raws,
           InOrderOf(d), Rising(raws), Later(d, raws)
    PROVE  InOrderOf(e) /\ Shown(e) = Shown(d) \cup Range(raws)
<1>1. PICK p \in Places(d) : /\ Places(e) = Places(d) /\ At(e, p) = b /\ At(d, p) = LastBlock(d)
                             /\ \A q \in Places(d) \ {p} : At(e, q) = At(d, q) /\ Before(q, p)
    BY DEF Revises
<1>2. PICK old : old = At(d, p).raws
    OBVIOUS
<1>3. old \in Seq(Nat) /\ At(d, p).kind \in MessageKinds
    BY <1>1, <1>2, MessageIsBlock DEF FlowDoc
<1>4. b.raws = old \o raws
    BY <1>1, <1>2
<1>5. /\ DOMAIN b.raws = 1 .. Len(old) + Len(raws) /\ DOMAIN old = 1 .. Len(old)
      /\ DOMAIN raws = 1 .. Len(raws) /\ Len(old) \in Nat /\ Len(raws) \in Nat
      /\ \A k \in DOMAIN old : b.raws[k] = old[k]
      /\ \A k \in DOMAIN b.raws : k \notin DOMAIN old => k - Len(old) \in DOMAIN raws
                                                         /\ b.raws[k] = raws[k - Len(old)]
      /\ \A k \in DOMAIN raws : k + Len(old) \in DOMAIN b.raws /\ b.raws[k + Len(old)] = raws[k]
    BY SMTT(30), <1>3, <1>4
<1>6. Shown(e) = Shown(d) \cup Range(raws)
    <2>1. ASSUME NEW n \in Shown(e) PROVE n \in Shown(d) \cup Range(raws)
        <3>1. PICK q \in Places(e) : At(e, q).kind \in MessageKinds
                    /\ \E k \in DOMAIN At(e, q).raws : At(e, q).raws[k] = n
            BY <2>1 DEF Shown
        <3>2. CASE q = p
            <4>1. PICK k \in DOMAIN b.raws : b.raws[k] = n
                BY <1>1, <3>1, <3>2
            <4>2. CASE k \in DOMAIN old
                BY <1>1, <1>2, <1>3, <1>5, <2>1, <4>1, <4>2 DEF Shown
            <4>3. CASE k \notin DOMAIN old
                BY <1>5, <4>1, <4>3 DEF Range
            <4> QED BY <4>2, <4>3
        <3>3. CASE q # p
            BY <1>1, <2>1, <3>1, <3>3 DEF Shown
        <3> QED BY <3>2, <3>3
    <2>2. ASSUME NEW n \in Shown(d) PROVE n \in Shown(e)
        <3>1. PICK q \in Places(d) : At(d, q).kind \in MessageKinds
                    /\ \E k \in DOMAIN At(d, q).raws : At(d, q).raws[k] = n
            BY <2>2 DEF Shown
        <3>2. CASE q = p
            <4>1. PICK k \in DOMAIN old : old[k] = n
                BY <1>2, <3>1, <3>2
            <4>2. k \in DOMAIN b.raws /\ b.raws[k] = n
                BY <1>5, <4>1
            <4> QED BY <1>1, <2>2, <4>2 DEF Shown
        <3>3. CASE q # p
            BY <1>1, <2>2, <3>1, <3>3 DEF Shown
        <3> QED BY <3>2, <3>3
    <2>3. ASSUME NEW n \in Range(raws) PROVE n \in Shown(e)
        <3>1. PICK k \in DOMAIN raws : raws[k] = n
            BY <2>3 DEF Range
        <3>2. k + Len(old) \in DOMAIN b.raws /\ b.raws[k + Len(old)] = n
            BY <1>5, <3>1
        <3>3. n \in Nat
            BY <3>1
        <3> QED BY <1>1, <3>2, <3>3 DEF Shown
    <2> QED BY <2>1, <2>2, <2>3
<1>7. ASSUME NEW i \in DOMAIN b.raws PROVE
        \/ i \in DOMAIN old /\ b.raws[i] = old[i] /\ old[i] \in Shown(d)
        \/ i \notin DOMAIN old /\ i - Len(old) \in DOMAIN raws /\ b.raws[i] = raws[i - Len(old)]
           /\ \A n \in Shown(d) : n < b.raws[i]
    <2>1. CASE i \in DOMAIN old
        BY SMTT(30), <1>2, <1>3, <1>5, <2>1 DEF Shown
    <2>2. CASE i \notin DOMAIN old
        BY <1>5, <1>7, <2>2 DEF Later
    <2> QED BY <2>1, <2>2
<1>8. ASSUME NEW q \in Places(e), NEW r \in Places(e),
             At(e, q).kind \in MessageKinds, At(e, r).kind \in MessageKinds,
             NEW i \in DOMAIN At(e, q).raws, NEW j \in DOMAIN At(e, r).raws,
             Before(q, r) \/ (q = r /\ i < j)
      PROVE  At(e, q).raws[i] < At(e, r).raws[j]
    <2>1. CASE q # p /\ r # p
        BY <1>1, <1>8, <2>1 DEF InOrderOf
    <2>2. CASE q # p /\ r = p
        <3>1. IsBlock(At(d, q)) /\ At(d, q) = At(e, q) /\ Before(q, p)
            BY <1>1, <2>2 DEF FlowDoc
        <3>2. At(e, q).raws[i] \in Shown(d)
            BY SMTT(30), <1>1, <1>8, <2>2, <3>1, MessageIsBlock DEF Shown
        <3>3. j \in DOMAIN b.raws
            BY <1>1, <1>8, <2>2
        <3>4. CASE j \in DOMAIN old
            <4>1. At(d, q).raws[i] < At(d, p).raws[j]
                BY <1>1, <1>2, <1>3, <1>8, <2>2, <3>1, <3>4 DEF InOrderOf
            <4> QED BY <1>1, <1>2, <1>5, <2>2, <3>1, <3>4, <4>1
        <3>5. CASE j \notin DOMAIN old
            BY <1>1, <1>7, <2>2, <3>2, <3>3, <3>5
        <3> QED BY <3>4, <3>5
    <2>3. CASE q = p /\ r # p
        <3>1. Before(r, q)
            BY <1>1, <2>3
        <3> QED BY <1>8, <2>3, <3>1, BeforeIsStrict DEF FlowDoc
    <2>4. CASE q = p /\ r = p
        <3>1. ~Before(q, r)
            BY <2>4, BeforeIsStrict DEF FlowDoc
        <3>2. i \in DOMAIN b.raws /\ j \in DOMAIN b.raws /\ i < j
            BY <1>1, <1>8, <2>4, <3>1
        <3>3. CASE j \in DOMAIN old
            <4>1. i \in DOMAIN old
                BY <1>5, <3>2, <3>3
            <4>2. old[i] < old[j]
                BY <1>2, <1>3, <3>2, <3>3, <4>1 DEF InOrderOf
            <4> QED BY <1>1, <1>5, <2>4, <3>3, <4>1, <4>2
        <3>4. CASE j \notin DOMAIN old /\ i \in DOMAIN old
            BY <1>1, <1>7, <2>4, <3>2, <3>4
        <3>5. CASE j \notin DOMAIN old /\ i \notin DOMAIN old
            <4>1. i - Len(old) < j - Len(old)
                BY <1>5, <3>2
            <4> QED BY <1>1, <1>7, <2>4, <3>2, <3>5, <4>1 DEF Rising
        <3> QED BY <3>3, <3>4, <3>5
    <2> QED BY <2>1, <2>2, <2>3, <2>4
<1> QED BY <1>6, <1>8 DEF InOrderOf

\* A message adds a block or revises the last one; a confirmation without its
\* block does nothing.  A block stays the local prompt only with what it said.
Revised(d, u, e, b) ==
    /\ Revises(d, e, b) /\ LastBlock(d).kind \in MessageKinds
    /\ b.raws = LastBlock(d).raws \o u.raws
    /\ b.kind = "user_message" /\ b.optimistic =>
            /\ LastBlock(d).kind = "user_message" /\ LastBlock(d).optimistic
            /\ b.content = LastBlock(d).content
Added(d, u, e, b) ==
    /\ Adds(d, e, b) /\ b.raws = u.raws
    /\ b.kind = "user_message" /\ b.optimistic =>
            u.kind = "user_message" /\ u.optimistic /\ b.content = u.content

\* What appendUserMessage, confirmUserMessage, appendChunk and the fold of an
\* unsupported event do is one of these.
LEMMA MessageStep ==
    ASSUME NEW d, FlowDoc(d), NEW u, IsEvent(u), u.kind \in MessageEvents,
           NEW e, e = ApplyUpdate(d, u)
    PROVE  \/ u.kind = "user_message_confirmed" /\ e = d
           \/ \E b : /\ IsBlock(b) /\ b.kind \in MessageKinds
                     /\ \/ Revised(d, u, e, b)
                        \/ u.kind # "user_message_confirmed" /\ Added(d, u, e, b)
<1>1. PICK last : last = LastBlock(d)
    OBVIOUS
<1>2. u.raws \in Seq(Nat) /\ Doc(d) /\ IsFlow(d.turns)
    BY DEF IsEvent, FlowDoc
<1>3. last.kind # "none" => d.turns # <<>> /\ IsBlock(last)
    BY <1>1, LastIsBlock
<1>4. CASE u.kind = "user_message"
    <2>1. e = AppendUserMessage(d, u)
        BY <1>4 DEF ApplyUpdate
    <2>2. CASE Mergeable(last, u)
        <3>1. PICK b : b = Merged(last, u)
            OBVIOUS
        <3>2. e = ReplaceLastBlock(d, b)
            BY <1>1, <2>1, <2>2, <3>1 DEF AppendUserMessage
        <3>3. last.kind = "user_message" /\ last = UserBlock(last.content, last.optimistic, last.id, last.raws)
              /\ last.raws \in Seq(Nat) /\ last.optimistic \in BOOLEAN /\ ~last.optimistic
            BY <1>3, <2>2 DEF Mergeable, IsBlock, StreamBlock, ToolBlock
        <3>4. b = UserBlock(last.content \o u.content, last.optimistic, last.id, last.raws \o u.raws)
            BY <3>1, <3>3, UserMerged
        <3>5. last.raws \o u.raws \in Seq(Nat)
            BY <1>2, <3>3, RawsJoined
        <3>6. /\ IsBlock(b) /\ b.kind = "user_message" /\ b.raws = last.raws \o u.raws
              /\ b.optimistic = last.optimistic
            BY <3>3, <3>4, <3>5 DEF IsBlock, UserBlock
        <3>7. Revises(d, e, b)
            BY <1>2, <1>3, <3>2, <3>3, BlockReplaced
        <3> QED BY <1>1, <3>3, <3>6, <3>7 DEF MessageKinds, Revised
    <2>3. CASE ~Mergeable(last, u)
        <3>1. PICK b : b = UserBlock(u.content, u.optimistic, u.id, u.raws)
            OBVIOUS
        <3>2. \E n \in BOOLEAN : e = AppendBlock(d, b, n)
            BY <1>1, <2>1, <2>3, <3>1 DEF AppendUserMessage
        <3>3. IsBlock(b) /\ b.kind = "user_message" /\ b.raws = u.raws
              /\ b.optimistic = u.optimistic /\ b.content = u.content
            BY <1>2, <1>4, <3>1 DEF IsBlock, UserBlock, IsEvent
        <3>4. Adds(d, e, b)
            BY <1>2, <3>2, BlockAdded
        <3> QED BY <1>4, <3>3, <3>4 DEF MessageKinds, Added
    <2> QED BY <2>2, <2>3
<1>5. CASE u.kind = "user_message_confirmed"
    <2>1. e = ConfirmUserMessage(d, u)
        BY <1>5 DEF ApplyUpdate
    <2>2. CASE last.kind = "user_message" /\ last.optimistic
        <3>1. PICK b : b = Confirmed(last, u)
            OBVIOUS
        <3>2. e = ReplaceLastBlock(d, b)
            BY <1>1, <2>1, <2>2, <3>1 DEF ConfirmUserMessage
        <3>3. last = UserBlock(last.content, last.optimistic, last.id, last.raws)
              /\ last.raws \in Seq(Nat) /\ last.optimistic \in BOOLEAN
            BY <1>3, <2>2 DEF IsBlock, UserBlock, StreamBlock, ToolBlock
        <3>4. PICK o \in BOOLEAN : b = UserBlock(last.content, o, u.id, last.raws \o u.raws)
            BY <3>1, <3>3, UserConfirmed
        <3>5. last.raws \o u.raws \in Seq(Nat)
            BY <1>2, <3>3, RawsJoined
        <3>6. IsBlock(b) /\ b.kind = "user_message" /\ b.raws = last.raws \o u.raws
              /\ b.content = last.content
            BY <3>4, <3>5 DEF IsBlock, UserBlock
        <3>7. Revises(d, e, b)
            BY <1>2, <1>3, <2>2, <3>2, BlockReplaced
        <3> QED BY <1>1, <2>2, <3>6, <3>7 DEF MessageKinds, Revised
    <2>3. CASE ~(last.kind = "user_message" /\ last.optimistic)
        BY <1>1, <1>5, <2>1, <2>3 DEF ConfirmUserMessage
    <2> QED BY <2>2, <2>3
<1>6. CASE u.kind \in {"agent_message", "thought"}
    <2>1. e = AppendChunk(d, u)
        BY <1>6 DEF ApplyUpdate
    <2>2. CASE last.kind = u.kind /\ (u.id = NoId \/ last.id = u.id)
        <3>0. PICK b : b = Extended(last, u)
            OBVIOUS
        <3>1. e = ReplaceLastBlock(d, b)
            BY <1>1, <2>1, <2>2, <3>0 DEF AppendChunk, Extended
        <3>2. last = StreamBlock(last.kind, last.id, last.parts, last.raws)
              /\ last.raws \in Seq(Nat)
            BY <1>3, <1>6, <2>2 DEF IsBlock, UserBlock, ToolBlock
        <3>3. b = StreamBlock(last.kind, last.id, AppendPart(last.parts, u.chunk), last.raws \o u.raws)
            BY <3>0, <3>2, StreamRevised
        <3>4. last.raws \o u.raws \in Seq(Nat)
            BY <1>2, <3>2, RawsJoined
        <3>5. IsBlock(b) /\ b.kind = u.kind /\ b.raws = last.raws \o u.raws
            BY <1>6, <2>2, <3>2, <3>3, <3>4 DEF IsBlock, StreamBlock
        <3>6. Revises(d, e, b)
            BY <1>2, <1>3, <1>6, <2>2, <3>1, BlockReplaced
        <3> QED BY <1>1, <1>6, <2>2, <3>5, <3>6 DEF MessageKinds, Revised
    <2>3. CASE ~(last.kind = u.kind /\ (u.id = NoId \/ last.id = u.id))
        <3> DEFINE b == StreamBlock(u.kind, IF u.id = NoId THEN AutoMessageId(d, u.kind) ELSE u.id,
                                    <<u.chunk>>, u.raws)
        <3>1. e = AppendBlock(d, b, FALSE)
            BY <1>1, <2>1, <2>3 DEF AppendChunk
        <3>2. IsBlock(b) /\ b.kind = u.kind /\ b.raws = u.raws
            BY <1>2, <1>6 DEF IsBlock, StreamBlock
        <3> HIDE DEF b
        <3>3. Adds(d, e, b)
            BY <1>2, <3>1, BlockAdded
        <3> QED BY <1>6, <3>2, <3>3 DEF MessageKinds, Added
    <2> QED BY <2>2, <2>3
<1>7. CASE u.kind = "unsupported"
    <2> DEFINE b == [kind |-> "unsupported", raws |-> u.raws]
    <2>1. e = AppendBlock(d, b, FALSE)
        BY <1>7 DEF ApplyUpdate
    <2>2. IsBlock(b) /\ b.kind = "unsupported" /\ b.raws = u.raws
        BY <1>2 DEF IsBlock
    <2> HIDE DEF b
    <2>3. Adds(d, e, b)
        BY <1>2, <2>1, BlockAdded
    <2> QED BY <1>7, <2>2, <2>3 DEF MessageKinds, Added
<1> QED BY <1>4, <1>5, <1>6, <1>7 DEF MessageEvents

\* An event of later notifications.
IsLater(d, u) == u.kind \in MessageEvents => Rising(u.raws) /\ Later(d, u.raws)
Told(u) == IF u.kind \in MessageEvents THEN Range(u.raws) ELSE {}

\* An event of later notifications keeps the order and shows them, but for a
\* confirmation that finds no local prompt.
LEMMA EventTold ==
    ASSUME NEW d, FlowDoc(d), InOrderOf(d), NEW u, IsEvent(u), IsLater(d, u),
           NEW S, Locals(d, S), u.kind = "user_message" /\ u.optimistic => u.content \in S,
           NEW e, e = ApplyUpdate(d, u)
    PROVE  /\ FlowDoc(e) /\ InOrderOf(e) /\ Locals(e, S)
           /\ \/ Shown(e) = Shown(d) \cup Told(u)
              \/ u.kind = "user_message_confirmed" /\ Shown(e) = Shown(d)
<1>1. FlowDoc(e)
    BY EventFlow
<1>2. CASE u.kind \notin MessageEvents
    <2>1. MessageKinds \cap Touched(u) = {}
        BY <1>2 DEF Touched, MessageKinds, MessageEvents
    <2>2. Same(d, e, MessageKinds)
        BY <2>1, EventFlow
    <2> QED BY <1>1, <1>2, <2>2, SameTold DEF Told
<1>3. CASE u.kind \in MessageEvents
    <2>1. u.raws \in Seq(Nat) /\ Rising(u.raws) /\ Later(d, u.raws) /\ Told(u) = Range(u.raws)
        BY <1>3 DEF IsEvent, IsLater, Told
    <2>2. ASSUME NEW b, IsBlock(b), b.kind \in MessageKinds, Revised(d, u, e, b)
          PROVE  InOrderOf(e) /\ Locals(e, S) /\ Shown(e) = Shown(d) \cup Told(u)
        <3>0. Revises(d, e, b) /\ LastBlock(d).kind \in MessageKinds
              /\ b.raws = LastBlock(d).raws \o u.raws
            BY <2>2 DEF Revised
        <3>1. InOrderOf(e) /\ Shown(e) = Shown(d) \cup Range(u.raws)
            BY ZenonT(40), <1>1, <2>1, <2>2, <3>0, RevisesTold
        <3>2. Locals(e, S)
            BY <2>2 DEF Revised, Revises, Locals
        <3> QED BY <2>1, <3>1, <3>2
    <2>3. ASSUME NEW b, IsBlock(b), b.kind \in MessageKinds, Added(d, u, e, b)
          PROVE  InOrderOf(e) /\ Locals(e, S) /\ Shown(e) = Shown(d) \cup Told(u)
        <3>1. InOrderOf(e) /\ Shown(e) = Shown(d) \cup Told(u)
            BY <1>1, <2>1, <2>3, AddsTold DEF Added
        <3>2. Locals(e, S)
            BY <2>3 DEF Added, Adds, Locals
        <3> QED BY <3>1, <3>2
    <2> QED BY <1>1, <1>3, <2>2, <2>3, MessageStep
<1> QED BY <1>2, <1>3

\* The event of a notification tells it, if it is a message.
LEMMA EventTells ==
    ASSUME heard' \in Seq(Wire), NEW i \in DOMAIN heard',
           NEW d, \A n \in Shown(d) : n < i
    PROVE  /\ IsEvent(Event(i)) /\ IsLater(d, Event(i)) /\ Told(Event(i)) = {i} \cap HeardMessages'
           /\ Event(i).kind # "user_message_confirmed"
           /\ ~(Event(i).kind = "user_message" /\ Event(i).optimistic)
<1>1. IsEvent(Event(i)) /\ i \in Nat
    BY EventOf
<1>2. PICK n \in Wire : n = heard'[i]
    OBVIOUS
<1>3. n.kind \in {"user_message_chunk", "agent_message", "thought", "tool_call",
            "tool_call_update", "compaction_update", "compaction_summary_chunk"}
    BY StreamAssumption
<1>4. Rising(<<i>>) /\ Later(d, <<i>>) /\ Range(<<i>>) = {i}
    BY DEF Rising, Later, Range
<1>5. HeardMessages' = {k \in DOMAIN heard' : heard'[k].kind \in {"user_message_chunk", "agent_message", "thought"}}
    BY DEF HeardMessages
<1>6. CASE n.kind \in {"user_message_chunk", "agent_message", "thought"}
    <2>1. /\ Event(i).raws = <<i>> /\ Event(i).kind \in {"user_message", "unsupported", "agent_message", "thought"}
          /\ ~(Event(i).kind = "user_message" /\ Event(i).optimistic)
        BY <1>2, <1>6 DEF Event
    <2>2. {i} \cap HeardMessages' = {i}
        BY <1>2, <1>5, <1>6
    <2> QED BY <1>1, <1>4, <2>1, <2>2 DEF IsLater, Told, MessageEvents
<1>7. CASE n.kind \notin {"user_message_chunk", "agent_message", "thought"}
    <2>1. Event(i).kind \in {"tool_call", "tool_call_update", "compaction_update", "compaction_summary_chunk"}
        BY <1>2, <1>3, <1>7 DEF Event
    <2>2. {i} \cap HeardMessages' = {}
        BY <1>2, <1>5, <1>7
    <2> QED BY <1>1, <2>1, <2>2 DEF IsLater, Told, MessageEvents
<1> QED BY <1>6, <1>7

\* A document whose messages are in order, and whose local prompts are prompts.
Tells(d, S) == FlowDoc(d) /\ InOrderOf(d) /\ Locals(d, S)
UpTo(raws, n) == {raws[k] : k \in 1 .. n}

\* Notifications folded in their order, later than those shown, are all told, by
\* induction over them.
LEMMA EventsTold ==
    ASSUME heard' \in Seq(Wire), NEW raws \in Seq(DOMAIN heard'), Rising(raws),
           NEW d, NEW S, Tells(d, S), Later(d, raws), NEW e, e = ApplyAll(d, Events(raws))
    PROVE  Tells(e, S) /\ Shown(e) = Shown(d) \cup (Range(raws) \cap HeardMessages')
<1> DEFINE N == Len(raws)
<1>1. /\ N \in Nat /\ Len(Events(raws)) = N /\ DOMAIN raws = 1 .. N
      /\ \A k \in 1 .. N : Events(raws)[k] = Event(raws[k]) /\ raws[k] \in DOMAIN heard' /\ raws[k] \in Nat
    BY EventsOfWire
<1> HIDE DEF N
<1>2. PICK f : /\ f[0] = d /\ e = f[N]
               /\ \A k \in 1 .. N : f[k] = ApplyUpdate(f[k - 1], Event(raws[k]))
    <2>1. PICK events : events = Events(raws)
        OBVIOUS
    <2>2. Len(events) \in Nat
        BY <1>1, <2>1
    <2>3. PICK f : /\ f[0] = d /\ ApplyAll(d, events) = f[Len(events)]
                   /\ \A k \in 1 .. Len(events) : f[k] = ApplyUpdate(f[k - 1], events[k])
        BY SMTT(30), <2>2, ApplyAllSteps
    <2> QED BY <1>1, <2>1, <2>3
<1> DEFINE P == {n \in 0 .. N : Tells(f[n], S)
                        /\ Shown(f[n]) = Shown(d) \cup (UpTo(raws, n) \cap HeardMessages')}
<1>3. 0 \in P
    BY <1>1, <1>2 DEF UpTo
<1>4. ASSUME NEW n \in 1 .. N, n - 1 \in P PROVE n \in P
    <2>1. PICK a, b, u : a = f[n - 1] /\ b = f[n] /\ u = Event(raws[n])
        OBVIOUS
    <2>2. /\ Tells(a, S) /\ Shown(a) = Shown(d) \cup (UpTo(raws, n - 1) \cap HeardMessages')
          /\ n \in 0 .. N /\ b = ApplyUpdate(a, u)
        BY <1>1, <1>2, <1>4, <2>1
    <2>3. PICK i \in DOMAIN heard' : i = raws[n]
        BY <1>1
    <2>4. \A m \in Shown(a) : m < i
        <3>1. \A m \in Shown(d) : m < i
            BY <1>1, <2>3 DEF Later
        <3>2. \A m \in UpTo(raws, n - 1) : m < i
            <4>1. ASSUME NEW k \in 1 .. n - 1 PROVE raws[k] < i
                <5>1. k \in 1 .. N /\ k < n
                    BY <1>1
                <5> QED BY <1>1, <2>3, <5>1 DEF Rising
            <4> QED BY <4>1 DEF UpTo
        <3> QED BY <2>2, <3>1, <3>2
    <2>5. /\ IsEvent(u) /\ IsLater(a, u) /\ Told(u) = {i} \cap HeardMessages'
          /\ u.kind # "user_message_confirmed" /\ ~(u.kind = "user_message" /\ u.optimistic)
        BY <2>1, <2>3, <2>4, EventTells
    <2>6. Tells(b, S) /\ Shown(b) = Shown(a) \cup Told(u)
        BY <2>2, <2>5, EventTold DEF Tells
    <2>7. UpTo(raws, n) = UpTo(raws, n - 1) \cup {i}
        <3>1. \A k \in 1 .. n : k \in 1 .. n - 1 \/ k = n
            BY <1>1
        <3>2. \A k \in 1 .. n - 1 : k \in 1 .. n
            BY <1>1
        <3>3. n \in 1 .. n
            BY <1>1
        <3> QED BY <2>3, <3>1, <3>2, <3>3 DEF UpTo
    <2>8. Shown(b) = Shown(d) \cup (UpTo(raws, n) \cap HeardMessages')
        BY <2>2, <2>5, <2>6, <2>7
    <2> QED BY <2>1, <2>2, <2>6, <2>8
<1>5. N \in P
    <2> HIDE DEF P
    <2>1. \A n \in 0 .. N : n \in P
        BY <1>1, <1>3, <1>4, Induction
    <2> QED BY <1>1, <2>1
<1>6. UpTo(raws, N) = Range(raws)
    BY <1>1 DEF UpTo, Range
<1> QED BY <1>2, <1>5, <1>6

-----------------------------------------------------------------------------
\* Content as characters and other blocks.  Coalesced content is cut into other
\* texts.
Parts == Content \cup {Text(c) : c \in Seq(Char)}
Units == Seq(Char \cup Parts)
Piece(b) == IF b.type = "text" THEN b.text ELSE <<b>>

\* Every part says some characters, or itself.
LEMMA PartIsText ==
    ASSUME NEW b \in Parts
    PROVE  Piece(b) \in Units /\ (b.type = "text" => b = Text(b.text) /\ b.text \in Seq(Char))
<1>1. b.type = "text" => b = Text(b.text) /\ b.text \in Seq(Char)
    BY StreamAssumption DEF Parts, Text
<1>2. CASE b.type = "text"
    BY <1>1, <1>2 DEF Piece, Units
<1>3. CASE b.type # "text"
    BY <1>3 DEF Piece, Units
<1> QED BY <1>1, <1>2, <1>3

\* So texts are parts.
LEMMA TextIsPart ==
    ASSUME NEW c \in Seq(Char) PROVE Text(c) \in Parts /\ Piece(Text(c)) = c
BY DEF Parts, Text, Piece

\* Flat, block by block.
LEMMA FlatSteps ==
    ASSUME NEW x \in Seq(Parts)
    PROVE  \E f : /\ f[0] = <<>> /\ Flat(x) = f[Len(x)]
                  /\ f \in [0 .. Len(x) -> Units]
                  /\ \A i \in 1 .. Len(x) : f[i] = f[i - 1] \o Piece(x[i])
<1> DEFINE N == Len(x)
           Next1(i, y) == y \o (IF x[i].type = "text" THEN x[i].text ELSE <<x[i]>>)
           G == [i \in 1 .. N |-> [y \in Units |-> Next1(i, y)]]
<1>1. N \in Nat /\ \A i \in 1 .. N : x[i] \in Parts
    OBVIOUS
<1>2. ASSUME NEW i \in 1 .. N, NEW y \in Units PROVE Next1(i, y) \in Units /\ Next1(i, y) = y \o Piece(x[i])
    <2>1. PICK p \in Units : p = Piece(x[i])
        BY <1>1, PartIsText
    <2>2. Next1(i, y) = y \o p
        BY <2>1 DEF Piece
    <2>3. y \o p \in Units
        <3> HIDE DEF Next1
        <3> QED BY DEF Units
    <2> HIDE DEF Next1
    <2> QED BY <2>1, <2>2, <2>3
<1>3. <<>> \in Units
    BY DEF Units
<1> HIDE DEF N, Next1
<1>4. AreSteps(G, N, Units)
    BY <1>1, <1>2 DEF AreSteps
<1>5. PICK f : f \in [0 .. N -> Units] /\ f[0] = <<>> /\ \A i \in 1 .. N : f[i] = G[i][f[i - 1]]
    <2> HIDE DEF G
    <2>1. \E f : Solution(f, <<>>, G, N, Units)
        BY <1>3, <1>4, Recursion
    <2> QED BY <2>1 DEF Solution
<1>6. \A i \in 1 .. N : \A y \in Units : G[i][y] = Next1(i, y)
    OBVIOUS
<1> HIDE DEF G
<1>7. ASSUME NEW i \in 1 .. N PROVE f[i] = Next1(i, f[i - 1]) /\ f[i] = f[i - 1] \o Piece(x[i])
    <2>1. i - 1 \in 0 .. N
        BY <1>1
    <2> QED BY <1>2, <1>5, <1>6, <2>1
<1> DEFINE IsUpTo(g) == g = [i \in 0 .. N |-> IF i = 0 THEN <<>> ELSE Next1(i, g[i - 1])]
           u == CHOOSE g : IsUpTo(g)
<1>8. IsUpTo(f)
    <2>1. ASSUME NEW i \in 0 .. N PROVE f[i] = IF i = 0 THEN <<>> ELSE Next1(i, f[i - 1])
        <3>1. i = 0 \/ i \in 1 .. N
            BY <1>1
        <3>2. CASE i \in 1 .. N
            <4>1. i # 0
                BY <1>1, <3>2
            <4>2. f[i] = Next1(i, f[i - 1])
                BY <1>7, <3>2
            <4> QED BY <4>1, <4>2
        <3>3. CASE i = 0
            BY <1>5, <3>3
        <3> QED BY <3>1, <3>2, <3>3
    <2> QED BY <1>5, <2>1
<1>9. IsUpTo(u)
    <2> HIDE DEF IsUpTo
    <2> QED BY <1>8
<1>10. Flat(x) = u[N]
    BY DEF Flat, N, Next1
<1> HIDE DEF u
<1>11. \A i \in 0 .. N : u[i] = IF i = 0 THEN <<>> ELSE Next1(i, u[i - 1])
    BY <1>9
<1>12. u[0] = <<>> /\ \A i \in 1 .. N : u[i] = Next1(i, u[i - 1])
    <2>1. 0 \in 0 .. N /\ \A i \in 1 .. N : i \in 0 .. N /\ i # 0
        BY <1>1
    <2> QED BY <1>11, <2>1
<1>13. u[N] = f[N]
    <2>1. Follows(u, f, N)
        BY <1>1, <1>5, <1>7, <1>12 DEF Follows
    <2> QED BY <2>1, RecursionIsUnique
<1> QED BY <1>5, <1>7, <1>10, <1>13 DEF N

\* One block more.
LEMMA FlatAppended ==
    ASSUME NEW x \in Seq(Parts), NEW b \in Parts
    PROVE  Flat(Append(x, b)) = Flat(x) \o Piece(b) /\ Flat(x) \in Units
<1> DEFINE y == Append(x, b)
           N == Len(x)
<1>1. /\ N \in Nat /\ y \in Seq(Parts) /\ Len(y) = N + 1 /\ y[N + 1] = b
      /\ \A i \in 1 .. N : y[i] = x[i]
    OBVIOUS
<1> HIDE DEF y, N
<1>2. PICK f : /\ f[0] = <<>> /\ Flat(y) = f[N + 1]
               /\ \A i \in 1 .. N + 1 : f[i] = f[i - 1] \o Piece(y[i])
    <2>1. PICK f : /\ f[0] = <<>> /\ Flat(y) = f[Len(y)]
                   /\ \A i \in 1 .. Len(y) : f[i] = f[i - 1] \o Piece(y[i])
        BY <1>1, FlatSteps
    <2> QED BY <1>1, <2>1
<1>3. PICK g : /\ g[0] = <<>> /\ Flat(x) = g[N] /\ g \in [0 .. N -> Units]
               /\ \A i \in 1 .. N : g[i] = g[i - 1] \o Piece(x[i])
    BY <1>1, FlatSteps DEF N
<1>4. Follows(g, f, N)
    <2>1. ASSUME NEW i \in 1 .. N, g[i - 1] = f[i - 1] PROVE g[i] = f[i]
        <3>1. i \in 1 .. N + 1 /\ y[i] = x[i]
            BY <1>1
        <3>2. f[i] = f[i - 1] \o Piece(x[i])
            BY <1>2, <3>1
        <3>3. g[i] = g[i - 1] \o Piece(x[i])
            BY <1>3
        <3> QED BY <2>1, <3>2, <3>3
    <2> QED BY <1>1, <1>2, <1>3, <2>1 DEF Follows
<1>5. g[N] = f[N]
    BY <1>4, RecursionIsUnique
<1>6. f[N + 1] = f[N] \o Piece(b)
    <2>1. N + 1 \in 1 .. N + 1 /\ (N + 1) - 1 = N
        BY <1>1
    <2> QED BY <1>1, <1>2, <2>1
<1>7. g[N] \in Units
    BY <1>1, <1>3
<1> QED BY <1>2, <1>3, <1>5, <1>6, <1>7 DEF y

\* AppendPart says what its parts say.
LEMMA PartAppended ==
    ASSUME NEW x \in Seq(Parts), NEW b \in Parts
    PROVE  AppendPart(x, b) \in Seq(Parts) /\ Flat(AppendPart(x, b)) = Flat(x) \o Piece(b)
<1>1. CASE x # <<>> /\ b.type = "text" /\ x[Len(x)].type = "text"
    <2>1. PICK y \in Seq(Parts), l \in Parts : x = Append(y, l)
        BY <1>1, SequenceEmptyOrAppend
    <2>2. Len(x) = Len(y) + 1 /\ x[Len(x)] = l /\ l.type = "text" /\ Len(y) \in Nat
        BY <1>1, <2>1
    <2>3. l.text \in Seq(Char) /\ b.text \in Seq(Char) /\ Piece(l) = l.text /\ Piece(b) = b.text
        BY <1>1, <2>2, PartIsText DEF Piece
    <2>4. PICK lt \in Seq(Char), bt \in Seq(Char) : lt = l.text /\ bt = b.text
        BY <2>3
    <2>5. lt \o bt \in Seq(Char)
        OBVIOUS
    <2>6. PICK m \in Parts : m = Text(lt \o bt) /\ Piece(m) = lt \o bt
        BY <2>5, TextIsPart
    <2>7. AppendPart(x, b) = [x EXCEPT ![Len(x)] = m]
        BY <1>1, <2>2, <2>4, <2>6 DEF AppendPart, Last
    <2>8. [x EXCEPT ![Len(x)] = m] = Append(y, m)
        <3>1. PICK n \in Nat : n = Len(y)
            BY <2>2
        <3>2. /\ DOMAIN x = 1 .. n + 1 /\ DOMAIN Append(y, m) = 1 .. n + 1
              /\ \A k \in 1 .. n + 1 : Append(y, m)[k] = IF k = n + 1 THEN m ELSE x[k]
            BY <2>1, <3>1
        <3>3. PICK a, c : a = [x EXCEPT ![Len(x)] = m] /\ c = Append(y, m)
            OBVIOUS
        <3>4. /\ DOMAIN a = 1 .. n + 1 /\ a = [k \in DOMAIN a |-> a[k]]
              /\ \A k \in 1 .. n + 1 : a[k] = IF k = n + 1 THEN m ELSE x[k]
            BY <2>2, <3>1, <3>2, <3>3
        <3>5. c = [k \in DOMAIN c |-> c[k]]
            <4>1. c \in Seq(Parts)
                BY <3>3
            <4> QED BY <4>1
        <3> QED BY <3>2, <3>3, <3>4, <3>5
    <2>9. Flat(Append(y, m)) = Flat(y) \o (lt \o bt) /\ Flat(x) = Flat(y) \o lt /\ Flat(y) \in Units
        BY <2>1, <2>3, <2>4, <2>6, FlatAppended
    <2>10. PICK fy \in Seq(Char \cup Parts) : fy = Flat(y)
        BY <2>9 DEF Units
    <2>11. lt \in Seq(Char \cup Parts) /\ bt \in Seq(Char \cup Parts)
        OBVIOUS
    <2>12. (fy \o lt) \o bt = fy \o (lt \o bt)
        BY SMTT(30), <2>11, ConcatAssociative
    <2>13. Append(y, m) \in Seq(Parts)
        OBVIOUS
    <2> QED BY <2>3, <2>4, <2>7, <2>8, <2>9, <2>10, <2>12, <2>13
<1>2. CASE ~(x # <<>> /\ b.type = "text" /\ x[Len(x)].type = "text")
    <2>1. AppendPart(x, b) = Append(x, b)
        BY <1>2 DEF AppendPart, Last
    <2> QED BY <2>1, FlatAppended
<1> QED BY <1>1, <1>2

\* coalesceText, block by block.
LEMMA CoalesceSteps ==
    ASSUME NEW x \in Seq(Parts)
    PROVE  \E f : /\ f[0] = <<>> /\ coalesceText(x) = f[Len(x)]
                  /\ f \in [0 .. Len(x) -> Seq(Parts)]
                  /\ \A i \in 1 .. Len(x) : f[i] = AppendPart(f[i - 1], x[i])
<1> DEFINE N == Len(x)
           S == Seq(Parts)
           G == [i \in 1 .. N |-> [y \in S |-> AppendPart(y, x[i])]]
<1>1. N \in Nat /\ \A i \in 1 .. N : x[i] \in Parts
    OBVIOUS
<1>2. ASSUME NEW i \in 1 .. N, NEW y \in S PROVE AppendPart(y, x[i]) \in S
    BY <1>1, PartAppended
<1>3. <<>> \in S
    OBVIOUS
<1> HIDE DEF N, S
<1>4. AreSteps(G, N, S)
    BY <1>1, <1>2 DEF AreSteps
<1>5. PICK f : f \in [0 .. N -> S] /\ f[0] = <<>> /\ \A i \in 1 .. N : f[i] = G[i][f[i - 1]]
    <2> HIDE DEF G
    <2>1. \E f : Solution(f, <<>>, G, N, S)
        BY <1>3, <1>4, Recursion
    <2> QED BY <2>1 DEF Solution
<1>6. \A i \in 1 .. N : \A y \in S : G[i][y] = AppendPart(y, x[i])
    OBVIOUS
<1> HIDE DEF G
<1>7. ASSUME NEW i \in 1 .. N PROVE f[i] = AppendPart(f[i - 1], x[i])
    <2>1. i - 1 \in 0 .. N
        BY <1>1
    <2> QED BY <1>5, <1>6, <2>1
<1> DEFINE IsUpTo(g) == g = [i \in 0 .. N |-> IF i = 0 THEN <<>> ELSE AppendPart(g[i - 1], x[i])]
           u == CHOOSE g : IsUpTo(g)
<1>8. IsUpTo(f)
    <2>1. \A i \in 0 .. N : f[i] = IF i = 0 THEN <<>> ELSE AppendPart(f[i - 1], x[i])
        BY <1>1, <1>5, <1>7
    <2> QED BY <1>5, <2>1
<1>9. IsUpTo(u)
    <2> HIDE DEF IsUpTo
    <2> QED BY <1>8
<1>10. coalesceText(x) = u[N]
    BY DEF coalesceText, N
<1> HIDE DEF u
<1>11. \A i \in 0 .. N : u[i] = IF i = 0 THEN <<>> ELSE AppendPart(u[i - 1], x[i])
    BY <1>9
<1>12. u[0] = <<>> /\ \A i \in 1 .. N : u[i] = AppendPart(u[i - 1], x[i])
    <2>1. 0 \in 0 .. N /\ \A i \in 1 .. N : i \in 0 .. N /\ i # 0
        BY <1>1
    <2> QED BY <1>11, <2>1
<1>13. u[N] = f[N]
    <2>1. Follows(u, f, N)
        BY <1>1, <1>5, <1>7, <1>12 DEF Follows
    <2> QED BY <2>1, RecursionIsUnique
<1> QED BY <1>5, <1>7, <1>10, <1>13 DEF N, S

\* However content is cut, coalesced it says the same.
LEMMA CoalescedIsFlat ==
    ASSUME NEW x \in Seq(Parts) PROVE Flat(coalesceText(x)) = Flat(x)
<1>1. PICK N \in Nat : N = Len(x)
    OBVIOUS
<1>2. PICK f : /\ f[0] = <<>> /\ coalesceText(x) = f[N] /\ f \in [0 .. N -> Seq(Parts)]
               /\ \A i \in 1 .. N : f[i] = AppendPart(f[i - 1], x[i])
    BY <1>1, CoalesceSteps
<1>3. PICK g : /\ g[0] = <<>> /\ Flat(x) = g[N]
               /\ \A i \in 1 .. N : g[i] = g[i - 1] \o Piece(x[i])
    BY <1>1, FlatSteps
<1> DEFINE P == {n \in 0 .. N : Flat(f[n]) = g[n]}
<1>4. 0 \in P
    <2>1. PICK e : e = <<>>
        OBVIOUS
    <2>2. e \in Seq(Parts) /\ Len(e) = 0
        BY <2>1
    <2>3. Flat(e) = <<>>
        BY <2>2, FlatSteps
    <2> QED BY <1>1, <1>2, <1>3, <2>1, <2>3
<1>5. ASSUME NEW n \in 1 .. N, n - 1 \in P PROVE n \in P
    <2>1. PICK y \in Seq(Parts), b \in Parts : y = f[n - 1] /\ b = x[n]
        <3>1. n - 1 \in 0 .. N /\ x[n] \in Parts
            BY <1>1
        <3> QED BY <1>2, <3>1
    <2>2. Flat(AppendPart(y, b)) = Flat(y) \o Piece(b)
        BY PartAppended
    <2>3. f[n] = AppendPart(y, b) /\ g[n] = g[n - 1] \o Piece(b)
        BY <1>2, <1>3, <2>1
    <2>4. Flat(y) = g[n - 1] /\ n \in 0 .. N
        BY <1>5, <2>1
    <2> QED BY <2>2, <2>3, <2>4
<1>6. N \in P
    <2> HIDE DEF P
    <2>1. \A n \in 0 .. N : n \in P
        BY <1>1, <1>4, <1>5, Induction
    <2> QED BY <1>1, <2>1
<1> QED BY <1>2, <1>3, <1>6

\* echoRelation finds equal only what says the same.
LEMMA EqualSaysTheSame ==
    ASSUME NEW prompt \in Seq(Content), NEW chunks \in Seq(Content),
           echoRelation(prompt, chunks) = "equal"
    PROVE  Flat(chunks) = Flat(prompt)
<1>1. prompt \in Seq(Parts) /\ chunks \in Seq(Parts)
    BY DEF Parts
<1>2. coalesceText(chunks) = coalesceText(prompt)
    BY DEF echoRelation
<1> QED BY <1>1, <1>2, CoalescedIsFlat

-----------------------------------------------------------------------------
\* The bounds of the requests, and the offers that are open.
BoundsInv ==
    /\ \A c \in Card : asked[c] <= MaxAsked[c]
    /\ offered \in [Tool -> SUBSET UNION Offer]

\* Every step keeps them.
LEMMA BoundsStep ==
    ASSUME CardsInv, BoundsInv, [Next]_vars PROVE BoundsInv'
<1>1. /\ MaxAsked \in [Card -> Nat] /\ asked \in [Card -> Nat] /\ Tool \subseteq Card /\ Elicitation \subseteq Card
    BY StreamAssumption DEF CardsInv, Card
<1>2. ASSUME UNCHANGED <<asked, offered>> PROVE BoundsInv'
    BY <1>2 DEF BoundsInv
<1>3. ASSUME NEW cards, NEW d, NEW n, Answer(cards, d, n), asked' = asked PROVE BoundsInv'
    BY <1>3 DEF BoundsInv, Answer
<1>4. ASSUME NEW c \in Card, asked[c] < MaxAsked[c], asked' = [asked EXCEPT ![c] = @ + 1]
      PROVE  \A x \in Card : asked'[x] <= MaxAsked[x]
    BY <1>1, <1>4 DEF BoundsInv
<1>5. ASSUME NEW t \in Tool, NEW offer \in Offer, AskPermission(t, offer) PROVE BoundsInv'
    <2>1. \A x \in Card : asked'[x] <= MaxAsked[x]
        BY <1>1, <1>4, <1>5 DEF AskPermission
    <2>2. offered' = [offered EXCEPT ![t] = {}] \/ offered' = [offered EXCEPT ![t] = offer]
        BY <1>5 DEF AskPermission
    <2>3. offered' \in [Tool -> SUBSET UNION Offer]
        BY <2>2 DEF BoundsInv
    <2> QED BY <2>1, <2>3 DEF BoundsInv
<1>6. ASSUME NEW e \in Elicitation, AskElicitation(e) PROVE BoundsInv'
    <2>1. \A x \in Card : asked'[x] <= MaxAsked[x]
        BY <1>1, <1>4, <1>6 DEF AskElicitation
    <2> QED BY <1>6, <2>1 DEF BoundsInv, AskElicitation
<1>7. ASSUME NEW e, AnswerElicitation(e) \/ OpenUrl(e) \/ CompleteUrl(e) PROVE BoundsInv'
    BY <1>3, <1>7 DEF AnswerElicitation, OpenUrl, CompleteUrl, CompleteCard
<1>8. ASSUME NEW t, NEW kind, PickPermission(t, kind) PROVE BoundsInv'
    BY <1>3, <1>8 DEF PickPermission
<1>9. ASSUME NEW c, NEW n, Abort(c, n) PROVE BoundsInv'
    BY <1>2, <1>3, <1>9 DEF Abort
<1>10. ASSUME NEW n, Hear(n) PROVE BoundsInv'
    BY <1>2, <1>10 DEF Hear, cardVars
<1>11. ASSUME NEW c, Send(c) PROVE BoundsInv'
    BY <1>2, <1>11 DEF Send, cardVars
<1>12. ASSUME NEW r, TurnEnds(r) PROVE BoundsInv'
    BY <1>2, <1>12 DEF TurnEnds, cardVars
<1>13. CASE TurnFails \/ Cancel \/ Disconnect
    BY <1>3, <1>13 DEF TurnFails, Cancel, Disconnect
<1>14. CASE SendRejected
    BY <1>2, <1>14 DEF SendRejected, cardVars
<1>15. CASE UNCHANGED vars
    BY <1>2, <1>15 DEF vars, cardVars
<1> QED BY <1>5, <1>6, <1>7, <1>8, <1>9, <1>10, <1>11, <1>12, <1>13, <1>14, <1>15
        DEF Next, User, Agent, Ask

-----------------------------------------------------------------------------
\* The composer is closed while a turn runs.
Busy == turn # 0 => doc.status # "idle"

\* The status that was set.
LEMMA StatusOf ==
    ASSUME NEW d, NEW s, Doc(SetStatus(d, s)) PROVE SetStatus(d, s).status = s
<1>1. PICK e : e = SetStatus(d, s)
    OBVIOUS
<1>2. "status" \in DOMAIN e
    BY <1>1 DEF Doc
<1> QED BY <1>1, <1>2 DEF SetStatus

\* No step opens the composer before the turn is over.
LEMMA BusyStep ==
    ASSUME StreamType, CardsInv, Doc(doc'), Busy, [Next]_vars PROVE Busy'
<1>1. CardDoc(doc)
    BY DEF CardsInv
<1>2. ASSUME turn' = 0 PROVE Busy'
    BY <1>2 DEF Busy
<1>3. ASSUME turn' = turn, doc'.status = doc.status PROVE Busy'
    BY <1>3 DEF Busy
<1>4. ASSUME turn' = turn, NEW d, NEW w, doc' = SetStatus(d, Converged(w, turn)) PROVE Busy'
    BY <1>4, StatusOf DEF Busy, Converged
<1>5. ASSUME turn' = turn, NEW cards, NEW d, d.status = doc.status, Answer(cards, d, turn) PROVE Busy'
    BY <1>3, <1>4, <1>5 DEF Answer
<1>6. ASSUME NEW t \in Tool, NEW offer \in Offer, AskPermission(t, offer) PROVE Busy'
    <2>1. turn' = turn
        BY <1>6 DEF AskPermission, turnVars
    <2>2. \E d : \/ doc' = SetStatus(d, doc.status)
                 \/ \E w : doc' = SetStatus(d, Converged(w, turn))
        BY <1>6 DEF AskPermission
    <2> QED BY <1>3, <1>4, <2>1, <2>2, StatusOf
<1>7. ASSUME NEW t \in Tool, NEW kind, PickPermission(t, kind) PROVE Busy'
    BY <1>4, <1>7 DEF PickPermission, turnVars, Answer
<1>8. ASSUME NEW e \in Elicitation, AskElicitation(e) PROVE Busy'
    <2>1. turn' = turn /\ (doc' = doc \/ \E d, w : doc' = SetStatus(d, Converged(w, turn)))
        BY <1>8 DEF AskElicitation, DeclineRepeat, ShowElicitation, turnVars
    <2> QED BY <1>3, <1>4, <2>1
<1>9. ASSUME NEW e \in Elicitation, AnswerElicitation(e) \/ OpenUrl(e) PROVE Busy'
    BY <1>4, <1>9 DEF AnswerElicitation, OpenUrl, turnVars, Answer
<1>10. ASSUME NEW e \in Elicitation, CompleteUrl(e) PROVE Busy'
    <2>1. CompleteElicitationUrl(doc, e).status = doc.status
        BY <1>1, ElicitationsMoved DEF CompleteElicitationUrl
    <2> QED BY <1>5, <1>10, <2>1 DEF CompleteUrl, CompleteCard, turnVars
<1>11. \A cards : CancelCards(doc, cards).status = doc.status
    BY <1>1, CardsCancelled
<1>12. ASSUME NEW c, NEW n, Abort(c, n) PROVE Busy'
    BY <1>3, <1>5, <1>11, <1>12 DEF Abort, turnVars
<1>13. CASE Cancel
    BY <1>5, <1>11, <1>13 DEF Cancel, turnVars
<1>14. ASSUME NEW n \in Wire, Hear(n) PROVE Busy'
    <2>1. doc'.status = doc.status
        BY <1>14, HearKeeps DEF Keeps
    <2> QED BY <1>3, <1>14, <2>1 DEF Hear
<1>15. ASSUME NEW c, Send(c) PROVE Busy'
    <2>1. doc'.status = "running"
        BY <1>15, StatusOf DEF Send
    <2> QED BY <2>1 DEF Busy
<1>16. CASE SendRejected
    BY <1>2, <1>16 DEF SendRejected, StreamType
<1>17. ASSUME NEW r, TurnEnds(r) \/ TurnFails \/ Disconnect PROVE Busy'
    BY <1>2, <1>17 DEF TurnEnds, TurnFails, Disconnect
<1>18. CASE UNCHANGED vars
    BY <1>3, <1>18 DEF vars, turnVars
<1> QED BY <1>6, <1>7, <1>8, <1>9, <1>10, <1>12, <1>13, <1>14, <1>15, <1>16, <1>17, <1>18
        DEF Next, User, Agent, Ask

-----------------------------------------------------------------------------
\* The flow, what is held back, and what confirmed a prompt.
Confirming == UNION {Range(m[2]) : m \in matched}
Said(raws) == [k \in DOMAIN raws |-> heard[raws[k]].chunk]
Exact == \A m \in matched : m[2] \in Seq(DOMAIN heard) /\ Flat(Said(m[2])) = Flat(m[1])
Kept == up => HeardMessages \subseteq Shown(doc) \cup Range(echo.buffered) \cup Confirming
FlowInv ==
    /\ Tells(doc, Range(prompts)) /\ Shown(doc) \subseteq DOMAIN heard
    /\ Rising(echo.buffered) /\ Later(doc, echo.buffered)
    /\ Kept /\ Exact

\* Flows of the same messages.
LEMMA UntoldTells ==
    ASSUME NEW d, NEW e, FlowDoc(e), Untold(d, e)
    PROVE  Shown(e) = Shown(d) /\ \A S : Tells(d, S) => Tells(e, S)
<1>1. Same(d, e, MessageKinds)
    BY DEF Untold, Same, NoticeKinds
<1> QED BY <1>1, SameTold DEF Tells

\* A step that tells nothing and holds back what was held back, or forgets it
\* with the connection.
LEMMA FlowQuiet ==
    ASSUME FlowInv, FlowDoc(doc'), Untold(doc, doc'), UNCHANGED <<heard, prompts, matched>>,
           UNCHANGED <<echo, up>> \/ (~up' /\ echo'.buffered = <<>>)
    PROVE  FlowInv'
<1>1. Shown(doc') = Shown(doc) /\ Tells(doc', Range(prompts))
    BY UntoldTells DEF FlowInv
<1>2. Rising(echo'.buffered) /\ Later(doc', echo'.buffered)
    <2>1. CASE UNCHANGED <<echo, up>>
        BY <1>1, <2>1 DEF FlowInv, Later
    <2>2. CASE echo'.buffered = <<>>
        BY <2>2 DEF Rising, Later
    <2> QED BY <2>1, <2>2
<1>3. Kept'
    <2>1. HeardMessages' = HeardMessages /\ Confirming' = Confirming
        BY DEF HeardMessages, Confirming
    <2> QED BY <1>1, <2>1 DEF FlowInv, Kept
<1>4. Exact'
    BY DEF FlowInv, Exact, Said
<1> QED BY <1>1, <1>2, <1>3, <1>4 DEF FlowInv

\* send() shows the prompt; nothing was held back.
LEMMA FlowSend ==
    ASSUME StreamType, FlowInv, Busy, FlowDoc(doc'), NEW content \in Prompt, Send(content)
    PROVE  FlowInv'
<1>1. /\ heard' = heard /\ up' = up /\ up /\ matched' = matched /\ turn = 0
      /\ prompts' = Append(prompts, content) /\ echo'.buffered = <<>>
    BY DEF Send, Busy, StreamType
<1>2. echo.buffered = <<>>
    BY <1>1 DEF StreamType, EchoType
<1>3. PICK S : S = Range(prompts')
    OBVIOUS
<1>4. Range(prompts) \subseteq S /\ content \in S
    <2>1. PICK b \in Seq(Prompt) : b = prompts
        BY DEF StreamType
    <2>2. /\ \A k \in DOMAIN b : k \in DOMAIN Append(b, content) /\ Append(b, content)[k] = b[k]
          /\ Len(b) + 1 \in DOMAIN Append(b, content) /\ Append(b, content)[Len(b) + 1] = content
        OBVIOUS
    <2> QED BY <1>1, <1>3, <2>1, <2>2 DEF Range
<1>5. PICK u, d : u = Optimistic(content) /\ d = ApplyUpdate(doc, u)
    OBVIOUS
<1>6. IsEvent(u) /\ u.raws = <<>> /\ u.kind = "user_message" /\ u.content = content
    BY <1>5 DEF Optimistic, IsEvent, EventKinds, MessageEvents
<1>7. IsLater(doc, u) /\ Told(u) = {}
    BY <1>6 DEF IsLater, Told, Rising, Later, Range, MessageEvents
<1>8. Tells(doc, S)
    BY <1>4 DEF FlowInv, Tells, Locals
<1>9. Tells(d, S) /\ Shown(d) = Shown(doc)
    BY <1>4, <1>5, <1>6, <1>7, <1>8, EventTold DEF Tells
<1>10. doc' = SetStatus(d, "running")
    BY <1>5 DEF Send
<1>11. Untold(d, doc')
    <2>1. Doc(d)
        BY <1>9 DEF Tells, FlowDoc
    <2>2. doc'.turns = d.turns /\ doc'.compactions = d.compactions
        BY <1>10, <2>1 DEF Doc, SetStatus
    <2> QED BY <2>2 DEF Untold, Same, Places, At
<1>12. Shown(doc') = Shown(doc) /\ Tells(doc', S)
    BY <1>9, <1>11, UntoldTells
<1>13. Rising(echo'.buffered) /\ Later(doc', echo'.buffered)
    BY <1>1 DEF Rising, Later
<1>14. Kept'
    <2>1. HeardMessages' = HeardMessages /\ Confirming' = Confirming
        BY <1>1 DEF HeardMessages, Confirming
    <2> QED BY <1>1, <1>2, <1>12, <2>1 DEF FlowInv, Kept
<1>15. Exact'
    BY <1>1 DEF FlowInv, Exact, Said
<1> QED BY <1>1, <1>3, <1>12, <1>13, <1>14, <1>15 DEF FlowInv

\* The end of a turn tells what was held back.
LEMMA FlowTurnOver ==
    ASSUME StreamType, CardsInv, ToolDoc(doc), FlowInv, (\E r : TurnEnds(r)) \/ TurnFails
    PROVE  FlowInv'
<1>1. /\ heard' = heard /\ up' = up /\ matched' = matched /\ prompts' = prompts
      /\ echo'.buffered = <<>> /\ heard' \in Seq(Wire) /\ echo.buffered \in Seq(DOMAIN heard')
    BY DEF TurnEnds, TurnFails, NoEcho, StreamType, EchoType
<1>2. PICK d, e : /\ ToolDoc(d) /\ Untold(doc, d)
                  /\ ToolDoc(e) /\ e = ApplyAll(d, Flushed)
                  /\ ToolDoc(doc') /\ Untold(e, doc')
    BY ToolTurnOver
<1>3. FlowDoc(d) /\ FlowDoc(doc')
    BY <1>2 DEF ToolDoc
<1>4. PICK S : S = Range(prompts)
    OBVIOUS
<1>5. Tells(d, S) /\ Shown(d) = Shown(doc)
    BY <1>2, <1>3, <1>4, UntoldTells DEF FlowInv
<1>6. Later(d, echo.buffered) /\ Rising(echo.buffered)
    BY <1>5 DEF FlowInv, Later
<1>7. Tells(e, S) /\ Shown(e) = Shown(doc) \cup (Range(echo.buffered) \cap HeardMessages')
    BY <1>1, <1>2, <1>5, <1>6, EventsTold DEF Flushed
<1>8. Tells(doc', S) /\ Shown(doc') = Shown(e)
    BY <1>2, <1>3, <1>7, UntoldTells
<1>9. Shown(doc') \subseteq DOMAIN heard
    BY <1>1, <1>7, <1>8 DEF FlowInv, HeardMessages
<1>10. Rising(echo'.buffered) /\ Later(doc', echo'.buffered)
    BY <1>1 DEF Rising, Later
<1>11. Kept'
    <2>1. HeardMessages' = HeardMessages /\ Confirming' = Confirming
        BY <1>1 DEF HeardMessages, Confirming
    <2> QED BY <1>1, <1>7, <1>8, <2>1 DEF FlowInv, Kept
<1>12. Exact'
    BY <1>1 DEF FlowInv, Exact, Said
<1> QED BY <1>1, <1>4, <1>8, <1>9, <1>10, <1>11, <1>12 DEF FlowInv

\* c is what is held back, and then notification i, all later than what is shown.
Queues(i, c) ==
    /\ Rising(c) /\ Later(doc, c) /\ Range(c) = Range(echo.buffered) \cup {i}
    /\ Events(c) = InOrder(i)
    /\ \A k \in DOMAIN c : c[k] = i \/ \E l \in DOMAIN echo.buffered : c[k] = echo.buffered[l]

\* It joins the queue at its end.
LEMMA HeldLater ==
    ASSUME StreamType, FlowInv, NEW i, i = Len(heard) + 1, NEW c, c = Append(echo.buffered, i)
    PROVE  Queues(i, c)
<1>1. PICK n \in Nat : n = Len(heard)
    BY DEF StreamType
<1>2. DOMAIN heard = 1 .. n /\ i = n + 1
    BY <1>1 DEF StreamType
<1>3. PICK b \in Seq(DOMAIN heard) : b = echo.buffered
    BY DEF StreamType, EchoType
<1>4. PICK m \in Nat : m = Len(b)
    OBVIOUS
<1>5. /\ DOMAIN b = 1 .. m /\ DOMAIN c = 1 .. m + 1 /\ c[m + 1] = i
      /\ \A k \in 1 .. m : c[k] = b[k] /\ b[k] \in 1 .. n
    BY <1>2, <1>3, <1>4
<1>6. Rising(c)
    <2>1. ASSUME NEW j \in 1 .. m + 1, NEW k \in 1 .. m + 1, j < k PROVE c[j] < c[k]
        <3>1. j \in 1 .. m
            BY <2>1
        <3>2. CASE k = m + 1
            BY <1>2, <1>5, <3>1, <3>2
        <3>3. CASE k # m + 1
            <4>1. k \in 1 .. m
                BY <3>3
            <4>2. b[j] < b[k]
                BY <1>3, <1>5, <2>1, <3>1, <4>1 DEF FlowInv, Rising
            <4> QED BY <1>5, <3>1, <4>1, <4>2
        <3> QED BY <3>2, <3>3
    <2> QED BY <1>5, <2>1 DEF Rising
<1>7. Later(doc, c)
    <2>1. \A x \in Shown(doc) : x \in 1 .. n /\ \A k \in 1 .. m : x < b[k]
        BY <1>2, <1>3, <1>5 DEF FlowInv, Later
    <2> QED BY <1>2, <1>5, <2>1 DEF Later
<1>8. Range(c) = Range(b) \cup {i}
    <2>1. \A k \in 1 .. m + 1 : k \in 1 .. m \/ k = m + 1
        OBVIOUS
    <2>2. m + 1 \in 1 .. m + 1 /\ \A k \in 1 .. m : k \in 1 .. m + 1
        OBVIOUS
    <2> QED BY <1>5, <2>1, <2>2 DEF Range
<1>9. Events(c) = InOrder(i)
    <2>1. /\ Events(b) = [k \in 1 .. m |-> Event(b[k])]
          /\ Events(c) = [k \in 1 .. m + 1 |-> Event(c[k])]
        BY <1>5 DEF Events
    <2>2. PICK S : S = {Event(x) : x \in DOMAIN heard} \cup {Event(i)}
        OBVIOUS
    <2>3. PICK f \in Seq(S) : f = Events(b) /\ Len(f) = m
        <3>1. \A k \in 1 .. m : Event(b[k]) \in S
            <4>1. ASSUME NEW k \in 1 .. m PROVE Event(b[k]) \in S
                <5>1. PICK x \in DOMAIN heard : x = b[k]
                    BY <1>2, <1>5
                <5> QED BY <2>2, <5>1
            <4> QED BY <4>1
        <3>2. PICK f : f = Events(b)
            OBVIOUS
        <3>3. f \in [1 .. m -> S] /\ DOMAIN f = 1 .. m
            BY <2>1, <3>1, <3>2
        <3>4. f \in Seq(S)
            BY <3>3
        <3> QED BY <3>2, <3>3, <3>4
    <2>4. PICK g \in S : g = Event(i)
        BY <2>2
    <2>5. /\ DOMAIN (f \o <<g>>) = 1 .. m + 1 /\ f \o <<g>> \in Seq(S)
          /\ \A k \in 1 .. m + 1 : (f \o <<g>>)[k] = IF k = m + 1 THEN g ELSE f[k]
        BY <2>3
    <2>6. ASSUME NEW k \in 1 .. m + 1 PROVE (f \o <<g>>)[k] = Events(c)[k]
        <3>1. CASE k = m + 1
            BY SMTT(30), <1>5, <2>1, <2>4, <2>5, <3>1
        <3>2. CASE k # m + 1
            <4>1. k \in 1 .. m
                BY <3>2
            <4>2. f[k] = Event(b[k]) /\ Events(c)[k] = Event(c[k]) /\ c[k] = b[k]
                BY <1>5, <2>1, <2>3, <4>1
            <4> QED BY <2>5, <3>2, <4>2
        <3> QED BY <3>1, <3>2
    <2>7. PICK h : h = f \o <<g>>
        OBVIOUS
    <2>8. h = [k \in 1 .. m + 1 |-> h[k]]
        <3>1. h \in Seq(S) /\ DOMAIN h = 1 .. m + 1
            BY <2>5, <2>7
        <3> QED BY <3>1
    <2>9. h = Events(c)
        BY <2>1, <2>6, <2>7, <2>8
    <2> QED BY <1>3, <2>3, <2>4, <2>7, <2>9 DEF InOrder, Flushed
<1> QED BY <1>3, <1>5, <1>6, <1>7, <1>8, <1>9 DEF Queues

\* What confirmed a prompt still says what it said.
LEMMA ExactKept ==
    ASSUME FlowInv, \A k \in DOMAIN heard : k \in DOMAIN heard' /\ heard'[k] = heard[k],
           NEW m \in matched
    PROVE  m[2] \in Seq(DOMAIN heard') /\ Flat(Said(m[2])') = Flat(m[1])
<1>1. PICK r \in Seq(DOMAIN heard) : r = m[2] /\ Flat(Said(r)) = Flat(m[1])
    BY DEF FlowInv, Exact
<1>2. r \in Seq(DOMAIN heard')
    OBVIOUS
<1>3. \A k \in DOMAIN r : heard'[r[k]].chunk = heard[r[k]].chunk
    OBVIOUS
<1>4. [k \in DOMAIN r |-> heard'[r[k]].chunk] = Said(r)
    BY <1>3 DEF Said
<1> QED BY <1>1, <1>2, <1>4 DEF Said

\* handleUpdate: what is heard is shown, held back, or confirms the prompt.
LEMMA FlowHear ==
    ASSUME StreamType, FlowDoc(doc), FlowInv, HeldEchoes, NEW n \in Wire, Hear(n)
    PROVE  FlowInv'
<1>1. PICK i : i = Len(heard) + 1
    OBVIOUS
<1>2. PICK c : c = Append(echo.buffered, i)
    OBVIOUS
<1>3. /\ heard' \in Seq(Wire) /\ DOMAIN heard' = 1 .. Len(heard) + 1 /\ Len(heard) \in Nat
      /\ heard'[i] = n /\ i \in DOMAIN heard' /\ DOMAIN heard = 1 .. Len(heard)
      /\ \A k \in DOMAIN heard : k \in DOMAIN heard' /\ heard'[k] = heard[k]
      /\ c \in Seq(DOMAIN heard') /\ echo.buffered \in Seq(DOMAIN heard)
    BY <1>1, <1>2, EchoHeard DEF StreamType, EchoType
<1>4. /\ Rising(c) /\ Later(doc, c) /\ Range(c) = Range(echo.buffered) \cup {i}
      /\ Events(c) = InOrder(i)
      /\ \A k \in DOMAIN c : c[k] = i \/ \E l \in DOMAIN echo.buffered : c[k] = echo.buffered[l]
    <2>1. Queues(i, c)
        BY <1>1, <1>2, HeldLater
    <2> QED BY <2>1 DEF Queues
<1>5. PICK S : S = Range(prompts)
    OBVIOUS
<1>6. up' = up /\ up /\ prompts' = prompts
    BY DEF Hear
<1>7. HeardMessages' \subseteq HeardMessages \cup {i} /\ HeardMessages' \subseteq DOMAIN heard'
    <2>1. \A x \in DOMAIN heard' : x = i \/ x \in DOMAIN heard
        BY <1>1, <1>3
    <2> QED BY <1>3, <2>1 DEF HeardMessages
<1>8. Range(c) \subseteq DOMAIN heard'
    BY <1>3 DEF Range
<1>9. \A x \in HeardMessages' : x \in Shown(doc) \/ x \in Range(c) \/ x \in Confirming
    BY <1>4, <1>6, <1>7 DEF FlowInv, Kept
<1>10. Tells(doc, S) /\ Shown(doc) \subseteq DOMAIN heard'
    BY <1>3, <1>5 DEF FlowInv
<1>11. ASSUME doc' = ApplyAll(doc, Events(c)), echo'.buffered = <<>>, matched' = matched
       PROVE  FlowInv'
    <2>1. Tells(doc', S) /\ Shown(doc') = Shown(doc) \cup (Range(c) \cap HeardMessages')
        BY <1>3, <1>4, <1>10, <1>11, EventsTold
    <2>2. Shown(doc') \subseteq DOMAIN heard'
        BY <1>8, <1>10, <2>1
    <2>3. Rising(echo'.buffered) /\ Later(doc', echo'.buffered)
        BY <1>11 DEF Rising, Later
    <2>4. Kept'
        <3>1. Confirming' = Confirming
            BY <1>11 DEF Confirming
        <3> QED BY <1>9, <2>1, <3>1 DEF Kept
    <2>5. Exact'
        BY <1>3, <1>11, ExactKept DEF Exact
    <2> QED BY <1>5, <1>6, <2>1, <2>2, <2>3, <2>4, <2>5 DEF FlowInv
<1>12. CASE PassThrough(i)
    <2>1. echo'.buffered = <<>>
        BY <1>12 DEF PassThrough, AfterFlush, ClosedEcho, StreamType, EchoType
    <2>2. doc' = ApplyAll(doc, Events(c)) /\ matched' = matched
        BY <1>4, <1>12 DEF PassThrough
    <2> QED BY <1>11, <2>1, <2>2
<1>13. ASSUME Reconcile(i), n.kind = "user_message_chunk" PROVE FlowInv'
    <2>2. PICK chunks : chunks = [k \in DOMAIN c |-> heard'[c[k]].chunk]
        OBVIOUS
    <2>3. chunks \in Seq(Content)
        <3>1. ASSUME NEW k \in DOMAIN c PROVE heard'[c[k]].chunk \in Content
            <4>1. PICK x \in DOMAIN heard' : x = c[k]
                BY <1>3
            <4>2. heard'[x].kind = "user_message_chunk" /\ heard'[x] \in Wire
                <5>1. CASE x = i
                    BY <1>3, <1>13, <5>1
                <5>2. CASE x # i
                    <6>1. PICK l \in DOMAIN echo.buffered : x = echo.buffered[l]
                        BY <1>4, <4>1, <5>2
                    <6>2. x \in DOMAIN heard /\ heard[x].kind = "user_message_chunk"
                        BY SMTT(30), <1>3, <6>1 DEF HeldEchoes
                    <6> QED BY <1>3, <6>2
                <5> QED BY <5>1, <5>2
            <4> QED BY <4>1, <4>2, StreamAssumption
        <3>2. PICK m \in Nat : DOMAIN c = 1 .. m
            BY <1>3
        <3>3. chunks \in [1 .. m -> Content]
            BY <2>2, <3>1, <3>2
        <3> QED BY <3>3
    <2>4. CASE echoRelation(echo.prompt, chunks) = "equal"
        <3>1. PICK x, u : /\ u = [kind |-> "user_message_confirmed", id |-> x, raws |-> c]
                          /\ doc' = ApplyUpdate(doc, u)
                          /\ matched' = matched \cup {<<echo.prompt, c>>}
            BY <1>2, <1>13, <2>2, <2>4 DEF Reconcile
        <3>2. echo'.buffered = <<>>
            BY <1>2, <1>13, <2>2, <2>4 DEF Reconcile, StreamType, EchoType
        <3>3. IsEvent(u) /\ IsLater(doc, u) /\ Told(u) = Range(c) /\ u.kind = "user_message_confirmed"
            <4>1. c \in Seq(Nat)
                BY <1>3
            <4>2. u.kind = "user_message_confirmed" /\ u.raws = c
                BY <3>1
            <4> QED BY <1>4, <4>1, <4>2 DEF IsEvent, IsLater, Told, EventKinds, MessageEvents
        <3>4. Tells(doc', S) /\ (Shown(doc') = Shown(doc) \/ Shown(doc') = Shown(doc) \cup Range(c))
            BY <1>10, <3>1, <3>3, EventTold DEF Tells
        <3>5. Shown(doc') \subseteq DOMAIN heard'
            BY <1>8, <1>10, <3>4
        <3>6. Rising(echo'.buffered) /\ Later(doc', echo'.buffered)
            BY <3>2 DEF Rising, Later
        <3>7. Kept'
            <4>1. PICK new : new = <<echo.prompt, c>>
                OBVIOUS
            <4>2. new \in matched' /\ new[2] = c /\ matched \subseteq matched'
                BY <3>1, <4>1
            <4>3. Range(c) \subseteq Confirming' /\ Confirming \subseteq Confirming'
                BY <4>2 DEF Confirming
            <4> QED BY <1>9, <3>4, <4>3 DEF Kept
        <3>8. Exact'
            <4>1. PICK p : p = echo.prompt
                OBVIOUS
            <4>2. p \in Seq(Content)
                BY <4>1 DEF StreamType, EchoType
            <4>3. Flat(chunks) = Flat(p)
                BY <2>3, <2>4, <4>1, <4>2, EqualSaysTheSame
            <4>4. Said(c)' = chunks
                BY <2>2 DEF Said
            <4>5. ASSUME NEW m \in matched' PROVE m[2] \in Seq(DOMAIN heard') /\ Flat(Said(m[2])') = Flat(m[1])
                <5>1. CASE m \in matched
                    BY <1>3, <5>1, ExactKept
                <5>2. CASE m = <<p, c>>
                    <6>1. m[1] = p /\ m[2] = c
                        BY <5>2
                    <6> QED BY <1>3, <4>3, <4>4, <6>1
                <5> QED BY <3>1, <4>1, <5>1, <5>2
            <4> QED BY <4>5 DEF Exact
        <3> QED BY <1>5, <1>6, <3>4, <3>5, <3>6, <3>7, <3>8 DEF FlowInv
    <2>5. CASE echoRelation(echo.prompt, chunks) = "different"
        <3>1. doc' = ApplyAll(doc, Events(c)) /\ matched' = matched
            BY <1>2, <1>13, <2>2, <2>5 DEF Reconcile
        <3>2. echo'.buffered = <<>>
            BY <1>2, <1>13, <2>2, <2>5 DEF Reconcile, ClosedEcho, StreamType, EchoType
        <3> QED BY <1>11, <3>1, <3>2
    <2>6. CASE echoRelation(echo.prompt, chunks) = "prefix"
        <3>1. doc' = doc /\ matched' = matched
            BY <1>2, <1>13, <2>2, <2>6 DEF Reconcile
        <3>2. echo'.buffered = c
            BY <1>2, <1>13, <2>2, <2>6 DEF Reconcile, StreamType, EchoType
        <3>3. Rising(echo'.buffered) /\ Later(doc', echo'.buffered)
            BY <1>4, <3>1, <3>2
        <3>4. Kept'
            <4>1. Confirming' = Confirming
                BY <3>1 DEF Confirming
            <4> QED BY <1>9, <3>1, <3>2, <4>1 DEF Kept
        <3>5. Exact'
            BY <1>3, <3>1, ExactKept DEF Exact
        <3> QED BY <1>5, <1>6, <1>10, <3>1, <3>3, <3>4, <3>5 DEF FlowInv
    <2> QED BY <2>4, <2>5, <2>6 DEF echoRelation
<1> QED BY <1>1, <1>3, <1>12, <1>13 DEF Hear

\* Every step keeps the flow.
LEMMA FlowStep ==
    ASSUME StreamType, CardsInv, ToolDoc(doc), ToolDoc(doc'), NoticesInv, Busy, FlowInv, [Next]_vars
    PROVE  FlowInv'
<1>1. FlowDoc(doc) /\ FlowDoc(doc') /\ HeldEchoes
    BY DEF ToolDoc, NoticesInv
<1>2. ASSUME Untold(doc, doc'), UNCHANGED <<heard, prompts, matched, echo, up>> PROVE FlowInv'
    BY <1>1, <1>2, FlowQuiet
<1>3. CASE UNCHANGED vars
    BY <1>2, <1>3 DEF vars, turnVars, Untold, Same
<1>4. ASSUME NEW n \in Wire, Hear(n) PROVE FlowInv'
    BY <1>1, <1>4, FlowHear
<1>5. ASSUME NEW content \in Prompt, Send(content) PROVE FlowInv'
    BY <1>1, <1>5, FlowSend
<1>6. ASSUME NEW r, TurnEnds(r) PROVE FlowInv'
    BY <1>6, FlowTurnOver
<1>7. CASE TurnFails
    BY <1>7, FlowTurnOver
<1>8. CASE Cancel \/ SendRejected
    BY <1>2, <1>8, ToolCancels DEF Cancel, SendRejected, turnVars
<1>9. CASE Disconnect
    <2>1. Untold(doc, doc')
        BY <1>9, ToolCancels
    <2>2. UNCHANGED <<heard, prompts, matched>> /\ ~up' /\ echo'.buffered = <<>>
        BY <1>9 DEF Disconnect, NoEcho
    <2> QED BY <1>1, <2>1, <2>2, FlowQuiet
<1>10. ASSUME NEW c, NEW n, Abort(c, n) PROVE FlowInv'
    BY <1>2, <1>10, ToolCancels DEF Abort, turnVars
<1>11. ASSUME NEW t \in Tool, NEW offer \in Offer, AskPermission(t, offer) PROVE FlowInv'
    BY <1>2, <1>11, ToolAskPermission DEF AskPermission, turnVars
<1>12. ASSUME NEW t \in Tool, NEW kind \in offered[t], PickPermission(t, kind) PROVE FlowInv'
    BY <1>2, <1>12, ToolPick DEF PickPermission, turnVars
<1>13. ASSUME NEW e, AskElicitation(e) \/ AnswerElicitation(e) \/ OpenUrl(e) \/ CompleteUrl(e)
       PROVE  FlowInv'
    BY <1>2, <1>13, ToolElicitations DEF AskElicitation, AnswerElicitation, OpenUrl, CompleteUrl, turnVars
<1> QED BY <1>3, <1>4, <1>5, <1>6, <1>7, <1>8, <1>9, <1>10, <1>11, <1>12, <1>13 DEF Next, User, Agent, Ask

\* The empty session.
LEMMA FlowInit == Init => FlowInv /\ Busy /\ BoundsInv
<1> SUFFICES ASSUME Init PROVE FlowInv /\ Busy /\ BoundsInv
    OBVIOUS
<1>1. /\ doc.turns = <<>> /\ heard = <<>> /\ echo.buffered = <<>> /\ matched = {} /\ turn = 0
      /\ offered = [t \in Tool |-> {}] /\ asked = [c \in Card |-> 0]
    BY DEF Init, emptySession, NoEcho
<1>2. Places(doc) = {} /\ HeardMessages = {}
    BY <1>1 DEF Places, HeardMessages
<1>3. FlowDoc(doc)
    BY ToolInit DEF ToolDoc
<1>4. Tells(doc, Range(prompts)) /\ Shown(doc) = {}
    BY <1>2, <1>3 DEF Tells, InOrderOf, Locals, Shown
<1>5. Rising(echo.buffered) /\ Later(doc, echo.buffered)
    BY <1>1 DEF Rising, Later
<1>6. Kept /\ Exact
    BY <1>1, <1>2 DEF Kept, Exact
<1>7. BoundsInv
    BY <1>1, StreamAssumption DEF BoundsInv, Card
<1> QED BY <1>1, <1>4, <1>5, <1>6, <1>7 DEF FlowInv, Busy

FlowsInv == BoundsInv /\ Busy /\ FlowInv

\* The flow is kept in every reachable state.
LEMMA FlowHolds == Spec => []FlowsInv
<1>1. Init => FlowsInv
    BY FlowInit DEF FlowsInv
<1>2. StreamType /\ CardsInv /\ PlacesInv /\ PlacesInv' /\ NoticesInv /\ FlowsInv /\ [Next]_vars => FlowsInv'
    <2> SUFFICES ASSUME StreamType, CardsInv, PlacesInv, PlacesInv', NoticesInv, FlowsInv, [Next]_vars
                 PROVE  FlowsInv'
        OBVIOUS
    <2>1. ToolDoc(doc) /\ ToolDoc(doc') /\ Doc(doc')
        BY DEF PlacesInv, ToolDoc, FlowDoc
    <2>2. BoundsInv'
        BY BoundsStep DEF FlowsInv
    <2>3. Busy'
        BY <2>1, BusyStep DEF FlowsInv
    <2>4. FlowInv'
        BY <2>1, FlowStep DEF FlowsInv
    <2> QED BY <2>2, <2>3, <2>4 DEF FlowsInv
<1> QED BY <1>1, <1>2, StreamTypeHolds, CardsHold, PlacesHold, NoticesHold, PTL DEF Spec

\* The types.
LEMMA TypesHold ==
    ASSUME StreamType, CardsInv, ToolDoc(doc), BoundsInv PROVE TypeOK
<1>1. /\ doc.status \in {"idle", "running", "requires_action"}
      /\ memory \in [Action -> {"none", "allow_always", "reject_always"}]
      /\ \A c \in Card : waiter[c] \in 0 .. asked[c]
    <2>1. CardDoc(doc) /\ waiter \in [Card -> Nat] /\ asked \in [Card -> Nat]
          /\ \A c \in Card : waiter[c] <= asked[c]
        BY DEF CardsInv
    <2> QED BY <2>1 DEF CardsInv, CardDoc, Statuses
<1>2. ASSUME NEW b \in Blocks(doc) PROVE b.kind \in MessageKinds \cup
            {"tool_call", "turn_notice", "compaction_notice"}
    <2>1. IsBlock(b)
        BY <1>2 DEF Blocks, ToolDoc, FlowDoc
    <2> QED BY <2>1 DEF IsBlock, UserBlock, StreamBlock, ToolBlock, MessageKinds
<1>3. \A i \in DOMAIN doc.turns : doc.turns[i] # <<>>
    BY DEF ToolDoc, FlowDoc, IsFlow
<1>4. \A c \in Card : asked[c] <= MaxAsked[c]
    BY DEF BoundsInv
<1>5. offered \in [Tool -> SUBSET UNION Offer]
    BY DEF BoundsInv
<1>6. /\ turn \in {0, awaiting} /\ awaiting \in 0 .. Len(prompts) /\ up \in BOOLEAN
      /\ Len(heard) <= MaxHeard /\ Len(prompts) <= MaxTurns
      /\ (echo.closed => echo.buffered = <<>>) /\ (~echo.closed => turn # 0)
    BY DEF StreamType, EchoType
<1> QED BY <1>1, <1>2, <1>3, <1>4, <1>5, <1>6 DEF TypeOK

\* What is shown, by its block.
LEMMA ShownInBlocks ==
    ASSUME NEW d, FlowDoc(d), NEW n \in Shown(d)
    PROVE  \E b \in Blocks(d) : b.kind \in MessageKinds /\ n \in Range(b.raws)
<1>1. PICK p \in Places(d) : At(d, p).kind \in MessageKinds
            /\ \E k \in DOMAIN At(d, p).raws : At(d, p).raws[k] = n
    BY DEF Shown
<1> QED BY <1>1 DEF Blocks, Range

\* FlowIsFaithful, for every content, prompt and order of notifications: feed,
\* flush and settle of echoReconciliation.ts and the folds of reducer.ts lose,
\* double and reorder nothing, and take no other message for a prompt's echo.
THEOREM FlowIsTold == Spec => []FlowIsFaithful
<1>1. StreamType /\ CardsInv /\ PlacesInv /\ FlowsInv => FlowIsFaithful
    <2> SUFFICES ASSUME StreamType, CardsInv, PlacesInv, FlowsInv PROVE FlowIsFaithful
        OBVIOUS
    <2>1. ToolDoc(doc) /\ FlowDoc(doc) /\ BoundsInv /\ FlowInv
        BY DEF PlacesInv, ToolDoc, FlowsInv
    <2>2. TypeOK
        BY <2>1, TypesHold
    <2>3. NothingLost
        <3>1. ASSUME up, NEW i \in HeardMessages
              PROVE  \/ \E b \in Blocks(doc) : b.kind \in MessageKinds /\ i \in Range(b.raws)
                     \/ i \in Range(echo.buffered)
                     \/ \E m \in matched : i \in Range(m[2])
            <4>1. i \in Shown(doc) \/ i \in Range(echo.buffered) \/ i \in Confirming
                BY <2>1, <3>1 DEF FlowInv, Kept
            <4>2. CASE i \in Shown(doc)
                BY <2>1, <4>2, ShownInBlocks
            <4>3. CASE i \in Range(echo.buffered)
                BY <4>3 DEF Range
            <4>4. CASE i \in Confirming
                BY <4>4 DEF Confirming, Range
            <4> QED BY <4>1, <4>2, <4>3, <4>4
        <3> QED BY <3>1 DEF NothingLost
    <2>4. MatchesAreExact
        BY <2>1 DEF FlowInv, Exact, Said, MatchesAreExact
    <2>5. FlowInOrder
        BY <2>1 DEF FlowInv, Tells, InOrderOf, FlowInOrder
    <2>6. PromptUntouched
        BY <2>1 DEF FlowInv, Tells, Locals, PromptUntouched, Blocks
    <2> QED BY <2>2, <2>3, <2>4, <2>5, <2>6 DEF FlowIsFaithful
<1> QED BY <1>1, StreamTypeHolds, CardsHold, PlacesHold, FlowHolds, PTL
=============================================================================
