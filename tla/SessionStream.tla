---------------------------- MODULE SessionStream ----------------------------
(***************************************************************************)
(* One session of one connection as the client runs it                     *)
(* (src/acp/LiveAcpClient.ts from send() to cleanupConnection()): the      *)
(* prompt turn, the reconciliation of the agent's echo with the prompt     *)
(* shown at once (src/acp/echoReconciliation.ts), the permission requests  *)
(* and elicitations that wait for the user, the memory of the "always"     *)
(* answers, and the document all of it is folded into (SessionDocument).   *)
(* The agent and the user are the environment.  A second session of the    *)
(* connection and the switches between them are LiveConnections' subject.  *)
(***************************************************************************)
EXTENDS SessionDocument

CONSTANTS
    Char,           \* the characters of texts
    Content,        \* the content blocks users and agents send
    Prompt,         \* the contents the user sends
    Wire,           \* the session/update notifications the agent sends
    Form,           \* the elicitations that are forms: their ids are minted
    Offer,          \* the sets of option kinds a permission request may offer
    Action,         \* permissionActionKey of the requests
    ActionOf,
    Denied,         \* the calls the host's policy denies
    MaxHeard,       \* bounds of the model: notifications,
    MaxTurns,       \* prompts,
    MaxAsked        \* requests with each id

ASSUME StreamAssumption ==
    /\ Form \subseteq Elicitation /\ Denied \subseteq Tool
    /\ Tool \cap Elicitation = {}
    /\ ActionOf \in [Tool -> Action]
    /\ \A offer \in Offer : offer \subseteq Approvals \cup Refusals
    /\ \A b \in Content : b.type = "text" => b = Text(b.text) /\ b.text \in Seq(Char)
    /\ Prompt \subseteq Seq(Content)
    /\ \A n \in Wire :
        \/ n.kind \in {"user_message_chunk", "agent_message", "thought"} /\ n.chunk \in Content
        \/ n.kind \in {"tool_call", "tool_call_update"} /\ n.tool \in Tool
        \/ n.kind \in {"compaction_update", "compaction_summary_chunk"} /\ n.compaction \in Compaction
    /\ MaxHeard \in Nat /\ MaxTurns \in Nat
    /\ MaxAsked \in [Tool \cup Elicitation -> Nat]

VARIABLES
    doc,        \* the session's document in the store
    echo,       \* echo: prompt, buffered, protocolMessageId, echoWindowClosed
    turn,       \* pendingPrompt: the number of the prompt in flight, or 0
    awaiting,   \* the call of send() whose request has not settled, or 0
    waiter,     \* the waiters, by the number of the request with that id
    offered,    \* a permission waiter's options
    memory,     \* permissionMemory
    up,         \* the connection lives
    heard,      \* history: the notifications received
    prompts,    \* history: the prompts sent
    asked,      \* history: requests with an id
    aborted,    \* history: the requests the agent gave up
    answered,   \* history: the requests whose RPC was answered
    matched     \* history: what confirmed a prompt, <<prompt, raws>>

cardVars == <<waiter, offered, memory, asked, aborted, answered>>
turnVars == <<echo, turn, awaiting, prompts>>
vars == <<doc, turnVars, cardVars, up, heard, matched>>

Card == Tool \cup Elicitation
NoEcho == [prompt |-> <<>>, buffered |-> <<>>, id |-> NoId, closed |-> TRUE]

Init ==
    /\ doc = emptySession
    /\ echo = NoEcho
    /\ turn = 0 /\ awaiting = 0
    /\ waiter = [c \in Card |-> 0]
    /\ offered = [t \in Tool |-> {}]
    /\ memory = [a \in Action |-> "none"]
    /\ up = TRUE
    /\ heard = <<>> /\ prompts = <<>>
    /\ asked = [c \in Card |-> 0]
    /\ aborted = {} /\ answered = {} /\ matched = {}
-----------------------------------------------------------------------------
\* The echo of a prompt (echoReconciliation.ts)
Mappable(block) == block.type \in {"text", "image"}

coalesceText(blocks) ==
    LET upTo[i \in 0 .. Len(blocks)] ==
            IF i = 0 THEN <<>> ELSE AppendPart(upTo[i - 1], blocks[i])
    IN  upTo[Len(blocks)]

IsPrefixText(part, whole) == part.type = "text" /\ whole.type = "text"
                             /\ IsPrefix(part.text, whole.text)

RelationByCount(prompt, chunks) ==      \* mutant: equal as soon as the blocks are as many
    LET expected == coalesceText(prompt)
        actual == coalesceText(chunks)
    IN  IF Len(actual) = Len(expected) THEN "equal" ELSE "prefix"
echoRelation(prompt, chunks) ==
    LET expected == coalesceText(prompt)
        actual == coalesceText(chunks)
        n == Len(actual)
        follows == /\ \A i \in DOMAIN chunks : Mappable(chunks[i])
                   /\ n <= Len(expected)
                   /\ \A i \in 1 .. n : i < n => actual[i] = expected[i]
                   /\ n > 0 => actual[n] = expected[n] \/ IsPrefixText(actual[n], expected[n])
    IN  IF ~follows THEN "different"
        ELSE IF actual = expected THEN "equal" ELSE "prefix"

\* toAcpUpdates (wire.ts): the event of notification number i.  Content that
\* cannot be mapped becomes an "unsupported" event.
Event(i) ==
    LET n == heard'[i] IN
    CASE n.kind = "user_message_chunk" ->
            IF Mappable(n.chunk)
            THEN [kind |-> "user_message", content |-> <<n.chunk>>, optimistic |-> FALSE,
                  id |-> n.id, raws |-> <<i>>]
            ELSE [kind |-> "unsupported", raws |-> <<i>>]
      [] n.kind \in {"agent_message", "thought"} ->
            IF Mappable(n.chunk)
            THEN [kind |-> n.kind, chunk |-> n.chunk, id |-> n.id, raws |-> <<i>>]
            ELSE [kind |-> "unsupported", raws |-> <<i>>]
      [] n.kind \in {"tool_call", "tool_call_update"} ->
            [kind |-> n.kind, tool |-> n.tool, status |-> n.status, raws |-> <<i>>]
      [] n.kind = "compaction_update" ->
            [kind |-> n.kind, compaction |-> n.compaction, status |-> n.status,
             replaces |-> n.replaces, summary |-> IF n.replaces THEN <<i>> ELSE <<>>]
      [] n.kind = "compaction_summary_chunk" ->
            [kind |-> n.kind, compaction |-> n.compaction, raws |-> <<i>>]
Events(raws) == [k \in DOMAIN raws |-> Event(raws[k])]

DropHeld == <<>>                    \* mutant: the window closes, the buffer is dropped
Flushed == Events(echo.buffered)
StillHeld == [echo EXCEPT !.closed = TRUE]   \* mutant: flushed, and kept
ClosedEcho == [echo EXCEPT !.buffered = <<>>, !.closed = TRUE]
AfterFlush == IF echo.buffered = <<>> THEN echo ELSE ClosedEcho

FlushLate(i) == <<Event(i)>> \o Flushed         \* mutant: the notification overtakes the buffer
InOrder(i) == Flushed \o <<Event(i)>>

\* feed(): the events to fold, and the echo's state, for notification i.
PassThrough(i) ==
    /\ doc' = ApplyAll(doc, InOrder(i))
    /\ echo' = AfterFlush
    /\ UNCHANGED matched

Reconcile(i) ==
    LET buffered == Append(echo.buffered, i)
        id == IF echo.id = NoId THEN heard'[i].id ELSE echo.id
        relation == echoRelation(echo.prompt, [k \in DOMAIN buffered |-> heard'[buffered[k]].chunk])
    IN  \/ /\ relation = "equal"
           /\ doc' = ApplyUpdate(doc, [kind |-> "user_message_confirmed", id |-> id, raws |-> buffered])
           /\ echo' = [echo EXCEPT !.buffered = <<>>, !.id = id, !.closed = TRUE]
           /\ matched' = matched \cup {<<echo.prompt, buffered>>}
        \/ /\ relation = "different"
           /\ doc' = ApplyAll(doc, Events(buffered))
           /\ echo' = [ClosedEcho EXCEPT !.id = id]
           /\ UNCHANGED matched
        \/ /\ relation = "prefix"
           /\ echo' = [echo EXCEPT !.buffered = buffered, !.id = id]
           /\ UNCHANGED <<doc, matched>>

OtherMessage(n) == echo.id # NoId /\ n.id # NoId /\ n.id # echo.id

\* handleUpdate
Hear(n) ==
    /\ up
    /\ Len(heard) < MaxHeard
    /\ heard' = Append(heard, n)
    /\ LET i == Len(heard) + 1 IN
       IF echo.closed \/ n.kind # "user_message_chunk" \/ OtherMessage(n)
       THEN PassThrough(i)
       ELSE Reconcile(i)
    /\ UNCHANGED <<turn, awaiting, prompts, cardVars, up>>
-----------------------------------------------------------------------------
\* Waiters.  Converged gives the status after a change of the waiters.
ConvergeFirst(waiting, inFlight) ==     \* mutant: before the waiter is taken out
    IF \E c \in Card : waiter[c] # 0 THEN "requires_action"
    ELSE IF inFlight # 0 THEN "running" ELSE "idle"
Converged(waiting, inFlight) ==
    IF \E c \in Card : waiting[c] # 0 THEN "requires_action"
    ELSE IF inFlight # 0 THEN "running" ELSE "idle"

\* settlePermission and settleElicitation for the cards whose RPC is answered
\* now; the document d has their outcomes already.
Answer(cards, d, inFlight) ==
    /\ waiter' = [c \in Card |-> IF c \in cards THEN 0 ELSE waiter[c]]
    /\ offered' = [t \in Tool |-> IF t \in cards THEN {} ELSE offered[t]]
    /\ answered' = answered \cup {<<c, waiter[c]>> : c \in cards}
    /\ doc' = IF cards = {} THEN d ELSE SetStatus(d, Converged(waiter', inFlight))

Waiting == {c \in Card : waiter[c] # 0}

\* finishAllPermissions, finishAllElicitations: the document after both.
CancelCards(d, cards) ==
    ResolveElicitations(ResolvePermissions(d, cards \cap Tool, Cancelled),
                        cards \cap Elicitation, "cancelled")

MemoryFirst(t, offer) ==                \* mutant: the memory outranks the policy
    IF memory[ActionOf[t]] \in offer
    THEN [outcome |-> "remembered", kind |-> memory[ActionOf[t]]]
    ELSE IF t \in Denied THEN [outcome |-> "denied-by-policy", kind |-> "none"] ELSE NoResponse
\* handlePermissionRequest: what is answered without asking the user.
AutoAnswer(t, offer) ==
    IF t \in Denied
    THEN [outcome |-> "denied-by-policy", kind |-> "none"]
    ELSE IF memory[ActionOf[t]] \in offer
         THEN [outcome |-> "remembered", kind |-> memory[ActionOf[t]]]
         ELSE NoResponse

\* A waiter of an earlier request with the same id is settled first.
Superseded(t) == IF waiter[t] # 0 THEN ResolvePermission(doc, t, Cancelled) ELSE doc
LeakedStale(t) == {}                    \* mutant: the stale request is forgotten
SettledStale(t) == IF waiter[t] # 0 THEN {<<t, waiter[t]>>} ELSE {}

AskPermission(t, offer) ==
    /\ up
    /\ asked[t] < MaxAsked[t]
    /\ asked' = [asked EXCEPT ![t] = @ + 1]
    /\ LET n == asked[t] + 1
           auto == AutoAnswer(t, offer)
           requested == RequestPermission(Superseded(t), t)
           others == [waiter EXCEPT ![t] = 0]
       IN  IF auto # NoResponse
           THEN /\ doc' = SetStatus(ResolvePermission(requested, t, auto),
                            IF waiter[t] # 0 THEN Converged(others, turn) ELSE doc.status)
                /\ answered' = answered \cup SettledStale(t) \cup {<<t, n>>}
                /\ waiter' = others
                /\ offered' = [offered EXCEPT ![t] = {}]
           ELSE /\ waiter' = [waiter EXCEPT ![t] = n]
                /\ offered' = [offered EXCEPT ![t] = offer]
                /\ doc' = SetStatus(requested, Converged(waiter', turn))
                /\ answered' = answered \cup SettledStale(t)
    /\ UNCHANGED <<memory, aborted>>
    /\ UNCHANGED <<turnVars, up, heard, matched>>

\* resolvePermission: the user picks an option the card offers.
Remember(t, kind) ==
    memory' = IF kind \in {"allow_always", "reject_always"}
              THEN [memory EXCEPT ![ActionOf[t]] = kind]
              ELSE memory
PickPermission(t, kind) ==
    /\ waiter[t] # 0
    /\ kind \in offered[t]
    /\ Remember(t, kind)
    /\ Answer({t}, ResolvePermission(doc, t, [outcome |-> "selected", kind |-> kind]), turn)
    /\ UNCHANGED <<asked, aborted>>
    /\ UNCHANGED <<turnVars, up, heard, matched>>

\* handleElicitationCreate.  A form's id is minted here, a URL's comes from the
\* agent: a repeat is declined while its id has a waiter, and waits by the card
\* that is there once the link was opened.
ShowElicitation(e, n) ==
    /\ waiter' = [waiter EXCEPT ![e] = n]
    /\ doc' = SetStatus(RequestElicitation(doc, e), Converged(waiter', turn))
    /\ UNCHANGED answered
OverwriteWaiter(e, n) == ShowElicitation(e, n)     \* mutant: the first request is forgotten
DeclineRepeat(e, n) ==
    /\ answered' = answered \cup {<<e, n>>}
    /\ UNCHANGED <<doc, waiter>>
AskElicitation(e) ==
    /\ up
    /\ asked[e] < MaxAsked[e]
    /\ e \in Form => asked[e] = 0
    /\ asked' = [asked EXCEPT ![e] = @ + 1]
    /\ IF waiter[e] # 0 THEN DeclineRepeat(e, asked[e] + 1) ELSE ShowElicitation(e, asked[e] + 1)
    /\ UNCHANGED <<offered, memory, aborted, turnVars, up, heard, matched>>

\* The buttons of a card are there while it is pending (ElicitationUrlCard).
Answerable(e) == waiter[e] # 0 /\ doc.elicitations[e] = "pending"

\* resolveElicitation: accepted or declined by the user.
AnswerElicitation(e) ==
    /\ Answerable(e)
    /\ Answer({e}, ResolveElicitations(doc, {e}, "answered"), turn)
    /\ UNCHANGED <<memory, asked, aborted, turnVars, up, heard, matched>>

\* openElicitationUrl
OpenUrl(e) ==
    /\ e \notin Form /\ Answerable(e)
    /\ Answer({e}, OpenElicitationUrl(doc, e), turn)
    /\ UNCHANGED <<memory, asked, aborted, turnVars, up, heard, matched>>

\* handleElicitationComplete
CompleteBySelf(e) ==                    \* mutant: the RPC of a card never opened hangs
    /\ doc' = CompleteElicitationUrl(doc, e)
    /\ UNCHANGED <<waiter, offered, answered>>
CompleteCard(e) ==
    /\ Answer({e} \cap Waiting, CompleteElicitationUrl(doc, e), turn)
CompleteUrl(e) ==
    /\ up
    /\ e \notin Form /\ asked[e] > 0
    /\ CompleteCard(e)
    /\ UNCHANGED <<memory, asked, aborted, turnVars, up, heard, matched>>

\* $/cancel_request for request n with id c: only its own waiter is settled.
AbortByKey(c, n) == waiter[c] # 0       \* mutant: whoever waits under the id
AbortHits(c, n) == waiter[c] = n
Abort(c, n) ==
    /\ up
    /\ <<c, n>> \notin aborted
    /\ aborted' = aborted \cup {<<c, n>>}
    /\ IF AbortHits(c, n)
       THEN Answer({c}, CancelCards(doc, {c}), turn)
       ELSE UNCHANGED <<doc, waiter, offered, answered>>
    /\ UNCHANGED <<memory, asked, turnVars, up, heard, matched>>
-----------------------------------------------------------------------------
\* The turn
Optimistic(content) ==
    [kind |-> "user_message", content |-> content, optimistic |-> TRUE, id |-> NoId, raws |-> <<>>]

\* send(): the composer is open while the document is idle.
Send(content) ==
    /\ up
    /\ Len(prompts) < MaxTurns
    /\ doc.status = "idle"
    /\ prompts' = Append(prompts, content)
    /\ turn' = Len(prompts')
    /\ awaiting' = turn'
    /\ echo' = [prompt |-> content, buffered |-> <<>>, id |-> NoId, closed |-> FALSE]
    /\ doc' = SetStatus(ApplyUpdate(doc, Optimistic(content)), "running")
    /\ UNCHANGED <<cardVars, up, heard, matched>>

StayRunning(d) == d                     \* mutant: the status of a dead turn stays
Settle(d) == SetStatus(d, "idle")

\* The rest of send(), once the agent answered with a stop reason.
TurnEnds(stopReason) ==
    /\ up /\ awaiting # 0
    /\ heard' = heard
    /\ LET noticed == IF stopReason = "end_turn" THEN doc
                      ELSE ApplyUpdate(doc, [kind |-> "turn_notice"])
       IN  doc' = Settle(ApplyAll(noticed, Flushed))
    /\ echo' = NoEcho
    /\ turn' = 0 /\ awaiting' = 0
    /\ UNCHANGED <<prompts, cardVars, up, matched>>

\* The agent answered with an error: the cards are cancelled.
TurnFails ==
    /\ up /\ awaiting # 0
    /\ heard' = heard
    /\ Answer(Waiting, Settle(ApplyAll(CancelCards(doc, Waiting), Flushed)), 0)
    /\ echo' = NoEcho
    /\ turn' = 0 /\ awaiting' = 0
    /\ UNCHANGED <<prompts, memory, asked, aborted, up, matched>>

\* cancel(): Stop is offered while the document is running.
Cancel ==
    /\ up /\ turn # 0
    /\ doc.status = "running"
    /\ Answer(Waiting, CancelCards(doc, Waiting), turn)
    /\ UNCHANGED <<memory, asked, aborted, turnVars, up, heard, matched>>

\* cleanupConnection, and then the rest of the send() it left behind.
Disconnect ==
    /\ up
    /\ up' = FALSE
    /\ turn' = 0
    /\ echo' = NoEcho
    /\ memory' = [a \in Action |-> "none"]
    /\ Answer(Waiting, CancelCards(doc, Waiting), 0)
    /\ UNCHANGED <<awaiting, prompts, heard, asked, aborted, matched>>
SendRejected ==
    /\ ~up /\ awaiting # 0
    /\ awaiting' = 0
    /\ doc' = Settle(doc)
    /\ UNCHANGED <<echo, turn, prompts, cardVars, up, heard, matched>>
-----------------------------------------------------------------------------
Ask == (\E t \in Tool, offer \in Offer : AskPermission(t, offer))
       \/ \E e \in Elicitation : AskElicitation(e)
User ==
    \/ \E content \in Prompt : Send(content)
    \/ Cancel
    \/ \E t \in Tool : \E kind \in offered[t] : PickPermission(t, kind)
    \/ \E e \in Elicitation : AnswerElicitation(e) \/ OpenUrl(e)
Agent ==
    \/ \E n \in Wire : Hear(n)
    \/ Ask
    \/ \E c \in Card : \E n \in 1 .. asked[c] : Abort(c, n)
    \/ \E e \in Elicitation : CompleteUrl(e)
    \/ \E stopReason \in {"end_turn", "cancelled"} : TurnEnds(stopReason)
    \/ TurnFails
Next == User \/ Agent \/ Disconnect \/ SendRejected
Spec == Init /\ [][Next]_vars

\* A request on a closed connection is rejected.
LiveSpec == Spec /\ WF_vars(SendRejected)
-----------------------------------------------------------------------------
Blocks(d) == {At(d, p) : p \in Places(d)}
MessageKinds == {"user_message", "agent_message", "thought", "unsupported"}
HeardMessages ==
    {i \in DOMAIN heard : heard[i].kind \in {"user_message_chunk", "agent_message", "thought"}}

TypeOK ==
    /\ doc.status \in {"idle", "running", "requires_action"}
    /\ \A b \in Blocks(doc) : b.kind \in MessageKinds \cup
            {"tool_call", "turn_notice", "compaction_notice"}
    /\ \A i \in DOMAIN doc.turns : doc.turns[i] # <<>>
    /\ turn \in {0, awaiting} /\ awaiting \in 0 .. Len(prompts)
    /\ \A c \in Card : waiter[c] \in 0 .. asked[c] /\ asked[c] <= MaxAsked[c]
    /\ offered \in [Tool -> SUBSET UNION Offer]
    /\ memory \in [Action -> {"none", "allow_always", "reject_always"}]
    /\ up \in BOOLEAN
    /\ Len(heard) <= MaxHeard /\ Len(prompts) <= MaxTurns
    /\ echo.closed => echo.buffered = <<>>
    /\ ~echo.closed => turn # 0

\* No message of the agent is lost to the reconciliation: it is in the flow,
\* still held back, or it was the echo that confirmed a prompt (feed, flush,
\* settle of echoReconciliation.ts).
NothingLost ==
    up => \A i \in HeardMessages :
        \/ \E b \in Blocks(doc) : b.kind \in MessageKinds /\ i \in Range(b.raws)
        \/ i \in Range(echo.buffered)
        \/ \E m \in matched : i \in Range(m[2])

\* Content as a sequence of characters and other blocks, however it is cut.
Flat(blocks) ==
    LET upTo[i \in 0 .. Len(blocks)] ==
            IF i = 0 THEN <<>>
            ELSE upTo[i - 1] \o (IF blocks[i].type = "text" THEN blocks[i].text ELSE <<blocks[i]>>)
    IN  upTo[Len(blocks)]

\* What confirms a prompt says exactly what the prompt says, in whatever
\* pieces it came (echoRelation, coalesceText).
MatchesAreExact ==
    \A m \in matched : Flat([k \in DOMAIN m[2] |-> heard[m[2][k]].chunk]) = Flat(m[1])

\* The flow keeps the order of the wire, and shows nothing twice: what was held
\* back comes before what came after it.
FlowInOrder ==
    \A p, q \in Places(doc) :
        At(doc, p).kind \in MessageKinds /\ At(doc, q).kind \in MessageKinds =>
            \A i \in DOMAIN At(doc, p).raws, j \in DOMAIN At(doc, q).raws :
                Before(p, q) \/ (p = q /\ i < j) => At(doc, p).raws[i] < At(doc, q).raws[j]

\* A block that is marked as the local prompt says what the user sent and
\* nothing else: no echo, flushed or late, is merged into it.
PromptUntouched ==
    \A b \in Blocks(doc) :
        b.kind = "user_message" /\ b.optimistic => b.content \in Range(prompts)

\* The flow a user reads is what was sent and what was heard: nothing is lost
\* or doubled, nothing is out of order, and the echo of a prompt is taken for
\* the prompt only when it says the same.
FlowIsFaithful == TypeOK /\ NothingLost /\ MatchesAreExact /\ FlowInOrder /\ PromptUntouched

\* A tool call has one card, whichever came first, its request or its event.
OneBlockPerTool == \A t \in Tool : Cardinality(ToolPlaces(doc, t)) <= 1

\* A placeholder whose tool_call never came does not await approval once the
\* request was refused, denied or cancelled (retirePendingToolCall).
PlaceholderHasReason ==
    \A t \in Tool : \A p \in ToolPlaces(doc, t) :
        At(doc, p).raws = <<>> /\ At(doc, p).status = "pending" =>
            \/ doc.permissions[t].status = "pending"
            \/ doc.permissions[t].response.kind \in Approvals

\* A card that can be answered has a request behind it, and a request that waits
\* has its card: it can be answered there, unless it repeats the id of a link that
\* was opened before, whose card has no button left.
WaiterHasCard ==
    /\ \A t \in Tool : waiter[t] # 0 <=> doc.permissions[t].status = "pending"
    /\ \A e \in Elicitation :
        /\ doc.elicitations[e] = "pending" => waiter[e] # 0
        /\ waiter[e] # 0 => \/ doc.elicitations[e] = "pending"
                            \/ doc.elicitations[e] = "opened" /\ waiter[e] > 1

\* Every request of the agent is answered or can still be answered: a repeat,
\* a cancel, an abort or a lost connection forgets none.
NoLeakedRequest ==
    \A c \in Card : \A n \in 1 .. asked[c] : <<c, n>> \in answered \/ waiter[c] = n

\* The session asks for the user only while something waits for the user.
NoPhantomAction == doc.status = "requires_action" => Waiting # {}

\* Nothing claims to wait for the user that does not, and every request ends or
\* waits behind its card: a repeat, an abort, a completion or a lost connection
\* parts no card from its request.  One waits by a card that cannot answer it, the
\* repeat of an opened link (WaiterIsAnswerable).
RequestsAreShown == WaiterHasCard /\ NoLeakedRequest /\ NoPhantomAction

\* No block carries two permissions (projectMessageStream).
OneCardPerBlock ==
    LET placed == Placement(doc) IN
    \A i, j \in DOMAIN placed :
        i # j /\ placed[i][2] = placed[j][2] => placed[i][2] = Standalone

\* A permission is shown on the block of its call, if the call has one.  It is
\* displaced by one thing only: an earlier permission whose own call has no block
\* took it for the sole pending one; then it stands alone, on no other's block.
OnItsBlock(placed, i) == placed[i][2] \in ToolPlaces(doc, placed[i][1])
Homeless(placed, i) == ToolPlaces(doc, placed[i][1]) = {}
Displaced(placed, i) ==
    /\ placed[i][2] = Standalone
    /\ \E j \in DOMAIN placed :
        /\ j < i /\ Homeless(placed, j)
        /\ placed[j][2] \in ToolPlaces(doc, placed[i][1])
ShownOnItsCall ==
    LET placed == Placement(doc) IN
    \A i \in DOMAIN placed :
        OnItsBlock(placed, i) \/ Homeless(placed, i) \/ Displaced(placed, i)

\* However requests, events and turns came one after the other, a call has one
\* card, no card has two permissions, and a permission is on its own call's card
\* or was displaced from it by one without a block.
CardPlacement == OneBlockPerTool /\ PlaceholderHasReason /\ OneCardPerBlock /\ ShownOnItsCall

\* Giving up a request takes down that request only, not one that superseded it.
AbortIsOwn ==
    [][\A c \in Card : \A n \in 1 .. asked[c] :
        <<c, n>> \in aborted' \ aborted =>
            \A d \in Card : waiter'[d] # waiter[d] => d = c /\ waiter[c] = n]_vars

\* No call the policy denies is ever approved from memory.
DeniedStaysDenied ==
    \A t \in Denied : doc.permissions[t].response.kind \notin Approvals

\* No request is answered for another's sake: none the policy denies from the
\* memory of an approval, none because its predecessor was given up.
AnswersAreOwn == []DeniedStaysDenied /\ AbortIsOwn

\* The flow tells of a compaction's end once for each time it ends, however
\* often the agent sends the status again.
UpdatesOf(c) ==
    {i \in DOMAIN heard : heard[i].kind = "compaction_update" /\ heard[i].compaction = c}
EndsOf(c) ==
    {i \in UpdatesOf(c) :
        /\ heard[i].status \in {"completed", "failed"}
        /\ \A j \in UpdatesOf(c) :
            j < i /\ (\A k \in UpdatesOf(c) : k <= j \/ k >= i) => heard[j].status # heard[i].status}
NoticesOf(c) ==
    {p \in Places(doc) : At(doc, p).kind = "compaction_notice" /\ At(doc, p).id = c}
NoticePerEnding == \A c \in Compaction : Cardinality(NoticesOf(c)) = Cardinality(EndsOf(c))

\* Whatever the connection dies in, the session comes to rest.
ComesToRest == ~up ~> doc.status = "idle"

\* A request that waits can be answered: "Double-flight on one id would strand one
\* RPC with no card - decline the repeat loudly" (handleElicitationCreate).  Not so
\* where the link with that id was opened.
WaiterIsAnswerable == \A e \in Elicitation : waiter[e] # 0 => Answerable(e)

\* "Exact toolCallId match claims a block" (messageStream.ts): no permission of a
\* call that has a block is anywhere else.  Not so where one without a block came
\* first (Displaced).
OwnBlockShown ==
    LET placed == Placement(doc) IN
    \A i \in DOMAIN placed : OnItsBlock(placed, i) \/ Homeless(placed, i)

\* "A local prompt always opens a turn" (reducer.ts, appendUserMessage).
LocalPromptOpensTurn == [][prompts' # prompts => Len(doc'.turns) > Len(doc.turns)]_vars

\* A confirmed block "stays locked against merging" (reducer.ts, confirmUserMessage):
\* it says what the prompt said.
ConfirmedStaysLocked ==
    \A b \in Blocks(doc) : \A m \in matched :
        b.kind = "user_message" /\ m[2] # <<>> /\ Head(m[2]) \in Range(b.raws)
            => b.content = m[1]
=============================================================================
