--------------------------- MODULE SessionDocument ---------------------------
(***************************************************************************)
(* The session document and the functions that fold events into it        *)
(* (src/protocol/reducer.ts), and the item list the message stream is      *)
(* rendered from (src/projector/messageStream.ts).  A document is a        *)
(* record; an event is a record with a kind, and with the numbers of the   *)
(* wire notifications it stands for (raws).  Titles, inputs, diffs, usage  *)
(* and the other payloads the folds only replace are left out.             *)
(***************************************************************************)
EXTENDS Naturals, Sequences, FiniteSets, SequencesExt

CONSTANTS
    Tool,           \* toolCallIds
    Elicitation,    \* elicitationIds
    Compaction,     \* compactionIds
    NoId            \* no messageId

Approvals == {"allow_once", "allow_always"}
Refusals == {"reject_once", "reject_always"}
NoResponse == [outcome |-> "none", kind |-> "none"]
Cancelled == [outcome |-> "cancelled", kind |-> "none"]

emptySession ==
    [turns        |-> <<>>,
     status       |-> "idle",
     \* permissions, in the order of their first requests
     permissions  |-> [t \in Tool |-> [status |-> "none", response |-> NoResponse]],
     requested    |-> <<>>,
     elicitations |-> [e \in Elicitation |-> "none"],
     compactions  |-> [c \in Compaction |-> [status |-> "none", summary |-> <<>>]]]

\* Blocks.  A content block is a text (a nonempty sequence of characters) or
\* anything else; a message block's raws are its rawNotifications.
Text(chars) == [type |-> "text", text |-> chars]
UserBlock(content, optimistic, id, raws) ==
    [kind |-> "user_message", content |-> content, optimistic |-> optimistic,
     id |-> id, raws |-> raws]
StreamBlock(kind, id, parts, raws) ==
    [kind |-> kind, id |-> id, parts |-> parts, raws |-> raws]
ToolBlock(t, status, raws) ==
    [kind |-> "tool_call", id |-> t, status |-> status, raws |-> raws]
NoBlock == [kind |-> "none"]
-----------------------------------------------------------------------------
\* Block plumbing
LastBlock(d) == IF d.turns = <<>> THEN NoBlock ELSE Last(Last(d.turns))

ReplaceLastBlock(d, block) ==
    LET turn == Last(d.turns)
    IN  [d EXCEPT !.turns[Len(d.turns)] = [turn EXCEPT ![Len(turn)] = block]]

AppendBlock(d, block, newTurn) ==
    IF newTurn \/ d.turns = <<>>
    THEN [d EXCEPT !.turns = Append(@, <<block>>)]
    ELSE [d EXCEPT !.turns[Len(d.turns)] = Append(@, block)]

\* The places <<turn, index>> of the blocks, and of a tool's block.
Places(d) == UNION {{<<i, j>> : j \in DOMAIN d.turns[i]} : i \in DOMAIN d.turns}
At(d, place) == d.turns[place[1]][place[2]]
Before(p, q) == p[1] < q[1] \/ (p[1] = q[1] /\ p[2] < q[2])
ToolPlaces(d, t) ==
    {p \in Places(d) : At(d, p).kind = "tool_call" /\ At(d, p).id = t}
-----------------------------------------------------------------------------
\* Messages
MergesIntoEcho(last, e) ==      \* mutant: into the local prompt as well
    last.kind = "user_message" /\ last.id = e.id
\* The same id, or none on either side; never into a local prompt.
Mergeable(last, e) ==
    last.kind = "user_message" /\ ~last.optimistic /\ last.id = e.id

Merged(last, e) == [last EXCEPT !.content = @ \o e.content, !.raws = @ \o e.raws]

AppendUserMessage(d, e) ==
    LET last == LastBlock(d)
        block == UserBlock(e.content, e.optimistic, e.id, e.raws)
        otherPrompt == e.id # NoId /\ last.id # NoId /\ e.id # last.id
    IN  IF Mergeable(last, e)
        THEN ReplaceLastBlock(d, Merged(last, e))
        ELSE AppendBlock(d, block,
                e.optimistic \/ last.kind # "user_message" \/ otherPrompt)

\* With an id the local marker goes, without one it stays.
Confirmed(last, e) ==
    [last EXCEPT !.optimistic = (e.id = NoId), !.id = e.id, !.raws = @ \o e.raws]

ConfirmUserMessage(d, e) ==
    LET last == LastBlock(d) IN
    IF last.kind = "user_message" /\ last.optimistic
    THEN ReplaceLastBlock(d, Confirmed(last, e))
    ELSE d

AppendPart(parts, chunk) ==
    IF parts # <<>> /\ chunk.type = "text" /\ Last(parts).type = "text"
    THEN [parts EXCEPT ![Len(parts)] = Text(@.text \o chunk.text)]
    ELSE Append(parts, chunk)

AutoMessageId(d, kind) == <<kind, Cardinality(Places(d)) + 1>>

AppendChunk(d, e) ==
    LET last == LastBlock(d) IN
    IF last.kind = e.kind /\ (e.id = NoId \/ last.id = e.id)
    THEN ReplaceLastBlock(d, [last EXCEPT !.parts = AppendPart(@, e.chunk), !.raws = @ \o e.raws])
    ELSE AppendBlock(d,
            StreamBlock(e.kind, IF e.id = NoId THEN AutoMessageId(d, e.kind) ELSE e.id,
                        <<e.chunk>>, e.raws),
            FALSE)
-----------------------------------------------------------------------------
\* Tool calls.  ReplaceTools maps every block of the calls in place.
ReplaceTools(d, calls, block(_)) ==
    [d EXCEPT !.turns =
        [i \in DOMAIN d.turns |-> [j \in DOMAIN d.turns[i] |->
            LET b == d.turns[i][j]
            IN  IF b.kind = "tool_call" /\ b.id \in calls THEN block(b) ELSE b]]]

AlwaysAppendToolCall(d, t, block) ==    \* mutant: a second card for one call
    IF d.turns = <<>> THEN d ELSE AppendBlock(d, block, FALSE)
UpsertToolCall(d, t, block) ==
    IF ToolPlaces(d, t) # {}
    THEN ReplaceTools(d, {t}, LAMBDA b : block)
    ELSE IF d.turns = <<>> THEN d ELSE AppendBlock(d, block, FALSE)

\* An update patches a known call; e.status = "none" leaves the status alone.
PatchToolCall(d, e) ==
    ReplaceTools(d, {e.tool}, LAMBDA b :
        [b EXCEPT !.status = IF e.status = "none" THEN @ ELSE e.status, !.raws = @ \o e.raws])
-----------------------------------------------------------------------------
\* Permissions
RequestPermission(d, t) ==
    LET recorded == [d EXCEPT
            !.permissions[t] = [status |-> "pending", response |-> NoResponse],
            !.requested = IF d.permissions[t].status = "none" THEN Append(@, t) ELSE @]
    IN  IF ToolPlaces(d, t) # {}
        THEN recorded
        ELSE UpsertToolCall(recorded, t, ToolBlock(t, "pending", <<>>))

RefusedByUser(response) ==      \* mutant: only the user's own refusals
    response.outcome = "selected" /\ response.kind \in Refusals
ToolWillNotRun(response) ==
    \/ response.outcome \in {"cancelled", "denied-by-policy"}
    \/ response.outcome = "remembered" /\ response.kind = "reject_always"
    \/ response.outcome = "selected" /\ response.kind \in Refusals

RetirePendingToolCalls(d, calls) ==
    ReplaceTools(d, calls, LAMBDA b :
        IF b.status = "pending" THEN [b EXCEPT !.status = "cancelled"] ELSE b)

\* The same response to the permissions of some calls: one, or all that wait.
ResolvePermissions(d, calls, response) ==
    LET status == IF response.outcome = "cancelled" THEN "cancelled" ELSE "resolved"
        known == {t \in calls : d.permissions[t].status # "none"}
        recorded == [d EXCEPT !.permissions = [t \in Tool |->
            IF t \in known THEN [status |-> status, response |-> response] ELSE @[t]]]
    IN  IF ToolWillNotRun(response) THEN RetirePendingToolCalls(recorded, known) ELSE recorded
ResolvePermission(d, t, response) == ResolvePermissions(d, {t}, response)
-----------------------------------------------------------------------------
\* Elicitations: the statuses an event may leave, and the status it sets.
Unfinished == {"pending", "opened"}

MoveElicitations(d, es, from, to) ==
    [d EXCEPT !.elicitations = [e \in Elicitation |->
        IF e \in es /\ @[e] \in from THEN to ELSE @[e]]]

RequestElicitation(d, e) ==
    MoveElicitations(d, {e}, {"none", "resolved", "cancelled", "completed"}, "pending")
ResolveElicitations(d, es, outcome) ==
    MoveElicitations(d, es, {"pending"},
                     IF outcome = "cancelled" THEN "cancelled" ELSE "resolved")
OpenElicitationUrl(d, e) == MoveElicitations(d, {e}, {"pending"}, "opened")
CompleteElicitationUrl(d, e) == MoveElicitations(d, {e}, Unfinished, "completed")
-----------------------------------------------------------------------------
\* Compactions
NoticeEachTime(prev, status) == status \in {"completed", "failed"} \* mutant: re-sent, shown again
NoticeDue(prev, status) == status \in {"completed", "failed"} /\ prev # status

\* An update replaces (or clears) the summary only when it carries one.
PatchCompaction(d, e) ==
    LET patched == [d EXCEPT !.compactions[e.compaction] =
            [status |-> e.status, summary |-> IF e.replaces THEN e.summary ELSE @.summary]]
    IN  IF NoticeDue(d.compactions[e.compaction].status, e.status)
        THEN AppendBlock(patched,
                [kind |-> "compaction_notice", id |-> e.compaction, outcome |-> e.status], FALSE)
        ELSE patched

\* A chunk before its compaction plants it as in progress.
AppendSummary(d, e) ==
    [d EXCEPT !.compactions[e.compaction] =
        [status |-> IF @.status = "none" THEN "in_progress" ELSE @.status,
         summary |-> @.summary \o e.raws]]
-----------------------------------------------------------------------------
ApplyUpdate(d, e) ==
    CASE e.kind = "user_message"             -> AppendUserMessage(d, e)
      [] e.kind = "user_message_confirmed"   -> ConfirmUserMessage(d, e)
      [] e.kind \in {"agent_message", "thought"} -> AppendChunk(d, e)
      [] e.kind = "tool_call"                ->
            UpsertToolCall(d, e.tool, ToolBlock(e.tool, e.status, e.raws))
      [] e.kind = "tool_call_update"         -> PatchToolCall(d, e)
      [] e.kind = "compaction_update"        -> PatchCompaction(d, e)
      [] e.kind = "compaction_summary_chunk" -> AppendSummary(d, e)
      [] e.kind = "unsupported"              ->
            AppendBlock(d, [kind |-> "unsupported", raws |-> e.raws], FALSE)
      [] e.kind = "turn_notice"              -> AppendBlock(d, [kind |-> "turn_notice"], FALSE)

ApplyAll(d, events) ==
    LET after[i \in 0 .. Len(events)] ==
            IF i = 0 THEN d ELSE ApplyUpdate(after[i - 1], events[i])
    IN  after[Len(events)]
SetStatus(d, status) == [d EXCEPT !.status = status]
-----------------------------------------------------------------------------
\* The message stream: where each permission that is rendered is shown, on
\* the block at a place or on a card of its own.
Rendered(d, t) ==
    \/ d.permissions[t].status = "pending"
    \/ d.permissions[t].response.outcome \in {"denied-by-policy", "remembered", "selected"}

First(places) == CHOOSE p \in places : \A q \in places \ {p} : Before(p, q)

\* The sole pending call of the last turn.
Fallback(d) ==
    LET pending == {p \in Places(d) : /\ p[1] = Len(d.turns)
                                      /\ At(d, p).kind = "tool_call"
                                      /\ At(d, p).status = "pending"}
    IN  IF Cardinality(pending) = 1 THEN pending ELSE {}

Taken(placed) == {placed[i][2] : i \in DOMAIN placed}

FallbackFirst(d, placed, t) ==      \* mutant: the sole pending call before its own
    IF Fallback(d) \cap Taken(placed) = {} THEN Fallback(d) ELSE {}
EvictingClaim(d, placed, t) ==      \* mutant: a later permission takes the block over
    LET own == ToolPlaces(d, t) IN IF own # {} THEN {First(own)} ELSE Fallback(d)
\* The block a permission claims, given those already placed: the block of its
\* call, else the fallback, else none.
Claim(d, placed, t) ==
    LET own == IF ToolPlaces(d, t) = {} THEN {} ELSE {First(ToolPlaces(d, t))}
    IN  IF own \ Taken(placed) # {} THEN own \ Taken(placed) ELSE Fallback(d) \ Taken(placed)

Standalone == <<0, 0>>
PlaceIn(claim) == IF claim = {} THEN Standalone ELSE CHOOSE p \in claim : TRUE
\* <<tool, place>> for each rendered permission, in record order.
Placement(d) ==
    LET upTo[i \in 0 .. Len(d.requested)] ==
            IF i = 0 THEN <<>>
            ELSE LET t == d.requested[i]
                 IN  IF Rendered(d, t)
                     THEN Append(upTo[i - 1], <<t, PlaceIn(Claim(d, upTo[i - 1], t))>>)
                     ELSE upTo[i - 1]
    IN  upTo[Len(d.requested)]
=============================================================================
