--------------------------- MODULE MCSessionStream ---------------------------
(* SessionStream for TLC: the wire of the run about messages                   *)
(* (MessagesAndNotices, or Chunks alone), and of the one about cards (Calls).  *)
EXTENDS SessionStream
CONSTANTS t1, t2, url, c1, m1, m2, act, x, y
A == Text(<<x>>)
B == Text(<<y>>)
Pic == [type |-> "image", data |-> "pic"]
Audio == [type |-> "audio"]
None == {}
MCChar == {x, y}
MCContent == {A, B, Text(<<x, y>>), Pic, Audio}
NoActions == <<>>

MCPrompt == {<<Text(<<x, y>>), Pic>>, <<A>>}
OnePrompt == {<<A>>}
Chunk(kind, chunks, ids) == [kind : {kind}, chunk : chunks, id : ids]
Chunks ==
    Chunk("user_message_chunk", {A, B, Pic, Audio}, {NoId})
    \cup Chunk("user_message_chunk", {A}, {m1, m2})
    \cup Chunk("agent_message", {A}, {NoId})

MCTool == {t1, t2}
MCElicitation == {url}
MCCompaction == {c1}
MCOffer == {{"allow_always", "reject_once"}}
MCAction == {act}
MCActionOf == [t \in MCTool |-> act]
MCDenied == {t2}
MCMaxAsked == [c \in MCTool \cup MCElicitation |-> IF c = t2 THEN 1 ELSE 2]
Calls == [kind : {"tool_call"}, tool : {t1}, status : {"pending"}]
         \cup [kind : {"tool_call_update"}, tool : {t1}, status : {"completed"}]
Compactions ==
    [kind : {"compaction_update"}, compaction : {c1}, replaces : {FALSE},
     status : {"in_progress", "completed"}]
    \cup [kind : {"compaction_summary_chunk"}, compaction : {c1}]
MessagesAndNotices == Chunks \cup Compactions
=============================================================================
