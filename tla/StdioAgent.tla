----------------------------- MODULE StdioAgent -----------------------------
(***************************************************************************)
(* Agents that run as child processes: the desktop shell's process plane   *)
(* (desktop/src-tauri/src/main.rs), the webview's side of it               *)
(* (src/desktop/boot.ts), the stdio transport and its line framing         *)
(* (src/acp/transport/StdioTransport.ts, stdioFraming.ts), and what the    *)
(* client does with a transport.  The shell's tasks, the channel and the   *)
(* webview run concurrently.  An agent writes lines, messages and noise; a *)
(* line is two bytes here, so that a chunk may end inside it.              *)
(***************************************************************************)
EXTENDS Integers, Sequences

CONSTANTS
    Conn,           \* connections, each with its transport and its child
    MaxLines        \* bound of the model: lines an agent writes

ASSUME StdioAssumption == MaxLines \in Nat

VARIABLES
    \* the webview
    loaded,         \* the page that owns the connection is there
    wanted,         \* the client's connect is not superseded, its connection not given up
    transport,      \* how far connect() and the initialize request got
    early,          \* earlyChunks, then earlyExit
    subscribed,     \* the sinks are set
    pending,        \* LineAssembler.pending
    reader,         \* readController
    delivered,      \* the lines enqueued
    settled,        \* settled
    killing,        \* kill(): asked, or resolved
    \* the shell
    app,            \* running, in the exit sweep's wait, or gone
    command,        \* the stdio_spawn of the connection
    table,          \* procs
    armed,          \* the entry's kill has been notified
    stdin,          \* the entry's stdin is there
    \* the child, and the events on their way
    proc,
    said,           \* what the child has written, line by line
    pipe,           \* its stdout, not read yet
    channel         \* the channel to the webview

pageVars  == <<loaded, wanted, transport, early, subscribed, pending, reader,
               delivered, settled, killing>>
shellVars == <<app, command, table, armed, stdin>>
childVars == <<proc, said, pipe>>
vars == <<pageVars, shellVars, childVars, channel>>

\* A line of the agent is a message (its number) or noise; its bytes are
\* <<line, 1>> and <<line, 2>>, of which the second ends it.
Noise == 0
Bytes(line) == <<<<line, 1>>, <<line, 2>>>>
Exit == <<"exit">>
Chunk(bytes) == <<"stdout", bytes>>
Alive == {"running", "terminating"}
Opened == {"open", "greeted"}

TypeOK ==
    /\ loaded \in [Conn -> BOOLEAN] /\ wanted \in [Conn -> BOOLEAN]
    /\ transport \in [Conn -> Opened \cup {"new", "spawning", "failed"}]
    /\ subscribed \in [Conn -> BOOLEAN]
    /\ reader \in [Conn -> {"none", "open", "closed"}]
    /\ settled \in [Conn -> {"no", "closed", "error"}]
    /\ killing \in [Conn -> {"no", "asked", "resolved"}]
    /\ app \in {"running", "leaving", "gone"}
    /\ command \in [Conn -> {"none", "asked", "done", "failed"}]
    /\ table \subseteq Conn /\ armed \subseteq Conn
    /\ stdin \in [Conn -> BOOLEAN]
    /\ proc \in [Conn -> Alive \cup {"none", "exited"}]
    /\ \A c \in Conn :
        /\ said[c] \in Seq({Noise} \cup 1 .. MaxLines) /\ Len(said[c]) <= MaxLines
        /\ Len(pending[c]) <= 1
        /\ proc[c] # "none" <=> command[c] = "done"
        /\ proc[c] \in Alive => c \in table
        /\ killing[c] # "no" => transport[c] \in Opened
        /\ subscribed[c] => early[c] = <<>>

Init ==
    /\ loaded = [c \in Conn |-> TRUE] /\ wanted = [c \in Conn |-> FALSE]
    /\ transport = [c \in Conn |-> "new"]
    /\ early = [c \in Conn |-> <<>>] /\ subscribed = [c \in Conn |-> FALSE]
    /\ pending = [c \in Conn |-> <<>>]
    /\ reader = [c \in Conn |-> "none"]
    /\ delivered = [c \in Conn |-> <<>>]
    /\ settled = [c \in Conn |-> "no"]
    /\ killing = [c \in Conn |-> "no"]
    /\ app = "running"
    /\ command = [c \in Conn |-> "none"]
    /\ table = {} /\ armed = {}
    /\ stdin = [c \in Conn |-> FALSE]
    /\ proc = [c \in Conn |-> "none"]
    /\ said = [c \in Conn |-> <<>>]
    /\ pipe = [c \in Conn |-> <<>>]
    /\ channel = [c \in Conn |-> <<>>]

Live(c) == app = "running" /\ loaded[c]     \* the page runs
-----------------------------------------------------------------------------
\* LineAssembler.push: the messages of the lines the bytes complete.  Noise, and
\* a line without its first byte, does not parse: enqueueLine drops it.  Of the
\* line that is not complete its bytes stay.
EndsMessage(bytes, i) ==
    i > 1 /\ bytes[i][1] # Noise /\ bytes[i - 1] = <<bytes[i][1], 1>> /\ bytes[i][2] = 2
Completed(bytes) ==
    LET upTo[i \in 0 .. Len(bytes)] ==
            IF i = 0 THEN <<>>
            ELSE IF EndsMessage(bytes, i) THEN Append(upTo[i - 1], bytes[i][1])
                 ELSE upTo[i - 1]
    IN  upTo[Len(bytes)]
Partial(bytes) ==
    LET n == Len(bytes)
    IN  IF n = 0 \/ bytes[n][2] = 2 THEN <<>> ELSE <<bytes[n]>>

PushAfresh(c, bytes) == bytes           \* mutant: the partial line of before is dropped
Pushed(c, bytes) == pending[c] \o bytes

\* enqueueLine: while there is no controller, or after the stream was closed, a
\* message is dropped too.
Enqueued(c, bytes) == IF reader[c] = "open" THEN Completed(bytes) ELSE <<>>

\* One event at the transport's handlers, and what comes of it.
Handle(c, bytes, exited) ==
    /\ delivered' = [delivered EXCEPT ![c] = @ \o Enqueued(c, bytes)]
    /\ pending' = [pending EXCEPT ![c] = IF exited THEN <<>> ELSE Partial(bytes)]
    /\ settled' = [settled EXCEPT ![c] = IF exited /\ @ = "no" THEN "closed" ELSE @]

CloseReader(c) == [reader EXCEPT ![c] = IF @ = "open" THEN "closed" ELSE @]

\* mutant: a kill without a child
DisconnectUnspawned(c) == killing' = [killing EXCEPT ![c] = "asked"] /\ reader' = CloseReader(c)
\* disconnect(): the child, once there is one, is killed, the stream closed.
Disconnect(c) ==
    /\ killing' = [killing EXCEPT ![c] = IF transport[c] \in Opened THEN "asked" ELSE @]
    /\ reader' = CloseReader(c)
-----------------------------------------------------------------------------
\* The client opens a transport: connect() up to the await of the spawn.
Connect(c) ==
    /\ Live(c) /\ transport[c] = "new"
    /\ wanted' = [wanted EXCEPT ![c] = TRUE]
    /\ transport' = [transport EXCEPT ![c] = "spawning"]
    /\ command' = [command EXCEPT ![c] = "asked"]
    /\ UNCHANGED <<loaded, early, subscribed, pending, reader, delivered, settled, killing,
                   app, table, armed, stdin, childVars, channel>>

\* The connection is given up (cleanupConnection): by the user, or because the
\* stream ended (connection.closed).
Drop(c) ==
    /\ wanted[c] /\ Live(c)
    /\ wanted' = [wanted EXCEPT ![c] = FALSE]
    /\ Disconnect(c)
    /\ UNCHANGED <<loaded, transport, early, subscribed, pending, delivered, settled,
                   shellVars, childVars, channel>>
Abandon(c) == Drop(c)
Closed(c) == reader[c] = "closed" /\ Drop(c)

\* stdio_spawn in the shell
Spawn(c) ==
    /\ command[c] = "asked" /\ app # "gone"
    /\ \/ /\ command' = [command EXCEPT ![c] = "done"]
          /\ table' = table \cup {c}
          /\ stdin' = [stdin EXCEPT ![c] = TRUE]
          /\ proc' = [proc EXCEPT ![c] = "running"]
       \/ /\ command' = [command EXCEPT ![c] = "failed"]
          /\ UNCHANGED <<table, stdin, proc>>
    /\ UNCHANGED <<pageVars, app, armed, said, pipe, channel>>

DiscardNothing(c) == killing            \* mutant: a superseded connect is just forgotten
\* discardSuperseded: disconnect() again, now that there is a child.
DiscardSuperseded(c) == [killing EXCEPT ![c] = IF wanted[c] THEN @ ELSE "asked"]

ExitForgotten(c) == FALSE               \* mutant: only the chunks of before are kept
ExitedEarly(c) == \E i \in DOMAIN early[c] : early[c][i] = Exit
EarlyBytes(c) ==
    LET upTo[i \in 0 .. Len(early[c])] ==
            IF i = 0 THEN <<>>
            ELSE upTo[i - 1] \o (IF early[c][i] = Exit THEN <<>> ELSE early[c][i][2])
    IN  upTo[Len(early[c])]

\* The spawn's answer: connect() subscribes, which replays what came early,
\* and builds the streams after that; then the client takes the stream, or
\* discards it.
Spawned(c) ==
    /\ Live(c) /\ transport[c] = "spawning" /\ command[c] = "done"
    /\ transport' = [transport EXCEPT ![c] = "open"]
    /\ subscribed' = [subscribed EXCEPT ![c] = TRUE]
    /\ Handle(c, EarlyBytes(c), ExitedEarly(c))
    /\ early' = [early EXCEPT ![c] = <<>>]
    /\ reader' = [reader EXCEPT ![c] = IF wanted[c] THEN "open" ELSE "closed"]
    /\ killing' = DiscardSuperseded(c)
    /\ UNCHANGED <<loaded, wanted, shellVars, childVars, channel>>
SpawnFailed(c) ==
    /\ Live(c) /\ transport[c] = "spawning" /\ command[c] = "failed"
    /\ transport' = [transport EXCEPT ![c] = "failed"]
    /\ wanted' = [wanted EXCEPT ![c] = FALSE]
    /\ settled' = [settled EXCEPT ![c] = "error"]
    /\ UNCHANGED <<loaded, early, subscribed, pending, reader, delivered, killing,
                   shellVars, childVars, channel>>

BrokenEntry(c) == c \notin table        \* mutant: a write to a dead child's pipe is taken for good
\* stdio_write fails: no entry, stdin dropped, or nobody at the other end.
Broken(c) == c \notin table \/ ~stdin[c] \/ proc[c] = "exited"

WriteFails(c) ==
    /\ settled' = [settled EXCEPT ![c] = IF @ = "no" THEN "error" ELSE @]
    /\ wanted' = [wanted EXCEPT ![c] = FALSE]
    /\ Disconnect(c)

\* The initialize request, which every connect sends, and later writes.  One
\* that fails ends the connection.
Greet(c) ==
    /\ Live(c) /\ wanted[c] /\ transport[c] = "open"
    /\ transport' = [transport EXCEPT ![c] = "greeted"]
    /\ IF Broken(c) THEN WriteFails(c) ELSE UNCHANGED <<settled, wanted, killing, reader>>
    /\ UNCHANGED <<loaded, early, subscribed, pending, delivered, shellVars, childVars, channel>>
Write(c) ==
    /\ Live(c) /\ wanted[c] /\ transport[c] = "greeted" /\ Broken(c)
    /\ WriteFails(c)
    /\ UNCHANGED <<loaded, transport, early, subscribed, pending, delivered,
                   shellVars, childVars, channel>>

\* channel.onmessage: before the subscription the event is kept.
Receive(c) ==
    /\ Live(c) /\ channel[c] # <<>>
    /\ LET event == Head(channel[c])
       IN  IF ~subscribed[c]
           THEN /\ early' = [early EXCEPT ![c] = Append(@, event)]
                /\ UNCHANGED <<pending, delivered, settled, reader>>
           ELSE /\ Handle(c, IF event = Exit THEN <<>> ELSE Pushed(c, event[2]), event = Exit)
                /\ reader' = IF event = Exit THEN CloseReader(c) ELSE reader
                /\ UNCHANGED early
    /\ channel' = [channel EXCEPT ![c] = Tail(@)]
    /\ UNCHANGED <<loaded, wanted, transport, subscribed, killing, shellVars, childVars>>

\* stdio_kill: the watcher is notified, and the answer is sent.
Kill(c) ==
    /\ Live(c) /\ killing[c] = "asked"
    /\ killing' = [killing EXCEPT ![c] = "resolved"]
    /\ armed' = armed \cup ({c} \cap table)
    /\ UNCHANGED <<loaded, wanted, transport, early, subscribed, pending, reader, delivered,
                   settled, app, command, table, stdin, childVars, channel>>
-----------------------------------------------------------------------------
\* The child writes a line; the stdout pump reads some bytes, and goes on when
\* the child has exited.
Say(c) ==
    /\ proc[c] \in Alive /\ Len(said[c]) < MaxLines
    /\ \E line \in {Noise, Len(said[c]) + 1} :
        /\ said' = [said EXCEPT ![c] = Append(@, line)]
        /\ pipe' = [pipe EXCEPT ![c] = @ \o Bytes(line)]
    /\ UNCHANGED <<pageVars, shellVars, proc, channel>>
Pump(c) ==
    /\ app # "gone"
    /\ \E n \in DOMAIN pipe[c] :
        /\ channel' = [channel EXCEPT ![c] = Append(@, Chunk(SubSeq(pipe[c], 1, n)))]
        /\ pipe' = [pipe EXCEPT ![c] = SubSeq(@, n + 1, Len(@))]
    /\ UNCHANGED <<pageVars, shellVars, proc, said>>

\* The exit watcher: the child's own end, or SIGTERM, and after the grace
\* SIGKILL; then the event, and the entry leaves the table.
Terminate(c) ==
    /\ app # "gone" /\ proc[c] = "running" /\ c \in armed
    /\ proc' = [proc EXCEPT ![c] = "terminating"]
    /\ UNCHANGED <<pageVars, shellVars, said, pipe, channel>>
Reap(c) ==
    /\ app # "gone"
    /\ proc' = [proc EXCEPT ![c] = "exited"]
    /\ channel' = [channel EXCEPT ![c] = Append(@, Exit)]
    /\ UNCHANGED <<pageVars, shellVars, said, pipe>>
Die(c) == proc[c] = "running" /\ Reap(c)
Killed(c) == proc[c] = "terminating" /\ Reap(c)
Forget(c) ==
    /\ app # "gone" /\ proc[c] = "exited" /\ c \in table
    /\ table' = table \ {c}
    /\ UNCHANGED <<pageVars, app, command, armed, stdin, childVars, channel>>

\* sweep_orphans: the children in the table are to end, and lose their stdin
\* unless a write in flight holds its lock.
SweepNobody == armed                    \* mutant: only the pipes are closed
SweepOrphans == armed \cup table
Sweep ==
    /\ armed' = SweepOrphans
    /\ \E locked \in SUBSET table : stdin' = [c \in Conn |-> stdin[c] /\ c \in locked]

\* The page is loaded anew, and the state that owned its connections is gone.
Reload ==
    /\ app = "running" /\ \E c \in Conn : loaded[c] /\ transport[c] # "new"
    /\ loaded' = [c \in Conn |-> loaded[c] /\ transport[c] = "new"]
    /\ Sweep
    /\ UNCHANGED <<wanted, transport, early, subscribed, pending, reader, delivered, settled,
                   killing, app, command, table, childVars, channel>>

\* The application exits: the sweep, then the wait for an empty table.  Its
\* deadline is longer than the grace: what was swept is gone by then.
Quit ==
    /\ app = "running" /\ app' = "leaving"
    /\ Sweep
    /\ UNCHANGED <<pageVars, command, table, childVars, channel>>
LeaveAtOnce == TRUE                     \* mutant: the exit does not wait
Waited == table = {} \/ \A c \in armed : proc[c] \notin Alive
Leave ==
    /\ app = "leaving" /\ Waited
    /\ app' = "gone"
    /\ UNCHANGED <<pageVars, command, table, armed, stdin, childVars, channel>>

Shell(c) == Spawn(c) \/ Terminate(c) \/ Killed(c) \/ Forget(c)
Page(c) == Spawned(c) \/ SpawnFailed(c) \/ Receive(c) \/ Kill(c) \/ Greet(c) \/ Closed(c)
Next ==
    \/ \E c \in Conn : Connect(c) \/ Abandon(c) \/ Page(c) \/ Write(c)
    \/ \E c \in Conn : Shell(c) \/ Die(c) \/ Pump(c) \/ Say(c)
    \/ Reload \/ Quit \/ Leave
Spec == Init /\ [][Next]_vars

\* Commands are handled, the watcher is a task of its own, SIGKILL ends a
\* child, and the webview gets the events.
Fairness == \A c \in Conn : WF_vars(Shell(c)) /\ WF_vars(Page(c))
LiveSpec == Spec /\ Fairness
-----------------------------------------------------------------------------
\* What a connection reads is a run of the messages its agent wrote: in their
\* order, none twice, none missing in between and none with bytes of another,
\* wherever the chunks end (LineAssembler, earlyChunks, enqueueLine).  While the
\* stream is open and nothing is under way, the run ends with the last message.
NoHoles ==
    \A c \in Conn :
        LET got == delivered[c]
            After(i) == IF i < Len(got) THEN got[i + 1] ELSE Len(said[c]) + 1
            AtRest == reader[c] = "open" /\ early[c] \o pending[c] \o channel[c] \o pipe[c] = <<>>
        IN  \A i \in DOMAIN got :
              /\ said[c][got[i]] = got[i]
              /\ i < Len(got) \/ AtRest =>
                    /\ got[i] < After(i)
                    /\ \A l \in got[i] + 1 .. After(i) - 1 : said[c][l] = Noise

\* A child the client gave up comes to its end, also when it was given up
\* before it was spawned (disconnect, discardSuperseded).
AbandonedEnds ==
    \A c \in Conn :
        loaded[c] /\ ~wanted[c] /\ command[c] # "none"
            ~> ~loaded[c] \/ app # "running" \/ proc[c] \notin Alive

\* The end of a child settles its transport, also one before the transport
\* listened (earlyExit, onExit).
ExitSettles ==
    \A c \in Conn : proc[c] = "exited" ~> ~Live(c) \/ settled[c] # "no"

\* The client gives up a connection whose child has ended: the stream ends, or,
\* for a child gone before there was a stream, the initialize request fails.
ExitNoticed ==
    \A c \in Conn : proc[c] = "exited" ~> ~Live(c) \/ ~wanted[c]

\* A child the page had a transport for ends when the page is loaded anew
\* (on_page_load, sweep_orphans).
ReloadEnds ==
    \A c \in Conn :
        ~loaded[c] /\ transport[c] \in Opened ~> proc[c] \notin Alive \/ app = "gone"

\* No child a page had a transport for is left behind by the exit (RunEvent::Exit).
ExitLeavesNone ==
    app = "gone" => \A c \in Conn : transport[c] \in Opened => proc[c] \notin Alive

\* No child outlives whoever had it, neither the connection that gave it up nor a
\* page with a transport for it that is loaded anew.
AbandonedChildrenEnd == AbandonedEnds /\ ReloadEnds
TableKept == TypeOK /\ ExitLeavesNone

\* A connection never takes a child that ended for one that runs.
EndsAreNoticed == ExitSettles /\ ExitNoticed

\* What the documents say.
\* "Chunks arriving early are buffered and flushed" (boot.ts): so the first
\* message read is the first one written.
EarlyOutputArrives ==
    \A c \in Conn : delivered[c] # <<>> =>
        \A l \in 1 .. delivered[c][1] - 1 : said[c][l] = Noise

\* kill "resolves once the child is gone" (StdioTransport.ts).
KillResolvesWhenGone ==
    \A c \in Conn : killing[c] = "resolved" => proc[c] \notin Alive

\* On exit all agent processes are cleaned up (docs/user-guide.md).
ExitLeavesNobody == app = "gone" => \A c \in Conn : proc[c] \notin Alive
=============================================================================
