# PadawanOS in TLA+

A formal model of the parts of PadawanOS that are hard to get right by testing: the
client that keeps several live ACP connections, the store the user interface reads,
the session document with its turn, its echo and its cards, the agents that run as
child processes of the desktop shell, the gateway's relay, its login gate and
throttle, the supervisor of the managed agent, and the push dispatcher. Paths below
are those of the repository root.

## 1. The system

PadawanOS ("Panda") is a browser client for agents that speak the Agent Client
Protocol (ACP, JSON-RPC over a WebSocket or a child process). A gateway can
serve the client and relay its sockets to one managed agent; then a login gate
stands before the application and a supervisor keeps the managed connection up. The
desktop shell serves the client and runs agents as child processes.

```
 components (Sidebar, Composer, ...)      user actions, gated by the lifecycle projection
        |  calls                 ^  reads
 src/liveConnections.ts          |        one entry per connection: client, port, staged switch
        |  calls     | handlers  |
 src/acp/LiveAcpClient.ts --->  src/store.ts     one slot per connection + the UI pointer
        |  JSON-RPC              ^ port: scoped writes
 src/acp/transport/*  ~~~~~~~~~  gateway/src/acpProxy.ts  ~~~~~~~~  agent
        '~~~~~~~~~~~~~~~~~~~~~~  desktop/src-tauri/src/main.rs  ~~  child process

 src/gateway/gatewayAuthStore.ts, managedAgent.ts   before and beside all of this
```

### Inventory

| Component | State | Operations | Interacts with | Hard part | What makes it correct |
|---|---|---|---|---|---|
| Connection store (`src/store.ts`) | slots: status, anchor (`connection.sessionId`), documents, list, switch marker; `activeConnectionId`, `activeSessionId`, `selectionGeneration`; each port's `currentSessionId` | the port's operations, ensure, seed, close, set active | written by ports, read by all components | several writers share one UI pointer; switches are transactions that may end late | latest selection wins; no marker without an owner; both pointers name one session |
| Connections manager (`src/liveConnections.ts`) | entries: client, port, `stagedSwitch` with its era, target, pending profile | connect, reconnect, disconnect, remove, foreground, open, new, delete, send, ...; the handlers | calls clients, is called back, writes the store | callbacks of a dead era; abandoning a switch | a callback of an era acts on that era's business only |
| ACP client (`src/acp/LiveAcpClient.ts`) | connection, session id, turn slot, switch lock, waiters, era counter, link flags | connect, new, load, delete, mode, config, send, cancel, answer, authenticate, logout, disconnect | agent by JSON-RPC, handlers | every `await` is an interleaving point; the link may die at each; replies may never come | nothing of an era outlives it; client and store agree on the switch; every wait ends |
| Lifecycle projection (`src/projector/connectionLifecycle.ts`) | none | phase, busy, running, composer and stop gates | read by components | gates and guards must agree | a gate admits only what the client accepts |
| Echo reconciliation (`src/acp/echoReconciliation.ts`) | expected text, held chunks | feed, settle | the client's update path | the agent splits and interleaves as it likes | message once, nothing swallowed |
| Document reducer (`src/protocol/reducer.ts`) | none (a fold over documents) | applyUpdate | store | late and repeated events | settled records stay settled |
| Wire parsing (`src/acp/wire.ts`) | none | parse, map | client | lenient input | no event lost silently |
| Transports (`src/acp/transport/*`) | socket or process, closed promise | connect, disconnect | client | aborted opening, close after error | one outcome per dial |
| Gateway proxy (`gateway/src/acpProxy.ts`) | pairs of sockets, pre-open buffer, timers | upgrade, relay, close, heartbeat | browser, agent | buffer limits, either side failing first | frames relayed are a prefix of frames sent; bounded memory; both sockets end |
| Message stream projection (`src/projector/messageStream.ts`) | none | the item list, with the place of each permission | components | cards without a call, calls without a card | every card stands on its own call |
| Gateway login (`auth.ts`, `loginThrottle.ts`, `session.ts`) | buckets per address | attempt, success | HTTP | window edges, eviction at the cap, attempts at once | who is refused has earned it, stays refused, and only attempts in flight pass the limit |
| Desktop shell (`desktop/src-tauri/src/main.rs`, `src/desktop/boot.ts`) | table of children, exit deadline; early output of the page | spawn, write, kill, pump, watch, sweep | stdio transport | the shell's tasks, the page and the child run at once | no child outlives its owner; ends are noticed; output has no holes |
| Push dispatcher (`pushDispatcher.ts`) | running flag, claims held | pass: claim, deliver, complete or release | manager service | overlap, crash between two calls | a claimed event is completed or released |
| Supervisor and login gate (`src/gateway/managedAgent.ts`, `gatewayAuthStore.ts`) | timer, attempt, last status, phase | start, stop, retry, recheck, logout | manager, connection status | timers and rechecks against logout | no dial after stop, retry while down |
| Chat and dashboards, routes, profiles, replay, test agent | views, records, scripts | | | | not modelled (see 8) |

`PROJECT.json` lists the hazards of this code, each at its line, with the
properties that cover it or the reason none does yet.

## 2. Modules

| Module | Models | Read with |
|---|---|---|
| `ConnectionStore` | `src/store.ts` and the handlers of `src/liveConnections.ts`, driven by *any* driver | the store's promises and its specification `StoreSpec` |
| `LiveConnections` | `LiveAcpClient` for every connection, its agent, its link and the user; it EXTENDS `ConnectionStore` and calls its operations | `Spec`, `LiveSpec`, `ImplementsStore` |
| `SessionDocument` | the folds of `src/protocol/reducer.ts` and the item list of `src/projector/messageStream.ts`, as operators on documents | its comments |
| `SessionStream` | one session as the client runs it: turn, echo, permissions, elicitations, memory of answers; it EXTENDS `SessionDocument` | `Spec`, `LiveSpec` |
| `StdioAgent` | the shell's process plane, the page's side of it, the stdio transport and its framing | `Spec`, `LiveSpec` |
| `AcpProxy` | `gateway/src/acpProxy.ts`: both sockets of each pair, buffer, timers, backpressure | `Spec`, `LiveSpec` |
| `RelayFifo` | what one direction of the relay promises: frames leave in the order they came, the tail may be lost | section 5 |
| `LoginGate` | `src/gateway/gatewayAuthStore.ts`, `session.ts`, `GatewayGate.tsx`, `managedAgent.ts` in one tab, over the managed slot's status and the cookie | `Spec`, `LiveSpec` |
| `LoginThrottle` | `gateway/src/loginThrottle.ts` under the login route of `gateway/src/auth.ts` | `Spec` |
| `PushDispatch` | `gateway/src/pushDispatcher.ts` over a service that may lose answers | `Spec`, `LiveSpec` |
| `ConnectionStore_proofs`, `LiveConnections_proofs`, `SessionStream_proofs`, `StdioAgent_proofs`, `AcpProxy_proofs`, `LoginGate_proofs`, `LoginThrottle_proofs`, `PushDispatch_proofs` | theorems about the module each is named after | section 6 |
| `MCConnectionStore`, `MCLiveConnections`, `MCSessionStream`, `MCStdioAgent`, `MCAcpProxy`, `MCLoginGate`, `MCLoginThrottle`, `MCPushDispatch` | values for TLC | the `.cfg` files |

What composes: `LiveConnections` is the clients together with the store. The other
components meet at narrow interfaces, and each models its neighbour by all it may do:
`SessionStream` has one session that is never switched away from, `LoginGate` sees the
managed slot through its status, `StdioAgent` sees the client as one that connects,
sends `initialize` and may give the connection up at any time.

### ConnectionStore: variables and code

| Variable | Code |
|---|---|
| `known` | keys of `connections` |
| `status`, `anchor`, `docs`, `listed`, `switching` | `connection.status`, `connection.sessionId`, `docs`, `sessions`, `switching` of a slot |
| `port` | the closure variable `currentSessionId` of `connectionStorePort` |
| `staged` | `entry.stagedSwitch`: the snapshot and its era |
| `activeConn`, `activeSess`, `selGen` | `activeConnectionId`, `activeSessionId`, `selectionGeneration` |

One operator per operation: `AdoptSession`, `Update`, `MergeSessions`,
`StageSession`, `CommitStaged`, `RollbackStaged`, `RemoveSession`,
`SetActiveConnection`, `CloseConnection`, and, for the handlers and manager
functions that call several of them in one go, `SeedConnection`, `Dial`,
`Disconnected`, `SetStatus`. `abandonStagedSwitch` is `Abandon` together with
`Restored`: it mints a token first, so that the rollback it then runs is
superseded and restores documents only. `StoreStep(c, mayStart)` lets a driver call
any of them at any time; the one thing asked of it is that it stages one switch at a
time on a connection. `StoreSpec` has no bound on the selections; `BoundedSpec` is the
same with one, for TLC.

A document is a member of the constant set `Doc`, and an update makes it any
member. A session list is a set: titles, stamps and order are left out, so which
retained document is "newest" is left open (`ForegroundSession` is a set). The
list comes back from the endpoint's memory on a dial: the model keeps it across
`Dial` and `CloseConnection`, as the memory does.

### LiveConnections: variables and code

| Variable | Code |
|---|---|
| `client[c].gen, linked, reported` | `connectionGeneration`, `connection !== null`, `disconnectReported` |
| `client[c].sid, turn, switching, login` | `sessionId`, `pendingPrompt` (as the flow that owns it), `sessionSwitch`, whether `authMethods` is non-empty |
| `waiters[c]` | `permissionWaiters`, keyed by session and tool call |
| `flows[c]` | the async functions suspended at an `await`: operation, caller, captured era, session, previous session |
| `wire[c]` | the transport |
| `minted[c]` | the sessions the agent has |

**Steps.** The engine is single-threaded: an action is one macrotask, from the
event that wakes it to the next `await`. What runs between two macrotasks is a
microtask and comes first (`Drained` is a conjunct of every macrotask): the
continuation of a request rejected because `cleanupConnection` closed the
connection, and of an `await` that waits for no reply. Only `transport.connect()`
can outlive its era; its late result is discarded (`DialDone`, `DialFail`).

**Flows.** `Connect` starts a `dial`, which becomes `init` (initialize), then `list`
or `ready`, as the agent lists its sessions or not. A list is one request per page
(`fetchSessionList`): `TurnPage` is an answer that names a next page, and the flow
alternates between `list` and `page`, so that two requests in a row are never
one and the same wait; `ListDone` is the last page, and `ListFail` a page that is rejected,
which costs the list and not the connection. `ready` becomes `resume`, `load` or
`new` as the agent's capabilities decide (a free choice), then `up`; a failed
replay becomes `failed`. `new`, `load`, `delete`, `mode` (mode and
configuration), `auth` (then `new`, then `up`), `prompt` and `close` are the
user's. Any pending request may be answered, rejected (an answer of
`auth_required` is a rejection that may raise the login card), left unanswered
until `controlRequest` times out, or lost with the link.

**The user.** Each action carries the gate of the interface (`canSwitch`,
`nsdRowAction`, `composerDisabled`, `canStop`, the sidebar's buttons) and the
guard of the client. A call the client refuses changes nothing and is not a
step. Two tabs or a script calling the functions directly are not modelled.

**Documents.** `DocRec` keeps what the properties look at: the turn status, the
cards awaiting an answer, and `mixed`, a history bit of the model: something
that belongs to another session was written into this document.

**Eras are names.** The code counts eras and only compares them for equality, so
an era nothing refers to may be used again: `NextEra` is some era that neither the
client, nor a request in flight, nor a staged switch refers to, and `NextFlow` some
free place. `MaxEra > Cardinality(FlowId)` guarantees there is one (proved). This
keeps the model finite without bounding the number of reconnects.

### AcpProxy: variables and code

| Variable | Code |
|---|---|
| `down`, `up` | `readyState` of `downstream` and `upstream` |
| `ready`, `buffer`, `bytes` | `upstreamReady`, `bufferedFromDownstream`, `bufferedBytes` |
| `timer`, `alive`, `active` | `handshakeTimeout` is armed, `isAlive`, `activePairs` |
| `upUnsent`, `downUnsent` | `bufferedAmount` of the two sockets |
| `received`, `relayed`, `answered`, `shown` | the frames themselves: how many came from a side, and which were sent on to the other. A frame is its number, its size a free choice |
| `running` | the server was not shut down |

An action is one event of one pair with its whole handler: a frame, the upstream's
opening, the timer, an error or a close of either socket, a heartbeat, a pong.
`close()` and `terminate()` put a socket in `closing`; its `close` event comes later.
Frames may still arrive in between, and so may events of the other socket. `cleanup`
runs with the first of the two close events; the second finds nothing left to do,
so `Cleanup` needs no flag of its own. A place of `Pair` is used again once both its
sockets ended, so the number of connections over time is not bounded.

### SessionDocument and SessionStream

A document is a record: `turns` (sequences of blocks), `status`, `permissions` with
the order of their first requests, `elicitations`, `compactions`. A block of messages
carries the numbers of the notifications it was made of (`rawNotifications`), which is
what "lost", "doubled" and "out of order" mean. A text is a sequence of characters
(`Char`), so that chunks may be cut anywhere; `Content` are the contents users and agents
send, in the prompts of `Prompt` and the notifications of `Wire`. Titles, inputs, diffs, plans and usage, which a
fold replaces whole, are left out.

| Variable | Code |
|---|---|
| `doc` | the session's document in the store |
| `echo` | `EchoReconciler`: prompt, buffered notifications, `protocolMessageId`, whether the window is closed |
| `turn`, `awaiting` | `pendingPrompt`; the `send()` whose request has not settled |
| `waiter`, `offered` | `permissionWaiters`, `elicitationWaiters`, by the number of the request with that id; the options offered |
| `memory`, `up` | `permissionMemory`; the connection lives |
| `heard, prompts, asked, aborted, answered, matched` | histories: what came, what was sent, which requests were made, given up and answered, and which notifications confirmed a prompt |

An action is one notification, one request of the agent, one click or one settled
promise with all it folds. The agent may send any notification of `Wire` at any time,
repeat a request's id, and give any of its requests up (`$/cancel_request`).

A permission that is asked again supersedes the request before it (`Superseded`). An
elicitation that is asked again is declined while one with its id waits (`DeclineRepeat`);
after that the id is free, and the repeat waits (`ShowElicitation`) by the card that is there:
the reducer gives a card no second life, so where the link was opened it has no button left
(`Answerable` is the user's guard). A form's id is minted by the client and never repeated.

### StdioAgent

| Variable | Code |
|---|---|
| `loaded`, `wanted` | the page that owns the connection; its client has not given it up or superseded it |
| `transport`, `settled`, `killing` | how far `StdioTransport.connect` and `initialize` got; `settled`; the `kill()` asked or resolved |
| `early`, `subscribed`, `pending`, `reader`, `delivered` | `earlyChunks` and `earlyExit`, the sinks (`boot.ts`), `LineAssembler.pending`, `readController`, the messages enqueued |
| `app`, `command`, `table`, `armed`, `stdin` | the application, the `stdio_spawn` of a connection, `procs`, an entry's notified kill, its stdin (`main.rs`) |
| `proc`, `said`, `pipe`, `channel` | the child, what it wrote, what the pump has not read, the events on their way to the page |

A line is two bytes, so that a chunk may end inside it; an agent writes messages and
lines that are none. The shell's tasks (command, pump, watcher, sweeps), the page and
the child are separate and interleave.

### LoginGate, LoginThrottle, PushDispatch

| Variable | Code |
|---|---|
| `phase`, `request` | the gate's `phase`, and its request in flight: check, login, logout |
| `session`, `status`, `admitted` | the cookie is valid; the managed slot's status; the gateway let the present dial in |
| `sup`, `last`, `attempt`, `timers` | the running supervisor and its `lastStatus`, `attempt`; the supervisors whose timer is armed |
| `owner`, `asked` | the session rechecks in flight: the supervisor that asked, and the answer before it is looked at |

| Variable | Code |
|---|---|
| `now`, `buckets`, `verifying` | the clock; `buckets`; the attempts in `verifyPassword` |
| `failedAt` | history: when an address failed, its last `MaxAttempts` failures |

| Variable | Code |
|---|---|
| `timer`, `running`, `pc` | the interval, the flag, the `await` each call of `runOnce` is in |
| `subscriptions, todo, event, left, gone, delivered` | the locals of the call |
| `state`, `active` | the service: each event, and which subscriptions are active |
| `signalled`, `astray` | histories: signals since the claim; claims whose answer, settling or process was lost |

## 3. What is checked

Passing runs (each property has a mutant of a mapped definition that breaks it):

| Run | Instance | Shows |
|---|---|---|
| `store_pair` | any driver; 2 connections, 1 session, 2 eras, 3 selections | `StoreTypeOK`; `OneSelectionWins`: two switches in flight never hold the same token; `MarkerHasOwner`: the busy marker belongs to the switch that is staged and will clear it; `LateEndMovesNothing`: a superseded switch ends without showing or settling anything |
| `live_switch` | 1 client, 2 sessions, 2 requests in flight, `MaxSelections = 1` | `TypeOK`; `SwitchIsOneLoad`: client lock, staged snapshot and pending load are one thing; `OnlyLiveWork`: turn slot, switch lock and waiters never survive their link; `EraIsolation`: a request of a dead era that settles changes nothing but an idle status |
| `live_pair` | 2 clients, 1 session, 1 request each, single-page lists, one login at a time | `ImplementsStore`: clients, users and agents together implement `StoreSpec` |
| `live_progress` | 1 client, 2 sessions, 1 tool, 1 request, fairness | `SwitchSettles`: a switch ends, whatever the agent does not answer; `ConnectSettles`: so does a connect, unless the agent answers page after page of its session list for ever |
| `session_echo` | 2 prompts, 3 notifications: user chunks with and without ids, text, image or unmappable, answers, compactions | `FlowIsFaithful`: nothing lost, doubled or reordered, a prompt is confirmed by its exact echo only; `NoticePerEnding` |
| `session_cards` | 2 tool calls (the second denied by the policy), 1 URL elicitation, 1 prompt, 1 notification; 2 requests with an id; fairness | `RequestsAreShown`: every request is answered or waits, a pending card has its request and a request its pending card, save the repeat of an opened link; `CardPlacement`: a permission is on its own call's block or was displaced from it by an earlier one without a block; `AnswersAreOwn`; `ComesToRest`: a dead connection's session ends idle |
| `stdio` | 1 connection, 2 lines; fairness | `NoHoles`; `TableKept`, `AbandonedChildrenEnd`: given up, reloaded or exited, no child the page had a transport for is left (a spawn in flight is not such a child); `EndsAreNoticed` |
| `proxy` | 1 place for a pair; buffer of 2 frames or 3 bytes, backpressure above 3, frames of 1 or 2 bytes, 4 frames each way; fairness | `RequestsInOrder`, `AnswersInOrder`: each direction implements `RelayFifo`; `NoOrphan`: a released pair leaves no socket behind; `MemoryBounded`; `TimerSparesOpen`: the handshake timer never ends an upstream that opened; `HandshakeEnds`, `PairEnds` |
| `login_gate` | 3 supervisors, 2 rechecks in flight, 2 retry delays; fairness | `GateOwnsSupervisor`, `FailureIsFollowedUp`; `OnlyExpiryEnds`: nobody is signed out by an answer about an earlier session; `FollowUpEnds`: failures are retried, an expiry is noticed, signing out ends |
| `login_throttle` | 3 addresses with a cap of 2, window of 2, two attempts, 2 verifications of an address at once | `CapKept`, `OverrunIsInFlight`; `RefusedForCause`: who is refused failed as often as the limit within the window; `RefusalLasts` |
| `push_dispatch` | 2 passes, 2 events, 2 subscriptions; fairness | `ClaimsAreHeld`, `SignalsFitClaims`, `PassEnds` |

`LiveTurn.cfg` is one more instance of `OnlyLiveWork`, with a tool call and two
requests: `tlc -config LiveTurn.cfg MCLiveConnections`.

### Bounds

* `MaxSelections` bounds `selGen` where a switch or a deletion of a session
  *starts* (abandoning may go beyond it). Three selections on two connections
  are a switch each and a third that supersedes either. With 1 in the
  live runs the first switch, or a deletion, is at `selGen = 0`; losses, abandons
  and reconnects of that switch are all within it.
* `FlowId` bounds the requests in flight of one client. Two are enough for each
  race of one request against another; `live_pair` and `live_progress` use one,
  where the question is about connections or about progress.
* `live_pair` searches under the constraint `OneLoginOnePage`: a session list is one page (to
  the store the next ones are stutters; the other live runs turn pages), and of the two agents
  one at a time has login methods. `StoreIsImplemented` holds without it.
* Two sessions are a source and a target; `crossed_rollback` needs a third for
  the other connection. One tool call: the code treats tool calls alike.
* Reconnects, losses, updates and turns are not bounded in `LiveConnections`.
* `MaxHeard`, `MaxTurns` and `MaxAsked` bound what is heard, sent and asked in
  `SessionStream`, because its histories grow. Three notifications are an echo in two
  parts with something in between; two prompts let the rest of one echo meet the
  next prompt; two requests with one id are a request and the one that supersedes it.
* `MaxLines = 2` lines of two bytes: a chunk may end inside either, between them,
  and before or after the page listens. One connection: children share only the
  sweeps, which take every entry of the table.
* Three supervisors and two rechecks: one that runs, and two stopped ones whose
  answers are still under way. A supervisor's name is used again once nothing
  refers to it, so sign-ins are not bounded. A failure that finds no place for its
  recheck waits until there is one; places are bounds of the model.
* `MaxNow = 3` with `Window = 2`: a bucket may be more than a window old, and the failures
  of one window may follow those of another. A cap of two
  for three addresses forces eviction. `MaxVerifying` bounds the attempts of one address
  at once; the code has no such bound, and `OverrunIsInFlight` is stated in terms of it.
* Two passes, events and subscriptions: a pass that overlaps another, an event after
  an event, an endpoint that is gone before one that is not. Passes, restarts and claims
  are not bounded.
* Pairs of the relay share nothing but the cap on their number, so one place is
  enough (the theorems are for any number). Four frames are two more than the buffer
  takes, by count; two of two bytes overflow it by size; three fill a socket beyond
  the backpressure limit. `MaxFrames` bounds what a peer sends on one pair, not the
  number of pairs.

### Fairness (`LiveSpec`)

* weak fairness of each flow's microtasks: the engine runs them;
* strong fairness of a dial's end and of the closed watcher: the operating system
  ends a dial, the watcher of a closed connection runs. *Strong*, because a
  microtask of another flow disables every macrotask (`Drained`) for a moment,
  again and again;
* `TimerFires` for a control request: it does not stay pending for good without its
  timer firing. This is weaker than strong fairness of `Timeout`, which would also
  end a flow that awaits one request after another: each request has a timer of its
  own, and an answer clears it. `list` and `page` are told apart for this reason.

In the relay: weak fairness of the handshake timer, and of the `close` event of a
socket that is closing, which comes from its peer or from the library's own close
timer. No frame, pong or opening is asked of either side.

In the others: a request of the gate ends, a dial ends, a timer fires, and the gateway
is not out of reach for ever, so that a recheck asked again and again is answered at
some time (strong fairness of `CheckAnswered`); every `await` of a dispatcher's pass ends, because
its requests carry timeouts; a request on a closed connection is rejected; the
shell handles commands, watches children and kills them, and the page gets its events.

Nothing is assumed of the agent, which may never answer, of the link or of the
user. `Timeout` is what makes `SwitchSettles` and `ConnectSettles` true: the mutants
take `session/load` or `session/list` off the bounded requests.

## 4. Where the code and its own comments part

TLC finds each of these statements of the repository violated by the modelled
behaviour. `crossed_rollback` is a run, and a finding of `PROJECT.json`; the others are
configurations kept beside the runs. Each is repeated with
`tlc -config <Config>.cfg <module>`.

| Config | Module | Statement | How it breaks |
|---|---|---|---|
| `CrossedRollback` | `MCLiveConnections` | a failed switch rolls back client and store (`LiveAcpClient.ts:1197`) | a deletion on another connection superseded it: the client goes back, the port does not |
| `StrandedTurn` | `MCLiveConnections` | adopting B must not strand A's turn (`LiveAcpClient.ts:641`) | the guard is read before `session/new` is awaited, a prompt starts meanwhile |
| `DeletedTarget` | `MCLiveConnections` | a switch's target is not deleted under it (`LiveAcpClient.ts:808`) | the deletion was already in flight when the switch was staged |
| `ForeignContent` | `MCLiveConnections` | foreign updates are not rendered into a document (`LiveAcpClient.ts:1324`) | on a reconnected link the client has no session, but the port still feeds the old one; also a mode answer after a switch |
| `PromptElsewhere` | `MCLiveConnections` | retained documents render read-only (`liveConnections.ts:890`) | opened while its connection is being established, the document gets a live composer |
| `PendingPermission` | `MCLiveConnections` | a pending permission holds `requires_action` (`LiveAcpClient.ts:1629`) | the end of the turn writes idle over it |
| `EndlessPages` | `MCLiveConnections` | a control-plane request answers within 30 s or the agent is judged hung (`LiveAcpClient.ts:186`, `docs/acp-agent-requirements.en.md:201`), so connecting ends | each page of the session list is bounded, the loop over `nextCursor` (`:1287`), awaited while connecting (`:540`), is not |
| `StrandedCard` | `MCSessionStream` | no request is stranded without a card to answer it: "decline the repeat loudly" (`LiveAcpClient.ts:1577`) | the repeat of an opened link's id finds no waiter and passes, the reducer ignores it (`reducer.ts:240`), the session asks for the user, and the opened card has no button (`ElicitationUrlCard.tsx:42`); it ends by completion, abort, cancel or with the link |
| `DisplacedCard` | `MCSessionStream` | an exact match claims a call's block (`messageStream.ts:14`) | an earlier permission without a block took that block as the sole pending one (`messageStream.ts:147`); the call's own permission stands alone |
| `SessionMerge` | `MCSessionStream` | a local prompt always opens a turn (`reducer.ts:414`) | a prompt sent while the flow ends with a user message of the agent without an id is merged into that block (`reducer.ts:397`) |
| `SessionLocked` | `MCSessionStream` | a confirmed block stays locked against merging (`reducer.ts:434`) | confirmed with an id, it takes a further chunk with that id (`reducer.ts:452`) |
| `StdioEarly` | `MCStdioAgent` | early chunks are buffered and flushed (`boot.ts:36`) | they are flushed to the transport before its stream exists (`StdioTransport.ts:73`), and complete lines are dropped |
| `StdioKill` | `MCStdioAgent` | kill resolves once the child is gone (`StdioTransport.ts:15`) | the command returns once the kill was notified (`main.rs:206`) |
| `StdioExit` | `MCStdioAgent` | on exit all agent processes are cleaned up (`docs/user-guide.md:78`) | a spawn that ran beside the exit sweep inserts its child after it (`main.rs:263`; the same at a page load, `main.rs:246`) |

`crossed_rollback` uses the state constraint `Calm`, which only narrows the search.
A behaviour it finds is one of `Spec`.

Read in the code while modelling, without a model that shows them:

* `authenticate` reports connected without setting `linkEstablished`
  (`LiveAcpClient.ts:702`), so a later loss reads as a failed connect.
* `ensureConnection` (`store.ts:338`) moves the connection pointer without the session
  pointer, although the comment at line 459 says every move keeps them together.
* The heartbeat of the relay looks at the browser only (`acpProxy.ts:121`): an upstream
  that falls silent after it opened is never ended by the gateway.
* A retry armed by the supervisor dials whatever the slot's status became
  meanwhile (`managedAgent.ts:134`): a connection the user closed by hand is dialled again.
* A connection dialled by hand while the sign-out's answer is awaited is not closed by it
  and lives on behind the login screen (`gatewayAuthStore.ts:89`).
* The exit event may overtake the last output, which another task forwards
  (`main.rs:158`); those lines are dropped by the settled transport. `NoHoles` says only
  that what is read has no holes.
* A child that ends before its stream exists is noticed only through the failing
  `initialize` write; `onClose` and `onError` of the transports have no subscriber
  in production.

## 5. Abstract and detailed

`ConnectionStore` is the abstract specification: what the store does whatever its
driver. `LiveConnections` is the detailed one: it adds the clients and restricts
when an operation is called. The refinement mapping is the identity on the
store's variables, so `ImplementsStore` is `StoreSpec` itself: every step of a client,
an agent or a user is one operation of the store or leaves it alone, and no
switch is staged over another. `live_pair` checks it on two connections;
`StoreIsImplemented` proves it for every instance, and with it the theorems about
the store hold of the clients (`ClientsOwnTheirMarkers`, `ClientsAgreeOnTheLatest`,
`ClientsLetTheLatestWin`).

`RelayFifo` is the abstract specification of one direction of the relay: a counter
of frames that came and the sequence of frames that left, which is always the first
ones. `AcpProxy` implements it twice, with `came <- received, left <- relayed` and
`came <- answered, left <- shown`. The flush is one step that passes many frames; an
overflow, a dropped frame and a close are stutters after which nothing more leaves.
Both are run properties and theorems (`BrowserFramesInOrder`, `AgentFramesInOrder`).

## 6. What is proved

`ConnectionStore_proofs`, for all sets of connections, sessions, documents and eras
and any number of selections; assumptions: `None` is none of the values it stands
beside, `EmptyDoc \in Doc`, `Era \subseteq Nat`, `MaxSelections \in Nat`.

| Theorem | States | Argument |
|---|---|---|
| `StoreTypeCorrect` | `StoreSpec => []StoreTypeOK` | inductive; lemmas type what `Written`, `Restored`, `Abandon` and `ForegroundSession` return |
| `LatestIsUnique` | `StoreSpec => []OneSelectionWins` | from `TokenInvariant` |
| `MarkersAreOwned` | `StoreSpec => []MarkerHasOwner` | from `TokenInvariant` |
| `LatestWins` | `StoreSpec => LateEndMovesNothing` | by cases on the step, from the type invariant |

`OneSelectionWins` is not inductive: a new token is unlike the others only because
every token in flight was minted before, that is, is at most `selGen`. The inductive
invariant is

    TokenInv == TokensMinted /\ OneSelectionWins /\ MarkerHasOwner

Its proof splits the steps in two kinds: staging mints (`StageMints`); every other
step only retires staged switches and never lowers `selGen` (`StepRetires`), and
retiring preserves the invariant whatever else it does (`RetiringIsSafe`).

`AcpProxy_proofs`, for any set of pairs and any limits; assumptions: the limits are
natural numbers and the buffer's byte limit is not above the backpressure limit
(both are 1 MB in the code).

| Theorem | States | Argument |
|---|---|---|
| `RelayTypeCorrect` | `Spec => []TypeOK` | inductive, one lemma per group of variables |
| `ReleasedPairsEnd`, `TimerNeverKills` | `Spec => []NoOrphan`, `Spec => []TimerSparesOpen` | their conjunction is inductive |
| `BrowserFramesInOrder` | `Spec => RequestsInOrder` | from `RequestsInv` |
| `AgentFramesInOrder` | `Spec => AnswersInOrder` | from `AnswersInv` |
| `PairsStaySmall` | `Spec => []MemoryBounded` | from `MemoryInv` and `RequestsInv` |

`RequestsInv` says what the frames from the browser have become: while the upstream
connects all of them are in the buffer, while it is open all of them were relayed,
and otherwise those that were relayed are a prefix. This is why nothing is lost or
overtaken at the flush. `MemoryInv` adds that an upstream that connects holds
nothing, so that the flush of a full buffer stays below the limit.

`LiveConnections_proofs`, for any connections, sessions, tools and number of requests in
flight; assumptions: those of the store, `None` is no value it stands beside, and the eras
are `0..MaxEra` with `MaxEra` above the number of requests in flight of a client.

| Theorem | States | Argument |
|---|---|---|
| `ClientTypeCorrect` | `Spec => []TypeOK` | with the rest of `IInv`; a free era exists by counting |
| `WorkIsLive` | `Spec => []OnlyLiveWork` | from `IInv` |
| `LoadsAreStaged` | `Spec => []SwitchIsOneLoad` | from `IInv` |
| `ErasAreIsolated` | `Spec => EraIsolation` | by cases on the step; a dead end keeps the client |
| `StoreIsImplemented` | `Spec => ImplementsStore` | each action names the operation of the store it is |
| `ClientsOwnTheirMarkers`, `ClientsAgreeOnTheLatest`, `ClientsLetTheLatestWin` | the store's properties, of the clients | from the refinement and the theorems above |

The inductive invariant is `IInv == TypeOK /\ ClientInv`, the latter for each connection:

* `FlowsFit`: what a request carries fits its operation, and a live one its client;
* `OneConnect`: at most one request of the live era establishes the link, and beside it
  run only requests that cannot move the client's session;
* `StaleAlone`: while a request of a dead era has not settled, the new era is still at
  its dial, so no request of the new link meets half-settled state;
* `LoadLocks`: the pending load, the client's lock and the staged switch are one;
* `TurnIsLive`: turn slot and waiters have a request of the live era behind them.

`LoadLocks` alone is not inductive: a settling load of a dead era would release
the lock of the new one, which `StaleAlone` and `OneConnect` exclude. The proof has
one lemma per action that shows `Good(c)`: the step is an operation of the store, types are
kept, other connections are left alone, and the invariant holds of `c` again.

`LoginGate_proofs`, for any supervisors, rechecks and delays:

| Theorem | States | Argument |
|---|---|---|
| `SupervisorIsOwned` | `Spec => []GateOwnsSupervisor` | inductive |
| `FailuresAreFollowedUp` | `Spec => []FailureIsFollowedUp` | from `GateInv` |
| `NobodyIsThrownOut` | `Spec => OnlyExpiryEnds` | from `GateInv` |

`GateInv` adds to the types and the two invariants what an answer in flight means: a place
without an owner has no answer (`EmptyChecks`), the running supervisor has seen the
present status (`Seen`), and an answer "unauthenticated" to the running supervisor
is still true (`AnswersAreTrue`): within a sign-in a session may end but not begin.

`LoginThrottle_proofs`, for any finite set of addresses and any limits:

| Theorem | States | Argument |
|---|---|---|
| `MemoryIsCapped` | `Spec => []CapKept` | eviction leaves fewer than the cap before one is added |
| `OverrunIsBounded` | `Spec => []OverrunIsInFlight` | inductive with the types: an attempt moves from "verifying" to the count |
| `RefusalsLast` | `Spec => RefusalLasts` | by cases on the step and on what is purged and evicted |
| `RefusalsAreEarned` | `Spec => []RefusedForCause` | from `CountsItsOwn`: the failures a bucket counts are remembered, and none is older than the bucket |

`StdioAgent_proofs`, for any connections and any number of lines:

| Theorem | States | Argument |
|---|---|---|
| `TableIsKept` | `Spec => []TableKept` | from `Shape` |
| `NothingIsLostBetween` | `Spec => []NoHoles` | from `Shape` and `StreamInv` |

`Shape` is the type invariant with how far page, shell and child are together: a child the
page has a transport for is swept before the application waits, and the wait does not end
while it lives. `StreamInv` numbers the bytes a child wrote. The events on their way (kept
early, then in the channel) and the rest in the pipe are consecutive parts of them
(`Follows`), the pending partial line is the part before those, and what was delivered
are all messages of one part (`Lists`), which ends where the pending line begins and begins at
the edge of a line or before the first delivery (`Handled`): the latter is why a
delivered run has no holes although what came before the stream was dropped. `NoHoles` alone
is not inductive: it does not say that the next chunk continues the pending line.

`Completed` and `EarlyBytes` are recursive functions over the numbers of a sequence. What they
compute is proved by `Induction`, stated for a *set* of numbers and proved from the least
number outside it, and `Recursion`, which says that a function with such a rule exists:
both avoid the library's theorems that take an operator.

`PushDispatch_proofs`, for any passes, events and subscriptions:

| Theorem | States | Argument |
|---|---|---|
| `DispatchTypeCorrect` | `Spec => []TypeOK` | from `DispatchInv` |
| `NoClaimIsForgotten` | `Spec => []ClaimsAreHeld` | from `DispatchInv` |
| `SignalsAreDue` | `Spec => []SignalsFitClaims` | from `DispatchInv` |

`DispatchInv` says that one pass at a time is under way (`Alone`), that an event in its hands is
claimed or astray, that those it has not come to were not signalled (`Untouched`), and that
`delivered` counts signals of the current event only (`Counted`).

`SessionStream_proofs`, for any calls, elicitations, compactions, contents and notifications;
assumptions (`StreamAssumption`): texts are sequences of characters, prompts are sequences of
contents, offers are sets of option kinds, notifications name known calls and compactions and
carry contents, calls and elicitations have different ids:

| Theorem | States | Argument |
|---|---|---|
| `EveryRequestIsShown` | `Spec => []RequestsAreShown` | from `CardsInv` |
| `NoAnswerForAnother` | `Spec => AnswersAreOwn` | the same invariant; the abort from the actions |
| `EveryCardHasItsPlace` | `Spec => []CardPlacement` | from `ToolDoc` of the document |
| `EveryEndIsToldOnce` | `Spec => []NoticePerEnding` | from `NoticesInv` |
| `FlowIsTold` | `Spec => []FlowIsFaithful` | from `FlowInv`, with `BoundsInv` and `Busy` |

`RequestsAreShown` and `DeniedStaysDenied` are inductive only with what ties them together
(`CardsInv`): a pending record has a waiter; a waiter has its pending record or, as the repeat of
an elicitation, an opened one; an opened link was asked for (`OpenedWasAsked`), which is why what
waits by it is a repeat; numbers of waiters do not pass the requests made; and no denied call ever
waits, since a waiter would be answered by the user.

`ToolDoc` is a property of a document that every fold keeps, whatever the action: the flow is
turns of blocks of known shapes (`FlowDoc`), a call has one block (`OneBlock`), a stub that is
still pending has a pending or an approved request (`Reasons`), and each call is listed once, at
its first request (`Requests`). The folds are proved one by one; two relations then carry over
sequences of them: `Untold(d, e)`, the messages and notices of `e` are those of `d`, and
`ToolFlow(d, e)`. What a flush folds is a recursive function (`ApplyAll`), and so is the
placement of permissions (`Placement`): `Recursion` and `RecursionIsUnique` show that such a
function exists and is determined, by the least number where it would fail, and
`ApplyAllSteps`, `ApplyLast` and `PlacementSteps` give its steps, over which the lemmas go by
induction (`Induction`, for sets, since the library's induction takes an operator).

Where a permission stands is proved over these steps too (`CardsPlaced`): each entry of the
placement is on the block of its own call, or its call has no block and it took the one pending
block there is (`FallbackIsSole`), or it stands alone; and it stands alone although its call has
a block only if an earlier entry without one took that block.

`NoticesInv` counts: of each compaction there are as many notices as ends, and its status is the
one of the update heard last, up to statuses that end nothing. A summary chunk may change the
status too, and what is held back is never an update, so that no flush ends a compaction.

`FlowInv` is about the messages. `FlowIsFaithful` compares the flow with all that was heard and is
not inductive: it does not say what a flush may still append. `FlowInv` adds it.

* `Tells`: the messages of the flow are in the order of the wire (`InOrderOf`), and a block
  that is still optimistic has the content of a prompt (`Locals`);
* `Rising`, `Later`: what is held back is in the order of the wire too and later than all that is
  shown, so that a flush appends and overtakes nothing;
* `Kept`: while the connection is up, each message heard is shown, held back, or the echo that
  confirmed a prompt;
* `Exact`: what confirmed a prompt says what the prompt says (`Flat`, the content as a sequence
  of characters and other parts).

A new prompt starts with an empty buffer and would break `Kept` if something were still held back.
`Busy` excludes it: the composer is closed while a turn runs, and the end of a turn flushes or
gives up the connection. `EventTold` is the step of
the argument, one event folded, and `EventsTold` carries it over a flush by induction. `Exact` rests
on `CoalescedIsFlat`: `coalesceText` merges neighbouring texts and changes nothing of what is said, so
that two contents it makes equal say the same (`EqualSaysTheSame`).

Every invariant and every safety property that a run expects to hold is thus the statement of a
theorem. Only model-checked are the liveness properties (`SwitchSettles`, `ConnectSettles`,
`HandshakeEnds`, `PairEnds`, `FollowUpEnds`, `PassEnds`, `ComesToRest`, `AbandonedChildrenEnd`,
`EndsAreNoticed`), which need `ENABLED` and fairness.

## 7. Plan

Written, in this order: `ConnectionStore`, its proofs, `LiveConnections`, the
refinement and its progress properties, `AcpProxy` with `RelayFifo` and its proofs,
`LoginGate`, `LoginThrottle` and `PushDispatch` with their proofs, `SessionDocument` and
`SessionStream`, `StdioAgent`, the proofs about `LiveConnections`, `StdioAgent` and
`SessionStream`. What is left:

1. `LiveConnections` extended: removal while `session/close` is pending
   (`liveConnections.ts:781`), the toast's Retry without gates (`:429`), a stdio reconnect
   on a host that cannot spawn (`:499`), the persisted lists and their purge (`:1024`).
2. `SessionStream` with a second session: a document restored by a rollback against the
   waiters of the present (`store.ts:790`).
3. The WebSocket transport's opening, abort and settling on its own.
4. An abstract specification of one session's flow, a list of messages that only grows, which
   `SessionStream` implements; most of the step lemmas are there (`EventTold`, `EventsTold`).
5. The proofs of what 1 to 3 add, along the invariants of section 6.

## 8. Not modelled

Most of the repository's lines are components, translations, styles, marketing pages, fixtures and
tests: they render or record, and keep no state that several steps could bring into
disorder. The map covers about a ninth of the lines; section 7 says what of the rest
is worth modelling, and the list below what is not.

* In `LiveConnections`: elicitations, permission memory, host policy and the echo
  (`SessionStream` has them), titles, usage, plans, and the quiet `session/close` of a
  session left behind: they touch neither the pointers nor the locks.
* In `SessionStream`: the records a fold replaces whole (plan, usage, modes, commands,
  options, session state), auth-scoped elicitations, which come without a session, and
  the switches between sessions.
* In the relay: binary frames (both handlers ignore them), the checks that refuse an
  upgrade before any state exists, close codes, the headers a socket adds to a frame.
* In the shell: stderr, which is logging, and the environment of a child.
* In the gate: other tabs of the browser, the double mount of React's strict mode in
  development, the text of notices, the seeding of the profile.
* The cryptography of tokens and passwords, the address behind proxies, VAPID.
* Removing a connection whose agent supports `session/close`: the disconnect then
  reports after the slot is gone. `Remove` is the case without it.
* Persisted session lists: the list of a slot stands for its endpoint's memory.
* Profile editing, targets, the sweep of temporary slots, the probe.
* The lenient readers of wire parsing, highlighting, i18n, diagnostics: conversions.
* Chat, dashboards, marketing, gateway routes: request and render.
* The demo replay and the test agent: scripts for demonstration and tests.
