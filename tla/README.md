# Verification of the OpenRouter agent SDK for Go

TLA+ models of `openrouter-agent-sdk-go`, the TLC runs that check them on small
instances and TLAPS proofs of what they show for every instance. Paths below are
relative to the repository (`src/` in `PROJECT.json`); QR stands for
`internal/runtime/query_runner.go`.

- Check a run: `tlc -config QueryRun_attempts.cfg MCQueryRun.tla`; every `X_name.cfg`
  belongs to the module `MCX`.
- Check the proofs: `tlapm QueryRun_proofs.tla` (and the other modules under
  "What is proved").

## 1. The system

The SDK talks to a language model over HTTP. A **query** becomes a **run**: a
goroutine that sends the conversation to the model, streams the answer, executes
the tools the model asks for, sends their results back and so on until the model
answers without a tool call. The run writes messages to a channel `out` (64) and
errors to a channel `errs` (8); the application ranges over both.

| Component | Code | State | Operations |
|---|---|---|---|
| Agent loop | QR `RunMessages`, `runStream` | conversation, turn, costs, tool calls of the turn | one run; about twenty places where it can end |
| Client | `client_impl.go` | connected, closed, current run, active session | Start*, Query, Receive*, Interrupt, Close, Rewind, setters |
| Control plane | `internal/controlplane` | MCP status, cancel function of the current run | Interrupt, SetModel, SetPermissionMode, RewindFiles, MCP refresh and reconnect |
| Session manager | `internal/session` | sessions (messages, turn counter, checkpoints, file snapshots), fork counters, JSON store | GetOrCreate, SetState, Snapshot(Files), Rewind(Files), Clone, NewForkID, load, save |
| Transport | `internal/openrouter/http_client.go`, `internal/util` | tries, SSE scanner, idle timer, two channels | CreateStream, doRequest, ParseSSE, IdleReader |
| Iterator runs | QR `RunMessageIterator` | inputs pulled from the application | feeds inner runs one by one |
| Tools, permissions | `internal/tools`, `internal/permission` | rules, mode | evaluate, ask, apply updates, execute |
| Hooks | `internal/hook` | matchers | dispatch with timeouts |
| External MCP | `internal/tools/external_mcp.go`, `mcp.go` | connections | list and call with retry |
| Event mapping | `internal/runtime/event_mapper.go`, QR chunk parsing | tool-call fragments | pure conversions |
| The rest | options, types, schemas, models, observability, examples | none that matters | setters, codecs, metrics |

**Interaction.** `Client.Query` starts a run and stores its channels and cancel
function in the client (`setCurrent`); `Interrupt` goes through the control plane
back to that function. A run clones the session's messages when it begins and
writes them back (`SetState`) at checkpoints and after its result. For every turn
it opens one or two attempts on the transport, whose goroutine feeds two channels
of its own that `runStream` drains. Hooks, permission callbacks and tools are
called synchronously by the run.

**What is hard.** Nothing is locked across calls, only inside them: the client's
methods interleave between their parts; a run shares its `*Session` with other
runs, unlocked; every channel is bounded and every send must give way to
cancellation; two channels are selected at once, so their order is lost; an
attempt can fail after part of its output was shown; a store is rewritten in
place; timers race reads and sends; a rewind has several steps that can fail.
`PROJECT.json` lists each hazard at its line.

**What makes each part correct.**

- *Agent loop*: the conversation sent to the provider pairs every tool call with
  its result; it is exactly what the consumer was shown; one turn shows one model;
  the budget holds; every end is reported; every run ends.
- *Client*: no run gets out of reach of Interrupt; Interrupt reaches what it was
  called for; a range over an answer ends and is told how.
- *Sessions*: message ids are fresh; a checkpoint is what it names; a rewind
  restores it; a stored answer stays; what was written is found after a restart.
- *Transport*: an attempt without an error is the whole answer; goroutine and
  connection end; an idle or stuck connection is reported.
- *Iterator runs*: runs of one stream do not overlap; the end of a stream is told;
  a stream that was left ends with everything it started, as far as the runs can.
- *Tools, hooks, permissions*: a tool runs only for a call that no PermissionRequest
  callback, the policy or CanUseTool denied; what the model is told of a call is
  true; no update of the policy is lost to another.
- *Answers*: the text kept is the text said, once; what was shown is what is kept;
  calls are run with what they were sent.
- *Set-up and requests*: the model is offered the tools the options name; a fork is
  a new session unless its id was revived; a request carries the options in the terms of its API.

## 2. Modules

| Module | Models | Checked by | Proved in |
|---|---|---|---|
| `QueryRun` | the agent loop on one session, with cancellation and bounded channels | `MCQueryRun` | `QueryRun_proofs` |
| `Conversation` | what a query promises the application; implemented by `QueryRun` | run `QueryRun_conversation` | `QueryRun_proofs` |
| `ClientLifecycle` | a client shared by several goroutines, and the life of its runs | `MCClientLifecycle` | `ClientLifecycle_proofs` |
| `SessionStore` | the session, its checkpoints and snapshots, the JSON store, crashes | `MCSessionStore` | `SessionStore_proofs` |
| `Stream` | one attempt: request, SSE scan, timers, and `runStream`'s selects | `MCStream` | `Stream_proofs` |
| `MessageIterator` | `RunMessageIterator` and `QueryStream`: the goroutines of a stream of inputs | `MCMessageIterator` | `MessageIterator_proofs` |
| `ToolUse` | one tool call through hooks, policy, callback and server; the policy files; retries | `MCToolUse` | `ToolUse_proofs` |
| `Answer` | what the events of a stream become: text, images, calls, usage, errors | `MCAnswer` | `Answer_proofs` |
| `Request` | operators: the fields of a request, from the options | with `Setup` | |
| `Setup` | clients that are started: options, shared maps, listing tools, store, resume and fork, first requests | `MCSetup` | `Setup_proofs` |

The modules meet at named places: what `QueryRun` calls an attempt (`StreamEvent`,
`StreamEnds`, `StreamFails`) is `Stream`; what `ClientLifecycle` calls a run
(`Emit`, `RunEnds`, `RunFails`) is `QueryRun`; what `SessionStore` calls a run
(`BeginRun` to `SaveAnswer`) are the points where `QueryRun` touches the session;
what `MessageIterator` calls a run is again `QueryRun`; `ToolUse` is what `QueryRun`
does between announcing a call and appending its result, and `Answer` what it does
with the events that `Stream` delivers. `Setup` extends `Request`.
Operators marked *slip* in the modules are plausible mistakes in that code, for the
mutants of `PROJECT.json`; no specification uses them.

### QueryRun

One action per send, hook point or decision of `RunMessages`; `pc` names the place.
A send is possible when the channel has room, and where the code selects on
`ctx.Done()` the run may also leave (`AbortSend`). `errs <- err` before a return is a
step of its own (`Raise`, `SendError`): it is not in a select and can block. A stream
event brings any of: content, a tool-call index, a cost, an interleaving of those,
or garbage; the transport may fail at any moment. `MayFallBack` is the rule of
QR:490-505: the fallback model is tried only if the first attempt emitted nothing.
History variables record what the provider billed (`spent`), what the session held
when the run began (`base`) and which tools ran (`ran`).

### ClientLifecycle

Each part of a method that holds `c.mu` is one action, and between two parts other
callers run: `Query` is Query, CheckConnected, ReadSession, Launch and SetCurrent;
`Interrupt` is Interrupt, HostConnected, CurrentCancel, CallCancel and
InterruptReturns. `activeSession` is read without the lock, so a racing read may be
torn. A run is sending or has ended; ranging over it is one select on two channels.

### SessionStore

`Manager`'s methods are atomic except for the save, which holds the lock but writes
the file in two steps; `saver` is who holds it. A fault is a failed write, an
unreadable file or the death of the process. A run reads and increments
`UserTurns` outside the lock (`TakeId`, `CountTurn`). With `Serial` an application
begins a query when the last run has ended; without it, as soon as it has received
the result. Files are abstracted to the run that wrote them last. A session that
`GetOrCreate` makes is as empty as none.

### Stream

The transport's goroutine (`pc`), the server (`answer`, `sent`), the idle timer, and
`runStream` (`reader`) with its first, preferring select (`Poll`) and its second
(`ChooseEvent`, `ChooseError`, `LeaveCancelled`). `aborted` is the transport's
context, which `runStream` does not see; `cancelled` is the caller's. An event may be
garbage, the body may break between or within events, the last event may come
without its empty line, `[DONE]` may end the stream before the body ends, and an
answer that is no event stream is read to its end first. Time is abstracted: a
running timer may fire at any moment.

### MessageIterator

Three parties: `ingest` ranges over the application's iterator and queues inputs
(`Yield`, `Enqueue`); `loop` starts a run for each (`StartTurn`), moves its messages
on (`TakeMessage`, `RelayMessage`) and ends at its first error (`RelayError`); the
application reads `out` and `errs`, or leaves its range, which closes the client.
A run sends messages, may report an error it survives (a chunk that cannot be
parsed: `RunReports`, then `SendError`), ends without an error (`RunEnds`) or with one
(`RunFails`, then `SendError`), and closes its two channels in two steps. Its sends
of messages and of a chunk's error give way to a cancellation (`GivesWay`); the error
before a return is `failing` and does not. `raised` and `heard` count the errors a
run has sent and the loop has read: its errs holds `ErrCap`, and once the loop has left
the turn nobody reads it. `LoopCancelled` is `ctx.Done()` in each of the three selects.

### ToolUse

`pc[c]` is the place of call `c`: `hook` (PermissionRequest callbacks one by one),
`update` (their updates), `pre`, `check` (the policy), `ask` (CanUseTool), `reply`
(its updates), `dispatch`, then the server, then `post`. Calls are of different runs
that share one executor. `lock` is `e.mu`, held over the reading and the two steps
of writing a file. An external call sends a request per attempt; a request that was
sent may run at any later time, whether or not its answer is waited for. `saved` is
a history variable: every update that was written to a file, in order. `votes` is
another: what was said of a call when it was asked about, that is `veto` (a denial by a
PermissionRequest callback or CanUseTool), `pre` (the PreToolUse callbacks let it
pass), `unheeded` (one of them denied, which the code does not look at), `policy` and
`user`.

### Answer

The server says a text word by word. In responses mode it states each part again,
twice, and the whole item once; it announces calls, streams their arguments in
pieces and may state them again; it names images, counts tokens and reports errors.
`ProcessEvent` is `parseChunk` and the whole of `processEvent`; `EndOfStream` is what
RunMessages makes of the result. Tokens are model values and a text is a sequence of
them; white space is one of them because the text is trimmed.

### Setup and Request

A client's options are applied in the order given: `ApplyOptions` up to the next
`WithSDKTools`, which writes to a map that may be the application's own, shared by
several clients; `heap` holds the maps, `cfg[c].servers` says which one a client
has. `Configure` is the checks of Start, `LoadStore` its session store, `ListServer`
and `EndList` the tools, one server at a time, `ResolveSession` and `Clone` its first
session. Two clients interleave at these steps. Names of tools are pairs of server
and tool. `Ask` sends a request whose fields `Request!Fields` computes as
`buildRequestBody` and the `request*` functions of QR do; a value is a model value
or a record where the code looks inside.

## 3. Runs

`CHECK_DEADLOCK FALSE` everywhere: with bounded queries, events and faults the
system comes to rest, and an application may stop reading. Waiting for ever is the
subject of the liveness properties instead.

| Run | Shows |
|---|---|
| `QueryRun_conversation` | TypeOK, HistoryBalanced, RequestsCarryWhatWasShown, ToolsRunOnce, and QueryRun implements Conversation: two runs on one session with checkpoints, two turns, two parallel calls, every hook and tool outcome, cancellation |
| `QueryRun_attempts` | OneModelPerTurn, RunWithinBudget, RunReportsItsEnd with fallback, costs, failing streams and bad chunks; EveryRunEnds, if the application reads both channels; CancelledRunEnds, though nobody reads `out` |
| `ClientLifecycle_calls` | TypeOK, NoOrphan, InterruptReaches, ResponseIsWhole: two callers, two runs |
| `ClientLifecycle_ends` | ReceiveReturns: with several receivers, cancelled or not |
| `SessionStore_serial` | TypeOK, FreshIds, CheckpointsFaithful (a checkpoint is what it names, and a rewind restores it), AnswersKept: three runs, two rewinds, two faults |
| `Stream_attempt` | TypeOK, CleanEnd; TransportEnds, also if nobody reads the stream; AttemptEnds, if the application takes what is shown |
| `MessageIterator_turns` | TypeOK, TurnsAreSerial, AnswersRelayed, EndIsTold; StoppedStreamEnds: a stream that was cancelled or left ends, with its goroutines and its runs, but for a run that nobody reads and that has filled its errs |
| `ToolUse_calls` | TypeOK, ConsentGiven (no denial that the code heeds is lifted), OutcomeIsTrue, NoUpdateLost: two calls at once, two hooks, a callback, two files, a crash or a failed write |
| `Answer_stream` | TypeOK, TextAsSaid, ShownIsKept, CallsAsSent: every stream within the bounds, of either API, shown in pieces or at once |
| `Setup_clients` | TypeOK, ToolsOffered, ForkIsNew, RequestsCarryOptions: two clients with thirteen lists of options, a store, a crash or a failed write |

### Where code and documentation disagree

Each of these runs checks what a document says, and TLC shows a behaviour of the
code that violates it.

| Run | Said | Done |
|---|---|---|
| `QueryRun_session_budget` | `options.go:121`: the budget is a "cost limit for the session" | the total starts at 0 with every run (QR:419) |
| `Stream_idle` | `options.go:344`: an idle stream is "aborted with ErrStreamIdle" | ParseSSE may see its context done first and return without an error: a truncated answer passes for a whole one |

Other behaviour a reader may not expect is in the models without a run of its own.

*Client and runs.*
- An unnamed query goes to the session used last (`client_impl.go:112,151`), where
  `client.go:69` says "default"; so does StartWithContent after a resume
  (`client.go:44`). Models: `ReadSession`, `ResolveSession`.
- A Query between its check and `setCurrent` starts a run in a client that Close has
  closed meanwhile (`client.go:127`). `Launch`.
- The second select of `runStream` may take an error while an event waits (QR:1610),
  where the comment at QR:1590 prefers events. `ChooseError`.
- An error a run survives ends the iterator stream it is part of (QR:251), while a
  plain run goes on after it. `RelayError`. An application that ranges over
  QueryStream gets the error and may go on ranging.
- A run that was left like this, or on cancellation, is read by nobody (QR:251-256).
  If the provider then sends enough chunks that cannot be parsed to fill its errs of 8
  (QR:276, 1497), the error it ends with, `errs <- runErr` or `errs <- ctx.Err()`
  (QR:493-504, 911-916), waits for ever, cancelled or not: the goroutine leaks.
  `Stuck`, the exception of StoppedStreamEnds.
- The body of a refusal is read by `io.ReadAll` (`http_client.go:160,240`), which no
  idle timer watches, where `options.go:334` says to rely on that timer.

*Sessions.*
- The result is shown before the history is stored (QR:911-918): a query begun on
  seeing it can lose the exchange. `Serial = FALSE` in `SessionStore` allows it.
- The store is truncated, then written (`manager.go:341`), and an empty store loads
  as none (`manager.go:277`); `options.go:200` says "durable".
- Two managers on one store: the last to write wins. A load that fails leaves the
  manager persistent (`manager.go:72`), so a second Start overwrites what it could
  not read. Resuming a session that is not there starts an empty one.
- A fork may get the id of a session that is there and replace it, where
  `options.go:193` says "to a new ID": NewForkID counts and does not look
  (`manager.go:143-150`). One client without a store forks a session; a second
  resumes that fork with a store, where it is made anew without its counter; the next
  fork of the base there, by a third client, gets the same id, and Clone overwrites
  what was said to it. `revived` names the forks made anew; they are the exception of
  ForkIsNew. It takes three clients, one more than in `Setup_clients`, to get there;
  the theorem ForksAreNew is about any number of them.
- Files are captured as Go strings and stored as JSON (`manager.go:376`), which does
  not keep bytes that are no UTF-8. Contents are model values here, so this is
  outside the model.

*Tools.*
- The mode bypassPermissions skips the rules only (`executor.go:171`); hooks and
  CanUseTool still decide, where `permission.go:16` says that it bypasses all checks.
  The mode hooks are told is that of the options, not the one set later.
- A PreToolUse callback cannot refuse a call by saying so: its `permissionDecision`
  "deny" (`hook.go:245`) and its `decision` "block" (`hook.go:231`) are not looked at
  (`hook_outputs.go:8-34`, QR:704-720) and the tool runs. Only an error, a timeout or
  an output that is not supported (`continue: false` and the like) stops it, and with
  it the run. Of a PermissionRequest callback, too, only the decision in its
  hook-specific output counts (QR:1644). `PreToolUse`, and the vote `unheeded`.
- A rule that is set after the policy was asked does not stop the call, though the
  application is still being asked about it; ConsentGiven is about what was said of
  a call when it was asked about.
- A callback that returns an empty list of updates takes back those of the callbacks
  before it (QR:1668). `PermissionRequest`.
- The error of an SDK tool's handler is a result like any other (`CallSdkTool`).
- A policy file that was cut makes the merged policy empty at the next start.
- Two clients with the same directory have an executor each and lose each other's
  updates; `ToolUse` has one executor.
- A call of an external tool may run more than once, and after it was reported as
  failed (`ServerRuns`).

*Answers.*
- A chat delta that begins with the whole text so far loses that beginning
  (QR:1393), and in responses mode a later part that is stated again is appended
  again, though a test is called "...DeduplicatesTerminalTextEvents"
  (`query_runner_parity_test.go:329`). `unclear` marks such streams.
- Arguments that are stated more than once are concatenated, do not parse, and the
  tool is run with an empty input (`Input`).
- An error event does not end the stream; the run may still succeed.
- Any map with an https URL in it, a citation among the annotations of a text
  included, is taken for an image, and the rest of the part or item it is in is
  dropped (`event_mapper.go:131-133, 173-175, 274-297`). `Parsed` tells images from
  other content exactly, so this is outside the model: TextAsSaid and ShownIsKept are
  about streams without such maps.

*Options.*
- A map given to WithMCPServers is written to by WithSDKTools and by Start
  (`options.go:279`, `user_input_tool.go:36-48`), without a lock: with one map for
  two clients, one client's handler may answer the other's calls. `OnlyUser` is the
  hypothesis of ToolsOffered.
- WithSDKTools before WithMCPServers is lost; a server called "sdk" in the
  configuration is replaced; WithTools filters the user-input tool out;
  CanUseTool together with OnUserInput is refused.
- Options of the other API are dropped without a word; a schema whose wrapping has
  no type goes out as it is in responses mode; name and strict of a flat typed
  schema are misplaced in chat mode.
- The public name `mcp__a__b__c` has two readings; the model uses pairs.

### Bounds, and why they are enough

- *QueryRun*: two turns, because what a turn leaves behind (history, costs,
  emitted) matters only to the next; two inputs, so that one is followed by another;
  two runs where the session matters; two tool-call indexes, which one event can
  carry together, to have a call before and after another; where attempts matter two
  events each, one before and one after the first output; capacity 1 for both
  channels, so that every send can block; one cost below and two costs above the
  budget.
- *ClientLifecycle*: two callers and two runs, the least with which a call can be
  overtaken by another and a run replaced; two messages, one of them the result.
- *SessionStore*: three runs, so that a checkpoint can lie before, at and after the
  one rewound to; two rewinds (back, then again after a new run); two faults, a
  failed write and then a crash; two paths, one in the snapshot and one not. The
  paths are a symmetry set.
- *MessageIterator*: three inputs, so that one is running, one is queued and one is
  on its way; runs of three messages against capacity 1, so that every hand-over can
  block; errs of a run with room for one, so that the two bad chunks a run can report
  before its result fill it, also after the loop has read the first and left; two
  sessions and inputs that name none.
- *ToolUse*: two calls, the least that can race; two hooks, so that one can
  contradict the other; two files and three updates (add, replace, remove), two of
  them to one file; two attempts, so that a late request meets a retry; one fault.
  The calls are a symmetry set.
- *Answer*: three words of two tokens, one of them white space, so that a text can
  repeat itself and be trimmed; two parts; two calls with a gap in their indices and
  two pieces each; each event kind once too often.
- *Setup*: two clients, two starts in all per client, one request each; the lists are
  chosen so that each option meets the ones it depends on, in both orders where
  order matters. The clients are a symmetry set.
- *Stream*: three events against capacity 1, so that runStream has one in hand, one
  waits and the transport is blocked with a third; three tries as in the code; one
  place on errs, which makes its overflow reachable.

The theorems below hold without these bounds.

### Fairness

- `QueryRun.RunFairness` is weak fairness of the run's goroutine: Go schedules it,
  and hooks, tools and transport answer. `FairSpec` adds an application that reads
  errs; one that also reads `out` is the hypothesis `Drained` of EveryRunEnds, and
  CancelledRunEnds does without it: a consumer may break out of its range. There is
  no fairness for Cancel or BeginRun.
- `ClientLifecycle.FairSpec`: runs go on, and a goroutine inside a range goes on.
- `Stream.FairSpec`: both goroutines go on, and a running timer that is not reset
  fires; nothing is assumed of the server, of cancellation or of a deadline.
  That the application takes what is shown (`Consumed`) is a hypothesis of
  AttemptEnds. Timers are weakly fair
  because a server that sends for ever is outside the bound; keepalive comments that
  never stop would hold an attempt open, as the documentation says they may.
- `MessageIterator.FairSpec`: the two goroutines go on; of a run it is assumed only
  that it gives way to a cancellation and returns when it can (`RunReturns`), not that
  it sends or fails; the application's
  iterator yields or ends (the code cannot interrupt it, QR:201, so a stream whose
  iterator blocks for ever does not end, cancelled or not); its range goes on until
  it is left. There is none for Cancel or LeaveRange.

Safety properties use no fairness.

## 4. What is proved

For every value of the constants allowed by the modules' assumptions
(`ConstantsAssumption`, `ClientAssumption`, `StoreAssumption`, `StreamAssumption`,
`IteratorAssumption`, `ToolAssumption`, `AnswerAssumption`, `NoEventAssumption`,
`SetupAssumption`, `OptionsAssumption`, `ServersAssumption`), which
only say that bounds are naturals, capacities are positive, flags are Boolean, updates
are of the kinds the code knows, options are given values of their Go types, and the
values that mean "none" are not members:

| Theorem | Property | Why it is inductive |
|---|---|---|
| `QueryRun_proofs!TypeCorrect` | TypeOK | with loop bounds on turn and input and `todo` non-empty while a call is handled (`TypeInv`) |
| `QueryRun_proofs!BudgetIsKept` | RunWithinBudget | `CostInv`: until it settles a run's spending is `totalCost`, which is within the budget; an attempt that has reported a cost has emitted something, so it is never retried |
| `QueryRun_proofs!TurnsAreNotMixed` | OneModelPerTurn | `ModelInv`: messages of the current turn carry the current model, and while nothing is emitted there are none |
| `QueryRun_proofs!HistoriesAreBalanced` | HistoryBalanced | `BalanceInv`: during a turn `results` matches `toolCalls` one by one, and both reach the history only together |
| `QueryRun_proofs!EndsAreReported` | RunReportsItsEnd | `EndInv`: no result before the last steps, and a result is the last message |
| `QueryRun_proofs!ToolsDoRunOnce` | ToolsRunOnce | `RanInv`: a call of the turn that ran is no longer to be handled, or is the one in hand and past its execution; a call in hand was announced, and one about to be reported as a success has run |
| `QueryRun_proofs!RequestsAreWhole` | RequestsCarryWhatWasShown | `ShownInv`: the conversation is what the session held at the start and then what was shown, but for the message of the turn in hand |
| `QueryRun_proofs!LoopImplementsConversation` | ImplementsConversation | the same invariant; each action is a step of `Conversation` under the mapping of `QueryRun`, or leaves its variables alone |
| `ClientLifecycle_proofs!TypeCorrect` | TypeOK | with the runs that handles may name (`HandleTypes`) |
| `ClientLifecycle_proofs!NoRunIsOrphaned` | NoOrphan | itself, relative to the types |
| `ClientLifecycle_proofs!InterruptIsEffective` | InterruptReaches | `InterruptInv` follows Interrupt through its steps; `StoredInv`: a stored run is cancelled or current |
| `ClientLifecycle_proofs!AnswersAreWhole` | ResponseIsWhole | `RunsInv`: a run that ends has sent its result or an error; `RangingInv`: of a run that one caller ranges over alone nothing was read that this caller did not see, and it stops when both channels are closed |
| `SessionStore_proofs!TypeCorrect` | TypeOK | the counter of a session, in memory, in a checkpoint or on disk, is at most the number of runs begun, also when runs race |
| `SessionStore_proofs!IdsAreFresh` | FreshIds | under `Serial`: `Consistent` (ids are below the counter, a checkpoint is a prefix) of the session in memory and on disk, `InStep` of the run under way, and `RewindInv` between the steps of a rewind |
| `SessionStore_proofs!CheckpointsStayFaithful` | CheckpointsFaithful | the same invariant |
| `SessionStore_proofs!AnswersStay` | AnswersKept | the same invariant, for each step |
| `Stream_proofs!TypeCorrect` | TypeOK | `Flow`: events shown, waiting and in hand never exceed those scanned; `Early`: nothing is on errs before the stream is open, so a refusal always fits |
| `Stream_proofs!CleanEndsAreClean` | CleanEnd | `CleanInv`: no event is lost without a trace (`NoneLost`), an error that was met waits on errs or is about to be put there (`ErrorWaits`), the transport stops of its own accord only at the end of the answer (`StopsAtEnd`), and runStream drops a channel only when it is closed and empty (`DropsWhenEmpty`) |
| `MessageIterator_proofs!TypeCorrect` | TypeOK | `InHand`: what the loop received of its turn was passed on, but for the message in hand; `Queued`: the queue holds the inputs after the turn, and every input yielded is run, queued or in hand |
| `MessageIterator_proofs!RunsAreSerial` | TurnsAreSerial | `SerialInv`: a turn the loop is done with has returned and was read to its end |
| `MessageIterator_proofs!AnswersAreRelayed` | AnswersRelayed | `SessionInv`: the current session is the one meant for the last turn |
| `MessageIterator_proofs!EndsAreTold` | EndIsTold | `EndInv`: while the loop goes on it has reported nothing, and once it ends without a report and without being cancelled no input is left; `RunTold`: a run that ends without an error sent its whole answer |
| `ToolUse_proofs!TypeCorrect` | TypeOK | with the number of an attempt under way (`AttemptInv`), and with `LockInv` |
| `ToolUse_proofs!NoUpdateIsLost` | NoUpdateLost | itself with `LockInv`: whoever is between reading a file and writing it holds the lock, and what it read is what was written last |
| `ToolUse_proofs!ConsentIsGiven` | ConsentGiven | `ConsentInv`: before the server nothing has run, each stage has the answers of those before it, and a call that a PermissionRequest callback or CanUseTool vetoed is denied or over |
| `ToolUse_proofs!OutcomesAreTrue` | OutcomeIsTrue | `OutcomeInv`: runs and open requests together are no more than the attempts asked for (`Asks`), the one not sent yet left out |
| `Answer_proofs!TypeCorrect` | TypeOK | with the parts below |
| `Answer_proofs!TextIsKept` | TextAsSaid | `TextInv`: the text with what the event on its way adds is the text said |
| `Answer_proofs!WhatIsShownIsKept` | ShownIsKept | `ImagesInv` and `CountInv` say the same of images, errors and tokens; `ShownInv`: what is shown in pieces is what is kept; trimming twice is trimming once |
| `Answer_proofs!CallsAreRun` | CallsAsSent | `CallsInv`: a call not yet whole has exactly the pieces that were streamed; the calls that have anything are finitely many, so they can be put in order (`Sortable`, `InOrder`) |
| `Setup_proofs!TypeCorrect` | TypeOK | `SetupInv`, next row |
| `Setup_proofs!ToolsAreOffered` | ToolsOffered | `SetupInv`: while options are applied, each field is what the options so far make of it and each map what they wrote to it (`Configuring`); from then on the options are those the whole list names, and the tools offered are those of the servers that answered so far (`Configured`); who was given the caller's map is on record (`Sharing`) |
| `Setup_proofs!ForksAreNew` | ForkIsNew | `ForkInv`: a fork that is kept was counted in the memory that keeps it, unless a resume made it anew (`Numbered`); a client about to clone has just counted its fork (`Forking`); with `Serial`, one client at a time uses the store (`Alternating`), and it knows every session a whole store has (`Linked`) |

`ErrorWaits` is the argument behind the comment at `sse.go:76-80`: the last error may
be dropped when errs is full, because then another one is on it.

In `MessageIterator` the gap between a run's error and its end is what makes the
proof: the loop leaves a turn at the error, so "the turn before is over" holds only
because the loop then runs nothing more (`AfterError`). In `ToolUse`, that the merged
policy is well typed needs the last of a non-empty set of positions, which is found by
well-foundedness (`LastOne`), and requests are counted with the library's facts about
cardinality.

The three theorems of `SessionStore` after its types assume `Serial`: an application
that begins a query while the last run still stores its answer can lose an exchange
and see an id twice (section 3), so without it TLC finds each of them false.

What a recursive function or a fold computes is shown where it is needed by the least
counterexample: `IdsOf` of a conversation that grows (`QueryRun_proofs`), the
sorted sequence of a finite set (`Answer_proofs!Sortable`). For that the order of
calls is a `CHOOSE` of the increasing sequence (`InSequence`), where a sort of the
library would hide its comparison from the provers.

The options a client applies in one go are folded over a list in `Setup`. The library
defines that fold by recursion over sets of positions; `FoldingExists` shows there is
such a function and `FoldMore` that one more option is applied last, from which
`AppliedAll` says what a whole list comes to: the last value given for a field, but the
allowlist with what was added since, and the map that was given last.

Only model-checked: RequestsCarryOptions, which compares two readings of the requests'
fields value by value (`Request`), and all liveness, which is out of the prover's reach.

## 5. What is abstracted or left out

- Models' names, tool arguments beyond whole or not, structured output; audit
  envelopes, metrics, spans and log lines.
- Matching of hooks by tool name and the fields of their inputs. Outcomes of hooks
  and tools in QueryRun are every one it branches on; `ToolUse` says which can occur.
- A panic in `CreateStream`; data races on maps, which Go may turn into a crash.
- Sessions are one per model in QueryRun and SessionStore; forks and two managers
  are in Setup.
- The background refresh of MCP servers (`controlplane.go:153-252`): Start leaves
  every status ready or error, and the refresh looks for neither. It can only happen
  in a client that had no server at Start and got one through a shared map later.
- The handler of the user-input tool, which parses a question and asks the
  application; schema builders; message, content and model types; model listing;
  observability; examples and scripts: conversions or plain calls without state.

## 6. Plan

Done: QueryRun with Conversation, ClientLifecycle, SessionStore, Stream,
MessageIterator, ToolUse (permissions, hooks and external MCP in one module, because
their interplay is what can go wrong), Answer (assembly of chunks), Setup and Request
(tools, forks, options).

Left, in order:

1. RequestsCarryOptions as a theorem, field by field, on the invariant of Setup.
2. Abstract specifications: an ordered stream with at most one error, for Stream and
   MessageIterator; a durable map for SessionStore, if the store is ever written by
   renaming.
3. A composition of ToolUse with ClientLifecycle, in which the mode is set while a
   call waits for its callback.
