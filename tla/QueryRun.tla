------------------------------ MODULE QueryRun ------------------------------
(***************************************************************************)
(* The agent loop of internal/runtime/query_runner.go: RunMessages and     *)
(* runStream, called one query after the other on one session.             *)
(*                                                                         *)
(* A run is one goroutine.  It writes messages to the bounded channel out  *)
(* and errors to the bounded channel errs; the application drains both and *)
(* may cancel the run's context at any moment.  The transport, the hooks,  *)
(* the tools and the permission policy answer in every way the code        *)
(* distinguishes.  Texts, models and arguments are abstracted to what the  *)
(* loop branches on: did this attempt produce assistant content, which     *)
(* tool-call indexes did it produce, what did it cost.                     *)
(***************************************************************************)
EXTENDS Integers, FiniteSetsExt, SequencesExt

CONSTANTS
  MaxQueries,   \* bound: how many times the application calls RunMessages
  Inputs,       \* user messages given to one call
  MaxTurns,     \* opts.MaxTurns, else MaxToolIterations, else 8
  MaxEvents,    \* bound: stream events of one attempt
  CallIdx,      \* indexes a streamed tool-call delta can carry
  Costs,        \* values of total_cost_usd an event can report
  Budget,       \* opts.MaxBudgetUSD (no limit: a budget never reached)
  HasFallback,  \* opts.FallbackModel is set and is not the primary model
  Partial,      \* opts.IncludePartialMessages
  Checkpointing,\* opts.EnableFileCheckpointing
  SystemPrompt, \* an effective system prompt is configured
  OutCap,       \* capacity of out (64 in the code)
  ErrCap        \* capacity of errs (8 in the code)

ASSUME ConstantsAssumption ==
  /\ {MaxQueries, Inputs, MaxTurns, OutCap, ErrCap} \subseteq Nat \ {0}
  /\ {MaxEvents, Budget} \subseteq Nat
  /\ CallIdx \subseteq Nat
  /\ IsFiniteSet(CallIdx)
  /\ Costs \subseteq Nat
  /\ {HasFallback, Partial, Checkpointing, SystemPrompt} \subseteq BOOLEAN

VARIABLES
  queries,     \* RunMessages calls made so far
  pc,          \* where the run's goroutine is
  pending,     \* the error it is about to send on errs
  cancelled,   \* the run's context is done
  messages,    \* the session's Messages
  userTurns,   \* the session's UserTurns
  checkpoints, \* session.Checkpoints, as records [id, messages]
  input,       \* inputs taken so far
  turn,        \* the loop variable of the tool loop
  history,     \* the local conversation, sent with every request
  model,       \* the model of the current attempt
  content,     \* this attempt produced assistant text or images
  calls,       \* tool-call indexes this attempt produced
  emitted,     \* this attempt put something on out
  events,      \* events this attempt received
  attemptCost, \* last cost this attempt reported, or Unseen
  turnCost,    \* cost of this turn's finished attempts, or Unseen
  totalCost,   \* cost of the finished turns
  spent,       \* history variable: cost of every attempt of the session
  spentBefore, \* history variable: spent when the run began
  base,        \* history variable: messages of the session when it began
  todo,        \* tool calls of the turn still to be handled
  toolCalls,   \* calls handled this turn, for the history
  results,     \* their tool messages, for the history
  ran,         \* history variable: calls whose tool was executed, in order
  out, outRead,\* all messages sent on out, and how many were received
  errs, errRead

inputVars   == <<input, turn, history>>
streamVars  == <<model, content, calls, emitted, events, attemptCost>>
costVars    == <<turnCost, totalCost, spent>>
toolVars    == <<todo, toolCalls, results, ran>>
channelVars == <<out, outRead, errs, errRead>>
storeVars   == <<messages, userTurns, checkpoints>>
callVars    == <<queries, spentBefore, base, cancelled>>
vars == <<pc, pending, inputVars, streamVars, costVars, toolVars,
          channelVars, storeVars, callVars>>

Unseen == -1
Models == {"primary", "fallback"}

\* Where the code selects between sending on out and ctx.Done().
SendPoints == {"system", "user", "final", "tool", "toolresult", "toolerror",
               "result", "budget", "interrupted"}
StreamPoints == {"stream", "partial", "badchunk"}
Labels == SendPoints \cup StreamPoints \cup
          {"input", "prompthook", "checkpoint", "turn", "dispatch", "permission",
           "pretool", "exec", "posttool", "endturn", "save", "raise", "done"}

\* errType of the code, and a chunk that does not parse.
ErrorKinds == {"none", "start", "invalid_request", "cancelled", "hook_error",
               "checkpoint_error", "transport_error", "permission_denied",
               "max_turns", "chunk"}

-----------------------------------------------------------------------------
(* Messages and history entries.                                           *)

Message(k, i, e) ==
  [kind |-> k, id |-> i, isError |-> e, model |-> model, turn |-> turn]
Entry(r, i, cs) == [role |-> r, id |-> i, calls |-> cs]

NoId       == <<>>
UserId     == <<userTurns>>                \* "<session>-u<n>"
CallId(c)  == <<queries, turn, c>>             \* the id the model gives a call
Current    == Min(todo)                        \* orderCalls: ascending index

SendMessage(m) ==
  /\ Len(out) - outRead < OutCap
  /\ out' = Append(out, m)

\* errs <- e; return.  The send itself is a step of its own: it can block.
Raise(e) == pending' = e /\ pc' = "raise"

Plus(c, d) == IF c = Unseen THEN d ELSE IF d = Unseen THEN c ELSE c + d
Paid(c)    == IF c = Unseen THEN 0 ELSE c

-----------------------------------------------------------------------------
Init ==
  /\ pc = "done" /\ pending = "none" /\ cancelled = FALSE
  /\ queries = 0 /\ spent = 0 /\ spentBefore = 0 /\ base = <<>>
  /\ messages = <<>> /\ userTurns = 0 /\ checkpoints = {}
  /\ input = 0 /\ turn = 0 /\ history = <<>>
  /\ model = "primary" /\ content = FALSE /\ calls = {} /\ emitted = FALSE
  /\ events = 0 /\ attemptCost = Unseen
  /\ turnCost = Unseen /\ totalCost = 0
  /\ todo = {} /\ toolCalls = <<>> /\ results = <<>> /\ ran = <<>>
  /\ out = <<>> /\ outRead = 0 /\ errs = <<>> /\ errRead = 0

\* history := session.Clone(s.Messages)
StartingHistory == messages

(* RunMessages is called: fresh channels and context, the history is a     *)
(* clone of the session's messages.  transport.Start may fail.             *)
BeginRun ==
  /\ pc = "done" /\ queries < MaxQueries
  /\ queries' = queries + 1
  /\ out' = <<>> /\ outRead' = 0 /\ errs' = <<>> /\ errRead' = 0
  /\ cancelled' = FALSE
  /\ input' = 0 /\ turn' = 0 /\ history' = StartingHistory
  /\ model' = "primary"
  /\ totalCost' = 0 /\ turnCost' = Unseen /\ spentBefore' = spent
  /\ base' = messages
  /\ ran' = <<>>
  /\ \/ Raise("start")
     \/ /\ pc' = IF messages = <<>> /\ SystemPrompt THEN "system" ELSE "input"
        /\ UNCHANGED pending
  /\ UNCHANGED <<content, calls, emitted, events, attemptCost, spent,
                 todo, toolCalls, results, storeVars>>

ShowSystem ==
  /\ pc = "system"
  /\ SendMessage(Message("system", NoId, FALSE))
  /\ history' = Append(history, Entry("system", NoId, <<>>))
  /\ pc' = "input"
  /\ UNCHANGED <<pending, input, turn, streamVars, costVars, toolVars,
                 outRead, errs, errRead, storeVars, callVars>>

(* One iteration of the input loop, up to its first send.  Multimodal      *)
(* content in responses mode is refused before it is counted.              *)
TakeInput ==
  /\ pc = "input"
  /\ \/ Raise("invalid_request") /\ UNCHANGED userTurns
     \/ /\ userTurns' = userTurns + 1
        /\ pc' = "user"
        /\ UNCHANGED pending
  /\ UNCHANGED <<inputVars, streamVars, costVars, toolVars, channelVars,
                 messages, checkpoints, callVars>>

ShowUser ==
  /\ pc = "user"
  /\ SendMessage(Message("user", UserId, FALSE))
  /\ pc' = "prompthook"
  /\ UNCHANGED <<pending, inputVars, streamVars, costVars, toolVars,
                 outRead, errs, errRead, storeVars, callVars>>

AfterInput == IF input + 1 < Inputs THEN "input" ELSE "turn"

\* A hook call that fails, or whose output validateHookOutputs refuses.
HookFails ==
  /\ Raise("hook_error")
  /\ UNCHANGED <<inputVars, streamVars, costVars, toolVars, channelVars,
                 storeVars, callVars>>

PromptHook ==
  /\ pc = "prompthook"
  /\ \/ HookFails
     \/ /\ history' = Append(history, Entry("user", UserId, <<>>))
        /\ IF Checkpointing
           THEN pc' = "checkpoint" /\ UNCHANGED input
           ELSE pc' = AfterInput /\ input' = input + 1
        /\ UNCHANGED <<pending, turn, streamVars, costVars, toolVars,
                       channelVars, storeVars, callVars>>

(* SetState, Snapshot and SnapshotFiles for the user message just added.   *)
Checkpoint ==
  /\ pc = "checkpoint"
  /\ messages' = history
  /\ checkpoints' = {c \in checkpoints : c.id # UserId}
                      \cup {[id |-> UserId, messages |-> history]}
  /\ \/ Raise("checkpoint_error") /\ UNCHANGED input
     \/ pc' = AfterInput /\ input' = input + 1 /\ UNCHANGED pending
  /\ UNCHANGED <<turn, history, streamVars, costVars, toolVars, channelVars,
                 userTurns, callVars>>

-----------------------------------------------------------------------------
(* One turn: an attempt on the primary model and, if it fails before it    *)
(* put anything on out, one on the fallback model.                         *)

OpenStream(m) ==
  /\ pc' = "stream"
  /\ model' = m
  /\ content' = FALSE /\ calls' = {} /\ emitted' = FALSE
  /\ events' = 0 /\ attemptCost' = Unseen

OneTurnTooMany == turn <= MaxTurns             \* slip: off by one
MoreTurns      == turn < MaxTurns

StartTurn ==
  /\ pc = "turn"
  /\ IF MoreTurns
     THEN /\ OpenStream("primary")
          /\ turnCost' = Unseen
          /\ UNCHANGED pending
     ELSE /\ Raise("max_turns")
          /\ UNCHANGED <<streamVars, turnCost>>
  /\ UNCHANGED <<inputVars, totalCost, spent, toolVars, channelVars,
                 storeVars, callVars>>

\* What one event carries.
StreamData ==
  [content : BOOLEAN, calls : SUBSET CallIdx,
   cost : Costs \cup {Unseen}]

(* processEvent: the raw event is shown first, then its cost is recorded   *)
(* and its chunk applied.  A chunk that does not parse goes to errs.       *)
StreamEvent ==
  /\ pc = "stream" /\ events < MaxEvents
  /\ events' = events + 1
  /\ SendMessage(Message("stream", NoId, FALSE))
  /\ emitted' = TRUE
  /\ \E d \in StreamData :
       /\ attemptCost' = IF d.cost = Unseen THEN attemptCost ELSE d.cost
       /\ \/ pc' = "badchunk" /\ UNCHANGED <<content, calls>>
          \/ /\ pc' = IF d.content /\ Partial THEN "partial" ELSE "stream"
             /\ content' = (content \/ d.content)
             /\ calls' = calls \cup d.calls
  /\ UNCHANGED <<pending, inputVars, model, costVars, toolVars, outRead,
                 errs, errRead, storeVars, callVars>>

ShowPartial ==
  /\ pc = "partial"
  /\ SendMessage(Message("text", NoId, FALSE))
  /\ emitted' = TRUE
  /\ pc' = "stream"
  /\ UNCHANGED <<pending, inputVars, model, content, calls, events, attemptCost,
                 costVars, toolVars, outRead, errs, errRead, storeVars, callVars>>

ReportBadChunk ==
  /\ pc = "badchunk"
  /\ Len(errs) - errRead < ErrCap
  /\ errs' = Append(errs, "chunk")
  /\ pc' = "stream"
  /\ UNCHANGED <<pending, inputVars, streamVars, costVars, toolVars, out,
                 outRead, errRead, storeVars, callVars>>

\* slip: an attempt that showed output is retried
MayFallBackAlways == HasFallback /\ model = "primary"
MayFallBack       == HasFallback /\ model = "primary" /\ ~emitted

(* runStream returns an error: the transport's, or ctx.Err() from one of   *)
(* its selects.                                                            *)
StreamFails ==
  /\ pc \in StreamPoints
  /\ pc # "stream" => cancelled
  /\ turnCost' = Plus(turnCost, attemptCost)
  /\ spent' = spent + Paid(attemptCost)
  /\ IF MayFallBack
     THEN OpenStream("fallback") /\ UNCHANGED pending
     ELSE Raise("transport_error") /\ UNCHANGED streamVars
  /\ UNCHANGED <<inputVars, totalCost, toolVars, channelVars, storeVars,
                 callVars>>

\* slip: the turn's cost is compared instead of the run's
TurnOverBudget(cost, total) == cost # Unseen /\ cost > Budget
OverBudget(cost, total)     == cost # Unseen /\ total > Budget

(* Both transport channels are closed and no error was received; then the  *)
(* cost is settled and compared with the budget.                           *)
StreamEnds ==
  /\ pc = "stream"
  /\ LET cost == Plus(turnCost, attemptCost)
         total == totalCost + Paid(cost)
     IN  /\ turnCost' = cost
         /\ totalCost' = total
         /\ pc' = IF OverBudget(cost, total) THEN "budget"
                  ELSE IF content /\ ~Partial THEN "final" ELSE "dispatch"
  /\ spent' = spent + Paid(attemptCost)
  /\ UNCHANGED <<pending, inputVars, streamVars, toolVars, channelVars,
                 storeVars, callVars>>

ShowFinalText ==
  /\ pc = "final"
  /\ SendMessage(Message("text", NoId, FALSE))
  /\ pc' = "dispatch"
  /\ UNCHANGED <<pending, inputVars, streamVars, costVars, toolVars, outRead,
                 errs, errRead, storeVars, callVars>>

Dispatch ==
  /\ pc = "dispatch"
  /\ IF calls = {}
     THEN /\ pc' = "result"
          /\ history' = Append(history, Entry("assistant", NoId, <<>>))
          /\ UNCHANGED toolVars
     ELSE /\ pc' = "tool"
          /\ todo' = calls /\ toolCalls' = <<>> /\ results' = <<>>
          /\ UNCHANGED <<history, ran>>
  /\ UNCHANGED <<pending, input, turn, streamVars, costVars, channelVars,
                 storeVars, callVars>>

-----------------------------------------------------------------------------
(* One tool call.                                                          *)

ShowToolUse ==
  /\ pc = "tool"
  /\ SendMessage(Message("tool_use", CallId(Current), FALSE))
  /\ pc' = "permission"
  /\ UNCHANGED <<pending, inputVars, streamVars, costVars, toolVars, outRead,
                 errs, errRead, storeVars, callVars>>

(* The PermissionRequest hook allows, denies, or denies with interrupt;    *)
(* after a denial the PostToolUseFailure hook runs (its error is ignored,  *)
(* an unsupported output of it is not).                                    *)
PermissionHook ==
  /\ pc = "permission"
  /\ \/ HookFails
     \/ /\ \/ pc' \in {"pretool", "interrupted"} /\ UNCHANGED pending
           \/ Raise("permission_denied")
        /\ UNCHANGED <<inputVars, streamVars, costVars, toolVars, channelVars,
                       storeVars, callVars>>

PreToolHook ==
  /\ pc = "pretool"
  /\ \/ HookFails
     \/ /\ pc' = "exec"
        /\ UNCHANGED <<pending, inputVars, streamVars, costVars, toolVars,
                       channelVars, storeVars, callVars>>

(* ExecuteWithSuggestions.  An unknown tool or a denial leaves the tool    *)
(* unexecuted; the tool itself may succeed or fail.  After an error the    *)
(* PostToolUseFailure hook runs, and a denial with interrupt ends the run. *)
ExecuteTool ==
  /\ pc = "exec"
  /\ \/ /\ ran' = Append(ran, CallId(Current))
        /\ \/ pc' \in {"posttool", "toolerror"} /\ UNCHANGED pending
           \/ Raise("hook_error")
     \/ /\ UNCHANGED ran
        /\ \/ pc' \in {"toolerror", "interrupted"} /\ UNCHANGED pending
           \/ Raise("hook_error")
  /\ UNCHANGED <<inputVars, streamVars, costVars, todo, toolCalls, results,
                 channelVars, storeVars, callVars>>

PostToolHook ==
  /\ pc = "posttool"
  /\ \/ HookFails
     \/ /\ pc' = "toolresult"
        /\ UNCHANGED <<pending, inputVars, streamVars, costVars, toolVars,
                       channelVars, storeVars, callVars>>

\* slip: a failed call is left out of the history
KeepSuccess ==
  results' = IF pc = "toolerror" THEN results
             ELSE Append(results, Entry("tool", CallId(Current), <<>>))
KeepResult == results' = Append(results, Entry("tool", CallId(Current), <<>>))

SameCalls == todo                              \* slip: the loop does not advance
NextCalls == todo \ {Current}

(* The result, or the error text, is shown and then kept for the history.  *)
ShowToolResult ==
  /\ pc \in {"toolresult", "toolerror"}
  /\ SendMessage(Message("tool_result", CallId(Current), pc = "toolerror"))
  /\ toolCalls' = Append(toolCalls, CallId(Current))
  /\ KeepResult
  /\ todo' = NextCalls
  /\ pc' = IF NextCalls = {} THEN "endturn" ELSE "tool"
  /\ UNCHANGED <<pending, inputVars, streamVars, costVars, ran, outRead,
                 errs, errRead, storeVars, callVars>>

EndTurn ==
  /\ pc = "endturn"
  /\ history' = Append(history, Entry("assistant", NoId, toolCalls)) \o results
  /\ turn' = turn + 1
  /\ pc' = "turn"
  /\ UNCHANGED <<pending, input, streamVars, costVars, toolVars, channelVars,
                 storeVars, callVars>>

-----------------------------------------------------------------------------
(* The ways a run ends.                                                    *)

ShowResult ==
  /\ pc = "result"
  /\ SendMessage(Message("result", NoId, FALSE))
  /\ pc' = "save"
  /\ UNCHANGED <<pending, inputVars, streamVars, costVars, toolVars, outRead,
                 errs, errRead, storeVars, callVars>>

\* slip: a denial with interrupt is not turned into a result
BudgetOnly  == {"budget"}
ErrorPoints == {"budget", "interrupted"}

\* slip: the history of a refused run is stored
RefusalSaves == messages' = history
RefusalKeeps == UNCHANGED messages

\* Budget exceeded, or a denial with interrupt: an error result, no SetState.
ShowErrorResult ==
  /\ pc \in ErrorPoints
  /\ SendMessage(Message("result", NoId, TRUE))
  /\ pc' = "done"
  /\ RefusalKeeps
  /\ UNCHANGED <<pending, inputVars, streamVars, costVars, toolVars, outRead,
                 errs, errRead, userTurns, checkpoints, callVars>>

\* SetState, then the Stop hook, whose unsupported output is still an error.
SaveSession ==
  /\ pc = "save"
  /\ messages' = history
  /\ \/ pc' = "done" /\ UNCHANGED pending
     \/ Raise("hook_error")
  /\ UNCHANGED <<inputVars, streamVars, costVars, toolVars, channelVars,
                 userTurns, checkpoints, callVars>>

ResultBlocks == cancelled /\ pc \in SendPoints \ {"result"} \* slip: a bare send
MayAbort     == cancelled /\ pc \in SendPoints

AbortQuietly == pc' = "done" /\ UNCHANGED pending  \* slip: return without errs <-
AbortReports == Raise("cancelled")

\* case <-ctx.Done() of a select that would otherwise send on out.
AbortSend ==
  /\ MayAbort
  /\ AbortReports
  /\ UNCHANGED <<inputVars, streamVars, costVars, toolVars, channelVars,
                 storeVars, callVars>>

\* The send on errs is not in a select: with errs full it waits for a reader.
SendError ==
  /\ pc = "raise"
  /\ Len(errs) - errRead < ErrCap
  /\ errs' = Append(errs, pending)
  /\ pc' = "done"
  /\ UNCHANGED <<pending, inputVars, streamVars, costVars, toolVars, out,
                 outRead, errRead, storeVars, callVars>>

-----------------------------------------------------------------------------
(* The application.                                                        *)

Cancel ==
  /\ pc # "done" /\ ~cancelled
  /\ cancelled' = TRUE
  /\ UNCHANGED <<pc, pending, inputVars, streamVars, costVars, toolVars,
                 channelVars, storeVars, queries, spentBefore, base>>

ReceiveMessage ==
  /\ outRead < Len(out)
  /\ outRead' = outRead + 1
  /\ UNCHANGED <<pc, pending, inputVars, streamVars, costVars, toolVars,
                 out, errs, errRead, storeVars, callVars>>

ReceiveError ==
  /\ errRead < Len(errs)
  /\ errRead' = errRead + 1
  /\ UNCHANGED <<pc, pending, inputVars, streamVars, costVars, toolVars,
                 out, outRead, errs, storeVars, callVars>>

RunStep ==
  \/ ShowSystem \/ TakeInput \/ ShowUser \/ PromptHook \/ Checkpoint
  \/ StartTurn \/ StreamEvent \/ ShowPartial \/ ReportBadChunk
  \/ StreamFails \/ StreamEnds \/ ShowFinalText \/ Dispatch
  \/ ShowToolUse \/ PermissionHook \/ PreToolHook \/ ExecuteTool
  \/ PostToolHook \/ ShowToolResult \/ EndTurn
  \/ ShowResult \/ ShowErrorResult \/ SaveSession \/ AbortSend \/ SendError

Next == RunStep \/ BeginRun \/ Cancel \/ ReceiveMessage \/ ReceiveError

Spec == Init /\ [][Next]_vars

(* The goroutine is scheduled, and hooks, tools and the transport answer.  *)
RunFairness == WF_vars(RunStep)

(* The application reads errs until it is closed.                          *)
FairSpec == Spec /\ RunFairness /\ WF_vars(ReceiveError)

\* It reads out, too.
Drained == WF_vars(ReceiveMessage)

-----------------------------------------------------------------------------
(* Properties.                                                             *)

Ids == Seq(Int)
MessageType ==
  [kind : {"system", "user", "stream", "text", "tool_use", "tool_result", "result"},
   id : Ids, isError : BOOLEAN, model : Models, turn : Nat]
EntryType ==
  [role : {"system", "user", "assistant", "tool"}, id : Ids, calls : Seq(Ids)]

ControlTypes ==
  /\ pc \in Labels
  /\ pending \in ErrorKinds
  /\ cancelled \in BOOLEAN
  /\ queries \in 0 .. MaxQueries
  /\ input \in 0 .. Inputs
  /\ turn \in 0 .. MaxTurns

StoreTypes ==
  /\ messages \in Seq(EntryType)
  /\ userTurns \in Nat
  /\ \A c \in checkpoints : c.id \in Ids /\ c.messages \in Seq(EntryType)
  /\ history \in Seq(EntryType)
  /\ base \in Seq(EntryType)

AttemptTypes ==
  /\ model \in Models
  /\ content \in BOOLEAN
  /\ emitted \in BOOLEAN
  /\ calls \subseteq CallIdx
  /\ events \in 0 .. MaxEvents

CostTypes ==
  /\ attemptCost \in Nat \cup {Unseen}
  /\ turnCost \in Nat \cup {Unseen}
  /\ totalCost \in Nat
  /\ spent \in Nat
  /\ spentBefore \in Nat

ToolTypes ==
  /\ todo \subseteq CallIdx
  /\ toolCalls \in Seq(Ids)
  /\ results \in Seq(EntryType)
  /\ ran \in Seq(Ids)

ChannelTypes ==
  /\ out \in Seq(MessageType)
  /\ outRead \in 0 .. Len(out)
  /\ Len(out) - outRead <= OutCap
  /\ errs \in Seq(ErrorKinds)
  /\ errRead \in 0 .. Len(errs)
  /\ Len(errs) - errRead <= ErrCap

\* The values the variables may take, and the capacity of the channels.
TypeOK ==
  ControlTypes /\ StoreTypes /\ AttemptTypes /\ CostTypes /\ ToolTypes /\ ChannelTypes

(* What one turn shows comes from one model: the fallback is tried only    *)
(* when the primary attempt showed nothing ("duplicate/partial mixed turn  *)
(* output", query_runner.go:493).                                          *)
OneModelPerTurn ==
  \A i, j \in 1 .. Len(out) :
    /\ {out[i].kind, out[j].kind} \subseteq {"stream", "text", "tool_use", "tool_result"}
    /\ out[i].turn = out[j].turn
    => out[i].model = out[j].model

(* The provider refuses a conversation in which an assistant message with  *)
(* tool calls is not directly followed by the result of each of them, in   *)
(* order: such a conversation is never sent, stored or checkpointed.       *)
Balanced(h) ==
  \A i \in 1 .. Len(h) : \A k \in 1 .. Len(h[i].calls) :
    /\ i + k <= Len(h)
    /\ h[i + k].role = "tool" /\ h[i + k].id = h[i].calls[k]

HistoryBalanced ==
  /\ Balanced(history)
  /\ Balanced(messages)
  /\ \A c \in checkpoints : Balanced(c.messages)

(* No request is sent and no tool runs once what this run has cost, failed *)
(* attempts included, exceeds the budget.  It needs the rule that an       *)
(* attempt with output (hence with a cost) is never retried.               *)
RunWithinBudget ==
  pc \in {"stream", "dispatch", "tool", "permission", "pretool", "exec"}
    => spent - spentBefore <= Budget

(* A run that has ended, in any way, has told the consumer: it showed a    *)
(* result or reported an error.  The result is the last message, and a run *)
(* shows at most one.                                                      *)
RunReportsItsEnd ==
  /\ pc = "done" /\ queries > 0
       => errs # <<>> \/ (out # <<>> /\ out[Len(out)].kind = "result")
  /\ \A i \in 1 .. Len(out) : out[i].kind = "result" => i = Len(out)

(* The ids of the records of s that are in T, in order.                    *)
IdsOf(s, T) ==
  LET ids[n \in 0 .. Len(s)] ==
        IF n = 0 THEN <<>>
        ELSE IF s[n] \in T THEN Append(ids[n - 1], s[n].id)
        ELSE ids[n - 1]
  IN  ids[Len(s)]

MessagesOf(kinds) == {m \in MessageType : m.kind \in kinds}
Outcomes          == {e \in EntryType : e.role \in {"user", "tool"}}

ShownIds(kinds) == IdsOf(out, MessagesOf(kinds))
HistoryIds(h)   == IdsOf(h, Outcomes)

(* QueryRun seen as a Conversation.                                        *)
Asking   == {"system", "input", "user", "prompthook", "checkpoint"}
Failed   == {"raise", "budget", "interrupted"}
CallOpen == {"permission", "pretool", "exec", "posttool", "toolresult", "toolerror"}

PhaseAt(label) ==
  CASE label = "done"     -> "idle"
    [] label \in Asking   -> "asking"
    [] label = "save"     -> "answered"
    [] label \in Failed   -> "failed"
    [] OTHER              -> "thinking"

OpenCall == IF pc \in CallOpen THEN CallId(Current) ELSE NoId

Conv == INSTANCE Conversation WITH
  Id <- Ids, NoCall <- NoId,
  phase <- PhaseAt(pc),
  shown <- ShownIds({"user", "tool_result"}),
  open <- OpenCall,
  kept <- HistoryIds(messages),
  base <- HistoryIds(base)

(* The loop keeps the promises of Conversation: calls are announced and    *)
(* concluded one at a time, and what the session remembers grows by        *)
(* exactly what the consumer was shown, when the run is answered or at a   *)
(* checkpoint, and never when the run fails.                               *)
ImplementsConversation == Conv!Spec

(* Every request carries what the consumer was shown, no more and no less: *)
(* the session's messages followed by this run's user messages and tool    *)
(* outcomes in the order shown; and every tool use shown has its outcome.  *)
RequestsCarryWhatWasShown ==
  pc \in {"turn", "stream", "dispatch", "result", "save"} =>
    /\ HistoryIds(history) = HistoryIds(base) \o ShownIds({"user", "tool_result"})
    /\ ShownIds({"tool_use"}) = ShownIds({"tool_result"})

(* A tool runs at most once per call, only after its use was shown, and a  *)
(* result that is not an error is shown only of a call that ran.           *)
ToolsRunOnce ==
  /\ \A i, j \in 1 .. Len(ran) : ran[i] = ran[j] => i = j
  /\ \A i \in 1 .. Len(ran) : \E k \in 1 .. Len(out) :
       out[k].kind = "tool_use" /\ out[k].id = ran[i]
  /\ \A k \in 1 .. Len(out) :
       out[k].kind = "tool_result" /\ ~out[k].isError
         => \E i \in 1 .. Len(ran) : ran[i] = out[k].id

(* "WithMaxBudgetUSD sets a cost limit for the session" (options.go:121):  *)
(* no request is sent once the session has cost more than the budget.      *)
SessionWithinBudget == pc = "stream" => spent <= Budget

(* Every run ends, its channels closed, if the application reads them.     *)
EveryRunEnds == Drained => (pc # "done" ~> pc = "done")

(* A cancelled run ends even if nobody reads out any more (the consumer    *)
(* broke out of ReceiveResponse), as long as errs is read.                 *)
CancelledRunEnds == cancelled ~> pc = "done"
=============================================================================
