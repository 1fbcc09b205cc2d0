--------------------------- MODULE QueryRun_proofs ---------------------------
(***************************************************************************)
(* The type invariant of QueryRun and its safety invariants, proved for    *)
(* every value of its constants: first the types (each group of variables  *)
(* of TypeOK has a lemma with one step per action that assigns one of      *)
(* them), then the budget, the models, the history, the end of a run and   *)
(* the tools, each with the inductive invariant it needs; and at last that *)
(* its requests carry what the consumer was shown, and that it implements  *)
(* Conversation.                                                           *)
(***************************************************************************)
EXTENDS QueryRun, WellFoundedInduction, TLAPS

ToolPoints  == {"tool", "permission", "pretool", "exec", "posttool",
                "toolresult", "toolerror"}
TurnPoints  == ToolPoints \cup StreamPoints \cup {"final", "dispatch", "endturn"}
InputPoints == {"system", "input", "user", "prompthook", "checkpoint"}

(* The type invariant needs to know that a call is being handled while the *)
(* goroutine is inside the loop over the calls, and that the counters are  *)
(* below their bounds where the loops are entered.                         *)
LoopBounds ==
  /\ pc \in ToolPoints => todo # {}
  /\ pc \in TurnPoints => turn < MaxTurns
  /\ pc \in InputPoints => input < Inputs

TypeInv == TypeOK /\ LoopBounds

-----------------------------------------------------------------------------
(* Lemmas about the helpers.                                               *)

(* What ConstantsAssumption says of each constant.                         *)
LEMMA ConstantsAreTyped ==
  /\ MaxQueries \in Nat /\ Inputs \in Nat /\ MaxTurns \in Nat
  /\ OutCap \in Nat /\ ErrCap \in Nat /\ OutCap > 0 /\ ErrCap > 0
  /\ Inputs > 0 /\ MaxTurns > 0
  /\ MaxEvents \in Nat /\ Budget \in Nat
  /\ CallIdx \subseteq Nat /\ Costs \subseteq Nat
<1>1. /\ MaxQueries \in Nat \ {0} /\ Inputs \in Nat \ {0} /\ MaxTurns \in Nat \ {0}
      /\ OutCap \in Nat \ {0} /\ ErrCap \in Nat \ {0}
  BY ConstantsAssumption, Zenon DEF ConstantsAssumption
<1>2. MaxEvents \in Nat /\ Budget \in Nat
  BY ConstantsAssumption, Zenon DEF ConstantsAssumption
<1>3. CallIdx \subseteq Nat /\ Costs \subseteq Nat
  BY ConstantsAssumption, Zenon DEF ConstantsAssumption
<1> QED
  BY <1>1, <1>2, <1>3

(* The next call to handle is one of those still to be handled.            *)
LEMMA CurrentIsTodo ==
  ASSUME ToolTypes, todo # {}
  PROVE  Current \in todo /\ Current \in Nat
<1>1. todo \subseteq Nat
  BY ConstantsAreTyped DEF ToolTypes
<1>2. PICK x \in todo : \A y \in todo : ~ (<<y, x>> \in OpToRel(<, Nat))
  <2> DEFINE R == OpToRel(<, Nat)
  <2>1. IsWellFoundedOn(R, Nat)
    BY NatLessThanWellFounded
  <2>2. \E x \in todo : \A y \in todo : ~ (<<y, x>> \in R)
    <3> HIDE DEF R
    <3> QED BY <1>1, <2>1, WFMin
  <2> QED
    BY <2>2
<1>3. \A y \in todo : ~ (y < x)
  <2> SUFFICES ASSUME NEW y \in todo, y < x PROVE FALSE
    OBVIOUS
  <2>1. <<y, x>> \in Nat \X Nat
    BY <1>1
  <2>2. <<y, x>> \in OpToRel(<, Nat)
    BY <2>1, Zenon DEF OpToRel
  <2> QED
    BY <1>2, <2>2
<1>4. \A y \in todo : x <= y
  BY <1>1, <1>3
<1> QED
  BY <1>1, <1>4 DEF Current, Min

(* User ids and call ids are ids.                                          *)
LEMMA IdsAreTyped ==
  ASSUME ControlTypes, StoreTypes
  PROVE  /\ NoId \in Ids
         /\ UserId \in Ids
         /\ <<>> \in Seq(Ids)
         /\ \A c \in Nat : CallId(c) \in Ids
  BY DEF ControlTypes, StoreTypes, NoId, UserId, CallId, Ids

(* A message sent on out keeps the channel within its capacity.            *)
LEMMA SendKeepsChannelTypes ==
  ASSUME ControlTypes, AttemptTypes, ChannelTypes,
         NEW k \in {"system", "user", "stream", "text", "tool_use", "tool_result", "result"},
         NEW i \in Ids, NEW e \in BOOLEAN,
         SendMessage(Message(k, i, e)), UNCHANGED <<outRead, errs, errRead>>
  PROVE  ChannelTypes'
<1>1. Message(k, i, e) \in MessageType
  BY DEF ControlTypes, AttemptTypes, Models, Message, MessageType
<1> DEFINE m == Message(k, i, e)
<1> HIDE DEF m
<1>2. out' = Append(out, m) /\ Len(out) - outRead < OutCap /\ m \in MessageType
  BY <1>1 DEF SendMessage, m
<1> QED
  BY <1>2, ConstantsAreTyped DEF ChannelTypes

(* An entry made of typed parts is a history entry.                        *)
LEMMA EntryIsTyped ==
  ASSUME NEW r \in {"system", "user", "assistant", "tool"},
         NEW i \in Ids, NEW cs \in Seq(Ids)
  PROVE  Entry(r, i, cs) \in EntryType
  BY DEF Entry, EntryType

-----------------------------------------------------------------------------
(* A new attempt starts with typed attempt variables.                      *)
LEMMA OpenStreamTyped ==
  ASSUME NEW m \in Models, OpenStream(m)
  PROVE  AttemptTypes'
<1>1. (content \in BOOLEAN /\ emitted \in BOOLEAN /\ model \in Models)'
  BY DEF OpenStream
<1>2. (calls \subseteq CallIdx /\ events \in 0 .. MaxEvents)'
  BY ConstantsAreTyped DEF OpenStream
<1> QED
  BY <1>1, <1>2 DEF AttemptTypes

(* Every action keeps the session's messages and the history typed.        *)
LEMMA StoreTypesKept ==
  ASSUME TypeInv, Next
  PROVE  StoreTypes'
<1> USE DEF TypeInv, TypeOK
<1>1. CASE BeginRun
  BY <1>1
    DEF BeginRun, StartingHistory, StoreTypes, storeVars
<1>2. CASE ShowSystem
  <2>1. Entry("system", NoId, <<>>) \in EntryType
    BY IdsAreTyped, EntryIsTyped
  <2> QED
    BY <1>2, <2>1 DEF ShowSystem, StoreTypes, storeVars, callVars
<1>3. CASE TakeInput
  BY <1>3
    DEF TakeInput, StoreTypes, inputVars, storeVars, callVars
<1>4. CASE PromptHook
  <2>1. Entry("user", UserId, <<>>) \in EntryType
    BY IdsAreTyped, EntryIsTyped
  <2>2. history' = history \/ history' = Append(history, Entry("user", UserId, <<>>))
    BY <1>4 DEF PromptHook, HookFails, inputVars
  <2>3. UNCHANGED <<storeVars, base>>
    BY <1>4 DEF PromptHook, HookFails, callVars
  <2> QED
    BY <2>1, <2>2, <2>3 DEF StoreTypes, storeVars
<1>5. CASE Checkpoint
  BY <1>5, IdsAreTyped
    DEF Checkpoint, StoreTypes, inputVars, storeVars, callVars
<1>6. CASE Dispatch
  <2>1. Entry("assistant", NoId, <<>>) \in EntryType
    BY IdsAreTyped, EntryIsTyped
  <2> QED
    BY <1>6, <2>1 DEF Dispatch, StoreTypes, inputVars, storeVars, callVars
<1>7. CASE EndTurn
  <2>1. Entry("assistant", NoId, toolCalls) \in EntryType
    BY IdsAreTyped, EntryIsTyped DEF ToolTypes
  <2> QED
    BY <1>7, <2>1 DEF EndTurn, StoreTypes, ToolTypes, storeVars, callVars
<1>8. CASE ShowErrorResult
  BY <1>8
    DEF ShowErrorResult, RefusalKeeps, StoreTypes, inputVars, callVars
<1>9. CASE SaveSession
  BY <1>9
    DEF SaveSession, StoreTypes, inputVars, callVars
<1>10. CASE
      \/ ShowUser \/ StartTurn \/ StreamEvent \/ ShowPartial \/ ReportBadChunk
      \/ StreamFails \/ StreamEnds \/ ShowFinalText \/ ShowToolUse \/ PermissionHook
      \/ PreToolHook \/ ExecuteTool \/ PostToolHook \/ ShowToolResult \/ ShowResult
      \/ AbortSend \/ SendError \/ Cancel \/ ReceiveMessage \/ ReceiveError
  BY <1>10
    DEF ShowUser, StartTurn, StreamEvent, ShowPartial, ReportBadChunk,
        StreamFails, StreamEnds, ShowFinalText, ShowToolUse, PermissionHook,
        PreToolHook, ExecuteTool, PostToolHook, ShowToolResult, ShowResult,
        AbortSend, SendError, Cancel, ReceiveMessage, ReceiveError, HookFails,
        Raise, StoreTypes, inputVars, storeVars, callVars
<1> QED
  BY <1>1, <1>2, <1>3, <1>4, <1>5, <1>6, <1>7, <1>8, <1>9, <1>10 DEF Next, RunStep

(* Every action keeps what the current attempt has produced typed.         *)
LEMMA AttemptTypesKept ==
  ASSUME TypeInv, Next
  PROVE  AttemptTypes'
<1> USE DEF TypeInv, TypeOK, AttemptTypes, streamVars, Models
<1>1. CASE BeginRun
  BY <1>1
    DEF BeginRun
<1>2. CASE StartTurn
  BY <1>2, OpenStreamTyped DEF StartTurn
<1>3. CASE StreamEvent
  <2>1. (content \in BOOLEAN /\ emitted \in BOOLEAN /\ model \in Models)'
    BY <1>3 DEF StreamEvent
  <2>2. (calls \subseteq CallIdx)'
    BY <1>3 DEF StreamEvent, StreamData
  <2>3. (events \in 0 .. MaxEvents)'
    BY <1>3, ConstantsAreTyped DEF StreamEvent
  <2> QED
    BY <2>1, <2>2, <2>3
<1>4. CASE ShowPartial
  BY <1>4
    DEF ShowPartial
<1>5. CASE StreamFails
  BY <1>5, OpenStreamTyped DEF StreamFails
<1>6. CASE
      \/ ShowSystem \/ TakeInput \/ ShowUser \/ PromptHook \/ Checkpoint
      \/ ReportBadChunk \/ StreamEnds \/ ShowFinalText \/ Dispatch \/ ShowToolUse
      \/ PermissionHook \/ PreToolHook \/ ExecuteTool \/ PostToolHook \/ ShowToolResult
      \/ EndTurn \/ ShowResult \/ ShowErrorResult \/ SaveSession \/ AbortSend
      \/ SendError \/ Cancel \/ ReceiveMessage \/ ReceiveError
  BY <1>6
    DEF ShowSystem, TakeInput, ShowUser, PromptHook, Checkpoint,
        ReportBadChunk, StreamEnds, ShowFinalText, Dispatch, ShowToolUse,
        PermissionHook, PreToolHook, ExecuteTool, PostToolHook,
        ShowToolResult, EndTurn, ShowResult, ShowErrorResult, SaveSession,
        AbortSend, SendError, Cancel, ReceiveMessage, ReceiveError, HookFails,
        Raise
<1> QED
  BY <1>1, <1>2, <1>3, <1>4, <1>5, <1>6 DEF Next, RunStep

(* Every action keeps the costs natural numbers, or Unseen.                *)
LEMMA CostTypesKept ==
  ASSUME TypeInv, Next
  PROVE  CostTypes'
<1> USE DEF TypeInv, TypeOK, CostTypes, costVars, streamVars, callVars, Unseen, Plus, Paid
<1>1. CASE BeginRun
  BY <1>1
    DEF BeginRun
<1>2. CASE StartTurn
  BY <1>2
    DEF StartTurn, OpenStream
<1>3. CASE StreamEvent
  BY <1>3, ConstantsAreTyped
    DEF StreamEvent, StreamData
<1>4. CASE StreamFails
  BY <1>4
    DEF StreamFails, OpenStream
<1>5. CASE StreamEnds
  BY <1>5
    DEF StreamEnds
<1>6. CASE
      \/ ShowSystem \/ TakeInput \/ ShowUser \/ PromptHook \/ Checkpoint
      \/ ShowPartial \/ ReportBadChunk \/ ShowFinalText \/ Dispatch \/ ShowToolUse
      \/ PermissionHook \/ PreToolHook \/ ExecuteTool \/ PostToolHook \/ ShowToolResult
      \/ EndTurn \/ ShowResult \/ ShowErrorResult \/ SaveSession \/ AbortSend
      \/ SendError \/ Cancel \/ ReceiveMessage \/ ReceiveError
  BY <1>6
    DEF ShowSystem, TakeInput, ShowUser, PromptHook, Checkpoint, ShowPartial,
        ReportBadChunk, ShowFinalText, Dispatch, ShowToolUse, PermissionHook,
        PreToolHook, ExecuteTool, PostToolHook, ShowToolResult, EndTurn,
        ShowResult, ShowErrorResult, SaveSession, AbortSend, SendError,
        Cancel, ReceiveMessage, ReceiveError, HookFails, Raise
<1> QED
  BY <1>1, <1>2, <1>3, <1>4, <1>5, <1>6 DEF Next, RunStep

(* Every action keeps the turn's tool calls and their results typed.       *)
LEMMA ToolTypesKept ==
  ASSUME TypeInv, Next
  PROVE  ToolTypes'
<1> USE DEF TypeInv, TypeOK, ToolTypes, toolVars
<1>1. CASE BeginRun
  BY <1>1
    DEF BeginRun
<1>2. CASE Dispatch
  <2>1. CASE calls = {}
    BY <1>2, <2>1 DEF Dispatch
  <2>2. CASE calls # {}
    <3>1. todo' = calls /\ toolCalls' = <<>> /\ results' = <<>> /\ ran' = ran
      BY <1>2, <2>2 DEF Dispatch
    <3> QED
      BY <3>1 DEF AttemptTypes
  <2> QED
    BY <2>1, <2>2
<1>3. CASE ExecuteTool
  BY <1>3, CurrentIsTodo, IdsAreTyped
    DEF ExecuteTool, LoopBounds, ToolPoints
<1>4. CASE ShowToolResult
  <2>1. Current \in todo /\ Current \in Nat
    BY <1>4, CurrentIsTodo DEF ShowToolResult, LoopBounds, ToolPoints
  <2>2. CallId(Current) \in Ids
    BY <2>1, IdsAreTyped
  <2>3. Entry("tool", CallId(Current), <<>>) \in EntryType
    BY <2>2, IdsAreTyped, EntryIsTyped
  <2> QED
    BY <1>4, <2>2, <2>3 DEF ShowToolResult, KeepResult, NextCalls
<1>5. CASE
      \/ ShowSystem \/ TakeInput \/ ShowUser \/ PromptHook \/ Checkpoint
      \/ StartTurn \/ StreamEvent \/ ShowPartial \/ ReportBadChunk \/ StreamFails
      \/ StreamEnds \/ ShowFinalText \/ ShowToolUse \/ PermissionHook \/ PreToolHook
      \/ PostToolHook \/ EndTurn \/ ShowResult \/ ShowErrorResult \/ SaveSession
      \/ AbortSend \/ SendError \/ Cancel \/ ReceiveMessage \/ ReceiveError
  BY <1>5
    DEF ShowSystem, TakeInput, ShowUser, PromptHook, Checkpoint, StartTurn,
        StreamEvent, ShowPartial, ReportBadChunk, StreamFails, StreamEnds,
        ShowFinalText, ShowToolUse, PermissionHook, PreToolHook, PostToolHook,
        EndTurn, ShowResult, ShowErrorResult, SaveSession, AbortSend,
        SendError, Cancel, ReceiveMessage, ReceiveError, HookFails, Raise
<1> QED
  BY <1>1, <1>2, <1>3, <1>4, <1>5 DEF Next, RunStep

(* Every action keeps the channels typed and within their capacities.      *)
LEMMA ChannelTypesKept ==
  ASSUME TypeInv, Next
  PROVE  ChannelTypes'
<1> USE DEF TypeInv, TypeOK
<1>1. CASE BeginRun
  BY <1>1, ConstantsAreTyped
    DEF BeginRun, ChannelTypes
<1>2. CASE ShowSystem
  BY <1>2, IdsAreTyped, SendKeepsChannelTypes
    DEF ShowSystem
<1>3. CASE ShowUser
  BY <1>3, IdsAreTyped, SendKeepsChannelTypes
    DEF ShowUser
<1>4. CASE StreamEvent
  BY <1>4, IdsAreTyped, SendKeepsChannelTypes
    DEF StreamEvent
<1>5. CASE ShowPartial
  BY <1>5, IdsAreTyped, SendKeepsChannelTypes
    DEF ShowPartial
<1>6. CASE ShowFinalText
  BY <1>6, IdsAreTyped, SendKeepsChannelTypes
    DEF ShowFinalText
<1>7. CASE ShowToolUse
  BY <1>7, IdsAreTyped, CurrentIsTodo, SendKeepsChannelTypes
    DEF ShowToolUse, LoopBounds, ToolPoints
<1>8. CASE ShowToolResult
  BY <1>8, IdsAreTyped, CurrentIsTodo, SendKeepsChannelTypes
    DEF ShowToolResult, LoopBounds, ToolPoints
<1>9. CASE ShowResult
  BY <1>9, IdsAreTyped, SendKeepsChannelTypes
    DEF ShowResult
<1>10. CASE ShowErrorResult
  BY <1>10, IdsAreTyped, SendKeepsChannelTypes
    DEF ShowErrorResult
<1>11. CASE ReportBadChunk
  <2>1. "chunk" \in ErrorKinds
    BY DEF ErrorKinds
  <2>2. errs' = Append(errs, "chunk") /\ Len(errs) - errRead < ErrCap
    BY <1>11 DEF ReportBadChunk
  <2>3. UNCHANGED <<out, outRead, errRead>>
    BY <1>11 DEF ReportBadChunk
  <2> QED
    BY <2>1, <2>2, <2>3, ConstantsAreTyped DEF ChannelTypes
<1>12. CASE SendError
  BY <1>12, ConstantsAreTyped
    DEF SendError, ChannelTypes, ControlTypes
<1>13. CASE ReceiveMessage
  BY <1>13, ConstantsAreTyped
    DEF ReceiveMessage, ChannelTypes
<1>14. CASE ReceiveError
  BY <1>14, ConstantsAreTyped
    DEF ReceiveError, ChannelTypes
<1>15. CASE
      \/ TakeInput \/ PromptHook \/ Checkpoint \/ StartTurn \/ StreamFails
      \/ StreamEnds \/ Dispatch \/ PermissionHook \/ PreToolHook \/ ExecuteTool
      \/ PostToolHook \/ EndTurn \/ SaveSession \/ AbortSend \/ Cancel
  BY <1>15
    DEF TakeInput, PromptHook, Checkpoint, StartTurn, StreamFails, StreamEnds,
        Dispatch, PermissionHook, PreToolHook, ExecuteTool, PostToolHook,
        EndTurn, SaveSession, AbortSend, Cancel, ChannelTypes, HookFails,
        Raise, channelVars
<1> QED
  BY <1>1, <1>2, <1>3, <1>4, <1>5, <1>6, <1>7, <1>8, <1>9, <1>10, <1>11,
        <1>12, <1>13, <1>14, <1>15 DEF Next, RunStep

(* Every action keeps the control variables within their bounds.           *)
LEMMA ControlTypesKept ==
  ASSUME TypeInv, Next
  PROVE  ControlTypes'
<1> USE DEF TypeInv, TypeOK, ControlTypes, Raise, ErrorKinds, inputVars, callVars,
            Labels, SendPoints, StreamPoints
<1>1. CASE BeginRun
  <2>1. (cancelled \in BOOLEAN)'
    BY <1>1 DEF BeginRun
  <2>2. (queries \in 0 .. MaxQueries /\ input \in 0 .. Inputs /\ turn \in 0 .. MaxTurns)'
    BY <1>1, ConstantsAreTyped DEF BeginRun
  <2>3. (pc \in Labels /\ pending \in ErrorKinds)'
    BY <1>1 DEF BeginRun
  <2> QED
    BY <2>1, <2>2, <2>3
<1>2. CASE ShowSystem
  BY <1>2 DEF ShowSystem
<1>3. CASE TakeInput
  BY <1>3 DEF TakeInput
<1>4. CASE ShowUser
  BY <1>4 DEF ShowUser
<1>5. CASE PromptHook
  BY <1>5, ConstantsAreTyped DEF PromptHook, AfterInput, HookFails, LoopBounds, InputPoints
<1>6. CASE Checkpoint
  BY <1>6, ConstantsAreTyped DEF Checkpoint, AfterInput, LoopBounds, InputPoints
<1>7. CASE StartTurn
  BY <1>7 DEF StartTurn, MoreTurns, OpenStream
<1>8. CASE StreamEvent
  BY <1>8 DEF StreamEvent
<1>9. CASE ShowPartial
  BY <1>9 DEF ShowPartial
<1>10. CASE ReportBadChunk
  BY <1>10 DEF ReportBadChunk
<1>11. CASE StreamFails
  BY <1>11 DEF StreamFails, OpenStream
<1>12. CASE StreamEnds
  BY <1>12 DEF StreamEnds
<1>13. CASE ShowFinalText
  BY <1>13 DEF ShowFinalText
<1>14. CASE Dispatch
  BY <1>14 DEF Dispatch
<1>15. CASE ShowToolUse
  BY <1>15 DEF ShowToolUse
<1>16. CASE PermissionHook
  BY <1>16 DEF PermissionHook, HookFails
<1>17. CASE PreToolHook
  BY <1>17 DEF PreToolHook, HookFails
<1>18. CASE ExecuteTool
  BY <1>18 DEF ExecuteTool
<1>19. CASE PostToolHook
  BY <1>19 DEF PostToolHook, HookFails
<1>20. CASE ShowToolResult
  BY <1>20 DEF ShowToolResult
<1>21. CASE EndTurn
  BY <1>21, ConstantsAreTyped DEF EndTurn, LoopBounds, TurnPoints, ToolPoints
<1>22. CASE ShowResult
  BY <1>22 DEF ShowResult
<1>23. CASE ShowErrorResult
  BY <1>23 DEF ShowErrorResult, RefusalKeeps
<1>24. CASE SaveSession
  BY <1>24 DEF SaveSession
<1>25. CASE AbortSend
  BY <1>25 DEF AbortSend, AbortReports
<1>26. CASE SendError
  BY <1>26 DEF SendError
<1>27. CASE Cancel
  BY <1>27 DEF Cancel
<1>28. CASE ReceiveMessage
  BY <1>28 DEF ReceiveMessage
<1>29. CASE ReceiveError
  BY <1>29 DEF ReceiveError
<1> QED
  BY <1>1, <1>2, <1>3, <1>4, <1>5, <1>6, <1>7, <1>8, <1>9, <1>10, <1>11,
     <1>12, <1>13, <1>14, <1>15, <1>16, <1>17, <1>18, <1>19, <1>20,
     <1>21, <1>22, <1>23, <1>24, <1>25, <1>26, <1>27, <1>28, <1>29
  DEF Next, RunStep

(* Every action enters a loop only below the loop's bound.                 *)
LEMMA LoopBoundsKept ==
  ASSUME TypeInv, Next
  PROVE  LoopBounds'
<1> USE DEF TypeInv, TypeOK, ControlTypes, LoopBounds, Raise, inputVars, toolVars,
            InputPoints, TurnPoints, ToolPoints, StreamPoints
<1>1. CASE BeginRun
  BY <1>1, ConstantsAreTyped DEF BeginRun, StartingHistory
<1>2. CASE ShowSystem
  BY <1>2 DEF ShowSystem
<1>3. CASE TakeInput
  BY <1>3 DEF TakeInput
<1>4. CASE ShowUser
  BY <1>4 DEF ShowUser
<1>5. CASE PromptHook
  BY <1>5, ConstantsAreTyped DEF PromptHook, AfterInput, HookFails
<1>6. CASE Checkpoint
  BY <1>6, ConstantsAreTyped DEF Checkpoint, AfterInput
<1>7. CASE StartTurn
  BY <1>7 DEF StartTurn, MoreTurns, OpenStream
<1>8. CASE StreamEvent
  BY <1>8 DEF StreamEvent
<1>9. CASE ShowPartial
  BY <1>9 DEF ShowPartial
<1>10. CASE ReportBadChunk
  BY <1>10 DEF ReportBadChunk
<1>11. CASE StreamFails
  BY <1>11 DEF StreamFails, OpenStream
<1>12. CASE StreamEnds
  BY <1>12 DEF StreamEnds
<1>13. CASE ShowFinalText
  BY <1>13 DEF ShowFinalText
<1>14. CASE Dispatch
  BY <1>14 DEF Dispatch
<1>15. CASE ShowToolUse
  BY <1>15 DEF ShowToolUse
<1>16. CASE PermissionHook
  BY <1>16 DEF PermissionHook, HookFails
<1>17. CASE PreToolHook
  BY <1>17 DEF PreToolHook, HookFails
<1>18. CASE ExecuteTool
  BY <1>18 DEF ExecuteTool
<1>19. CASE PostToolHook
  BY <1>19 DEF PostToolHook, HookFails
<1>20. CASE ShowToolResult
  BY <1>20 DEF ShowToolResult, NextCalls
<1>21. CASE EndTurn
  BY <1>21, ConstantsAreTyped DEF EndTurn
<1>22. CASE ShowResult
  BY <1>22 DEF ShowResult
<1>23. CASE ShowErrorResult
  BY <1>23 DEF ShowErrorResult, RefusalKeeps, ErrorPoints
<1>24. CASE SaveSession
  BY <1>24 DEF SaveSession
<1>25. CASE AbortSend
  BY <1>25 DEF AbortSend, AbortReports, MayAbort, SendPoints
<1>26. CASE SendError
  BY <1>26 DEF SendError
<1>27. CASE Cancel
  BY <1>27 DEF Cancel
<1>28. CASE ReceiveMessage
  BY <1>28 DEF ReceiveMessage
<1>29. CASE ReceiveError
  BY <1>29 DEF ReceiveError
<1> QED
  BY <1>1, <1>2, <1>3, <1>4, <1>5, <1>6, <1>7, <1>8, <1>9, <1>10, <1>11,
     <1>12, <1>13, <1>14, <1>15, <1>16, <1>17, <1>18, <1>19, <1>20,
     <1>21, <1>22, <1>23, <1>24, <1>25, <1>26, <1>27, <1>28, <1>29
  DEF Next, RunStep

-----------------------------------------------------------------------------
(* TypeInv is inductive.                                                   *)
LEMMA TypesAreInvariant == Spec => []TypeInv
<1>1. Init => TypeInv
  <2> SUFFICES ASSUME Init PROVE TypeInv
    OBVIOUS
  <2> USE ConstantsAreTyped DEF Init
  <2>1. ControlTypes
    <3>1. cancelled \in BOOLEAN /\ pc \in Labels /\ pending \in ErrorKinds
      BY DEF Labels, ErrorKinds
    <3>2. queries \in 0 .. MaxQueries /\ input \in 0 .. Inputs /\ turn \in 0 .. MaxTurns
      OBVIOUS
    <3> QED
      BY <3>1, <3>2 DEF ControlTypes
  <2>2. StoreTypes
    BY DEF StoreTypes
  <2>3. AttemptTypes
    <3>1. model \in Models /\ content \in BOOLEAN /\ emitted \in BOOLEAN
      BY DEF Models
    <3>2. calls \subseteq CallIdx /\ events \in 0 .. MaxEvents
      OBVIOUS
    <3> QED
      BY <3>1, <3>2 DEF AttemptTypes
  <2>4. ToolTypes /\ CostTypes
    BY DEF ToolTypes, CostTypes, Unseen
  <2>5. ChannelTypes
    BY DEF ChannelTypes
  <2>6. LoopBounds
    BY DEF LoopBounds, ToolPoints, TurnPoints, InputPoints, StreamPoints
  <2> QED
    BY <2>1, <2>2, <2>3, <2>4, <2>5, <2>6 DEF TypeInv, TypeOK
<1>2. TypeInv /\ [Next]_vars => TypeInv'
  <2>1. TypeInv /\ Next => TypeInv'
    BY ControlTypesKept, StoreTypesKept, AttemptTypesKept, CostTypesKept,
       ToolTypesKept, ChannelTypesKept, LoopBoundsKept DEF TypeInv, TypeOK
  <2>2. TypeInv /\ UNCHANGED vars => TypeInv'
    BY DEF TypeInv, TypeOK, LoopBounds, ControlTypes, StoreTypes, AttemptTypes,
       CostTypes, ToolTypes, ChannelTypes, vars, inputVars, streamVars, costVars,
       toolVars, channelVars, storeVars, callVars
  <2> QED
    BY <2>1, <2>2
<1> QED
  BY <1>1, <1>2, PTL DEF Spec

(* The variables keep their types, and no channel ever holds more than its *)
(* capacity (query_runner.go:275-276).                                     *)
THEOREM TypeCorrect == Spec => []TypeOK
<1>1. TypeInv => TypeOK
  BY DEF TypeInv
<1> QED
  BY <1>1, TypesAreInvariant, PTL

-----------------------------------------------------------------------------
(* The budget.  Between attempts the finished turns account for everything *)
(* the run has cost; an attempt that has reported a cost has shown output, *)
(* so its failure ends the run instead of starting another attempt.        *)

Settled == {"raise", "done", "budget", "interrupted"}

CostInv ==
  /\ pc \notin Settled => spent - spentBefore = totalCost /\ totalCost <= Budget
  /\ pc \in StreamPoints => turnCost = Unseen /\ (attemptCost = Unseen \/ emitted)

\* CostInv is inductive, relative to the types.
LEMMA CostInvKept ==
  ASSUME TypeInv, CostInv, [Next]_vars
  PROVE  CostInv'
<1> USE ConstantsAreTyped
    DEF CostInv, Settled, StreamPoints, TypeInv, TypeOK, CostTypes,
        Raise, costVars, streamVars, callVars
<1>1. CASE BeginRun
  BY <1>1 DEF BeginRun
<1>2. CASE StartTurn
  BY <1>2 DEF StartTurn, OpenStream
<1>3. CASE StreamEvent
  BY <1>3 DEF StreamEvent
<1>4. CASE ShowPartial
  BY <1>4 DEF ShowPartial
<1>5. CASE ReportBadChunk
  BY <1>5 DEF ReportBadChunk
<1>6. CASE StreamFails
  BY <1>6 DEF StreamFails, OpenStream, MayFallBack, Plus, Paid, Unseen
<1>7. CASE StreamEnds
  BY <1>7 DEF StreamEnds, OverBudget, Plus, Paid, Unseen
<1>8. CASE
      \/ ShowSystem \/ TakeInput \/ ShowUser \/ PromptHook \/ Checkpoint
      \/ ShowFinalText \/ Dispatch \/ ShowToolUse
      \/ PermissionHook \/ PreToolHook \/ ExecuteTool \/ PostToolHook
      \/ ShowToolResult \/ EndTurn \/ ShowResult \/ SaveSession
  BY <1>8
    DEF ShowSystem, TakeInput, ShowUser, PromptHook, Checkpoint,
        ShowFinalText, Dispatch, ShowToolUse, PermissionHook, PreToolHook,
        ExecuteTool, PostToolHook, ShowToolResult, EndTurn, ShowResult,
        SaveSession, HookFails, AfterInput
<1>9. CASE ShowErrorResult \/ AbortSend \/ SendError
  BY <1>9 DEF ShowErrorResult, AbortSend, AbortReports, SendError
<1>10. CASE Cancel \/ ReceiveMessage \/ ReceiveError
  BY <1>10 DEF Cancel, ReceiveMessage, ReceiveError
<1>11. CASE UNCHANGED vars
  BY <1>11 DEF vars
<1> QED
  BY <1>1, <1>2, <1>3, <1>4, <1>5, <1>6, <1>7, <1>8, <1>9, <1>10, <1>11
  DEF Next, RunStep

(* A run sends no request and starts no tool once it has cost more than    *)
(* the budget, failed attempts included (query_runner.go:484-528).         *)
THEOREM BudgetIsKept == Spec => []RunWithinBudget
<1>1. Init => CostInv
  BY ConstantsAreTyped DEF Init, CostInv, Settled, StreamPoints
<1>2. TypeInv /\ CostInv /\ [Next]_vars => CostInv'
  BY CostInvKept
<1>3. CostInv => RunWithinBudget
  BY DEF CostInv, RunWithinBudget, Settled
<1> QED
  BY <1>1, <1>2, <1>3, TypesAreInvariant, PTL DEF Spec

-----------------------------------------------------------------------------
(* The models.  What out holds is of finished turns or of the current one; *)
(* of the current turn it holds nothing until the attempt has emitted, and *)
(* what it then holds is of the current attempt's model.                   *)

TurnKinds == {"stream", "text", "tool_use", "tool_result"}
NothingOfTurn(i) == out[i].kind \in TurnKinds => out[i].turn # turn

ModelInv ==
  /\ \A i \in 1 .. Len(out) : out[i].kind \in TurnKinds => out[i].turn <= turn
  /\ \A i \in 1 .. Len(out) :
       out[i].kind \in TurnKinds /\ out[i].turn = turn => out[i].model = model
  /\ pc \in InputPoints \cup {"turn"} \/ (pc \in StreamPoints /\ ~emitted)
       => \A i \in 1 .. Len(out) : NothingOfTurn(i)
  /\ OneModelPerTurn

\* A message of the current attempt can be added to out.
LEMMA SendKeepsModelInv ==
  ASSUME TypeInv, ModelInv, NEW k, NEW i, NEW e,
         SendMessage(Message(k, i, e)), UNCHANGED <<turn, model>>,
         \/ k \notin TurnKinds /\ pc' \notin StreamPoints
         \/ pc' \notin InputPoints \cup {"turn"} /\ (pc' \in StreamPoints => emitted'),
         pc' \in InputPoints \cup {"turn"} => pc \in InputPoints \cup {"turn"}
  PROVE  ModelInv'
<1> DEFINE m == Message(k, i, e)
<1>1. m.kind = k /\ m.turn = turn /\ m.model = model
  BY DEF Message
<1>2. turn \in Nat /\ out \in Seq(MessageType) /\ Len(out) \in Nat
  BY ConstantsAreTyped DEF TypeInv, TypeOK, ControlTypes, ChannelTypes
<1>3. out' = Append(out, m)
  BY DEF SendMessage
<1> HIDE DEF m
<1>4. /\ Len(out') = Len(out) + 1
      /\ out'[Len(out) + 1] = m
      /\ \A j \in 1 .. Len(out) : out'[j] = out[j]
  BY <1>2, <1>3
<1>5. \A j \in 1 .. Len(out') : j \in 1 .. Len(out) \/ j = Len(out) + 1
  BY <1>2, <1>4
<1>6. (\A j \in 1 .. Len(out) : out[j].kind \in TurnKinds => out[j].turn <= turn)'
  BY <1>1, <1>2, <1>4, <1>5 DEF ModelInv
<1>7. (\A j \in 1 .. Len(out) :
         out[j].kind \in TurnKinds /\ out[j].turn = turn => out[j].model = model)'
  BY <1>1, <1>4, <1>5 DEF ModelInv
<1>8. (pc \in InputPoints \cup {"turn"} \/ (pc \in StreamPoints /\ ~emitted)
         => \A j \in 1 .. Len(out) : NothingOfTurn(j))'
  BY <1>1, <1>4, <1>5 DEF ModelInv, NothingOfTurn
<1>9. OneModelPerTurn'
  <2> SUFFICES ASSUME NEW j \in 1 .. Len(out'), NEW l \in 1 .. Len(out'),
                      out'[j].kind \in TurnKinds, out'[l].kind \in TurnKinds,
                      out'[j].turn = out'[l].turn
               PROVE  out'[j].model = out'[l].model
    BY DEF OneModelPerTurn, TurnKinds
  <2>1. CASE j \in 1 .. Len(out) /\ l \in 1 .. Len(out)
    BY <2>1, <1>4 DEF ModelInv, OneModelPerTurn, TurnKinds
  <2>2. CASE j = Len(out) + 1 \/ l = Len(out) + 1
    BY <2>2, <1>1, <1>4, <1>5, <1>7
  <2> QED
    BY <2>1, <2>2, <1>5
<1> QED
  BY <1>6, <1>7, <1>8, <1>9 DEF ModelInv

\* ModelInv is inductive, relative to the types.
LEMMA ModelInvKept ==
  ASSUME TypeInv, ModelInv, [Next]_vars
  PROVE  ModelInv'
<1> USE DEF StreamPoints, InputPoints, Raise, streamVars, inputVars, channelVars
<1>1. CASE BeginRun
  BY <1>1 DEF BeginRun, ModelInv, NothingOfTurn, OneModelPerTurn
<1>2. CASE ShowSystem \/ ShowUser
  BY <1>2, SendKeepsModelInv DEF ShowSystem, ShowUser, TurnKinds
<1>3. CASE StartTurn
  BY <1>3 DEF StartTurn, OpenStream, ModelInv, NothingOfTurn, OneModelPerTurn
<1>4. CASE StreamEvent
  BY <1>4, SendKeepsModelInv DEF StreamEvent
<1>5. CASE ShowPartial
  BY <1>5, SendKeepsModelInv DEF ShowPartial
<1>6. CASE StreamFails
  BY <1>6
  DEF StreamFails, MayFallBack, OpenStream, ModelInv, NothingOfTurn, OneModelPerTurn
<1>7. CASE ShowFinalText \/ ShowToolUse \/ ShowResult
  BY <1>7, SendKeepsModelInv DEF ShowFinalText, ShowToolUse, ShowResult
<1>8. CASE ShowToolResult
  BY <1>8, SendKeepsModelInv DEF ShowToolResult
<1>9. CASE ShowErrorResult
  BY <1>9, SendKeepsModelInv DEF ShowErrorResult
<1>10. CASE EndTurn
  <2>1. turn \in Nat /\ turn' = turn + 1 /\ UNCHANGED <<out, model>> /\ pc' = "turn"
    BY <1>10, ConstantsAreTyped DEF EndTurn, TypeInv, TypeOK, ControlTypes
  <2>2. \A i \in 1 .. Len(out) :
           out[i].kind \in TurnKinds => out[i].turn \in Nat /\ out[i].turn <= turn
    <3>1. \A i \in 1 .. Len(out) : out[i] \in MessageType
      BY DEF TypeInv, TypeOK, ChannelTypes
    <3>2. \A m \in MessageType : m.turn \in Nat
      BY DEF MessageType
    <3> QED
      BY <3>1, <3>2 DEF ModelInv
  <2>3. \A i \in 1 .. Len(out) :
           out[i].kind \in TurnKinds => out[i].turn <= turn' /\ out[i].turn # turn'
    BY <2>1, <2>2
  <2> QED
    BY <2>1, <2>3 DEF ModelInv, NothingOfTurn, OneModelPerTurn
<1>11. CASE TakeInput \/ PromptHook \/ Checkpoint
  BY <1>11 DEF TakeInput, PromptHook, Checkpoint, AfterInput, HookFails,
     ModelInv, NothingOfTurn, OneModelPerTurn
<1>12. CASE
      \/ ReportBadChunk \/ StreamEnds \/ Dispatch \/ PermissionHook \/ PreToolHook
      \/ ExecuteTool \/ PostToolHook \/ SaveSession \/ AbortSend \/ SendError
      \/ Cancel \/ ReceiveMessage \/ ReceiveError
  BY <1>12
  DEF ReportBadChunk, StreamEnds, Dispatch, PermissionHook, PreToolHook,
      ExecuteTool, PostToolHook, SaveSession, AbortSend, AbortReports, SendError,
      Cancel, ReceiveMessage, ReceiveError, HookFails,
      ModelInv, NothingOfTurn, OneModelPerTurn
<1>13. CASE UNCHANGED vars
  BY <1>13 DEF vars, ModelInv, NothingOfTurn, OneModelPerTurn
<1> QED
  BY <1>1, <1>2, <1>3, <1>4, <1>5, <1>6, <1>7, <1>8, <1>9, <1>10, <1>11, <1>12, <1>13
  DEF Next, RunStep

(* What one turn shows comes from one model, whatever fails and whenever   *)
(* (query_runner.go:493-504).                                              *)
THEOREM TurnsAreNotMixed == Spec => []OneModelPerTurn
<1>1. Init => ModelInv
  BY DEF Init, ModelInv, NothingOfTurn, OneModelPerTurn
<1>2. TypeInv /\ ModelInv /\ [Next]_vars => ModelInv'
  BY ModelInvKept
<1>3. ModelInv => OneModelPerTurn
  BY DEF ModelInv
<1> QED
  BY <1>1, <1>2, <1>3, TypesAreInvariant, PTL DEF Spec

-----------------------------------------------------------------------------
(* The conversation.  While a turn's calls are handled, results holds the  *)
(* tool message of each call in toolCalls, at the same position.           *)

ResultsMatch ==
  /\ Len(results) = Len(toolCalls)
  /\ \A k \in 1 .. Len(results) :
       results[k].role = "tool" /\ results[k].id = toolCalls[k] /\ results[k].calls = <<>>

BalanceInv ==
  /\ HistoryBalanced
  /\ pc \in ToolPoints \cup {"endturn"} => ResultsMatch

\* An entry without tool calls can follow a balanced conversation.
LEMMA AppendKeepsBalance ==
  ASSUME NEW h \in Seq(EntryType), Balanced(h),
         NEW e \in EntryType, e.calls = <<>>
  PROVE  Balanced(Append(h, e))
<1> SUFFICES ASSUME NEW i \in 1 .. Len(Append(h, e)),
                    NEW k \in 1 .. Len(Append(h, e)[i].calls)
             PROVE  /\ i + k <= Len(Append(h, e))
                    /\ Append(h, e)[i + k].role = "tool"
                    /\ Append(h, e)[i + k].id = Append(h, e)[i].calls[k]
  BY DEF Balanced
<1>1. i \in 1 .. Len(h)
  <2> SUFFICES ASSUME i = Len(h) + 1 PROVE FALSE
    OBVIOUS
  <2>1. Append(h, e)[i] = e
    OBVIOUS
  <2> QED
    BY <2>1
<1>2. Append(h, e)[i] = h[i]
  BY <1>1
<1>3. i + k <= Len(h) /\ h[i + k].role = "tool" /\ h[i + k].id = h[i].calls[k]
  BY <1>1, <1>2 DEF Balanced
<1>4. i + k \in 1 .. Len(h)
  <2>1. Len(h[i].calls) \in Nat
    <3>1. h[i] \in EntryType
      BY <1>1
    <3>2. h[i].calls \in Seq(Ids)
      BY <3>1 DEF EntryType
    <3> QED
      BY <3>2
  <2>2. k \in 1 .. Len(h[i].calls)
    BY <1>2
  <2> QED
    BY <1>1, <1>3, <2>1, <2>2
<1>5. Append(h, e)[i + k] = h[i + k]
  BY <1>4
<1> QED
  BY <1>2, <1>3, <1>5

\* A turn's assistant entry and the matching results can follow it as well.
LEMMA TurnKeepsBalance ==
  ASSUME NEW h \in Seq(EntryType), Balanced(h),
         StoreTypes, ControlTypes, ToolTypes, ResultsMatch
  PROVE  Balanced(Append(h, Entry("assistant", NoId, toolCalls)) \o results)
<1> DEFINE a == Entry("assistant", NoId, toolCalls)
           g == Append(h, a) \o results
<1>1. a \in EntryType /\ a.calls = toolCalls
  <2>1. a \in EntryType
    BY IdsAreTyped, EntryIsTyped DEF ToolTypes
  <2> QED
    BY <2>1 DEF Entry
<1>2. results \in Seq(EntryType) /\ toolCalls \in Seq(Ids)
  BY DEF ToolTypes
<1> HIDE DEF a
<1>3. /\ Len(g) = Len(h) + 1 + Len(results)
      /\ \A j \in 1 .. Len(h) : g[j] = h[j]
      /\ g[Len(h) + 1] = a
      /\ \A j \in 1 .. Len(results) : g[Len(h) + 1 + j] = results[j]
  BY <1>1, <1>2
<1> HIDE DEF g
<1> SUFFICES ASSUME NEW i \in 1 .. Len(g), NEW k \in 1 .. Len(g[i].calls)
             PROVE  /\ i + k <= Len(g)
                    /\ g[i + k].role = "tool" /\ g[i + k].id = g[i].calls[k]
  BY DEF Balanced, g, a
<1>4. CASE i \in 1 .. Len(h)
  <2>1. h[i].calls \in Seq(Ids)
    <3>1. h[i] \in EntryType
      BY <1>4
    <3> QED
      BY <3>1 DEF EntryType
  <2>2. k \in 1 .. Len(h[i].calls) /\ Len(h[i].calls) \in Nat
    BY <1>3, <1>4, <2>1
  <2>3. i + k <= Len(h) /\ h[i + k].role = "tool" /\ h[i + k].id = h[i].calls[k]
    BY <1>4, <2>2 DEF Balanced
  <2>4. i + k \in 1 .. Len(h)
    BY <1>4, <2>2, <2>3
  <2> QED
    BY <1>2, <1>3, <1>4, <2>3, <2>4
<1>5. CASE i = Len(h) + 1
  <2>1. k \in 1 .. Len(results) /\ g[i].calls = toolCalls
    BY <1>1, <1>3, <1>5 DEF ResultsMatch
  <2>2. g[i + k] = results[k] /\ i + k <= Len(g)
    BY <1>2, <1>3, <1>5, <2>1
  <2> QED
    BY <2>1, <2>2 DEF ResultsMatch
<1>6. CASE i \in Len(h) + 2 .. Len(g)
  <2> DEFINE j == i - (Len(h) + 1)
  <2>1. j \in 1 .. Len(results) /\ i = Len(h) + 1 + j
    BY <1>2, <1>3, <1>6
  <2>2. g[i] = results[j]
    BY <1>3, <2>1
  <2>3. g[i].calls = <<>>
    BY <2>1, <2>2 DEF ResultsMatch
  <2> QED
    BY <2>3
<1>7. i \in 1 .. Len(h) \/ i = Len(h) + 1 \/ i \in Len(h) + 2 .. Len(g)
  <2>1. i \in 1 .. Len(g) /\ Len(g) = Len(h) + 1 + Len(results)
    BY <1>3
  <2>2. Len(h) \in Nat /\ Len(results) \in Nat
    BY <1>2
  <2> QED
    BY <2>1, <2>2
<1> QED
  BY <1>4, <1>5, <1>6, <1>7

\* The local conversation stays balanced.
LEMMA HistoryStaysBalanced ==
  ASSUME TypeInv, BalanceInv, Next
  PROVE  Balanced(history')
<1> USE DEF TypeInv, TypeOK, BalanceInv, HistoryBalanced
<1>1. history \in Seq(EntryType) /\ StoreTypes /\ ControlTypes /\ ToolTypes
  BY DEF StoreTypes
<1>2. CASE BeginRun
  BY <1>2 DEF BeginRun, StartingHistory
<1>3. CASE ShowSystem
  <2>1. Entry("system", NoId, <<>>) \in EntryType /\ Entry("system", NoId, <<>>).calls = <<>>
    BY <1>1, IdsAreTyped, EntryIsTyped DEF Entry
  <2> QED
    BY <1>1, <1>3, <2>1, AppendKeepsBalance DEF ShowSystem
<1>4. CASE PromptHook
  <2>1. Entry("user", UserId, <<>>) \in EntryType /\ Entry("user", UserId, <<>>).calls = <<>>
    BY <1>1, IdsAreTyped, EntryIsTyped DEF Entry
  <2>2. history' = history \/ history' = Append(history, Entry("user", UserId, <<>>))
    BY <1>4 DEF PromptHook, HookFails, inputVars
  <2> QED
    BY <1>1, <2>1, <2>2, AppendKeepsBalance
<1>5. CASE Dispatch
  <2>1. Entry("assistant", NoId, <<>>) \in EntryType
        /\ Entry("assistant", NoId, <<>>).calls = <<>>
    BY <1>1, IdsAreTyped, EntryIsTyped DEF Entry
  <2>2. history' = history \/ history' = Append(history, Entry("assistant", NoId, <<>>))
    BY <1>5 DEF Dispatch
  <2> QED
    BY <1>1, <2>1, <2>2, AppendKeepsBalance
<1>6. CASE EndTurn
  <2>1. ResultsMatch
    BY <1>6 DEF EndTurn
  <2> QED
    BY <1>1, <1>6, <2>1, TurnKeepsBalance DEF EndTurn
<1>7. CASE
      \/ TakeInput \/ ShowUser \/ Checkpoint \/ StartTurn \/ StreamEvent
      \/ ShowPartial \/ ReportBadChunk \/ StreamFails \/ StreamEnds
      \/ ShowFinalText \/ ShowToolUse \/ PermissionHook \/ PreToolHook
      \/ ExecuteTool \/ PostToolHook \/ ShowToolResult \/ ShowResult
      \/ ShowErrorResult \/ SaveSession \/ AbortSend \/ SendError
      \/ Cancel \/ ReceiveMessage \/ ReceiveError
  <2>1. history' = history
    BY <1>7
    DEF TakeInput, ShowUser, Checkpoint, StartTurn, StreamEvent, ShowPartial,
        ReportBadChunk, StreamFails, StreamEnds, ShowFinalText, ShowToolUse,
        PermissionHook, PreToolHook, ExecuteTool, PostToolHook, ShowToolResult,
        ShowResult, ShowErrorResult, SaveSession, AbortSend, SendError,
        Cancel, ReceiveMessage, ReceiveError, HookFails, inputVars
  <2> QED
    BY <2>1
<1> QED
  BY <1>2, <1>3, <1>4, <1>5, <1>6, <1>7 DEF Next, RunStep

\* What is stored and checkpointed is the local conversation, or is kept.
LEMMA StoreStaysBalanced ==
  ASSUME BalanceInv, Next
  PROVE  Balanced(messages') /\ \A c \in checkpoints' : Balanced(c.messages)
<1>1. CASE Checkpoint \/ SaveSession
  <2>1. messages' = history
    BY <1>1 DEF Checkpoint, SaveSession
  <2>2. \A c \in checkpoints' : c \in checkpoints \/ c.messages = history
    BY <1>1 DEF Checkpoint, SaveSession
  <2> QED
    BY <2>1, <2>2 DEF BalanceInv, HistoryBalanced
<1>2. CASE UNCHANGED <<messages, checkpoints>>
  BY <1>2 DEF BalanceInv, HistoryBalanced
<1>3. Next => \/ Checkpoint \/ SaveSession
              \/ UNCHANGED <<messages, checkpoints>>
  BY DEF Next, RunStep, BeginRun, ShowSystem, TakeInput, ShowUser, PromptHook,
     StartTurn, StreamEvent, ShowPartial, ReportBadChunk, StreamFails, StreamEnds,
     ShowFinalText, Dispatch, ShowToolUse, PermissionHook, PreToolHook, ExecuteTool,
     PostToolHook, ShowToolResult, EndTurn, ShowResult, ShowErrorResult,
     RefusalKeeps, AbortSend, SendError, Cancel, ReceiveMessage, ReceiveError,
     HookFails, storeVars
<1> QED
  BY <1>1, <1>2, <1>3

\* The results match the calls handled so far.
LEMMA ResultsStayMatched ==
  ASSUME TypeInv, BalanceInv, Next, pc' \in ToolPoints \cup {"endturn"}
  PROVE  ResultsMatch'
<1> USE DEF TypeInv, TypeOK, ToolPoints, Raise
<1>1. CASE Dispatch
  <2>1. results' = <<>> /\ toolCalls' = <<>>
    BY <1>1 DEF Dispatch
  <2> QED
    BY <2>1 DEF ResultsMatch
<1>2. CASE ShowToolResult
  <2>1. ResultsMatch /\ results \in Seq(EntryType) /\ toolCalls \in Seq(Ids)
    BY <1>2 DEF ShowToolResult, BalanceInv, ToolTypes
  <2>2. Current \in Nat
    BY <1>2, CurrentIsTodo DEF ShowToolResult, LoopBounds
  <2> DEFINE id == CallId(Current)
             e  == Entry("tool", id, <<>>)
  <2>3. id \in Ids /\ e \in EntryType
    <3>1. id \in Ids
      BY <2>2, IdsAreTyped
    <3> QED
      BY <3>1, IdsAreTyped, EntryIsTyped
  <2>4. e.role = "tool" /\ e.id = id /\ e.calls = <<>>
    BY DEF Entry
  <2>5. results' = Append(results, e) /\ toolCalls' = Append(toolCalls, id)
    BY <1>2 DEF ShowToolResult, KeepResult
  <2> HIDE DEF e, id
  <2> QED
    BY <2>1, <2>3, <2>4, <2>5 DEF ResultsMatch
<1>3. CASE
      \/ ShowToolUse \/ PermissionHook \/ PreToolHook \/ ExecuteTool \/ PostToolHook
      \/ Cancel \/ ReceiveMessage \/ ReceiveError
  BY <1>3
  DEF ShowToolUse, PermissionHook, PreToolHook, ExecuteTool, PostToolHook,
      Cancel, ReceiveMessage, ReceiveError, HookFails, toolVars, BalanceInv, ResultsMatch
<1>4. CASE
      \/ BeginRun \/ ShowSystem \/ TakeInput \/ ShowUser \/ PromptHook \/ Checkpoint
      \/ StartTurn \/ StreamEvent \/ ShowPartial \/ ReportBadChunk \/ StreamFails
      \/ StreamEnds \/ ShowFinalText \/ EndTurn \/ ShowResult \/ ShowErrorResult
      \/ SaveSession \/ AbortSend \/ SendError
  BY <1>4
  DEF BeginRun, ShowSystem, TakeInput, ShowUser, PromptHook, Checkpoint, AfterInput,
      StartTurn, OpenStream, StreamEvent, ShowPartial, ReportBadChunk, StreamFails,
      StreamEnds, ShowFinalText, EndTurn, ShowResult, ShowErrorResult, SaveSession,
      AbortSend, AbortReports, SendError, HookFails
<1> QED
  BY <1>1, <1>2, <1>3, <1>4 DEF Next, RunStep

(* In every conversation that is sent, stored or checkpointed, each tool   *)
(* call of an assistant message is followed by its result, in order        *)
(* (query_runner.go:596-597 and 870-872).                                  *)
THEOREM HistoriesAreBalanced == Spec => []HistoryBalanced
<1>1. Init => BalanceInv
  BY DEF Init, BalanceInv, HistoryBalanced, Balanced, ToolPoints
<1>2. TypeInv /\ BalanceInv /\ [Next]_vars => BalanceInv'
  <2>1. TypeInv /\ BalanceInv /\ Next => BalanceInv'
    BY HistoryStaysBalanced, StoreStaysBalanced, ResultsStayMatched
    DEF BalanceInv, HistoryBalanced, Balanced
  <2>2. BalanceInv /\ UNCHANGED vars => BalanceInv'
    <3> SUFFICES ASSUME BalanceInv, UNCHANGED vars PROVE BalanceInv'
      OBVIOUS
    <3>1. UNCHANGED <<pc, history, messages, checkpoints, toolCalls, results>>
      BY DEF vars, inputVars, storeVars, toolVars
    <3>2. ResultsMatch' = ResultsMatch /\ HistoryBalanced' = HistoryBalanced
      BY <3>1, Zenon DEF ResultsMatch, HistoryBalanced, Balanced
    <3> QED
      BY <3>1, <3>2 DEF BalanceInv
  <2> QED
    BY <2>1, <2>2
<1>3. BalanceInv => HistoryBalanced
  BY DEF BalanceInv
<1> QED
  BY <1>1, <1>2, <1>3, TypesAreInvariant, PTL DEF Spec

-----------------------------------------------------------------------------
(* The end of a run.  No result is shown before the run is about to end,   *)
(* and what is done has shown one or reported an error.                    *)

EndInv ==
  /\ pc \notin {"save", "raise", "done"}
       => \A i \in 1 .. Len(out) : out[i].kind # "result"
  /\ pc = "save" => out # <<>> /\ out[Len(out)].kind = "result"
  /\ RunReportsItsEnd

\* Only a message that ends the run is a result, and it is then the last one.
LEMMA SendKeepsEndInv ==
  ASSUME TypeInv, EndInv, pc \notin {"save", "raise", "done"},
         NEW k, NEW i, NEW e, SendMessage(Message(k, i, e)),
         \/ k # "result" /\ pc' \notin {"save", "raise", "done"}
         \/ k = "result" /\ pc' \in {"save", "done"}
  PROVE  EndInv'
<1> DEFINE m == Message(k, i, e)
<1>1. m.kind = k
  BY DEF Message
<1>2. out \in Seq(MessageType) /\ out' = Append(out, m)
  BY DEF TypeInv, TypeOK, ChannelTypes, SendMessage
<1> HIDE DEF m
<1>3. /\ out' # <<>> /\ Len(out') = Len(out) + 1
      /\ out'[Len(out')] = m
      /\ \A j \in 1 .. Len(out) : out'[j] = out[j]
      /\ \A j \in 1 .. Len(out') : j \in 1 .. Len(out) \/ j = Len(out')
  BY <1>2
<1>4. \A j \in 1 .. Len(out') : out'[j].kind = "result" => j = Len(out') /\ k = "result"
  BY <1>1, <1>3 DEF EndInv
<1> QED
  BY <1>1, <1>3, <1>4 DEF EndInv, RunReportsItsEnd

\* EndInv is inductive, relative to the types.
LEMMA EndInvKept ==
  ASSUME TypeInv, EndInv, [Next]_vars
  PROVE  EndInv'
<1> USE DEF Raise, channelVars, callVars, SendPoints, StreamPoints
<1>1. CASE BeginRun
  BY <1>1 DEF BeginRun, EndInv, RunReportsItsEnd
<1>2. CASE ShowSystem \/ ShowUser \/ ShowFinalText \/ ShowToolUse \/ ShowResult
  BY <1>2, SendKeepsEndInv
  DEF ShowSystem, ShowUser, ShowFinalText, ShowToolUse, ShowResult
<1>3. CASE StreamEvent \/ ShowPartial \/ ShowToolResult \/ ShowErrorResult
  BY <1>3, SendKeepsEndInv
  DEF StreamEvent, ShowPartial, ShowToolResult, ShowErrorResult, ErrorPoints
<1>4. CASE SendError
  <2>1. errs \in Seq(ErrorKinds) /\ errs' = Append(errs, pending) /\ pending \in ErrorKinds
    BY <1>4 DEF SendError, TypeInv, TypeOK, ChannelTypes, ControlTypes
  <2>2. errs' # <<>>
    BY <2>1
  <2> QED
    BY <1>4, <2>2 DEF SendError, EndInv, RunReportsItsEnd
<1>5. CASE SaveSession
  BY <1>5 DEF SaveSession, EndInv, RunReportsItsEnd
<1>6. CASE
      \/ TakeInput \/ PromptHook \/ Checkpoint \/ StartTurn \/ ReportBadChunk
      \/ StreamFails \/ StreamEnds \/ Dispatch \/ PermissionHook \/ PreToolHook
      \/ ExecuteTool \/ PostToolHook \/ EndTurn \/ AbortSend
  BY <1>6
  DEF TakeInput, PromptHook, Checkpoint, StartTurn, ReportBadChunk, StreamFails,
      StreamEnds, Dispatch, PermissionHook, PreToolHook, ExecuteTool, PostToolHook,
      EndTurn, AbortSend, AbortReports, MayAbort, AfterInput, HookFails, OpenStream,
      EndInv, RunReportsItsEnd
<1>7. CASE Cancel \/ ReceiveMessage \/ ReceiveError
  BY <1>7 DEF Cancel, ReceiveMessage, ReceiveError, EndInv, RunReportsItsEnd
<1>8. CASE UNCHANGED vars
  BY <1>8 DEF vars, EndInv, RunReportsItsEnd
<1> QED
  BY <1>1, <1>2, <1>3, <1>4, <1>5, <1>6, <1>7, <1>8 DEF Next, RunStep

(* A run that has ended has shown a result, its last message, or has       *)
(* reported an error: its consumer is never left without either.           *)
THEOREM EndsAreReported == Spec => []RunReportsItsEnd
<1>1. Init => EndInv
  BY DEF Init, EndInv, RunReportsItsEnd
<1>2. TypeInv /\ EndInv /\ [Next]_vars => EndInv'
  BY EndInvKept
<1>3. EndInv => RunReportsItsEnd
  BY DEF EndInv
<1> QED
  BY <1>1, <1>2, <1>3, TypesAreInvariant, PTL DEF Spec

-----------------------------------------------------------------------------
(* The tools.  A call's id names its query, its turn and its index, so the *)
(* calls that ran are of earlier turns, or no longer to be handled, or the *)
(* one being handled once its tool was executed.                           *)

LoopPoints == ToolPoints \cup {"endturn"}

WasShown(id) == \E k \in 1 .. Len(out) : out[k].kind = "tool_use" /\ out[k].id = id
HasRun(id)   == \E i \in 1 .. Len(ran) : ran[i] = id

Executed == {"posttool", "toolresult", "toolerror"}

RanInv ==
  /\ \A i \in 1 .. Len(ran) :
       /\ ran[i] = <<queries, ran[i][2], ran[i][3]>>
       /\ ran[i][2] \in Nat /\ ran[i][2] <= turn
       /\ pc \notin LoopPoints \cup Failed \cup {"done"} => ran[i][2] # turn
       /\ pc \in ToolPoints /\ ran[i][2] = turn
            => ran[i][3] \notin todo \/ (pc \in Executed /\ ran[i][3] = Current)
  /\ pc \in CallOpen => WasShown(CallId(Current))
  /\ pc \in {"posttool", "toolresult"} => HasRun(CallId(Current))
  /\ ToolsRunOnce

\* What was shown stays shown, and an outcome without error needs a run.
LEMMA SendKeepsRuns ==
  ASSUME TypeInv, ToolsRunOnce, UNCHANGED ran,
         NEW k, NEW id, NEW e, SendMessage(Message(k, id, e)),
         k # "tool_result" \/ e = TRUE \/ HasRun(id)
  PROVE  /\ ToolsRunOnce'
         /\ \A j : WasShown(j) => WasShown(j)'
         /\ k = "tool_use" => WasShown(id)'
<1> DEFINE m == Message(k, id, e)
<1>1. m.kind = k /\ m.id = id /\ m.isError = e
  BY DEF Message
<1>2. out \in Seq(MessageType) /\ out' = Append(out, m)
  BY DEF SendMessage, TypeInv, TypeOK, ChannelTypes
<1> HIDE DEF m
<1>3. /\ \A j \in 1 .. Len(out) : j \in 1 .. Len(out') /\ out'[j] = out[j]
      /\ Len(out') \in 1 .. Len(out') /\ out'[Len(out')] = m
      /\ \A j \in 1 .. Len(out') : j \in 1 .. Len(out) \/ j = Len(out')
  BY <1>2
<1>4. \A j : WasShown(j) => WasShown(j)'
  BY <1>3 DEF WasShown
<1>5. k = "tool_use" => WasShown(id)'
  BY <1>1, <1>3 DEF WasShown
<1>6. \A j \in 1 .. Len(out') :
        out'[j].kind = "tool_result" /\ ~ out'[j].isError => HasRun(out'[j].id)
  BY <1>1, <1>3 DEF ToolsRunOnce, HasRun
<1>7. \A i \in 1 .. Len(ran) : WasShown(ran[i])'
  BY <1>4 DEF ToolsRunOnce, WasShown
<1>8. ToolsRunOnce'
  BY <1>6, <1>7 DEF ToolsRunOnce, WasShown, HasRun
<1> QED
  BY <1>4, <1>5, <1>8

\* A step that executes no tool and announces no call keeps RanInv.
LEMMA MovesKeepRanInv ==
  ASSUME RanInv, ToolsRunOnce', UNCHANGED <<ran, queries, turn>>,
         \A j : WasShown(j) => WasShown(j)',
         \/ pc \notin LoopPoints \cup Failed \cup {"done"} /\ pc' \notin LoopPoints
         \/ pc' \in Failed \cup {"done"}
         \/ UNCHANGED <<pc, todo>>
         \/ /\ UNCHANGED todo
            /\ \/ {pc, pc'} \subseteq {"permission", "pretool", "exec"}
               \/ pc = "posttool" /\ pc' = "toolresult"
  PROVE  RanInv'
<1> USE DEF LoopPoints, ToolPoints, CallOpen, Executed, Failed
<1>1. CASE \/ pc \notin LoopPoints \cup Failed \cup {"done"} /\ pc' \notin LoopPoints
           \/ pc' \in Failed \cup {"done"}
  BY <1>1 DEF RanInv
<1>2. CASE UNCHANGED <<pc, todo>>
  <2>1. CallId(Current)' = CallId(Current) /\ Current' = Current
    BY <1>2 DEF CallId, Current
  <2>2. HasRun(CallId(Current))' = HasRun(CallId(Current))
    BY <2>1 DEF HasRun
  <2> QED
    BY <1>2, <2>1, <2>2 DEF RanInv
<1>3. CASE /\ UNCHANGED todo
           /\ \/ {pc, pc'} \subseteq {"permission", "pretool", "exec"}
              \/ pc = "posttool" /\ pc' = "toolresult"
  <2>1. CallId(Current)' = CallId(Current) /\ Current' = Current
    BY <1>3 DEF CallId, Current
  <2>2. HasRun(CallId(Current))' = HasRun(CallId(Current))
    BY <2>1 DEF HasRun
  <2> QED
    BY <1>3, <2>1, <2>2 DEF RanInv
<1> QED
  BY <1>1, <1>2, <1>3

\* A tool is executed only for a call whose use was shown, and never again.
LEMMA ExecuteToolKeepsRanInv ==
  ASSUME TypeInv, RanInv, ExecuteTool
  PROVE  RanInv'
<1> USE DEF LoopPoints, ToolPoints, CallOpen, Executed, Failed
<1> DEFINE id == CallId(Current)
<1>1. /\ pc = "exec" /\ pc' \in Executed \cup Failed
      /\ UNCHANGED <<queries, turn, todo, out>>
      /\ ran' = ran \/ ran' = Append(ran, id)
      /\ pc' = "posttool" => ran' = Append(ran, id)
      /\ pc' # "toolresult"
  BY DEF ExecuteTool, Raise, inputVars, channelVars, callVars
<1>2. /\ ran \in Seq(Ids) /\ turn \in Nat /\ queries \in Nat
      /\ Current \in todo /\ Current \in Nat
  BY <1>1, CurrentIsTodo, ConstantsAreTyped
  DEF TypeInv, TypeOK, ToolTypes, ControlTypes, LoopBounds
<1>3. id = <<queries, turn, Current>> /\ id[2] = turn /\ id[3] = Current
  BY DEF CallId
<1>4. id' = id /\ Current' = Current
  BY <1>1 DEF CallId, Current
<1>5. WasShown(id) /\ \A j : WasShown(j)' = WasShown(j)
  BY <1>1 DEF RanInv, WasShown
<1>6. \A i \in 1 .. Len(ran) : ran[i] # id
  BY <1>1, <1>2, <1>3 DEF RanInv
<1> HIDE DEF id
<1>7. CASE ran' = ran
  <2>1. ToolsRunOnce'
    BY <1>1, <1>7 DEF RanInv, ToolsRunOnce
  <2> QED
    BY <1>1, <1>4, <1>5, <1>7, <2>1 DEF RanInv, id
<1>8. CASE ran' = Append(ran, id)
  <2>1. id \in Ids
    BY <1>2, IdsAreTyped DEF TypeInv, TypeOK, id
  <2>2. /\ \A i \in 1 .. Len(ran) : i \in 1 .. Len(ran') /\ ran'[i] = ran[i]
        /\ Len(ran') \in 1 .. Len(ran') /\ ran'[Len(ran')] = id
        /\ \A i \in 1 .. Len(ran') : i \in 1 .. Len(ran) \/ i = Len(ran')
    BY <1>2, <1>8, <2>1
  <2>3. \A i, j \in 1 .. Len(ran') : ran'[i] = ran'[j] => i = j
    <3>1. \A i, j \in 1 .. Len(ran) : ran[i] = ran[j] => i = j
      BY Zenon DEF RanInv, ToolsRunOnce
    <3> QED
      BY <1>6, <2>2, <3>1
  <2>4. \A i \in 1 .. Len(ran') : WasShown(ran'[i])
    <3>1. \A i \in 1 .. Len(ran) : WasShown(ran[i])
      BY Zenon DEF RanInv, ToolsRunOnce, WasShown
    <3> QED
      BY <1>5, <2>2, <3>1
  <2>5. \A j : HasRun(j) => HasRun(j)'
    BY <2>2 DEF HasRun
  <2>6. ToolsRunOnce'
    <3>1. (\A i \in 1 .. Len(ran) : \E k \in 1 .. Len(out) :
              out[k].kind = "tool_use" /\ out[k].id = ran[i])'
      BY <1>1, <2>4 DEF WasShown
    <3>2. (\A k \in 1 .. Len(out) : out[k].kind = "tool_result" /\ ~out[k].isError
              => \E i \in 1 .. Len(ran) : ran[i] = out[k].id)'
      BY <1>1, <2>5 DEF RanInv, ToolsRunOnce, HasRun
    <3> QED
      BY <2>3, <3>1, <3>2 DEF ToolsRunOnce
  <2>7. HasRun(id)'
    BY <1>4, <2>2 DEF HasRun
  <2>8. \A i \in 1 .. Len(ran') :
          /\ ran'[i] = <<queries, ran'[i][2], ran'[i][3]>>
          /\ ran'[i][2] \in Nat /\ ran'[i][2] <= turn
          /\ pc' \in ToolPoints /\ ran'[i][2] = turn
               => ran'[i][3] \notin todo \/ (pc' \in Executed /\ ran'[i][3] = Current)
    <3>1. CASE pc' \in Executed
      BY <1>1, <1>2, <1>3, <2>2, <3>1 DEF RanInv
    <3>2. CASE pc' \in Failed
      BY <1>1, <1>2, <1>3, <2>2, <3>2 DEF RanInv
    <3> QED
      BY <1>1, <3>1, <3>2
  <2> QED
    BY <1>1, <1>4, <1>5, <2>6, <2>7, <2>8 DEF RanInv, id
<1> QED
  BY <1>1, <1>7, <1>8

\* Announcing, concluding and finishing the calls of a turn.
LEMMA TurnKeepsRanInv ==
  ASSUME TypeInv, RanInv, Dispatch \/ ShowToolUse \/ ShowToolResult \/ EndTurn
  PROVE  RanInv'
<1> USE DEF LoopPoints, ToolPoints, CallOpen, Executed, Failed
<1>1. CASE Dispatch
  <2>1. UNCHANGED <<ran, out, queries, turn>> /\ pc = "dispatch" /\ pc' \in {"result", "tool"}
    BY <1>1 DEF Dispatch, toolVars, channelVars, callVars
  <2>2. ToolsRunOnce'
    BY <2>1 DEF RanInv, ToolsRunOnce
  <2> QED
    BY <2>1, <2>2 DEF RanInv
<1>2. CASE ShowToolUse
  <2>1. /\ SendMessage(Message("tool_use", CallId(Current), FALSE))
        /\ UNCHANGED <<ran, queries, turn, todo>> /\ pc = "tool" /\ pc' = "permission"
    BY <1>2 DEF ShowToolUse, toolVars, inputVars, callVars
  <2>2. ToolsRunOnce' /\ WasShown(CallId(Current))'
    <3>1. CallId(Current)' = CallId(Current)
      BY <2>1 DEF CallId, Current
    <3>2. ToolsRunOnce' /\ \E j : j = CallId(Current) /\ WasShown(j)'
      BY <2>1, SendKeepsRuns DEF RanInv
    <3> QED
      BY <3>1, <3>2 DEF WasShown
  <2> QED
    BY <2>1, <2>2 DEF RanInv
<1>3. CASE ShowToolResult
  <2> DEFINE id == CallId(Current)
  <2>1. /\ UNCHANGED <<ran, queries, turn>> /\ todo' = todo \ {Current}
        /\ pc \in {"toolresult", "toolerror"} /\ pc' \in {"tool", "endturn"}
        /\ todo' = {} => pc' = "endturn"
    BY <1>3 DEF ShowToolResult, NextCalls, inputVars, callVars
  <2>2. ToolsRunOnce'
    <3>1. CASE pc = "toolerror"
      <4>1. SendMessage(Message("tool_result", id, TRUE))
        BY <1>3, <3>1, Zenon DEF ShowToolResult
      <4> QED
        BY <2>1, <4>1, SendKeepsRuns DEF RanInv
    <3>2. CASE pc = "toolresult"
      <4>1. HasRun(id)
        BY <3>2 DEF RanInv
      <4>2. \E e : SendMessage(Message("tool_result", id, e))
        BY <1>3, Zenon DEF ShowToolResult
      <4> QED
        BY <2>1, <4>1, <4>2, SendKeepsRuns DEF RanInv
    <3> QED
      BY <2>1, <3>1, <3>2
  <2>3. \A i \in 1 .. Len(ran) : ran[i][2] = turn => ran[i][3] \notin todo'
    BY <2>1 DEF RanInv
  <2> QED
    BY <2>1, <2>2, <2>3 DEF RanInv
<1>4. CASE EndTurn
  <2>1. UNCHANGED <<ran, out, queries>> /\ turn' = turn + 1 /\ pc = "endturn" /\ pc' = "turn"
    BY <1>4 DEF EndTurn, toolVars, channelVars, callVars
  <2>2. ToolsRunOnce'
    BY <2>1 DEF RanInv, ToolsRunOnce
  <2>3. turn \in Nat
    BY ConstantsAreTyped DEF TypeInv, TypeOK, ControlTypes
  <2>4. \A i \in 1 .. Len(ran) : ran[i][2] \in Nat /\ ran[i][2] <= turn' /\ ran[i][2] # turn'
    BY <2>1, <2>3 DEF RanInv
  <2> QED
    BY <2>1, <2>2, <2>4 DEF RanInv
<1> QED
  BY <1>1, <1>2, <1>3, <1>4

\* RanInv is inductive, relative to the types.
LEMMA RanInvKept ==
  ASSUME TypeInv, RanInv, [Next]_vars
  PROVE  RanInv'
<1> USE DEF LoopPoints, ToolPoints, Failed, Raise
<1>1. UNCHANGED <<ran, out>> => ToolsRunOnce' /\ \A j : WasShown(j) => WasShown(j)'
  BY DEF RanInv, ToolsRunOnce, WasShown
<1>2. CASE BeginRun
  <2>1. ran' = <<>> /\ out' = <<>> /\ pc' \in {"raise", "system", "input"}
    BY <1>2 DEF BeginRun
  <2> QED
    BY <2>1 DEF RanInv, ToolsRunOnce, CallOpen
<1>3. CASE \/ ShowSystem \/ ShowUser \/ StreamEvent \/ ShowPartial \/ ShowFinalText
           \/ ShowResult \/ ShowErrorResult
  <2>1. \E k, id, e : k # "tool_result" /\ SendMessage(Message(k, id, e))
    <3>1. CASE ShowSystem \/ ShowUser
      BY <3>1 DEF ShowSystem, ShowUser
    <3>2. CASE StreamEvent \/ ShowPartial \/ ShowFinalText
      BY <3>2 DEF StreamEvent, ShowPartial, ShowFinalText
    <3>3. CASE ShowResult \/ ShowErrorResult
      BY <3>3 DEF ShowResult, ShowErrorResult
    <3> QED
      BY <1>3, <3>1, <3>2, <3>3
  <2>2. UNCHANGED <<ran, queries, turn, todo>>
    BY <1>3 DEF ShowSystem, ShowUser, StreamEvent, ShowPartial, ShowFinalText,
                ShowResult, ShowErrorResult, inputVars, toolVars, callVars
  <2>3. ToolsRunOnce' /\ \A j : WasShown(j) => WasShown(j)'
    BY <2>1, <2>2, SendKeepsRuns DEF RanInv
  <2>4. \/ pc \notin LoopPoints \cup Failed \cup {"done"} /\ pc' \notin LoopPoints
        \/ pc' \in Failed \cup {"done"}
    BY <1>3 DEF ShowSystem, ShowUser, StreamEvent, ShowPartial, ShowFinalText,
                ShowResult, ShowErrorResult
  <2> QED
    BY <2>2, <2>3, <2>4, MovesKeepRanInv
<1>4. CASE \/ TakeInput \/ PromptHook \/ Checkpoint \/ StartTurn \/ ReportBadChunk
           \/ StreamFails \/ StreamEnds \/ SaveSession \/ AbortSend \/ SendError
  <2>1. UNCHANGED <<ran, out, queries, turn>>
    BY <1>4 DEF TakeInput, PromptHook, Checkpoint, StartTurn, ReportBadChunk, StreamFails,
                StreamEnds, SaveSession, AbortSend, SendError, HookFails,
                inputVars, toolVars, channelVars, callVars
  <2>2. \/ pc \notin LoopPoints \cup Failed \cup {"done"} /\ pc' \notin LoopPoints
        \/ pc' \in Failed \cup {"done"}
    BY <1>4 DEF TakeInput, PromptHook, Checkpoint, StartTurn, ReportBadChunk, StreamFails,
                StreamEnds, SaveSession, AbortSend, AbortReports, SendError, HookFails,
                AfterInput, OpenStream, StreamPoints
  <2> QED
    BY <1>1, <2>1, <2>2, MovesKeepRanInv
<1>5. CASE PermissionHook \/ PreToolHook \/ PostToolHook
  <2>1. UNCHANGED <<ran, out, queries, turn, todo>>
    BY <1>5 DEF PermissionHook, PreToolHook, PostToolHook, HookFails,
                inputVars, toolVars, channelVars, callVars
  <2>2. \/ pc' \in Failed
        \/ {pc, pc'} \subseteq {"permission", "pretool", "exec"}
        \/ pc = "posttool" /\ pc' = "toolresult"
    BY <1>5 DEF PermissionHook, PreToolHook, PostToolHook, HookFails
  <2> QED
    BY <1>1, <2>1, <2>2, MovesKeepRanInv
<1>6. CASE Cancel \/ ReceiveMessage \/ ReceiveError \/ UNCHANGED vars
  <2>1. UNCHANGED <<ran, out, queries, turn, todo, pc>>
    BY <1>6 DEF Cancel, ReceiveMessage, ReceiveError, vars,
                inputVars, toolVars, channelVars, callVars
  <2> QED
    BY <1>1, <2>1, MovesKeepRanInv
<1> QED
  BY <1>2, <1>3, <1>4, <1>5, <1>6, ExecuteToolKeepsRanInv, TurnKeepsRanInv DEF Next, RunStep

(* No tool runs twice for one call, none runs before its use was shown,    *)
(* and no outcome without error is shown of a call that did not run        *)
(* (query_runner.go:606-870).                                              *)
THEOREM ToolsDoRunOnce == Spec => []ToolsRunOnce
<1>1. Init => RanInv
  BY DEF Init, RanInv, ToolsRunOnce, LoopPoints, ToolPoints, CallOpen
<1>2. TypeInv /\ RanInv /\ [Next]_vars => RanInv'
  BY RanInvKept
<1>3. RanInv => ToolsRunOnce
  BY DEF RanInv
<1> QED
  BY <1>1, <1>2, <1>3, TypesAreInvariant, PTL DEF Spec


-----------------------------------------------------------------------------
(* IdsOf.  It is defined by recursion over the length of its sequence; the *)
(* lemmas below say that the recursion has exactly one solution, what that *)
(* solution is on the empty sequence and on Append, and that it turns      *)
(* concatenation into concatenation.                                       *)

\* Induction over an initial segment of the naturals, for a set.
LEMMA UpToN ==
  ASSUME NEW n \in Nat, NEW P, 0 \in P,
         \A k \in 0 .. n : k \in P /\ k < n => k + 1 \in P
  PROVE  0 .. n \subseteq P
<1> SUFFICES ASSUME NEW z \in 0 .. n, z \notin P
             PROVE  FALSE
  OBVIOUS
<1> DEFINE Bad == {k \in 0 .. n : k \notin P}
           R == OpToRel(<, Nat)
<1>1. Bad \subseteq Nat /\ z \in Bad
  OBVIOUS
<1>2. PICK x \in Bad : \A y \in Bad : ~ (<<y, x>> \in R)
  <2>1. IsWellFoundedOn(R, Nat)
    BY NatLessThanWellFounded
  <2> HIDE DEF R, Bad
  <2> QED
    BY <1>1, <2>1, WFMin
<1>3. x # 0 /\ x \in 0 .. n
  OBVIOUS
<1>4. x - 1 \notin Bad
  <2>1. <<x - 1, x>> \in R
    BY <1>3 DEF OpToRel
  <2> QED
    BY <1>2, <2>1
<1>5. x - 1 \in P /\ x - 1 \in 0 .. n /\ x - 1 < n
  BY <1>3, <1>4
<1> QED
  BY <1>3, <1>5

\* f is IdsOf of the prefixes of s of length at most n.
Solves(f, s, T, n) ==
  f = [k \in 0 .. n |->
        IF k = 0 THEN <<>>
        ELSE IF s[k] \in T THEN Append(f[k - 1], s[k].id)
        ELSE f[k - 1]]

LEMMA SolutionExists ==
  ASSUME NEW S, NEW s \in Seq(S), NEW T
  PROVE  \E f : Solves(f, s, T, Len(s))
<1> DEFINE P == {n \in 0 .. Len(s) : \E f : Solves(f, s, T, n)}
<1>1. 0 \in P
  <2> DEFINE f == [k \in 0 .. 0 |-> <<>>]
  <2>1. Solves(f, s, T, 0)
    BY DEF Solves
  <2> HIDE DEF f
  <2> QED
    BY <2>1
<1>2. ASSUME NEW n \in 0 .. Len(s), n \in P, n < Len(s)
      PROVE  n + 1 \in P
  <2>1. PICK f : Solves(f, s, T, n)
    BY <1>2
  <2> DEFINE g == [k \in 0 .. n + 1 |->
                     IF k <= n THEN f[k]
                     ELSE IF s[k] \in T THEN Append(f[n], s[k].id) ELSE f[n]]
  <2>2. \A k \in 0 .. n : g[k] = f[k]
    OBVIOUS
  <2>3. ASSUME NEW k \in 0 .. n + 1
        PROVE  g[k] = IF k = 0 THEN <<>>
                      ELSE IF s[k] \in T THEN Append(g[k - 1], s[k].id)
                      ELSE g[k - 1]
    <3>1. CASE k \in 0 .. n
      <4>1. f[k] = IF k = 0 THEN <<>>
                   ELSE IF s[k] \in T THEN Append(f[k - 1], s[k].id)
                   ELSE f[k - 1]
        BY <2>1, <3>1 DEF Solves
      <4>2. k # 0 => k - 1 \in 0 .. n
        BY <3>1
      <4> QED
        BY <2>2, <3>1, <4>1, <4>2
    <3>2. CASE k = n + 1
      <4>1. k # 0 /\ k - 1 = n /\ g[n] = f[n]
        BY <2>2, <3>2
      <4>2. g[k] = IF s[k] \in T THEN Append(f[n], s[k].id) ELSE f[n]
        BY <3>2
      <4> QED
        BY <4>1, <4>2
    <3> QED
      BY <3>1, <3>2
  <2>4. Solves(g, s, T, n + 1)
    BY <2>3 DEF Solves
  <2> HIDE DEF g
  <2> QED
    BY <1>2, <2>4
<1>3. 0 .. Len(s) \subseteq P
  <2> HIDE DEF P
  <2> QED
    BY <1>1, <1>2, UpToN
<1>4. Len(s) \in P
  BY <1>3
<1> QED
  BY <1>4

(* One step of the recursion.                                              *)
LEMMA SolutionStep ==
  ASSUME NEW f, NEW s, NEW T, NEW n \in Nat, Solves(f, s, T, n),
         NEW k \in 0 .. n, k < n
  PROVE  f[k + 1] = IF s[k + 1] \in T THEN Append(f[k], s[k + 1].id) ELSE f[k]
<1>1. k + 1 \in 0 .. n /\ k + 1 # 0 /\ (k + 1) - 1 = k
  OBVIOUS
<1>2. f[k + 1] = IF k + 1 = 0 THEN <<>>
                 ELSE IF s[k + 1] \in T THEN Append(f[(k + 1) - 1], s[k + 1].id)
                 ELSE f[(k + 1) - 1]
  BY <1>1, Zenon DEF Solves
<1> QED
  BY <1>1, <1>2, Zenon

LEMMA SolutionIsUnique ==
  ASSUME NEW s, NEW t, NEW T, NEW n \in Nat, NEW m \in Nat, n <= m,
         \A k \in 1 .. n : s[k] = t[k],
         NEW f, Solves(f, s, T, n), NEW g, Solves(g, t, T, m)
  PROVE  f[n] = g[n]
<1> DEFINE P == {k \in 0 .. n : f[k] = g[k]}
<1>1. 0 \in P
  BY DEF Solves
<1>2. ASSUME NEW k \in 0 .. n, k \in P, k < n
      PROVE  k + 1 \in P
  <2>1. /\ f[k + 1] = IF s[k + 1] \in T THEN Append(f[k], s[k + 1].id) ELSE f[k]
        /\ g[k + 1] = IF t[k + 1] \in T THEN Append(g[k], t[k + 1].id) ELSE g[k]
    <3>1. k \in 0 .. m /\ k < m
      BY <1>2
    <3> QED
      BY <1>2, <3>1, SolutionStep
  <2>2. s[k + 1] = t[k + 1] /\ f[k] = g[k]
    BY <1>2
  <2> QED
    BY <1>2, <2>1, <2>2
<1>3. 0 .. n \subseteq P
  <2> HIDE DEF P
  <2> QED
    BY <1>1, <1>2, UpToN
<1> QED
  BY <1>3

LEMMA IdsOfIsSolution ==
  ASSUME NEW S, NEW s \in Seq(S), NEW T
  PROVE  \E f : Solves(f, s, T, Len(s)) /\ IdsOf(s, T) = f[Len(s)]
<1> DEFINE f == CHOOSE h : h = [k \in 0 .. Len(s) |->
                   IF k = 0 THEN <<>>
                   ELSE IF s[k] \in T THEN Append(h[k - 1], s[k].id)
                   ELSE h[k - 1]]
<1>1. IdsOf(s, T) = f[Len(s)]
  BY DEF IdsOf
<1>2. Solves(f, s, T, Len(s))
  <2>1. \E h : h = [k \in 0 .. Len(s) |->
                   IF k = 0 THEN <<>>
                   ELSE IF s[k] \in T THEN Append(h[k - 1], s[k].id)
                   ELSE h[k - 1]]
    BY SolutionExists, Zenon DEF Solves
  <2>2. f = [k \in 0 .. Len(s) |->
                   IF k = 0 THEN <<>>
                   ELSE IF s[k] \in T THEN Append(f[k - 1], s[k].id)
                   ELSE f[k - 1]]
    BY <2>1, Zenon
  <2> QED
    BY <2>2, Zenon DEF Solves
<1> QED
  BY <1>1, <1>2

\* The ids of no record are none; one more record adds its id, if it is in T.
LEMMA IdsOfEmpty ==
  ASSUME NEW T
  PROVE  IdsOf(<<>>, T) = <<>>
<1>1. <<>> \in Seq({})
  OBVIOUS
<1>2. PICK f : Solves(f, <<>>, T, 0) /\ IdsOf(<<>>, T) = f[0]
  <2>1. Len(<<>>) = 0
    OBVIOUS
  <2> QED
    BY <1>1, <2>1, IdsOfIsSolution
<1>3. f[0] = <<>>
  BY <1>2 DEF Solves
<1> QED
  BY <1>2, <1>3

LEMMA IdsOfAppend ==
  ASSUME NEW S, NEW s \in Seq(S), NEW x \in S, NEW T
  PROVE  IdsOf(Append(s, x), T) =
           IF x \in T THEN Append(IdsOf(s, T), x.id) ELSE IdsOf(s, T)
<1> DEFINE t == Append(s, x)
           n == Len(s)
<1>1. t \in Seq(S) /\ Len(t) = n + 1 /\ t[n + 1] = x /\ n \in Nat
      /\ \A k \in 1 .. n : s[k] = t[k]
  OBVIOUS
<1> HIDE DEF t
<1>2. PICK f : Solves(f, s, T, n) /\ IdsOf(s, T) = f[n]
  BY IdsOfIsSolution
<1>3. PICK g : Solves(g, t, T, n + 1) /\ IdsOf(t, T) = g[n + 1]
  BY <1>1, IdsOfIsSolution
<1> HIDE DEF n
<1>4. f[n] = g[n]
  BY <1>1, <1>2, <1>3, SolutionIsUnique
<1>5. g[n + 1] = IF x \in T THEN Append(g[n], x.id) ELSE g[n]
  <2>1. n \in 0 .. n + 1 /\ n < n + 1 /\ n + 1 \in Nat
    BY <1>1
  <2>2. g[n + 1] = IF t[n + 1] \in T THEN Append(g[n], t[n + 1].id) ELSE g[n]
    BY <1>3, <2>1, SolutionStep
  <2> QED
    BY <1>1, <2>2
<1> QED
  BY <1>2, <1>3, <1>4, <1>5 DEF t

\* The ids are a sequence of ids.
LEMMA IdsOfTyped ==
  ASSUME NEW S, \A r \in S : r.id \in Ids, NEW s \in Seq(S), NEW T
  PROVE  IdsOf(s, T) \in Seq(Ids)
<1> DEFINE n == Len(s)
<1>1. PICK f : Solves(f, s, T, n) /\ IdsOf(s, T) = f[n]
  BY IdsOfIsSolution
<1> DEFINE P == {k \in 0 .. n : f[k] \in Seq(Ids)}
<1>2. n \in Nat /\ \A k \in 1 .. n : s[k].id \in Ids
  OBVIOUS
<1> HIDE DEF n
<1>3. 0 \in P
  <2>1. f[0] = <<>>
    BY <1>1, <1>2 DEF Solves
  <2>2. <<>> \in Seq(Ids) /\ 0 \in 0 .. n
    BY <1>2
  <2> QED
    BY <2>1, <2>2
<1>4. ASSUME NEW k \in 0 .. n, k \in P, k < n
      PROVE  k + 1 \in P
  <2>1. f[k + 1] = IF s[k + 1] \in T THEN Append(f[k], s[k + 1].id) ELSE f[k]
    BY <1>1, <1>2, <1>4, SolutionStep
  <2>2. s[k + 1].id \in Ids /\ f[k] \in Seq(Ids) /\ k + 1 \in 0 .. n
    BY <1>2, <1>4
  <2>3. f[k + 1] \in Seq(Ids)
    BY <2>1, <2>2
  <2> QED
    BY <2>2, <2>3
<1>5. 0 .. n \subseteq P
  <2> HIDE DEF P
  <2> QED
    BY <1>2, <1>3, <1>4, UpToN
<1>6. n \in P
  BY <1>2, <1>5
<1> QED
  BY <1>1, <1>6

-----------------------------------------------------------------------------
(* What one step does to the ids shown and to the ids of the history.      *)

LEMMA ShownIdsTyped ==
  ASSUME TypeInv, NEW kinds
  PROVE  ShownIds(kinds) \in Seq(Ids)
<1>1. out \in Seq(MessageType) /\ \A m \in MessageType : m.id \in Ids
  BY DEF TypeInv, TypeOK, ChannelTypes, MessageType
<1> QED
  BY <1>1, IdsOfTyped DEF ShownIds

LEMMA HistoryIdsTyped ==
  ASSUME NEW h \in Seq(EntryType)
  PROVE  HistoryIds(h) \in Seq(Ids)
<1>1. \A e \in EntryType : e.id \in Ids
  BY DEF EntryType
<1> QED
  BY <1>1, IdsOfTyped DEF HistoryIds

\* A message adds its id to the ids shown, if its kind is asked for.
LEMMA SendShowsId ==
  ASSUME TypeInv, NEW kinds, NEW i \in Ids, NEW e \in BOOLEAN,
         NEW k \in {"system", "user", "stream", "text", "tool_use", "tool_result", "result"},
         SendMessage(Message(k, i, e))
  PROVE  ShownIds(kinds)' =
           IF k \in kinds THEN Append(ShownIds(kinds), i) ELSE ShownIds(kinds)
<1> DEFINE m == Message(k, i, e)
<1>1. m \in MessageType /\ m.id = i /\ m.kind = k
  BY DEF TypeInv, TypeOK, ControlTypes, AttemptTypes, Message, MessageType, Models
<1>2. out \in Seq(MessageType) /\ out' = Append(out, m)
  BY DEF SendMessage, TypeInv, TypeOK, ChannelTypes
<1> HIDE DEF m
<1>3. IdsOf(out', MessagesOf(kinds)) =
        IF m \in MessagesOf(kinds) THEN Append(IdsOf(out, MessagesOf(kinds)), m.id)
                                   ELSE IdsOf(out, MessagesOf(kinds))
  BY <1>1, <1>2, IdsOfAppend
<1>4. m \in MessagesOf(kinds) <=> k \in kinds
  BY <1>1 DEF MessagesOf
<1> QED
  BY <1>1, <1>3, <1>4 DEF ShownIds

\* An entry adds its id to the ids of the history, if it is an outcome.
LEMMA EntryAddsId ==
  ASSUME NEW h \in Seq(EntryType), NEW i \in Ids, NEW cs \in Seq(Ids),
         NEW r \in {"system", "user", "assistant", "tool"}
  PROVE  HistoryIds(Append(h, Entry(r, i, cs))) =
           IF r \in {"user", "tool"} THEN Append(HistoryIds(h), i) ELSE HistoryIds(h)
<1> DEFINE e == Entry(r, i, cs)
<1>1. e \in EntryType /\ e.id = i /\ e.role = r
  <2>1. e \in EntryType
    BY EntryIsTyped
  <2> QED
    BY <2>1 DEF Entry
<1> HIDE DEF e
<1>2. IdsOf(Append(h, e), Outcomes) =
        IF e \in Outcomes THEN Append(IdsOf(h, Outcomes), e.id) ELSE IdsOf(h, Outcomes)
  BY <1>1, IdsOfAppend
<1>3. e \in Outcomes <=> r \in {"user", "tool"}
  BY <1>1 DEF Outcomes
<1> QED
  BY <1>1, <1>2, <1>3 DEF HistoryIds, e

\* Concatenation and Append.
LEMMA ConcatAppend ==
  ASSUME NEW S, NEW s \in Seq(S), NEW t \in Seq(S), NEW x \in S
  PROVE  s \o Append(t, x) = Append(s \o t, x) /\ s \o <<>> = s
  OBVIOUS

-----------------------------------------------------------------------------
(* The conversation.  Between turns the history holds what the session     *)
(* held and what this run has shown; while a user message or a turn's      *)
(* calls are in flight, it will once they are added.                       *)

Asked     == ShownIds({"user", "tool_result"})
Announced == ShownIds({"tool_use"})
Concluded == ShownIds({"tool_result"})
Carried   == HistoryIds(base) \o Asked

\* The history after this turn, whatever calls its assistant entry lists.
AfterTurn(cs) == Append(history, Entry("assistant", NoId, cs)) \o results

WholePoints == (InputPoints \ {"prompthook"}) \cup StreamPoints
                 \cup {"turn", "final", "dispatch", "result", "save"}

ShownInv ==
  /\ pc \in WholePoints => HistoryIds(history) = Carried
  /\ pc = "prompthook" => Append(HistoryIds(history), UserId) = Carried
  /\ pc \in LoopPoints => \A cs \in Seq(Ids) : HistoryIds(AfterTurn(cs)) = Carried
  /\ pc \in WholePoints \cup {"prompthook", "tool", "endturn"} => Announced = Concluded
  /\ pc \in CallOpen => Announced = Append(Concluded, CallId(Current))
  /\ pc = "checkpoint" => Checkpointing

\* A message that is no outcome and no tool use leaves the ids as they are.
LEMMA SendShowsNoId ==
  ASSUME TypeInv, NEW k \in {"system", "stream", "text", "result"}, NEW e \in BOOLEAN,
         SendMessage(Message(k, NoId, e))
  PROVE  UNCHANGED <<Asked, Announced, Concluded>>
<1>1. NoId \in Ids
  BY IdsAreTyped DEF TypeInv, TypeOK
<1>2. k \notin {"user", "tool_result"} /\ k \notin {"tool_use"} /\ k \notin {"tool_result"}
  OBVIOUS
<1> QED
  BY <1>1, <1>2, SendShowsId DEF Asked, Announced, Concluded

LEMMA StoredIdsTyped ==
  ASSUME TypeInv
  PROVE  /\ HistoryIds(history) \in Seq(Ids) /\ HistoryIds(base) \in Seq(Ids)
         /\ HistoryIds(messages) \in Seq(Ids)
         /\ Asked \in Seq(Ids) /\ Announced \in Seq(Ids) /\ Concluded \in Seq(Ids)
  BY HistoryIdsTyped, ShownIdsTyped
  DEF TypeInv, TypeOK, StoreTypes, Asked, Announced, Concluded

\* The session's messages are what this run adds to.
LEMMA BeginRunKeepsShownInv ==
  ASSUME TypeInv, ShownInv, BeginRun
  PROVE  ShownInv'
<1>1. out' = <<>> /\ history' = messages /\ base' = messages
      /\ pc' \in {"raise", "system", "input"}
  BY DEF BeginRun, StartingHistory, Raise
<1>2. Asked' = <<>> /\ Announced' = <<>> /\ Concluded' = <<>>
  BY <1>1, IdsOfEmpty DEF Asked, Announced, Concluded, ShownIds
<1>3. HistoryIds(history') = HistoryIds(messages) /\ HistoryIds(base') = HistoryIds(messages)
  BY <1>1
<1>4. HistoryIds(messages) \o <<>> = HistoryIds(messages)
  BY StoredIdsTyped
<1>5. HistoryIds(history') = Carried'
  BY <1>2, <1>3, <1>4 DEF Carried
<1> QED
  BY <1>1, <1>2, <1>5
  DEF ShownInv, WholePoints, LoopPoints, ToolPoints, InputPoints, StreamPoints, CallOpen

\* A user message is shown, then added to the history by the hook's success.
LEMMA InputKeepsShownInv ==
  ASSUME TypeInv, ShownInv,
         ShowSystem \/ TakeInput \/ ShowUser \/ PromptHook \/ Checkpoint
  PROVE  ShownInv'
<1> USE DEF InputPoints, StreamPoints, WholePoints, LoopPoints, ToolPoints, CallOpen, Raise
<1>0. /\ NoId \in Ids /\ UserId \in Ids /\ <<>> \in Seq(Ids) /\ history \in Seq(EntryType)
      /\ StoreTypes
  BY IdsAreTyped DEF TypeInv, TypeOK, StoreTypes
<1>1. CASE ShowSystem
  <2>1. UNCHANGED <<Asked, Announced, Concluded, base>>
    BY <1>1, SendShowsNoId DEF ShowSystem, callVars
  <2>2. HistoryIds(history') = HistoryIds(history)
    BY <1>0, <1>1, EntryAddsId DEF ShowSystem
  <2> QED
    BY <1>1, <2>1, <2>2 DEF ShownInv, Carried, ShowSystem
<1>2. CASE TakeInput
  BY <1>2 DEF TakeInput, ShownInv, Carried, Asked, Announced, Concluded, ShownIds,
              inputVars, channelVars, callVars
<1>3. CASE ShowUser
  <2>1. Asked' = Append(Asked, UserId) /\ UNCHANGED <<Announced, Concluded>>
    BY <1>0, <1>3, SendShowsId DEF ShowUser, Asked, Announced, Concluded
  <2>2. UNCHANGED <<history, base, userTurns>> /\ pc' = "prompthook" /\ pc = "user"
    BY <1>3 DEF ShowUser, inputVars, storeVars, callVars
  <2>3. Carried' = Append(Carried, UserId)
    BY <1>0, <2>1, <2>2, StoredIdsTyped DEF Carried
  <2>4. UserId' = UserId /\ HistoryIds(history') = HistoryIds(history)
    BY <2>2 DEF UserId
  <2> QED
    BY <2>1, <2>2, <2>3, <2>4 DEF ShownInv
<1>4. CASE PromptHook
  <2>1. UNCHANGED <<Asked, Announced, Concluded, Carried>>
    BY <1>4 DEF PromptHook, HookFails, Asked, Announced, Concluded, Carried, ShownIds,
                channelVars, callVars
  <2>2. CASE HookFails
    BY <2>2 DEF HookFails, ShownInv
  <2>3. CASE history' = Append(history, Entry("user", UserId, <<>>))
    <3>1. HistoryIds(history') = Append(HistoryIds(history), UserId)
      BY <1>0, <2>3, EntryAddsId
    <3> QED
      BY <1>4, <2>1, <3>1 DEF PromptHook, HookFails, ShownInv, AfterInput
  <2> QED
    BY <1>4, <2>2, <2>3 DEF PromptHook
<1>5. CASE Checkpoint
  BY <1>5 DEF Checkpoint, AfterInput, ShownInv, Carried, Asked, Announced, Concluded,
              ShownIds, channelVars, callVars
<1> QED
  BY <1>1, <1>2, <1>3, <1>4, <1>5

\* A step that shows no id and changes no history keeps ShownInv, unless it
\* enters a point where more is claimed.
LEMMA QuietStepKeepsShownInv ==
  ASSUME ShownInv, UNCHANGED <<Asked, Announced, Concluded, history, base, results>>,
         \/ pc \in WholePoints \ {"checkpoint"} /\ pc' \in WholePoints \ {"checkpoint"}
         \/ /\ UNCHANGED <<pc, queries, turn, todo, userTurns>>
         \/ /\ pc \in CallOpen /\ pc' \in CallOpen
            /\ UNCHANGED <<queries, turn, todo>>
         \/ pc' \in Failed \cup {"done"}
  PROVE  ShownInv'
<1> USE DEF InputPoints, StreamPoints, WholePoints, LoopPoints, ToolPoints, CallOpen, Failed
<1>1. UNCHANGED Carried /\ \A cs \in Seq(Ids) : AfterTurn(cs)' = AfterTurn(cs)
  BY DEF Carried, AfterTurn
<1>2. CASE pc \in WholePoints \ {"checkpoint"} /\ pc' \in WholePoints \ {"checkpoint"}
  BY <1>1, <1>2 DEF ShownInv
<1>3. CASE UNCHANGED <<pc, queries, turn, todo, userTurns>>
  <2>1. UserId' = UserId /\ CallId(Current)' = CallId(Current)
    BY <1>3 DEF UserId, CallId, Current
  <2> QED
    BY <1>1, <1>3, <2>1 DEF ShownInv
<1>4. CASE pc \in CallOpen /\ pc' \in CallOpen /\ UNCHANGED <<queries, turn, todo>>
  <2>1. CallId(Current)' = CallId(Current)
    BY <1>4 DEF CallId, Current
  <2> QED
    BY <1>1, <1>4, <2>1 DEF ShownInv
<1>5. CASE pc' \in Failed \cup {"done"}
  BY <1>5 DEF ShownInv
<1> QED
  BY <1>2, <1>3, <1>4, <1>5

\* An attempt shows no outcome and no tool use.
LEMMA AttemptKeepsShownInv ==
  ASSUME TypeInv, ShownInv,
         \/ StartTurn \/ StreamEvent \/ ShowPartial \/ ReportBadChunk
         \/ StreamFails \/ StreamEnds \/ ShowFinalText
  PROVE  ShownInv'
<1>1. UNCHANGED <<Asked, Announced, Concluded>>
  <2>1. CASE StreamEvent \/ ShowPartial \/ ShowFinalText
    BY <2>1, SendShowsNoId DEF StreamEvent, ShowPartial, ShowFinalText
  <2>2. CASE StartTurn \/ ReportBadChunk \/ StreamFails \/ StreamEnds
    BY <2>2 DEF StartTurn, ReportBadChunk, StreamFails, StreamEnds, channelVars,
                Asked, Announced, Concluded, ShownIds
  <2> QED
    BY <2>1, <2>2
<1>2. UNCHANGED <<history, base, results>>
  BY DEF StartTurn, StreamEvent, ShowPartial, ReportBadChunk, StreamFails, StreamEnds,
         ShowFinalText, inputVars, toolVars, callVars
<1>3. \/ pc \in WholePoints \ {"checkpoint"} /\ pc' \in WholePoints \ {"checkpoint"}
      \/ pc' \in Failed
  BY DEF StartTurn, StreamEvent, ShowPartial, ReportBadChunk, StreamFails, StreamEnds,
         ShowFinalText, OpenStream, Raise, WholePoints, StreamPoints, Failed
<1> QED
  BY <1>1, <1>2, <1>3, QuietStepKeepsShownInv

\* The calls of a turn are announced, concluded and then added, in order.
LEMMA CallsKeepShownInv ==
  ASSUME TypeInv, ShownInv,
         \/ Dispatch \/ ShowToolUse \/ PermissionHook \/ PreToolHook \/ ExecuteTool
         \/ PostToolHook \/ ShowToolResult \/ EndTurn
  PROVE  ShownInv'
<1> USE DEF InputPoints, StreamPoints, WholePoints, LoopPoints, ToolPoints, CallOpen
<1>0. /\ NoId \in Ids /\ <<>> \in Seq(Ids) /\ history \in Seq(EntryType)
      /\ results \in Seq(EntryType) /\ toolCalls \in Seq(Ids)
  BY IdsAreTyped DEF TypeInv, TypeOK, StoreTypes, ToolTypes
<1>1. \A cs \in Seq(Ids) :
        /\ Append(history, Entry("assistant", NoId, cs)) \in Seq(EntryType)
        /\ HistoryIds(Append(history, Entry("assistant", NoId, cs))) = HistoryIds(history)
  BY <1>0, EntryIsTyped, EntryAddsId
<1>2. CASE Dispatch
  <2>1. UNCHANGED <<Asked, Announced, Concluded, Carried>>
    BY <1>2 DEF Dispatch, channelVars, callVars, Asked, Announced, Concluded, Carried, ShownIds
  <2>2. HistoryIds(history) = Carried /\ Announced = Concluded
    BY <1>2 DEF Dispatch, ShownInv
  <2>3. CASE calls = {}
    <3>1. history' = Append(history, Entry("assistant", NoId, <<>>)) /\ pc' = "result"
      BY <1>2, <2>3 DEF Dispatch
    <3>2. HistoryIds(history') = HistoryIds(history)
      BY <1>0, <1>1, <3>1, Zenon
    <3> QED
      BY <2>1, <2>2, <3>1, <3>2 DEF ShownInv
  <2>4. CASE calls # {}
    <3>1. results' = <<>> /\ history' = history /\ pc' = "tool"
      BY <1>2, <2>4 DEF Dispatch
    <3>2. ASSUME NEW cs \in Seq(Ids)
          PROVE  HistoryIds(AfterTurn(cs)') = HistoryIds(history)
      <4>1. AfterTurn(cs)' = Append(history, Entry("assistant", NoId, cs))
        BY <1>1, <3>1 DEF AfterTurn
      <4> QED
        BY <1>1, <4>1
    <3> QED
      BY <2>1, <2>2, <3>1, <3>2 DEF ShownInv
  <2> QED
    BY <2>3, <2>4
<1>3. CASE ShowToolUse
  <2>1. CallId(Current) \in Ids
    BY <1>3, CurrentIsTodo, IdsAreTyped DEF ShowToolUse, TypeInv, TypeOK, LoopBounds
  <2>2. Announced' = Append(Announced, CallId(Current)) /\ UNCHANGED <<Asked, Concluded>>
    BY <1>3, <2>1, SendShowsId DEF ShowToolUse, Asked, Announced, Concluded
  <2>3. /\ UNCHANGED <<history, base, results, queries, turn, todo>>
        /\ pc = "tool" /\ pc' = "permission"
    BY <1>3 DEF ShowToolUse, inputVars, toolVars, callVars
  <2>4. CallId(Current)' = CallId(Current) /\ Carried' = Carried
    BY <2>2, <2>3 DEF CallId, Current, Carried
  <2>5. \A cs \in Seq(Ids) : HistoryIds(AfterTurn(cs)') = HistoryIds(AfterTurn(cs))
    BY <2>3 DEF AfterTurn
  <2> QED
    BY <2>2, <2>3, <2>4, <2>5 DEF ShownInv
<1>4. CASE PermissionHook \/ PreToolHook \/ ExecuteTool \/ PostToolHook
  <2>1. UNCHANGED <<Asked, Announced, Concluded>>
    BY <1>4 DEF PermissionHook, PreToolHook, ExecuteTool, PostToolHook, HookFails,
                channelVars, Asked, Announced, Concluded, ShownIds
  <2>2. UNCHANGED <<history, base, results, queries, turn, todo>>
    BY <1>4 DEF PermissionHook, PreToolHook, ExecuteTool, PostToolHook, HookFails,
                inputVars, toolVars, callVars
  <2>3. pc \in CallOpen /\ pc' \in CallOpen \cup Failed
    BY <1>4 DEF PermissionHook, PreToolHook, ExecuteTool, PostToolHook, HookFails,
                Raise, Failed
  <2> QED
    BY <2>1, <2>2, <2>3, QuietStepKeepsShownInv
<1>5. CASE ShowToolResult
  <2> DEFINE id == CallId(Current)
             e  == Entry("tool", id, <<>>)
  <2>1. id \in Ids
    BY <1>5, CurrentIsTodo, IdsAreTyped DEF ShowToolResult, TypeInv, TypeOK, LoopBounds
  <2>2. e \in EntryType
    BY <1>0, <2>1, EntryIsTyped
  <2>3. /\ Asked' = Append(Asked, id) /\ Concluded' = Append(Concluded, id)
        /\ Announced' = Announced
    <3>1. \E failed \in BOOLEAN : SendMessage(Message("tool_result", id, failed))
      BY <1>5, Zenon DEF ShowToolResult
    <3> QED
      BY <2>1, <3>1, SendShowsId DEF Asked, Announced, Concluded
  <2>4. /\ UNCHANGED <<history, base>> /\ results' = Append(results, e)
        /\ pc \in CallOpen /\ pc' \in {"endturn", "tool"}
    BY <1>5 DEF ShowToolResult, KeepResult, inputVars, callVars
  <2>5. Carried' = Append(Carried, id)
    BY <2>1, <2>3, <2>4, StoredIdsTyped DEF Carried
  <2>6. ASSUME NEW cs \in Seq(Ids)
        PROVE  HistoryIds(AfterTurn(cs)') = Carried'
    <3> DEFINE h == Append(history, Entry("assistant", NoId, cs))
    <3>1. h \in Seq(EntryType)
      BY <1>1
    <3>2. AfterTurn(cs)' = h \o Append(results, e) /\ AfterTurn(cs) = h \o results
      BY <2>4 DEF AfterTurn
    <3> HIDE DEF h, e
    <3>3. AfterTurn(cs)' = Append(AfterTurn(cs), e) /\ AfterTurn(cs) \in Seq(EntryType)
      BY <1>0, <2>2, <3>1, <3>2, ConcatAppend
    <3>4. HistoryIds(Append(AfterTurn(cs), e)) = Append(HistoryIds(AfterTurn(cs)), id)
      BY <1>0, <2>1, <3>3, EntryAddsId DEF e
    <3>5. HistoryIds(AfterTurn(cs)) = Carried
      BY <2>4 DEF ShownInv
    <3> QED
      BY <2>5, <3>3, <3>4, <3>5
  <2>7. Announced' = Concluded'
    BY <2>3, <2>4 DEF ShownInv
  <2> QED
    BY <2>4, <2>6, <2>7 DEF ShownInv
<1>6. CASE EndTurn
  <2>1. UNCHANGED <<Asked, Announced, Concluded, Carried>>
    BY <1>6 DEF EndTurn, channelVars, callVars, Asked, Announced, Concluded, Carried, ShownIds
  <2>2. history' = AfterTurn(toolCalls) /\ pc = "endturn" /\ pc' = "turn"
    BY <1>6 DEF EndTurn, AfterTurn
  <2>3. HistoryIds(history') = Carried /\ Announced = Concluded
    BY <1>0, <2>2 DEF ShownInv
  <2> QED
    BY <2>1, <2>2, <2>3 DEF ShownInv
<1> QED
  BY <1>2, <1>3, <1>4, <1>5, <1>6

\* ShownInv is inductive, relative to the types.
LEMMA ShownInvKept ==
  ASSUME TypeInv, ShownInv, [Next]_vars
  PROVE  ShownInv'
<1>1. CASE ShowResult
  <2>1. UNCHANGED <<Asked, Announced, Concluded>>
    BY <1>1, SendShowsNoId DEF ShowResult
  <2> QED
    BY <1>1, <2>1, QuietStepKeepsShownInv
    DEF ShowResult, inputVars, toolVars, callVars, WholePoints
<1>2. CASE ShowErrorResult
  <2>1. UNCHANGED <<Asked, Announced, Concluded>>
    BY <1>2, SendShowsNoId DEF ShowErrorResult
  <2> QED
    BY <1>2, <2>1, QuietStepKeepsShownInv
    DEF ShowErrorResult, inputVars, toolVars, callVars
<1>3. CASE SaveSession \/ AbortSend \/ SendError \/ Cancel \/ ReceiveMessage \/ ReceiveError
           \/ UNCHANGED vars
  <2>1. UNCHANGED <<Asked, Announced, Concluded, history, base, results>>
    BY <1>3
    DEF SaveSession, AbortSend, SendError, Cancel, ReceiveMessage, ReceiveError, vars,
        channelVars, inputVars, toolVars, callVars, Asked, Announced, Concluded, ShownIds
  <2>2. \/ pc' \in Failed \cup {"done"}
        \/ UNCHANGED <<pc, queries, turn, todo, userTurns>>
    BY <1>3
    DEF SaveSession, AbortSend, AbortReports, SendError, Cancel, ReceiveMessage,
        ReceiveError, Raise, vars, inputVars, toolVars, storeVars, callVars, Failed
  <2> QED
    BY <2>1, <2>2, QuietStepKeepsShownInv
<1> QED
  BY <1>1, <1>2, <1>3, BeginRunKeepsShownInv, InputKeepsShownInv, AttemptKeepsShownInv,
     CallsKeepShownInv
  DEF Next, RunStep

LEMMA ShownInvHolds == Spec => []ShownInv
<1>1. Init => ShownInv
  BY DEF Init, ShownInv, WholePoints, LoopPoints, ToolPoints, InputPoints, StreamPoints, CallOpen
<1>2. TypeInv /\ ShownInv /\ [Next]_vars => ShownInv'
  BY ShownInvKept
<1> QED
  BY <1>1, <1>2, TypesAreInvariant, PTL DEF Spec

(* What is sent with a request, and what is stored when the run is         *)
(* answered, holds the session's messages and then everything this run has *)
(* shown, each tool use with its outcome (query_runner.go:596-597,         *)
(* 862-872).                                                               *)
THEOREM RequestsAreWhole == Spec => []RequestsCarryWhatWasShown
<1>1. ShownInv => RequestsCarryWhatWasShown
  BY DEF ShownInv, RequestsCarryWhatWasShown, WholePoints, StreamPoints, Carried,
         Asked, Announced, Concluded
<1> QED
  BY <1>1, ShownInvHolds, PTL

-----------------------------------------------------------------------------
(* The refinement.  Each action of the loop is a step of Conversation or   *)
(* leaves everything Conversation speaks of as it is.                      *)

Kept  == HistoryIds(messages)
Based == HistoryIds(base)
Seen  == <<Asked, OpenCall, Kept, Based>>

Thinking == Labels \ (Asking \cup Failed \cup {"done", "save"})
Idle     == Thinking \ CallOpen

\* The phase, point by point.
LEMMA Phases ==
  /\ PhaseAt("done") = "idle"
  /\ \A l \in Asking : PhaseAt(l) = "asking"
  /\ PhaseAt("save") = "answered"
  /\ \A l \in Failed : PhaseAt(l) = "failed"
  /\ \A l \in Thinking : PhaseAt(l) = "thinking"
<1>1. PhaseAt("done") = "idle"
  BY DEF PhaseAt, Asking, Failed
<1>2. \A l \in Asking : PhaseAt(l) = "asking"
  BY DEF PhaseAt, Asking, Failed
<1>3. PhaseAt("save") = "answered"
  BY DEF PhaseAt, Asking, Failed
<1>4. \A l \in Failed : PhaseAt(l) = "failed"
  BY DEF PhaseAt, Asking, Failed
<1>5. \A l \in Thinking : PhaseAt(l) = "thinking"
  BY DEF PhaseAt, Asking, Failed, Thinking
<1> QED
  BY <1>1, <1>2, <1>3, <1>4, <1>5

\* The points where a tool call is open are points of thinking.
LEMMA PointsAreApart ==
  /\ CallOpen \subseteq Thinking
  /\ \A l \in Asking \cup Failed \cup {"done", "save"} : l \notin CallOpen
  BY DEF CallOpen, Thinking, Labels, SendPoints, StreamPoints, Asking, Failed

\* The moves of Conversation that show and remember nothing.
LEMMA PhaseMoves ==
  ASSUME UNCHANGED <<Asked, messages, base>>,
         \/ pc \in Asking /\ pc' \in Asking \cup Idle \cup Failed
         \/ pc \in Idle /\ pc' \in Idle \cup {"save"} \cup Failed
         \/ pc \in CallOpen /\ pc' \in Failed
         \/ pc \in Failed /\ pc' \in Failed \cup {"done"}
         \/ UNCHANGED <<queries, turn, todo>> /\ pc \in CallOpen /\ pc' \in CallOpen
         \/ UNCHANGED <<pc, queries, turn, todo>>
  PROVE  [Conv!Next]_Conv!vars
<1> DEFINE p == PhaseAt(pc)
<1>1. UNCHANGED <<Asked, Kept, Based>>
  BY DEF Kept, Based
<1>2. /\ pc \notin CallOpen => OpenCall = NoId
      /\ pc' \notin CallOpen => OpenCall' = NoId
  BY DEF OpenCall
<1>3. p' = p /\ OpenCall' = OpenCall => UNCHANGED Conv!vars
  BY <1>1 DEF Conv!vars, Asked, Kept, Based
<1>4. p \in {"asking", "thinking"} /\ p' = "failed" /\ OpenCall' = NoId => Conv!Fail
  BY <1>1 DEF Conv!Fail, Asked, Kept, Based
<1>5. CASE UNCHANGED <<pc, queries, turn, todo>>
  <2>1. p' = p /\ OpenCall' = OpenCall
    BY <1>5 DEF OpenCall, CallId, Current
  <2> QED
    BY <1>3, <2>1
<1>6. CASE pc \in CallOpen /\ pc' \in CallOpen /\ UNCHANGED <<queries, turn, todo>>
  <2>1. p' = p
    BY <1>6, Phases, PointsAreApart
  <2>2. OpenCall' = OpenCall
    BY <1>6 DEF OpenCall, CallId, Current
  <2> QED
    BY <1>3, <2>1, <2>2
<1>7. CASE \/ pc \in Asking /\ pc' \in Asking
           \/ pc \in Idle /\ pc' \in Idle
           \/ pc \in Failed /\ pc' \in Failed
  <2>1. p' = p
    BY <1>7, Phases DEF Idle
  <2>2. OpenCall' = OpenCall
    BY <1>2, <1>7, PointsAreApart DEF Idle
  <2> QED
    BY <1>3, <2>1, <2>2
<1>8. CASE pc \in Asking \cup Thinking /\ pc' \in Failed
  <2>1. p \in {"asking", "thinking"} /\ p' = "failed" /\ OpenCall' = NoId
    BY <1>2, <1>8, Phases, PointsAreApart
  <2> QED
    BY <1>4, <2>1 DEF Conv!Next
<1>9. CASE pc \in Asking /\ pc' \in Idle
  <2>1. p = "asking" /\ p' = "thinking" /\ OpenCall' = OpenCall
    BY <1>2, <1>9, Phases, PointsAreApart DEF Idle
  <2> QED
    BY <1>1, <2>1 DEF Conv!Next, Conv!Think, Asked, Kept, Based
<1>10. CASE pc \in Idle /\ pc' = "save"
  <2>1. p = "thinking" /\ p' = "answered" /\ OpenCall = NoId /\ OpenCall' = NoId
    BY <1>2, <1>10, Phases, PointsAreApart DEF Idle
  <2> QED
    BY <1>1, <2>1 DEF Conv!Next, Conv!Answer, Asked, Kept, Based
<1>11. CASE pc \in Failed /\ pc' = "done"
  <2>1. p = "failed" /\ p' = "idle" /\ OpenCall' = OpenCall
    BY <1>2, <1>11, Phases, PointsAreApart
  <2> QED
    BY <1>1, <2>1 DEF Conv!Next, Conv!ReportFailure, Asked, Kept, Based
<1> QED
  BY <1>5, <1>6, <1>7, <1>8, <1>9, <1>10, <1>11, PointsAreApart DEF Idle

\* Steps that show no user message, no tool use and no outcome.
LEMMA QuietStepsRefine ==
  ASSUME TypeInv,
         \/ ShowSystem \/ TakeInput \/ PromptHook \/ StartTurn \/ StreamEvent
         \/ ShowPartial \/ ReportBadChunk \/ StreamFails \/ StreamEnds
         \/ ShowFinalText \/ Dispatch \/ PermissionHook \/ PreToolHook \/ ExecuteTool
         \/ PostToolHook \/ EndTurn \/ ShowResult \/ ShowErrorResult \/ AbortSend
         \/ SendError \/ Cancel \/ ReceiveMessage \/ ReceiveError
  PROVE  [Conv!Next]_Conv!vars
<1> USE DEF Asking, Failed, CallOpen, Idle, Thinking, Labels, SendPoints, StreamPoints,
            Raise, channelVars, storeVars, callVars
<1>1. CASE ShowSystem
  BY <1>1, SendShowsNoId, PhaseMoves DEF ShowSystem
<1>2. CASE StreamEvent \/ ShowPartial \/ ShowFinalText
  BY <1>2, SendShowsNoId, PhaseMoves DEF StreamEvent, ShowPartial, ShowFinalText
<1>3. CASE ShowResult \/ ShowErrorResult
  BY <1>3, SendShowsNoId, PhaseMoves DEF ShowResult, ShowErrorResult, ErrorPoints, RefusalKeeps
<1>4. out' = out => UNCHANGED Asked
  BY DEF Asked, ShownIds
<1>5. CASE TakeInput \/ PromptHook
  BY <1>4, <1>5, PhaseMoves DEF TakeInput, PromptHook, HookFails, AfterInput
<1>6. CASE StartTurn \/ ReportBadChunk \/ StreamFails \/ StreamEnds \/ Dispatch \/ EndTurn
  BY <1>4, <1>6, PhaseMoves
  DEF StartTurn, OpenStream, ReportBadChunk, StreamFails, StreamEnds, Dispatch, EndTurn
<1>7. CASE PermissionHook \/ PreToolHook \/ ExecuteTool \/ PostToolHook
  <2>1. UNCHANGED <<out, messages, base, queries, turn, todo>>
    BY <1>7 DEF PermissionHook, PreToolHook, ExecuteTool, PostToolHook, HookFails,
                inputVars, toolVars
  <2>2. pc \in CallOpen /\ pc' \in CallOpen \cup Failed
    BY <1>7 DEF PermissionHook, PreToolHook, ExecuteTool, PostToolHook, HookFails
  <2> QED
    BY <1>4, <2>1, <2>2, PhaseMoves
<1>8. CASE AbortSend
  BY <1>4, <1>8, PhaseMoves DEF AbortSend, MayAbort, AbortReports
<1>9. CASE SendError
  BY <1>4, <1>9, PhaseMoves DEF SendError
<1>10. CASE Cancel \/ ReceiveMessage \/ ReceiveError
  <2>1. UNCHANGED <<out, messages, base, pc, queries, turn, todo>>
    BY <1>10 DEF Cancel, ReceiveMessage, ReceiveError, inputVars, toolVars
  <2> QED
    BY <1>4, <2>1, PhaseMoves
<1> QED
  BY <1>1, <1>2, <1>3, <1>5, <1>6, <1>7, <1>8, <1>9, <1>10

\* A run begins with nothing shown, on what the session remembers.
LEMMA BeginRunRefines ==
  ASSUME BeginRun
  PROVE  Conv!Next
<1>1. Asked' = <<>>
  BY IdsOfEmpty DEF BeginRun, Asked, ShownIds
<1>2. Kept' = Kept /\ Based' = Kept
  BY DEF BeginRun, storeVars, Kept, Based
<1>3. pc = "done" /\ pc' \in {"system", "input", "raise"}
  BY DEF BeginRun, Raise
<1>4. PhaseAt(pc) = "idle" /\ PhaseAt(pc') \in {"asking", "failed"}
  BY <1>3, Phases DEF Asking, Failed
<1>5. OpenCall = NoId /\ OpenCall' = NoId
  BY <1>3 DEF OpenCall, CallOpen
<1> QED
  BY <1>1, <1>2, <1>4, <1>5 DEF Conv!Next, Conv!Ask, Asked, Kept, Based

LEMMA ShowUserRefines ==
  ASSUME TypeInv, ShowUser
  PROVE  Conv!Next
<1>1. UserId \in Ids /\ Asked \in Seq(Ids)
  BY IdsAreTyped, StoredIdsTyped DEF TypeInv, TypeOK
<1>2. Asked' = Append(Asked, UserId)
  BY <1>1, SendShowsId DEF ShowUser, Asked
<1>3. /\ Asked' \in Seq(Ids) /\ Len(Asked') = Len(Asked) + 1
      /\ SubSeq(Asked', 1, Len(Asked)) = Asked
  BY <1>1, <1>2
<1>4. PhaseAt(pc) = "asking" /\ PhaseAt(pc') = "asking"
  BY Phases DEF ShowUser, Asking
<1>5. OpenCall' = OpenCall
  BY DEF ShowUser, OpenCall, CallOpen
<1>6. UNCHANGED <<Kept, Based>>
  BY DEF ShowUser, storeVars, callVars, Kept, Based
<1> QED
  BY <1>3, <1>4, <1>5, <1>6 DEF Conv!Next, Conv!ShowUser, Asked, Kept, Based

\* What is stored is what the session held and this run has shown.
LEMMA StoringRefines ==
  ASSUME ShownInv, Checkpoint \/ SaveSession
  PROVE  Conv!Next
<1>1. HistoryIds(history) = Carried /\ messages' = history
  BY DEF Checkpoint, SaveSession, ShownInv, WholePoints, InputPoints
<1>2. Kept' = Based \o Asked
  BY <1>1 DEF Kept, Based, Carried
<1>3. UNCHANGED <<Asked, Based>>
  BY DEF Checkpoint, SaveSession, channelVars, callVars, Asked, ShownIds, Based
<1>4. OpenCall' = OpenCall
  BY DEF Checkpoint, SaveSession, AfterInput, Raise, OpenCall, CallOpen
<1>5. CASE Checkpoint
  <2>1. Checkpointing
    BY <1>5 DEF Checkpoint, ShownInv
  <2>2. pc = "checkpoint" /\ pc' \in {"raise", "input", "turn"}
    BY <1>5 DEF Checkpoint, AfterInput, Raise
  <2>3. "checkpoint" \in Asking /\ "input" \in Asking /\ "raise" \in Failed
        /\ "turn" \in Thinking
    BY DEF Asking, Failed, Thinking, Labels
  <2>4. PhaseAt(pc) = "asking" /\ PhaseAt(pc') \in {"asking", "thinking", "failed"}
    BY <2>2, <2>3, Phases
  <2> QED
    BY <1>2, <1>3, <1>4, <2>1, <2>4 DEF Conv!Next, Conv!RememberQuestion, Asked, Kept, Based
<1>6. CASE SaveSession
  <2>1. PhaseAt(pc) = "answered" /\ PhaseAt(pc') \in {"idle", "failed"}
    BY <1>6, Phases DEF SaveSession, Raise, Failed
  <2> QED
    BY <1>2, <1>3, <1>4, <2>1 DEF Conv!Next, Conv!RememberAnswer, Asked, Kept, Based
<1> QED
  BY <1>5, <1>6

\* A call is announced and then concluded.
LEMMA CallsRefine ==
  ASSUME TypeInv, ShowToolUse \/ ShowToolResult
  PROVE  Conv!Next
<1> DEFINE id == CallId(Current)
<1>1. id \in Ids /\ id # NoId
  <2>1. Current \in Nat
    BY CurrentIsTodo DEF ShowToolUse, ShowToolResult, TypeInv, TypeOK, LoopBounds, ToolPoints
  <2>2. id # NoId
    BY DEF CallId, NoId
  <2> QED
    BY <2>1, <2>2, IdsAreTyped DEF TypeInv, TypeOK
<1>2. UNCHANGED <<Kept, Based>>
  BY DEF ShowToolUse, ShowToolResult, storeVars, callVars, Kept, Based
<1>3. CASE ShowToolUse
  <2>1. Asked' = Asked
    BY <1>1, <1>3, SendShowsId DEF ShowToolUse, Asked
  <2>2. pc = "tool" /\ pc' = "permission" /\ UNCHANGED <<queries, turn, todo>>
    BY <1>3 DEF ShowToolUse, inputVars, toolVars, callVars
  <2>3. OpenCall = NoId /\ OpenCall' = id
    BY <2>2 DEF OpenCall, CallOpen, CallId, Current
  <2>4. pc \in Thinking /\ pc' \in Thinking
    BY <2>2 DEF Thinking, Labels, SendPoints, Asking, Failed
  <2>5. PhaseAt(pc) = "thinking" /\ PhaseAt(pc') = "thinking"
    BY <2>4, Phases
  <2> HIDE DEF id
  <2> QED
    BY <1>1, <1>2, <2>1, <2>3, <2>5 DEF Conv!Next, Conv!AnnounceCall, Asked, Kept, Based
<1>4. CASE ShowToolResult
  <2>1. \E failed \in BOOLEAN : SendMessage(Message("tool_result", id, failed))
    BY <1>4, Zenon DEF ShowToolResult
  <2>2. Asked' = Append(Asked, id)
    BY <1>1, <2>1, SendShowsId DEF Asked
  <2>3. pc \in {"toolresult", "toolerror"} /\ pc' \in {"tool", "endturn"}
    BY <1>4 DEF ShowToolResult
  <2>4. OpenCall = id /\ OpenCall' = NoId
    BY <2>3 DEF OpenCall, CallOpen
  <2>5. pc \in Thinking /\ pc' \in Thinking
    BY <2>3 DEF Thinking, Labels, SendPoints, Asking, Failed
  <2>6. PhaseAt(pc) = "thinking" /\ PhaseAt(pc') = "thinking"
    BY <2>5, Phases
  <2> HIDE DEF id
  <2> QED
    BY <1>1, <1>2, <2>2, <2>4, <2>6 DEF Conv!Next, Conv!ConcludeCall, Asked, Kept, Based
<1> QED
  BY <1>3, <1>4

(* The loop implements Conversation: calls are announced and concluded one *)
(* at a time, and what the session remembers grows by exactly what was     *)
(* shown, when the run is answered or at a checkpoint, and never when it   *)
(* fails (query_runner.go:270-918).                                        *)
THEOREM LoopImplementsConversation == Spec => ImplementsConversation
<1>1. Init => Conv!Init
  <2> SUFFICES ASSUME Init PROVE Conv!Init
    OBVIOUS
  <2>1. Asked = <<>> /\ Kept = <<>> /\ Based = <<>>
    BY IdsOfEmpty DEF Init, Asked, Kept, Based, ShownIds, HistoryIds
  <2>2. PhaseAt(pc) = "idle" /\ OpenCall = NoId
    BY Phases DEF Init, OpenCall, CallOpen
  <2> QED
    BY <2>1, <2>2 DEF Conv!Init, Asked, Kept, Based
<1>2. TypeInv /\ ShownInv /\ [Next]_vars => [Conv!Next]_Conv!vars
  <2> SUFFICES ASSUME TypeInv, ShownInv, [Next]_vars PROVE [Conv!Next]_Conv!vars
    OBVIOUS
  <2>1. CASE UNCHANGED vars
    BY <2>1, PhaseMoves
    DEF vars, inputVars, toolVars, channelVars, storeVars, callVars, Asked, ShownIds
  <2>2. CASE Next
    BY <2>2, QuietStepsRefine, BeginRunRefines, ShowUserRefines, StoringRefines, CallsRefine
    DEF Next, RunStep
  <2> QED
    BY <2>1, <2>2
<1> QED
  BY <1>1, <1>2, TypesAreInvariant, ShownInvHolds, PTL DEF Spec, ImplementsConversation, Conv!Spec
=============================================================================
