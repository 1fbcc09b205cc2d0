----------------------------- MODULE Stream_proofs -----------------------------
(***************************************************************************)
(* Proofs about Stream, for every number of events, tries and channel      *)
(* capacities: its types, and that an attempt that ends without an error   *)
(* met none and showed the complete answer unless its context cut it       *)
(* short.                                                                  *)
(***************************************************************************)
EXTENDS Stream, TLAPS

\* The event runStream, and the transport, has in hand.
Showing == IF reader = "show" THEN 1 ELSE 0
Sending == IF pc \in {"send", "tail"} THEN 1 ELSE 0

\* Every event shown or on its way was scanned.
Flow == shown + Len(stream) + Showing + Sending <= scanned

Opening == {"start", "try", "body", "refused", "backoff"}

\* Before the stream is open nothing was sent on either channel.
Early ==
  /\ pc \in Opening => errs = <<>>
  /\ pc \in {"start", "try", "backoff"} => attempts < MaxAttempts
  /\ pc = "tail" => scanned = got

TypeInv == TypeOK /\ Flow /\ Early

\* The server, the timers and the caller.
Environment ==
  \/ ServerSends \/ ServerEnds \/ ServerEndsRefusal
  \/ FireTimer \/ OnIdle \/ RequestTimeout \/ Cancel

-----------------------------------------------------------------------------
LEMMA AppendTyped ==
  ASSUME NEW S, NEW s \in Seq(S), NEW e \in S
  PROVE  /\ Append(s, e) \in Seq(S)
         /\ Len(s) \in Nat /\ Len(Append(s, e)) = Len(s) + 1
         /\ Append(s, e) # <<>>
OBVIOUS

LEMMA TailTyped ==
  ASSUME NEW S, NEW s \in Seq(S), s # <<>>
  PROVE  Tail(s) \in Seq(S) /\ Len(s) \in Nat \ {0} /\ Len(Tail(s)) = Len(s) - 1
OBVIOUS

\* What a read can return: only the end of a complete body is no error.
LEMMA ReadErrorsTyped ==
  ASSUME TypeOK, NEW e \in ReadErrors
  PROVE  /\ e \in Errors \cup {"none"}
         /\ e = "none" => answer = "complete" /\ got = sent
BY DEF TypeOK, ReadErrors, BodyErrors, Errors

LEMMA NextCases ==
  [Next]_vars => TransportStep \/ ReaderStep \/ ShowEvent \/ Environment \/ UNCHANGED vars
BY DEF Next, Environment

\* A refused request leaves room on errs.
LEMMA RefusalFits ==
  ASSUME TypeInv, pc \in Opening, NEW e \in Errors,
         errs' = Append(errs, e)
  PROVE  errs' \in Seq(Errors) /\ Len(errs') <= ErrCap
<1>1. errs = <<>> /\ errs \in Seq(Errors) /\ ErrCap \in Nat \ {0}
  BY StreamAssumption DEF TypeInv, TypeOK, ChannelTypes, Early
<1>2. Len(errs) = 0 /\ Len(Append(errs, e)) = Len(errs) + 1
  BY <1>1, AppendTyped
<1> QED
  BY <1>1, <1>2, AppendTyped

LEMMA ChannelTypesKept ==
  ASSUME TypeInv, [Next]_vars
  PROVE  ChannelTypes'
<1> USE DEF ChannelTypes, channelVars
<1>0. ChannelTypes /\ TypeOK /\ ErrCap \in Nat /\ StreamCap \in Nat
  BY StreamAssumption DEF TypeInv, TypeOK
<1>1. ASSUME pc \in Opening, NEW e \in Errors, Refuse(e),
             UNCHANGED <<stream, closed>>
      PROVE  ChannelTypes'
  BY <1>0, <1>1, RefusalFits DEF Refuse
<1>2. CASE BeginRequest \/ TryRequest \/ ReadRefusal \/ Backoff
  BY <1>0, <1>1, <1>2
     DEF BeginRequest, TryRequest, ReadRefusal, RetryOrRefuse, Backoff, Opening, Errors
<1>3. CASE SendEvent
  <2>1. ASSUME HasRoom(stream, StreamCap), stream' = Append(stream, scanned)
        PROVE  stream' \in Seq(1 .. MaxEvents) /\ Len(stream') <= StreamCap
    <3>1. Sending = 1 /\ Len(stream) \in Nat /\ shown \in Nat /\ Showing \in {0, 1}
      BY <1>0, <1>3 DEF SendEvent, Sending, Showing, TypeOK, ReaderTypes
    <3>2. scanned \in 1 .. MaxEvents
      BY <1>0, <3>1, StreamAssumption DEF TypeInv, TypeOK, TransportTypes, Flow
    <3> QED
      BY <1>0, <2>1, <3>2, AppendTyped DEF HasRoom
  <2> QED
    BY <1>0, <1>3, <2>1 DEF SendEvent
<1>4. ASSUME HasRoom(errs, ErrCap), NEW e \in Errors
      PROVE  Append(errs, e) \in Seq(Errors) /\ Len(Append(errs, e)) <= ErrCap
  BY <1>0, <1>4, AppendTyped DEF HasRoom
<1>5. CASE ReportGarbage
  BY <1>0, <1>4, <1>5 DEF ReportGarbage, Errors
<1>6. CASE FinishScan
  <2>1. readErr \in Errors \cup {"none"}
    BY <1>0 DEF TypeOK, TransportTypes
  <2> QED
    BY <1>0, <1>4, <1>6, <2>1 DEF FinishScan
<1>7. CASE Poll \/ ChooseEvent
  <2>1. ASSUME stream # <<>>, stream' = Tail(stream)
        PROVE  stream' \in Seq(1 .. MaxEvents) /\ Len(stream') <= StreamCap
    BY <1>0, <2>1, TailTyped
  <2> QED
    BY <1>0, <1>7, <2>1 DEF Poll, ChooseEvent, TakeEvent, SeeStreamClosed
<1>8. CASE ChooseError
  <2>1. ASSUME errs # <<>>, errs' = Tail(errs)
        PROVE  errs' \in Seq(Errors) /\ Len(errs') <= ErrCap
    BY <1>0, <2>1, TailTyped
  <2> QED
    BY <1>0, <1>8, <2>1 DEF ChooseError
<1>9. CASE \/ StartRead \/ ReadBody \/ ReadEnds \/ ScanEvent \/ ScanDone \/ CloseStream
           \/ EndLoop \/ LeaveCancelled \/ ShowEvent \/ Environment \/ UNCHANGED vars
  BY <1>0, <1>9 DEF StartRead, ReadBody, ReadEnds, ScanEvent, ScanDone, CloseStream, EndLoop,
     LeaveCancelled, ShowEvent, Environment, ServerSends, ServerEnds, ServerEndsRefusal,
     FireTimer, OnIdle, RequestTimeout, Cancel, vars
<1> QED
  BY <1>2, <1>3, <1>5, <1>6, <1>7, <1>8, <1>9, NextCases DEF TransportStep, ReaderStep

LEMMA TransportTypesKept ==
  ASSUME TypeInv, [Next]_vars
  PROVE  TransportTypes' /\ HistoryTypes'
<1> USE StreamAssumption DEF TypeInv, TypeOK, TransportTypes, HistoryTypes, Early,
        transportVars, serverVars, historyVars
<1>1. CASE BeginRequest \/ TryRequest \/ ReadRefusal \/ Backoff
  <2>1. ASSUME NEW e \in Errors, Refuse(e)
        PROVE  pc' = "close" /\ reported' \subseteq Errors
    BY <2>1 DEF Refuse
  <2>2. CASE BeginRequest
    BY <2>1, <2>2 DEF BeginRequest, Errors
  <2>3. CASE TryRequest
    <3>1. attempts' \in 0 .. MaxAttempts
      BY <2>3 DEF TryRequest
    <3>2. HistoryTypes'
      BY <2>1, <2>3 DEF TryRequest, RetryOrRefuse, Errors
    <3>3. TransportTypes'
      BY <2>1, <2>3, <3>1 DEF TryRequest, RetryOrRefuse, Errors
    <3> QED
      BY <3>2, <3>3
  <2>4. CASE Backoff
    BY <2>1, <2>4 DEF Backoff, Errors
  <2>5. CASE ReadRefusal
    BY <2>1, <2>5 DEF ReadRefusal, RetryOrRefuse, Errors
  <2> QED
    BY <1>1, <2>2, <2>3, <2>4, <2>5
<1>2. CASE ReadEnds
  <2>1. PICK e \in ReadErrors :
          readErr' = e /\ reported' = IF e = "none" THEN reported ELSE reported \cup {e}
    BY <1>2 DEF ReadEnds
  <2>2. e \in Errors \cup {"none"}
    BY <2>1, ReadErrorsTyped
  <2>3. HistoryTypes' /\ readErr' \in Errors \cup {"none"}
    BY <1>2, <2>1, <2>2 DEF ReadEnds
  <2> QED
    BY <1>2, <2>3 DEF ReadEnds
<1>3. CASE StartRead \/ ReadBody \/ FinishScan
  BY <1>3 DEF StartRead, ReadBody, FinishScan
<1>6. CASE ScanEvent \/ ScanDone
  <2>1. reported' \subseteq Errors /\ TransportTypes'
    BY <1>6 DEF ScanEvent, ScanDone, CutShort
  <2>2. cutShort' = TRUE \/ cutShort' = cutShort
    BY <1>6, Zenon DEF ScanEvent, ScanDone, CutShort
  <2>3. cutShort' \in BOOLEAN
    BY <2>2, Zenon
  <2> QED
    BY <2>1, <2>3
<1>7. CASE SendEvent
  BY <1>7 DEF SendEvent, CutShort
<1>8. CASE ReportGarbage
  BY <1>8 DEF ReportGarbage, Errors
<1>9. CASE CloseStream
  BY <1>9 DEF CloseStream
<1>4. CASE ReaderStep \/ ShowEvent \/ UNCHANGED vars
  BY <1>4 DEF ReaderStep, EndLoop, Poll, ChooseEvent, ChooseError, LeaveCancelled,
     ShowEvent, vars
<1>5. CASE Environment
  <2>1. CASE ServerSends \/ ServerEnds \/ ServerEndsRefusal \/ FireTimer
    BY <1>5, <2>1 DEF ServerSends, ServerEnds, ServerEndsRefusal, FireTimer
  <2>2. CASE OnIdle \/ RequestTimeout \/ Cancel
    BY <2>2 DEF OnIdle, AbortStream, RequestTimeout, Cancel
  <2> QED
    BY <1>5, <2>1, <2>2 DEF Environment
<1> QED
  BY <1>1, <1>2, <1>3, <1>4, <1>5, <1>6, <1>7, <1>8, <1>9, NextCases DEF TransportStep

LEMMA EarlyKept ==
  ASSUME TypeInv, [Next]_vars
  PROVE  Early'
<1> USE StreamAssumption DEF TypeInv, TypeOK, TransportTypes, Early,
        transportVars, serverVars, channelVars
<1> USE DEF Opening
<1>1. CASE BeginRequest \/ TryRequest \/ Backoff
  BY <1>1 DEF BeginRequest, TryRequest, RetryOrRefuse, Backoff, Refuse
<1>4. CASE ReadRefusal
  BY <1>4 DEF ReadRefusal, RetryOrRefuse, Refuse
<1>5. CASE StartRead \/ ReadBody \/ ReadEnds \/ ScanEvent \/ ScanDone
  BY <1>5 DEF StartRead, ReadBody, ReadEnds, ScanEvent, ScanDone, CutShort
<1>6. CASE SendEvent \/ ReportGarbage \/ FinishScan \/ CloseStream
  BY <1>6 DEF SendEvent, ReportGarbage, FinishScan, CloseStream, CutShort
<1>2. CASE ReaderStep \/ ShowEvent \/ UNCHANGED vars
  BY <1>2 DEF ReaderStep, EndLoop, Poll, TakeEvent, SeeStreamClosed, ChooseEvent,
     ChooseError, LeaveCancelled, ShowEvent, vars
<1>3. CASE Environment
  BY <1>3 DEF Environment, ServerSends, ServerEnds, ServerEndsRefusal, FireTimer,
     OnIdle, RequestTimeout, Cancel
<1> QED
  BY <1>1, <1>2, <1>3, <1>4, <1>5, <1>6, NextCases DEF TransportStep

\* No step makes an event out of nothing.
LEMMA FlowKept ==
  ASSUME TypeInv, [Next]_vars
  PROVE  Flow'
<1>0. /\ shown \in Nat /\ scanned \in Nat /\ got \in Nat
      /\ Len(stream) \in Nat /\ stream \in Seq(1 .. MaxEvents)
      /\ Showing \in {0, 1} /\ Sending \in {0, 1}
      /\ shown + Len(stream) + Showing + Sending <= scanned
  BY StreamAssumption DEF TypeInv, TypeOK, TransportTypes, ChannelTypes, ReaderTypes,
     Flow, Showing, Sending
<1>1. CASE /\ UNCHANGED <<shown, stream, reader>> /\ scanned' = scanned
           /\ (pc' \in {"send", "tail"} => pc \in {"send", "tail"})
  <2>1. Showing' = Showing /\ Sending' <= Sending /\ Sending' \in {0, 1}
    BY <1>1 DEF Showing, Sending
  <2> QED
    BY <1>0, <1>1, <2>1 DEF Flow
<1>2. CASE ScanEvent \/ ReadEnds
  <2>1. Showing' = Showing /\ Sending = 0 /\ UNCHANGED <<shown, stream>>
    BY <1>2 DEF ScanEvent, ReadEnds, Showing, Sending, channelVars, readerVars
  <2>2. \/ scanned' = scanned /\ Sending' = 0
        \/ scanned' = scanned + 1 /\ Sending' \in {0, 1}
    BY <1>0, <1>2 DEF ScanEvent, ReadEnds, CutShort, Sending
  <2> QED
    BY <1>0, <2>1, <2>2 DEF Flow
<1>3. CASE SendEvent
  <2>1. Showing' = Showing /\ Sending = 1 /\ Sending' = 0 /\ UNCHANGED <<shown, scanned>>
    BY <1>3 DEF SendEvent, CutShort, Showing, Sending, readerVars
  <2>2. scanned \in 1 .. MaxEvents
    BY <1>0, <2>1, StreamAssumption DEF TypeInv, TypeOK, TransportTypes
  <2>3. Len(stream') = Len(stream) \/ Len(stream') = Len(stream) + 1
    BY <1>0, <1>3, <2>2, AppendTyped DEF SendEvent
  <2> QED
    BY <1>0, <2>1, <2>3 DEF Flow
<1>4. CASE Poll \/ ChooseEvent \/ EndLoop \/ ChooseError \/ LeaveCancelled
  <2>1. Sending' = Sending /\ UNCHANGED <<shown, scanned>>
    BY <1>4 DEF Poll, ChooseEvent, EndLoop, ChooseError, LeaveCancelled, Sending,
       transportVars
  <2>2. \/ stream' = stream /\ Showing' = 0
        \/ stream # <<>> /\ stream' = Tail(stream) /\ Showing = 0 /\ Showing' = 1
    BY <1>4 DEF Poll, ChooseEvent, EndLoop, ChooseError, LeaveCancelled, ReaderReturns,
       TakeEvent, SeeStreamClosed, Showing, channelVars
  <2> QED
    BY <1>0, <2>1, <2>2, TailTyped DEF Flow
<1>5. CASE ShowEvent
  <2>1. /\ Sending' = Sending /\ Showing = 1 /\ Showing' = 0
        /\ shown' = shown + 1 /\ UNCHANGED <<stream, scanned>>
    BY <1>5 DEF ShowEvent, Sending, Showing, transportVars, channelVars
  <2> QED
    BY <1>0, <2>1 DEF Flow
<1>6. CASE \/ BeginRequest \/ TryRequest \/ ReadRefusal \/ Backoff \/ StartRead \/ ReadBody
           \/ ScanDone \/ ReportGarbage \/ FinishScan \/ CloseStream
  BY <1>1, <1>6 DEF BeginRequest, TryRequest, ReadRefusal, RetryOrRefuse, Backoff, Refuse,
     StartRead, ReadBody, ScanDone, CutShort, ReportGarbage, FinishScan, CloseStream,
     channelVars, readerVars
<1>7. CASE Environment \/ UNCHANGED vars
  BY <1>1, <1>7 DEF Environment, ServerSends, ServerEnds, ServerEndsRefusal,
     FireTimer, OnIdle, RequestTimeout, Cancel, vars, transportVars, channelVars, readerVars
<1> QED
  BY <1>2, <1>3, <1>4, <1>5, <1>6, <1>7, NextCases DEF TransportStep, ReaderStep

LEMMA ReaderTypesKept ==
  ASSUME TypeInv, [Next]_vars
  PROVE  ReaderTypes'
<1> USE DEF ReaderTypes, readerVars
<1>0. ReaderTypes /\ TypeOK /\ MaxEvents \in Nat
  BY StreamAssumption DEF TypeInv, TypeOK
<1>1. CASE ShowEvent
  <2>1. /\ Showing = 1 /\ Sending \in {0, 1} /\ Len(stream) \in Nat
        /\ scanned \in Nat /\ scanned <= MaxEvents /\ shown \in Nat
    BY <1>0, <1>1 DEF ShowEvent, Showing, Sending, TypeOK, ChannelTypes, TransportTypes
  <2>2. shown + 1 <= MaxEvents
    BY <1>0, <2>1 DEF TypeInv, Flow
  <2> QED
    BY <1>0, <1>1, <2>1, <2>2 DEF ShowEvent
<1>2. CASE ReaderStep
  BY <1>0, <1>2 DEF ReaderStep, EndLoop, Poll, TakeEvent, SeeStreamClosed, ChooseEvent,
     ChooseError, LeaveCancelled, ReaderReturns
<1>3. CASE TransportStep
  BY <1>0, <1>3 DEF TransportStep, BeginRequest, TryRequest, ReadRefusal, RetryOrRefuse,
     Backoff, StartRead, ReadBody,
     ReadEnds, ScanEvent, ScanDone, SendEvent, ReportGarbage, FinishScan, CloseStream
<1>4. CASE Environment \/ UNCHANGED vars
  BY <1>0, <1>4 DEF Environment, ServerSends, ServerEnds, ServerEndsRefusal,
     FireTimer, OnIdle, RequestTimeout, Cancel, vars
<1> QED
  BY <1>1, <1>2, <1>3, <1>4, NextCases

LEMMA TypesAreInvariant == Spec => []TypeInv
<1>1. Init => TypeInv
  <2>1. ASSUME Init
        PROVE  TransportTypes /\ HistoryTypes
    <3>1. aborted \in BOOLEAN /\ cancelled \in BOOLEAN /\ cutShort \in BOOLEAN
      BY <2>1, Zenon DEF Init
    <3>2. reported \subseteq Errors
      BY <2>1 DEF Init
    <3> QED
      BY <2>1, <3>1, <3>2, StreamAssumption DEF Init, TransportTypes, HistoryTypes
  <2>3. ASSUME Init
        PROVE  ReaderTypes /\ Early
    BY <2>3, StreamAssumption DEF Init, ReaderTypes, Early
  <2>2. ASSUME Init
        PROVE  ChannelTypes /\ Flow
    <3>1. StreamCap \in Nat /\ ErrCap \in Nat
      BY StreamAssumption
    <3>4. closed \in BOOLEAN
      BY <2>2, Zenon DEF Init
    <3>5. stream \in Seq(1 .. MaxEvents) /\ Len(stream) = 0
      BY <2>2 DEF Init
    <3>6. errs \in Seq(Errors) /\ Len(errs) = 0
      BY <2>2 DEF Init
    <3>2. ChannelTypes
      BY <3>1, <3>4, <3>5, <3>6 DEF ChannelTypes
    <3>3. Flow
      BY <2>2 DEF Init, Flow, Showing, Sending
    <3> QED
      BY <3>2, <3>3
  <2> QED
    BY <2>1, <2>2, <2>3 DEF TypeInv, TypeOK
<1>2. TypeInv /\ [Next]_vars => TypeInv'
  BY ChannelTypesKept, TransportTypesKept, EarlyKept, FlowKept, ReaderTypesKept
     DEF TypeInv, TypeOK
<1> QED
  BY <1>1, <1>2, PTL DEF Spec

(* The variables of the transport and of runStream keep their types and    *)
(* the channels their capacities.                                          *)
THEOREM TypeCorrect == Spec => []TypeOK
<1>1. TypeInv => TypeOK
  BY DEF TypeInv
<1> QED
  BY <1>1, TypesAreInvariant, PTL

-----------------------------------------------------------------------------
(* CleanEnd.  What each step must keep for it, as long as runStream has    *)
(* neither returned an error nor been cancelled.                           *)

Running == outcome \in {"none", "whole"}

\* The event the transport has in hand, one that is no JSON included.
Holding == IF pc \in {"send", "tail", "garbage"} THEN 1 ELSE 0

\* No event is lost without a trace.
NoneLost ==
  Running => reported # {} \/ cutShort
             \/ scanned = shown + Len(stream) + Showing + Holding

\* An error that was met waits on errs, or the transport is about to put it there.
ErrorWaits ==
  /\ Running /\ reported # {} =>
       errs # <<>> \/ (pc \in {"finish", "tail", "tailgarbage"} /\ readErr # "none")
  /\ readErr # "none" => reported # {}
  /\ pc = "tailgarbage" => readErr # "none"

\* The transport stops of its own accord only at the end of the answer.
StopsAtEnd ==
  reported = {} /\ (pc \in {"finish", "tail"} \/ (pc \in {"close", "ended"} /\ ~cutShort))
    => answer = "complete" /\ got = sent /\ scanned = got

\* runStream drops a channel when it is closed and empty, and ends with both.
DropsWhenEmpty ==
  /\ closed <=> pc = "ended"
  /\ ~streamOpen => closed /\ stream = <<>>
  /\ ~errsOpen => closed /\ errs = <<>>
  /\ outcome = "whole" => ~streamOpen /\ ~errsOpen /\ reader = "over"
  /\ reader = "over" <=> outcome # "none"

CleanInv == NoneLost /\ ErrorWaits /\ StopsAtEnd /\ DropsWhenEmpty

LEMMA DropsKept ==
  ASSUME TypeInv, DropsWhenEmpty, [Next]_vars
  PROVE  DropsWhenEmpty'
<1> USE DEF DropsWhenEmpty
<1>1. CASE \/ BeginRequest \/ TryRequest \/ ReadRefusal \/ Backoff
           \/ StartRead \/ ReadBody \/ ReadEnds
  BY <1>1 DEF BeginRequest, TryRequest, ReadRefusal, RetryOrRefuse,
     Backoff, Refuse, StartRead, ReadBody, ReadEnds,
     channelVars, readerVars
<1>2. CASE ScanEvent \/ ScanDone \/ SendEvent \/ ReportGarbage \/ FinishScan
  BY <1>2 DEF ScanEvent, ScanDone, SendEvent, CutShort, ReportGarbage, FinishScan,
     channelVars,
     readerVars
<1>3. CASE CloseStream
  BY <1>3 DEF CloseStream, readerVars
<1>4. CASE EndLoop \/ LeaveCancelled \/ ShowEvent
  BY <1>4 DEF EndLoop, LeaveCancelled, ShowEvent, ReaderReturns, ChannelsClosed,
     channelVars, transportVars
<1>5. CASE Poll \/ ChooseEvent
  BY <1>5 DEF Poll, ChooseEvent, TakeEvent, SeeStreamClosed, transportVars
<1>6. CASE ChooseError
  BY <1>6 DEF ChooseError, ReaderReturns, transportVars
<1>7. CASE Environment \/ UNCHANGED vars
  BY <1>7 DEF Environment, ServerSends, ServerEnds, ServerEndsRefusal,
     FireTimer, OnIdle, RequestTimeout, Cancel, vars, transportVars, channelVars, readerVars
<1> QED
  BY <1>1, <1>2, <1>3, <1>4, <1>5, <1>6, <1>7, NextCases DEF TransportStep, ReaderStep

LEMMA ErrorWaitsKept ==
  ASSUME TypeInv, ErrorWaits, DropsWhenEmpty, [Next]_vars
  PROVE  ErrorWaits'
<1> USE DEF ErrorWaits, Running
<1>0. errs \in Seq(Errors) /\ ErrCap \in Nat \ {0} /\ "none" \notin Errors
  BY StreamAssumption DEF TypeInv, TypeOK, ChannelTypes, Errors
<1>1. CASE BeginRequest \/ TryRequest \/ ReadRefusal \/ Backoff
  <2>1. ASSUME NEW e \in Errors, Refuse(e)
        PROVE  errs' # <<>> /\ reported' # {} /\ pc' = "close"
    BY <1>0, <2>1, AppendTyped DEF Refuse
  <2> QED
    BY <1>1, <2>1 DEF BeginRequest, TryRequest, ReadRefusal, RetryOrRefuse, Backoff, Errors,
       readerVars
<1>2. CASE ReadEnds
  BY <1>2 DEF ReadEnds, channelVars, readerVars
<1>3. CASE StartRead \/ ReadBody \/ ScanEvent \/ ScanDone \/ SendEvent \/ CloseStream
  BY <1>3 DEF StartRead, ReadBody, ScanEvent, ScanDone, SendEvent, CutShort, CloseStream,
     channelVars, readerVars, historyVars
<1>4. CASE ReportGarbage
  <2>1. Append(errs, "garbage") # <<>>
    BY <1>0, AppendTyped DEF Errors
  <2> QED
    BY <1>4, <2>1 DEF ReportGarbage, readerVars
<1>5. CASE FinishScan
  <2>1. readErr # "none" => errs' # <<>>
    <3>1. ASSUME readErr # "none", HasRoom(errs, ErrCap)
          PROVE  errs' # <<>>
      <4>1. readErr \in Errors
        BY <3>1 DEF TypeInv, TypeOK, TransportTypes
      <4> QED
        BY <1>0, <1>5, <3>1, <4>1, AppendTyped DEF FinishScan
    <3>2. ASSUME ~HasRoom(errs, ErrCap)
          PROVE  errs' # <<>>
      BY <1>0, <1>5, <3>2 DEF FinishScan, HasRoom
    <3> QED
      BY <3>1, <3>2
  <2>2. errs # <<>> => errs' # <<>>
    BY <1>0, <1>5, <2>1 DEF FinishScan
  <2> QED
    BY <1>5, <2>1, <2>2 DEF FinishScan, readerVars, historyVars
<1>6. CASE ReaderStep \/ ShowEvent
  BY <1>6 DEF ReaderStep, EndLoop, Poll, TakeEvent, SeeStreamClosed, ChooseEvent,
     ChooseError, LeaveCancelled, ShowEvent, ReaderReturns, DropsWhenEmpty, transportVars,
     channelVars, historyVars
<1>7. CASE Environment \/ UNCHANGED vars
  BY <1>7 DEF Environment, ServerSends, ServerEnds, ServerEndsRefusal,
     FireTimer, OnIdle, RequestTimeout, Cancel, vars, transportVars, channelVars,
     readerVars, historyVars
<1> QED
  BY <1>1, <1>2, <1>3, <1>4, <1>5, <1>6, <1>7, NextCases DEF TransportStep

LEMMA StopsAtEndKept ==
  ASSUME TypeInv, ErrorWaits, StopsAtEnd, [Next]_vars
  PROVE  StopsAtEnd'
<1> USE DEF StopsAtEnd
<1>1. CASE BeginRequest \/ TryRequest \/ ReadRefusal \/ Backoff
  <2>1. ASSUME NEW e \in Errors, Refuse(e)
        PROVE  reported' # {}
    BY <2>1 DEF Refuse
  <2> QED
    BY <1>1, <2>1 DEF BeginRequest, TryRequest, ReadRefusal, RetryOrRefuse, Backoff, Errors
<1>2. CASE ReadEnds
  <2>1. PICK e \in ReadErrors :
          /\ reported' = IF e = "none" THEN reported ELSE reported \cup {e}
          /\ \/ scanned = got /\ pc' = "finish" /\ UNCHANGED scanned
             \/ scanned = got /\ e # "none" /\ pc' = "tailgarbage" /\ UNCHANGED scanned
             \/ scanned + 1 = got /\ pc' = "tail" /\ scanned' = got
    BY <1>2 DEF ReadEnds
  <2>2. ASSUME reported' = {}
        PROVE  answer = "complete" /\ got = sent
    BY <2>1, <2>2, ReadErrorsTyped DEF TypeInv
  <2> QED
    BY <1>2, <2>1, <2>2 DEF ReadEnds, serverVars
<1>3. CASE StartRead \/ ReadBody \/ ScanEvent \/ ScanDone
  BY <1>3 DEF StartRead, ReadBody, ScanEvent, ScanDone, CutShort, serverVars, historyVars
<1>4. CASE SendEvent
  BY <1>4 DEF SendEvent, CutShort, serverVars
<1>5. CASE ReportGarbage
  BY <1>5 DEF ReportGarbage, ErrorWaits, serverVars
<1>6. CASE FinishScan \/ CloseStream
  BY <1>6 DEF FinishScan, CloseStream, serverVars, historyVars
<1>7. CASE ReaderStep \/ ShowEvent \/ UNCHANGED vars
  BY <1>7 DEF ReaderStep, EndLoop, Poll, ChooseEvent, ChooseError, LeaveCancelled,
     ShowEvent, vars, transportVars, serverVars, historyVars
<1>8. CASE Environment
  BY <1>8 DEF Environment, ServerSends, ServerEnds, ServerEndsRefusal,
     FireTimer, OnIdle, RequestTimeout, Cancel, transportVars, serverVars, historyVars
<1> QED
  BY <1>1, <1>2, <1>3, <1>4, <1>5, <1>6, <1>7, <1>8, NextCases DEF TransportStep

LEMMA NoneLostKept ==
  ASSUME TypeInv, NoneLost, DropsWhenEmpty, [Next]_vars
  PROVE  NoneLost'
<1> USE DEF NoneLost, Running
<1>0. /\ shown \in Nat /\ scanned \in Nat /\ got \in Nat
      /\ Len(stream) \in Nat /\ stream \in Seq(1 .. MaxEvents)
      /\ Showing \in {0, 1} /\ Holding \in {0, 1}
  BY StreamAssumption DEF TypeInv, TypeOK, TransportTypes, ChannelTypes, ReaderTypes,
     Showing, Holding
\* Most steps of the transport touch neither the events nor what holds them.
<1>1. CASE \/ BeginRequest \/ TryRequest \/ ReadRefusal \/ Backoff \/ StartRead \/ ReadBody
           \/ FinishScan \/ CloseStream
  <2>1. /\ UNCHANGED <<shown, stream, reader, outcome, scanned, cutShort>>
        /\ reported # {} => reported' # {}
        /\ Holding' = Holding
    BY <1>1 DEF BeginRequest, TryRequest, ReadRefusal, RetryOrRefuse,
     Backoff, Refuse, StartRead, ReadBody, FinishScan,
       CloseStream, Holding, channelVars, readerVars, historyVars
  <2> QED
    BY <1>0, <2>1 DEF Showing
<1>2. CASE ScanEvent
  <2>1. /\ UNCHANGED <<shown, stream, reader, outcome, reported>>
        /\ Holding = 0
        /\ cutShort' \/ (cutShort' = cutShort /\ scanned' = scanned + 1 /\ Holding' = 1)
    BY <1>2 DEF ScanEvent, CutShort, Holding, channelVars, readerVars
  <2> QED
    BY <1>0, <2>1 DEF Showing
<1>9. CASE ScanDone
  <2>1. /\ UNCHANGED <<shown, stream, reader, outcome, reported, scanned>>
        /\ Holding = 0 /\ Holding' = 0
        /\ cutShort' \/ cutShort' = cutShort
    BY <1>9 DEF ScanDone, CutShort, Holding, channelVars, readerVars
  <2> QED
    BY <1>0, <2>1 DEF Showing
<1>3. CASE ReadEnds
  <2>1. /\ UNCHANGED <<shown, stream, reader, outcome, cutShort>>
        /\ Holding = 0
        /\ reported # {} => reported' # {}
        /\ \/ scanned' = scanned /\ Holding' = 0
           \/ scanned' = scanned + 1 /\ Holding' = 1
    BY <1>0, <1>3 DEF ReadEnds, Holding, channelVars, readerVars
  <2> QED
    BY <1>0, <2>1 DEF Showing
<1>4. CASE SendEvent
  <2>1. scanned \in 1 .. MaxEvents
    BY <1>0, <1>4, StreamAssumption
       DEF SendEvent, TypeInv, TypeOK, TransportTypes, Flow, Sending
  <2>2. /\ UNCHANGED <<shown, reader, outcome, reported, scanned>>
        /\ Holding = 1 /\ Holding' = 0
        /\ cutShort' \/ (cutShort' = cutShort /\ Len(stream') = Len(stream) + 1)
    BY <1>0, <1>4, <2>1, AppendTyped DEF SendEvent, CutShort, Holding, readerVars
  <2> QED
    BY <1>0, <2>2 DEF Showing
<1>5. CASE ReportGarbage
  <2>1. (reported' # {} \/ cutShort') /\ outcome' = outcome
    BY <1>5 DEF ReportGarbage, readerVars
  <2> QED
    BY <2>1
<1>6. CASE ReaderStep
  <2>1. Holding' = Holding /\ UNCHANGED <<shown, scanned, reported, cutShort>>
    BY <1>6 DEF ReaderStep, EndLoop, Poll, ChooseEvent, ChooseError, LeaveCancelled,
       Holding, transportVars, historyVars
  <2>2. ASSUME outcome' \in {"none", "whole"}
        PROVE  /\ outcome \in {"none", "whole"}
               /\ \/ stream' = stream /\ Showing = 0 /\ Showing' = 0
                  \/ stream # <<>> /\ stream' = Tail(stream) /\ Showing = 0 /\ Showing' = 1
    BY <1>6, <2>2 DEF ReaderStep, EndLoop, Poll, ChooseEvent, ChooseError, LeaveCancelled,
       ReaderReturns, TakeEvent, SeeStreamClosed, Showing, DropsWhenEmpty, channelVars
  <2> QED
    BY <1>0, <2>1, <2>2, TailTyped
<1>7. CASE ShowEvent
  <2>1. /\ Holding' = Holding /\ Showing = 1 /\ Showing' = 0 /\ shown' = shown + 1
        /\ UNCHANGED <<stream, scanned, reported, cutShort, outcome>>
    BY <1>7 DEF ShowEvent, Holding, Showing, transportVars, channelVars, historyVars
  <2> QED
    BY <1>0, <2>1
<1>8. CASE Environment \/ UNCHANGED vars
  <2>1. /\ UNCHANGED <<shown, stream, reader, outcome, scanned, cutShort, reported>>
        /\ Holding' = Holding
    BY <1>8 DEF Holding, Environment, ServerSends, ServerEnds, ServerEndsRefusal,
     FireTimer, OnIdle, RequestTimeout, Cancel, vars, transportVars, channelVars,
     readerVars, historyVars
  <2> QED
    BY <1>0, <2>1 DEF Showing
<1> QED
  BY <1>1, <1>2, <1>3, <1>4, <1>5, <1>6, <1>7, <1>8, <1>9, NextCases DEF TransportStep

LEMMA CleanInvImplies ==
  ASSUME TypeInv, CleanInv
  PROVE  CleanEnd
<1> SUFFICES ASSUME outcome = "whole"
             PROVE  reported = {} /\ (cutShort \/ (answer = "complete" /\ shown = sent))
  BY DEF CleanEnd
<1>1. pc = "ended" /\ stream = <<>> /\ errs = <<>> /\ reader = "over"
  BY DEF CleanInv, DropsWhenEmpty
<1>2. reported = {}
  BY <1>1 DEF CleanInv, ErrorWaits, Running
<1>3. ASSUME ~cutShort
      PROVE  answer = "complete" /\ shown = sent
  <2>1. scanned = shown + Len(stream) + Showing + Holding
    BY <1>2, <1>3 DEF CleanInv, NoneLost, Running
  <2>2. Len(stream) = 0 /\ Showing = 0 /\ Holding = 0 /\ shown \in Nat
    BY <1>1 DEF Showing, Holding, TypeInv, TypeOK, ReaderTypes
  <2>3. answer = "complete" /\ scanned = sent
    BY <1>1, <1>2, <1>3 DEF CleanInv, StopsAtEnd
  <2> QED
    BY <2>1, <2>2, <2>3
<1> QED
  BY <1>2, <1>3

(* An attempt that runStream ends without an error met none, and showed    *)
(* every event of a complete answer unless its own context cut it short.   *)
THEOREM CleanEndsAreClean == Spec => []CleanEnd
<1>1. Init => CleanInv
  BY DEF Init, CleanInv, NoneLost, ErrorWaits, StopsAtEnd, DropsWhenEmpty, Showing, Holding
<1>2. TypeInv /\ CleanInv /\ [Next]_vars => CleanInv'
  BY DropsKept, ErrorWaitsKept, StopsAtEndKept, NoneLostKept DEF CleanInv
<1>3. TypeInv /\ CleanInv => CleanEnd
  BY CleanInvImplies
<1> QED
  BY <1>1, <1>2, <1>3, TypesAreInvariant, PTL DEF Spec
=============================================================================
