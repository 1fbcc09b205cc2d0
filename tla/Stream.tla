-------------------------------- MODULE Stream --------------------------------
(***************************************************************************)
(* One attempt at a completion: HTTPTransport.CreateStream with doRequest, *)
(* IdleReader and ParseSSE on one side, the two selects of runStream on    *)
(* the other, and the server in between.                                   *)
(*                                                                         *)
(* The transport is one goroutine: it tries the request, then scans the    *)
(* body and sends one event after the other.  Its context streamCtx is     *)
(* done when the caller's is, when the RequestTimeout has passed, or when  *)
(* the idle timer has fired; runStream knows only the caller's context.    *)
(* Time is abstracted: a timer that runs can fire, however busy the        *)
(* stream, because it is reset by reads and the transport also waits where *)
(* it does not read.  Keepalive comments only reset it and are left out.   *)
(***************************************************************************)
EXTENDS Integers, SequencesExt

CONSTANTS
  MaxEvents,   \* bound: events the server sends
  MaxAttempts, \* tries of doRequest (3 in the code)
  StreamCap,   \* capacity of the channel of events (32 in the code)
  ErrCap,      \* capacity of the channel of errors (4 in the code)
  IdleTimeout, \* the stream idle timeout is not 0
  Deadline     \* opts.RequestTimeout is set

ASSUME StreamAssumption ==
  /\ {MaxAttempts, StreamCap, ErrCap} \subseteq Nat \ {0}
  /\ MaxEvents \in Nat
  /\ {IdleTimeout, Deadline} \subseteq BOOLEAN

VARIABLES
  answer,    \* the server's answer: "streaming", "complete" or "broken"
  sent,      \* events the server has sent
  pc,        \* where the transport is ("body", "refused": of an answer that is no stream)
  attempts,  \* requests it has made
  got,       \* events read from the body
  scanned,   \* events taken out of the scanner
  readErr,   \* the error its last read returned, or "none"
  timer,     \* of the IdleReader: "off", "running", "fired" or "stopped"
  aborted,   \* streamCtx is done
  cancelled, \* the caller's ctx is done
  stream, errs, closed, \* the two channels; closed together
  reader,    \* where runStream is
  streamOpen, errsOpen, \* streamCh # nil, errCh # nil
  shown,     \* events runStream put on the run's channel
  outcome,   \* what runStream returned: "none", "whole", "error", "cancelled"
  reported,  \* history variable: errors the transport met
  cutShort   \* history variable: it left because streamCtx was done

serverVars    == <<answer, sent>>
transportVars == <<pc, attempts, got, scanned, readErr>>
channelVars   == <<stream, errs, closed>>
readerVars    == <<reader, streamOpen, errsOpen, shown, outcome>>
historyVars   == <<reported, cutShort>>
vars == <<serverVars, transportVars, timer, aborted, cancelled, channelVars,
          readerVars, historyVars>>

Init ==
  /\ answer = "streaming" /\ sent = 0
  /\ pc = "start" /\ attempts = 0 /\ got = 0 /\ scanned = 0 /\ readErr = "none"
  /\ timer = "off" /\ aborted = FALSE /\ cancelled = FALSE
  /\ stream = <<>> /\ errs = <<>> /\ closed = FALSE
  /\ reader = "poll" /\ streamOpen = TRUE /\ errsOpen = TRUE
  /\ shown = 0 /\ outcome = "none"
  /\ reported = {} /\ cutShort = FALSE

-----------------------------------------------------------------------------
(* The request.                                                            *)

OneTooMany(ch, cap) == Len(ch) <= cap          \* slip: off by one
HasRoom(ch, cap)    == Len(ch) < cap

\* errs <- err, close(out), close(errs); nothing was sent on errs before.
Refuse(e) ==
  /\ pc' = "close"
  /\ errs' = Append(errs, e)
  /\ reported' = reported \cup {e}

\* t.Start or json.Marshal may fail.
BeginRequest ==
  /\ pc = "start"
  /\ \/ pc' = "try" /\ UNCHANGED <<errs, reported>>
     \/ Refuse("request")
  /\ UNCHANGED <<serverVars, attempts, got, scanned, readErr, timer, aborted,
                 cancelled, stream, closed, readerVars, cutShort>>

\* A connection error, 429 and 5xx are tried again; nothing else is.
RetryOrRefuse(n) ==
  \/ n < MaxAttempts /\ pc' = "backoff" /\ UNCHANGED <<errs, reported>>
  \/ Refuse("status")

(* client.Do: an event stream; another answer, whose body is read to its   *)
(* end first; or no answer.                                                *)
TryRequest ==
  /\ pc = "try"
  /\ attempts' = attempts + 1
  /\ \/ /\ ~aborted /\ pc' = "scan"
        /\ timer' = IF IdleTimeout THEN "running" ELSE "off"
        /\ UNCHANGED <<errs, reported>>
     \/ ~aborted /\ pc' = "body" /\ UNCHANGED <<timer, errs, reported>>
     \/ RetryOrRefuse(attempts') /\ UNCHANGED timer
  /\ UNCHANGED <<serverVars, got, scanned, readErr, aborted, cancelled, stream,
                 closed, readerVars, cutShort>>

\* io.ReadAll has come to the end of that body, or failed with its context.
ReadRefusal ==
  /\ pc = "refused" \/ (pc = "body" /\ aborted)
  /\ RetryOrRefuse(attempts)
  /\ UNCHANGED <<serverVars, attempts, got, scanned, readErr, timer, aborted, cancelled,
                 stream, closed, readerVars, cutShort>>

Backoff ==
  /\ pc = "backoff"
  /\ \/ pc' = "try" /\ UNCHANGED <<errs, reported>>
     \/ aborted /\ Refuse("ctx")
  /\ UNCHANGED <<serverVars, attempts, got, scanned, readErr, timer, aborted,
                 cancelled, stream, closed, readerVars, cutShort>>

-----------------------------------------------------------------------------
(* ParseSSE.                                                               *)

\* The scanner has no whole line left, and the timer has not fired when Read is called.
StartRead ==
  /\ pc = "scan" /\ got - scanned <= 1 /\ timer # "fired"
  /\ pc' = "read"
  /\ UNCHANGED <<serverVars, attempts, got, scanned, readErr, timer, aborted,
                 cancelled, channelVars, readerVars, historyVars>>

\* A read that returns data resets the timer unless it has fired.
ReadBody ==
  /\ pc = "read"
  /\ \E n \in got + 1 .. sent : got' = n
  /\ pc' = "scan"
  /\ UNCHANGED <<serverVars, attempts, scanned, readErr, timer, aborted, cancelled,
                 channelVars, readerVars, historyVars>>

(* The error of a read, "none" for the end of the body: the idle error if  *)
(* the timer had fired when Read was called, or has fired in the meantime. *)
BodyErrors ==
  {e \in {"ctx", "broken", "none"} :
     \/ e = "ctx" /\ aborted
     \/ e = "broken" /\ got = sent /\ answer = "broken"
     \/ e = "none" /\ got = sent /\ answer = "complete"}
ReadErrors ==
  IF timer = "fired" /\ (pc = "scan" \/ BodyErrors # {}) THEN {"idle"}
  ELSE {e \in BodyErrors : pc = "read"}

(* Scan returns false.  Before the error is reported what is left without  *)
(* its empty line is flushed: an event, or a part of one.                  *)
ReadEnds ==
  /\ pc \in {"scan", "read"}
  /\ \E e \in ReadErrors :
       /\ readErr' = e
       /\ reported' = IF e = "none" THEN reported ELSE reported \cup {e}
       /\ \/ scanned = got /\ pc' = "finish" /\ UNCHANGED scanned
          \/ scanned = got /\ e # "none" /\ pc' = "tailgarbage" /\ UNCHANGED scanned
          \/ scanned + 1 = got /\ pc' = "tail" /\ scanned' = got
  /\ UNCHANGED <<serverVars, attempts, got, timer, aborted, cancelled, channelVars,
                 readerVars, cutShort>>

\* case <-ctx.Done(): return
CutShort == pc' = "close" /\ cutShort' = TRUE

(* The line [DONE] comes after the last event, in the read that brought    *)
(* that or in one of its own.  What follows it is not read.                *)
ScanDone ==
  /\ pc \in {"scan", "read"} /\ scanned = got
  /\ got = sent /\ answer = "complete"
  /\ IF aborted THEN CutShort ELSE pc' = "close" /\ UNCHANGED cutShort
  /\ UNCHANGED <<serverVars, attempts, got, scanned, readErr, timer, aborted, cancelled,
                 channelVars, readerVars, reported>>

(* Scan returned a line.  The context is looked at before the event is     *)
(* flushed; its payload may not be JSON.                                   *)
ScanEvent ==
  /\ pc = "scan" /\ scanned < got
  /\ IF aborted
     THEN CutShort /\ UNCHANGED scanned
     ELSE /\ pc' \in {"send", "garbage"}
          /\ scanned' = scanned + 1
          /\ UNCHANGED cutShort
  /\ UNCHANGED <<serverVars, attempts, got, readErr, timer, aborted, cancelled,
                 channelVars, readerVars, reported>>

\* out <- msg, or ctx.Done(): flush returns false, which the tail ignores.
SendEvent ==
  /\ pc \in {"send", "tail"}
  /\ \/ /\ HasRoom(stream, StreamCap)
        /\ stream' = Append(stream, scanned)
        /\ pc' = IF pc = "tail" THEN "finish" ELSE "scan"
        /\ UNCHANGED cutShort
     \/ /\ aborted
        /\ IF pc = "send" THEN CutShort ELSE pc' = "finish" /\ cutShort' = TRUE
        /\ UNCHANGED stream
  /\ UNCHANGED <<serverVars, attempts, got, scanned, readErr, timer, aborted,
                 cancelled, errs, closed, readerVars, reported>>

\* errs <- err, or ctx.Done(); the scan goes on in both cases.
ReportGarbage ==
  /\ pc \in {"garbage", "tailgarbage"}
  /\ pc' = IF pc = "tailgarbage" THEN "finish" ELSE "scan"
  /\ \/ /\ HasRoom(errs, ErrCap)
        /\ errs' = Append(errs, "garbage")
        /\ reported' = reported \cup {"garbage"}
        /\ UNCHANGED cutShort
     \/ /\ aborted
        /\ cutShort' = TRUE
        /\ UNCHANGED <<errs, reported>>
  /\ UNCHANGED <<serverVars, attempts, got, scanned, readErr, timer, aborted,
                 cancelled, stream, closed, readerVars>>

\* The error is reported unless there is no room for it.
FinishScan ==
  /\ pc = "finish"
  /\ pc' = "close"
  /\ errs' = IF readErr # "none" /\ HasRoom(errs, ErrCap) THEN Append(errs, readErr)
             ELSE errs
  /\ UNCHANGED <<serverVars, attempts, got, scanned, readErr, timer, aborted,
                 cancelled, stream, closed, readerVars, historyVars>>

\* The deferred calls: close, idle.Stop, Body.Close, cancelStream.
CloseStream ==
  /\ pc = "close"
  /\ pc' = "ended"
  /\ closed' = TRUE
  /\ timer' = IF timer = "fired" THEN timer ELSE "stopped"
  /\ aborted' = TRUE
  /\ UNCHANGED <<serverVars, attempts, got, scanned, readErr, cancelled, stream,
                 errs, readerVars, historyVars>>

-----------------------------------------------------------------------------
(* Server, timers, caller.                                                 *)

Connected == pc \notin {"start", "try", "body", "refused", "backoff"}

ServerEndsRefusal ==
  /\ pc = "body"
  /\ pc' = "refused"
  /\ UNCHANGED <<serverVars, attempts, got, scanned, readErr, timer, aborted, cancelled,
                 channelVars, readerVars, historyVars>>

ServerSends ==
  /\ Connected /\ answer = "streaming" /\ sent < MaxEvents
  /\ sent' = sent + 1
  /\ UNCHANGED <<answer, transportVars, timer, aborted, cancelled, channelVars,
                 readerVars, historyVars>>

ServerEnds ==
  /\ Connected /\ answer = "streaming"
  /\ answer' \in {"complete", "broken"}
  /\ UNCHANGED <<sent, transportVars, timer, aborted, cancelled, channelVars,
                 readerVars, historyVars>>

FireTimer ==
  /\ timer = "running"
  /\ timer' = "fired"
  /\ UNCHANGED <<serverVars, transportVars, aborted, cancelled, channelVars,
                 readerVars, historyVars>>

FlagOnly    == UNCHANGED aborted               \* slip: the context is not cancelled
AbortStream == aborted' = TRUE

\* The callback of the timer runs in its own goroutine.
OnIdle ==
  /\ timer = "fired" /\ ~aborted
  /\ AbortStream
  /\ UNCHANGED <<serverVars, transportVars, timer, cancelled, channelVars,
                 readerVars, historyVars>>

RequestTimeout ==
  /\ Deadline /\ ~aborted
  /\ aborted' = TRUE
  /\ UNCHANGED <<serverVars, transportVars, timer, cancelled, channelVars,
                 readerVars, historyVars>>

Cancel ==
  /\ ~cancelled /\ outcome = "none"
  /\ cancelled' = TRUE /\ aborted' = TRUE
  /\ UNCHANGED <<serverVars, transportVars, timer, channelVars, readerVars,
                 historyVars>>

-----------------------------------------------------------------------------
(* runStream.                                                              *)

\* slip: the loop ends with the events, whatever is left on errs
StreamClosed    == ~streamOpen
ChannelsClosed  == ~streamOpen /\ ~errsOpen

ReaderReturns(o) == reader' = "over" /\ outcome' = o

TakeEvent ==
  /\ stream # <<>>
  /\ stream' = Tail(stream)
  /\ reader' = "show"

SeeStreamClosed ==
  /\ stream = <<>> /\ closed
  /\ streamOpen' = FALSE
  /\ reader' = "poll"

EndLoop ==
  /\ reader = "poll" /\ ChannelsClosed
  /\ ReaderReturns("whole")
  /\ UNCHANGED <<serverVars, transportVars, timer, aborted, cancelled, channelVars,
                 streamOpen, errsOpen, shown, historyVars>>

\* The first select: an event if there is one, else go on.
Poll ==
  /\ reader = "poll" /\ ~ChannelsClosed
  /\ \/ streamOpen /\ TakeEvent /\ UNCHANGED streamOpen
     \/ streamOpen /\ SeeStreamClosed /\ UNCHANGED stream
     \/ /\ streamOpen => stream = <<>> /\ ~closed
        /\ reader' = "choose"
        /\ UNCHANGED <<streamOpen, stream>>
  /\ UNCHANGED <<serverVars, transportVars, timer, aborted, cancelled, errs, closed,
                 errsOpen, shown, outcome, historyVars>>

\* The second select: whatever is ready, an error as well as an event.
ChooseEvent ==
  /\ reader = "choose" /\ streamOpen
  /\ \/ TakeEvent /\ UNCHANGED streamOpen
     \/ SeeStreamClosed /\ UNCHANGED stream
  /\ UNCHANGED <<serverVars, transportVars, timer, aborted, cancelled, errs, closed,
                 errsOpen, shown, outcome, historyVars>>

ChooseError ==
  /\ reader = "choose" /\ errsOpen
  /\ \/ /\ errs # <<>>
        /\ errs' = Tail(errs)
        /\ ReaderReturns("error")
        /\ UNCHANGED errsOpen
     \/ /\ errs = <<>> /\ closed
        /\ errsOpen' = FALSE
        /\ reader' = "poll"
        /\ UNCHANGED <<errs, outcome>>
  /\ UNCHANGED <<serverVars, transportVars, timer, aborted, cancelled, stream, closed,
                 streamOpen, shown, historyVars>>

\* processEvent: the run's channel takes the event.
ShowEvent ==
  /\ reader = "show"
  /\ shown' = shown + 1
  /\ reader' = "poll"
  /\ UNCHANGED <<serverVars, transportVars, timer, aborted, cancelled, channelVars,
                 streamOpen, errsOpen, outcome, historyVars>>

LeaveCancelled ==
  /\ reader \in {"choose", "show"} /\ cancelled
  /\ ReaderReturns("cancelled")
  /\ UNCHANGED <<serverVars, transportVars, timer, aborted, cancelled, channelVars,
                 streamOpen, errsOpen, shown, historyVars>>

TransportStep ==
  \/ BeginRequest \/ TryRequest \/ ReadRefusal \/ Backoff \/ StartRead \/ ReadBody
  \/ ReadEnds \/ ScanEvent \/ ScanDone \/ SendEvent \/ ReportGarbage \/ FinishScan \/ CloseStream

ReaderStep == EndLoop \/ Poll \/ ChooseEvent \/ ChooseError \/ LeaveCancelled

Next ==
  \/ TransportStep \/ ReaderStep \/ ShowEvent
  \/ ServerSends \/ ServerEnds \/ ServerEndsRefusal \/ FireTimer \/ OnIdle \/ RequestTimeout \/ Cancel

Spec == Init /\ [][Next]_vars

(* The goroutines are scheduled and timers fire.  Neither the server nor   *)
(* the application has to do anything.                                     *)
FairSpec ==
  /\ Spec
  /\ WF_vars(TransportStep) /\ WF_vars(ReaderStep)
  /\ WF_vars(FireTimer) /\ WF_vars(OnIdle)

\* The application takes what is shown.
Consumed == WF_vars(ShowEvent)

-----------------------------------------------------------------------------
(* Properties.                                                             *)

Errors == {"request", "status", "ctx", "idle", "broken", "garbage"}

TransportTypes ==
  /\ answer \in {"streaming", "complete", "broken"}
  /\ sent \in 0 .. MaxEvents /\ got \in 0 .. sent /\ scanned \in 0 .. got
  /\ pc \in {"start", "try", "body", "refused", "backoff", "scan", "read", "send", "garbage", "tail",
             "tailgarbage", "finish", "close", "ended"}
  /\ attempts \in 0 .. MaxAttempts
  /\ readErr \in Errors \cup {"none"}
  /\ timer \in {"off", "running", "fired", "stopped"}
  /\ aborted \in BOOLEAN /\ cancelled \in BOOLEAN
ChannelTypes ==
  /\ stream \in Seq(1 .. MaxEvents) /\ Len(stream) <= StreamCap
  /\ errs \in Seq(Errors) /\ Len(errs) <= ErrCap
  /\ closed \in BOOLEAN
ReaderTypes ==
  /\ reader \in {"poll", "choose", "show", "over"}
  /\ streamOpen \in BOOLEAN /\ errsOpen \in BOOLEAN
  /\ shown \in 0 .. MaxEvents
  /\ outcome \in {"none", "whole", "error", "cancelled"}
HistoryTypes == reported \subseteq Errors /\ cutShort \in BOOLEAN

\* The values of the variables, and the capacity of the channels.
TypeOK == TransportTypes /\ ChannelTypes /\ ReaderTypes /\ HistoryTypes

(* An attempt that ends without an error met none, not even one there was  *)
(* no room for on errs, and showed the complete answer; the exception is a *)
(* stream that was cut short by its own context.                           *)
CleanEnd ==
  outcome = "whole" =>
    /\ reported = {}
    /\ cutShort \/ (answer = "complete" /\ shown = sent)

(* Once the stream is open the transport's goroutine and its connection    *)
(* come to an end although the server is silent and runStream, or its      *)
(* consumer, has gone away.                                                *)
TransportEnds == timer = "running" ~> pc = "ended"

(* Once the stream is open runStream comes to an end although the server   *)
(* is silent, if the application takes what is shown.                      *)
AttemptEnds == Consumed => (timer = "running" ~> outcome # "none")

(* "before the request is aborted with ErrStreamIdle" (options.go:344): an *)
(* attempt whose idle timer fired before its answer was all shown does not *)
(* end without an error unless the caller cancelled it.                    *)
IdleIsReported ==
  outcome = "whole" /\ timer = "fired" /\ ~cancelled => answer = "complete" /\ shown = sent
=============================================================================
