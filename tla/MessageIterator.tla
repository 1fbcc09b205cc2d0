---------------------------- MODULE MessageIterator ----------------------------
(***************************************************************************)
(* RunMessageIterator (internal/runtime/query_runner.go) as QueryStream    *)
(* (query.go) uses it: one goroutine ranges over the application's iterator*)
(* and queues its inputs, another starts a run for each of them and passes *)
(* on what the run shows, and the application ranges over the result and   *)
(* may leave at any time.                                                  *)
(*                                                                         *)
(* A run is what QueryRun shows of it: messages, the last one a result;    *)
(* errors, after which it ends or (a chunk that cannot be parsed) goes on; *)
(* then its errs and its messages are closed, in that order.  Its errs has *)
(* a capacity, and the error it ends with is sent outside any select.      *)
(***************************************************************************)
EXTENDS Integers, Sequences, FiniteSets

CONSTANTS
  MaxInputs,    \* bound: inputs the application's iterator yields
  Length,       \* messages of a run that does not fail, the result last
  InCap,        \* capacity of inputCh
  MsgCap,       \* capacity of a run's message channel
  ErrCap,       \* and of its errs
  OutCap,       \* capacity of the messages passed on
  Sessions,     \* session names an input can carry
  StartSession, \* the session the stream was started for
  None          \* an input that names no session

ASSUME IteratorAssumption ==
  /\ {MaxInputs, Length, InCap, MsgCap, ErrCap, OutCap} \subseteq Nat \ {0}
  /\ StartSession \in Sessions /\ None \notin Sessions

VARIABLES
  cancelled,   \* the context of the stream is done
  ingest,      \* the goroutine over the iterator: "next", "send" or "done"
  named,       \* the session named by each input yielded so far
  inputCh,     \* inputs waiting to be run
  loop,        \* where the consuming goroutine is
  sid,         \* the session of the next input that names none
  turn,        \* runs started, one per input
  state,       \* of each run: "new", "live", "reporting", "failing", "closing", "over"
  ranIn,       \* the session each run was started in
  sent, taken, \* messages each run has sent, and the loop has received
  relayed,     \* and has passed on
  raised, heard, \* errors each run has sent, and the loop has received
  out, errs,   \* messages and errors passed on and not read
  reported,    \* history variable: errors passed on
  reader       \* the application's range: "reading", "ended" or "left"

ingestVars == <<ingest, named>>
loopVars   == <<loop, sid, turn, ranIn>>
runVars    == <<state, sent>>
outVars    == <<out, errs, reported>>
errVars    == <<raised, heard>>
vars == <<cancelled, ingestVars, inputCh, loopVars, runVars, taken, relayed, errVars,
          outVars, reader>>

Turns == 1 .. MaxInputs

Init ==
  /\ cancelled = FALSE
  /\ ingest = "next" /\ named = <<>> /\ inputCh = <<>>
  /\ loop = "await" /\ sid = StartSession /\ turn = 0
  /\ state = [k \in Turns |-> "new"] /\ ranIn = [k \in Turns |-> None]
  /\ sent = [k \in Turns |-> 0] /\ taken = [k \in Turns |-> 0]
  /\ relayed = [k \in Turns |-> 0]
  /\ raised = [k \in Turns |-> 0] /\ heard = [k \in Turns |-> 0]
  /\ out = 0 /\ errs = 0 /\ reported = 0
  /\ reader = "reading"

-----------------------------------------------------------------------------
(* The goroutine that ranges over the application's iterator.              *)

Yield ==
  /\ ingest = "next" /\ Len(named) < MaxInputs
  /\ \E s \in Sessions \cup {None} : named' = Append(named, s)
  /\ ingest' = "send"
  /\ UNCHANGED <<cancelled, inputCh, loopVars, runVars, taken, relayed, errVars, outVars, reader>>

Enqueue ==
  /\ ingest = "send" /\ Len(inputCh) < InCap
  /\ inputCh' = Append(inputCh, Len(named))
  /\ ingest' = "next"
  /\ UNCHANGED <<cancelled, named, loopVars, runVars, taken, relayed, errVars, outVars, reader>>

\* The iterator is exhausted, or ctx.Done() ends the send.
IngestEnds ==
  /\ ingest = "next" \/ (ingest = "send" /\ cancelled)
  /\ ingest' = "done"
  /\ UNCHANGED <<cancelled, named, inputCh, loopVars, runVars, taken, relayed, errVars,
                 outVars, reader>>

-----------------------------------------------------------------------------
(* The goroutine that runs the inputs one after the other.                 *)

Report == errs' = errs + 1 /\ reported' = reported + 1 /\ UNCHANGED out

LastGiven(name)  == name             \* slip: an input that names none changes it too
SessionFor(name) == IF name = None THEN sid ELSE name

StartTurn ==
  /\ loop = "await" /\ inputCh # <<>>
  /\ turn' = Head(inputCh)
  /\ inputCh' = Tail(inputCh)
  /\ sid' = SessionFor(named[turn'])
  /\ ranIn' = [ranIn EXCEPT ![turn'] = sid']
  /\ state' = [state EXCEPT ![turn'] = "live"]
  /\ loop' = "relay"
  /\ UNCHANGED <<cancelled, ingestVars, sent, taken, relayed, errVars, outVars, reader>>

\* inputCh is closed and drained: the deferred calls begin.
NoMoreInputs ==
  /\ loop = "await" /\ inputCh = <<>> /\ ingest = "done"
  /\ loop' = "wait"
  /\ UNCHANGED <<cancelled, ingestVars, inputCh, sid, turn, ranIn, runVars, taken,
                 relayed, errVars, outVars, reader>>

TakeMessage ==
  /\ loop = "relay" /\ taken[turn] < sent[turn]
  /\ taken' = [taken EXCEPT ![turn] = @ + 1]
  /\ loop' = "relaying"
  /\ UNCHANGED <<cancelled, ingestVars, inputCh, sid, turn, ranIn, runVars, relayed, errVars,
                 outVars, reader>>

RelayMessage ==
  /\ loop = "relaying" /\ out < OutCap
  /\ out' = out + 1
  /\ relayed' = [relayed EXCEPT ![turn] = @ + 1]
  /\ loop' = "relay"
  /\ UNCHANGED <<cancelled, ingestVars, inputCh, sid, turn, ranIn, runVars, taken, errVars,
                 errs, reported, reader>>

NextInput  == "await"                \* slip: the error ends the turn only
AfterError == "wait"

(* The first error of a run ends the stream, also one after which the run  *)
(* goes on; it is dropped when ctx.Done() is chosen.                       *)
RelayError ==
  /\ loop = "relay" /\ heard[turn] < raised[turn]
  /\ heard' = [heard EXCEPT ![turn] = @ + 1]
  /\ Report \/ (cancelled /\ UNCHANGED outVars)
  /\ loop' = AfterError
  /\ UNCHANGED <<cancelled, ingestVars, inputCh, sid, turn, ranIn, runVars, taken, relayed,
                 raised, reader>>

\* slip: the turn is over when one of the channels is closed and empty
EitherClosed(k) ==
  \/ state[k] \in {"closing", "over"} /\ raised[k] = heard[k]
  \/ state[k] = "over" /\ taken[k] = sent[k]
BothClosed(k)   == state[k] = "over" /\ raised[k] = heard[k] /\ taken[k] = sent[k]

TurnEnds ==
  /\ loop = "relay" /\ BothClosed(turn)
  /\ loop' = "await"
  /\ UNCHANGED <<cancelled, ingestVars, inputCh, sid, turn, ranIn, runVars, taken, relayed,
                 errVars, outVars, reader>>

LoopCancelled ==
  /\ loop \in {"await", "relay", "relaying"} /\ cancelled
  /\ Report
  /\ loop' = "wait"
  /\ UNCHANGED <<cancelled, ingestVars, inputCh, sid, turn, ranIn, runVars, taken, relayed,
                 errVars, reader>>

\* ingestWG.Wait(), close(errs), close(out)
CloseStream ==
  /\ loop = "wait" /\ ingest = "done"
  /\ loop' = "closed"
  /\ UNCHANGED <<cancelled, ingestVars, inputCh, sid, turn, ranIn, runVars, taken, relayed,
                 errVars, outVars, reader>>

-----------------------------------------------------------------------------
(* A run.  It has the context of the stream, and only that.                *)

Detached(k)  == FALSE                \* slip: RunMessages(context.Background(), ...)
Reached(k)   == cancelled
HasRoom(k)   == sent[k] - taken[k] < MsgCap
ErrRoom(k)   == raised[k] - heard[k] < ErrCap

RunMessage(k) ==
  /\ state[k] = "live" /\ sent[k] < Length /\ HasRoom(k)
  /\ sent' = [sent EXCEPT ![k] = @ + 1]
  /\ UNCHANGED <<cancelled, ingestVars, inputCh, loopVars, state, taken, relayed, errVars,
                 outVars, reader>>

Moves(k, s) ==
  /\ state' = [state EXCEPT ![k] = s]
  /\ UNCHANGED <<cancelled, ingestVars, inputCh, loopVars, sent, taken, relayed, heard,
                 outVars, reader>>

\* An error the run survives: of a chunk, whose event was sent before.
RunReports(k) ==
  /\ state[k] = "live" /\ raised[k] < sent[k] /\ sent[k] < Length
  /\ Moves(k, "reporting") /\ UNCHANGED raised

\* An error of its own, also of the Stop hook after the result.
RunFails(k) ==
  /\ state[k] = "live"
  /\ Moves(k, "failing") /\ UNCHANGED raised

\* Its sends of messages, and that of a chunk's error, give way to ctx.Done().
GivesWay(k) ==
  /\ state[k] \in {"live", "reporting"} /\ sent[k] < Length /\ Reached(k)
  /\ Moves(k, "failing") /\ UNCHANGED raised

\* The send on errs; the one before a return gives way to nothing.
SendError(k) ==
  /\ state[k] \in {"reporting", "failing"} /\ ErrRoom(k)
  /\ raised' = [raised EXCEPT ![k] = @ + 1]
  /\ Moves(k, IF state[k] = "reporting" THEN "live" ELSE "closing")

RunEnds(k) ==
  /\ state[k] = "live" /\ sent[k] = Length
  /\ Moves(k, "closing") /\ UNCHANGED raised

CloseMessages(k) ==
  /\ state[k] = "closing"
  /\ Moves(k, "over") /\ UNCHANGED raised

-----------------------------------------------------------------------------
(* The application: it cancels its context, ranges over the answer and     *)
(* leaves the range; QueryStream then closes its client, which cancels.    *)

Cancel ==
  /\ ~cancelled /\ cancelled' = TRUE
  /\ UNCHANGED <<ingestVars, inputCh, loopVars, runVars, taken, relayed, errVars, outVars, reader>>

ReadMessage ==
  /\ reader = "reading" /\ out > 0
  /\ out' = out - 1
  /\ UNCHANGED <<cancelled, ingestVars, inputCh, loopVars, runVars, taken, relayed, errVars, errs,
                 reported, reader>>

ReadError ==
  /\ reader = "reading" /\ errs > 0
  /\ errs' = errs - 1
  /\ UNCHANGED <<cancelled, ingestVars, inputCh, loopVars, runVars, taken, relayed, errVars, out,
                 reported, reader>>

KeepOpen    == UNCHANGED cancelled   \* slip: the client is closed only at the end
CloseClient == cancelled' = TRUE

RangeEnds ==
  /\ reader = "reading" /\ loop = "closed" /\ out = 0 /\ errs = 0
  /\ reader' = "ended" /\ cancelled' = TRUE
  /\ UNCHANGED <<ingestVars, inputCh, loopVars, runVars, taken, relayed, errVars, outVars>>

LeaveRange ==
  /\ reader = "reading"
  /\ reader' = "left" /\ CloseClient
  /\ UNCHANGED <<ingestVars, inputCh, loopVars, runVars, taken, relayed, errVars, outVars>>

-----------------------------------------------------------------------------
IngestStep == Yield \/ Enqueue \/ IngestEnds
LoopStep ==
  \/ StartTurn \/ NoMoreInputs \/ TakeMessage \/ RelayMessage \/ RelayError \/ TurnEnds
  \/ LoopCancelled \/ CloseStream
RunReturns(k) == GivesWay(k) \/ SendError(k) \/ RunEnds(k) \/ CloseMessages(k)
RunStep(k)    == RunMessage(k) \/ RunReports(k) \/ RunFails(k) \/ RunReturns(k)
ReadStep   == ReadMessage \/ ReadError \/ RangeEnds

Next ==
  \/ IngestStep \/ LoopStep \/ (\E k \in Turns : RunStep(k))
  \/ ReadStep \/ Cancel \/ LeaveRange

Spec == Init /\ [][Next]_vars

(* The goroutines go on, and so do the application's iterator, which       *)
(* yields or ends, and its range, until it leaves it.  Of a run nothing is *)
(* assumed but that it gives way and returns when it can.                  *)
FairSpec ==
  /\ Spec
  /\ WF_vars(IngestStep) /\ WF_vars(LoopStep) /\ WF_vars(ReadStep)
  /\ \A k \in Turns : WF_vars(RunReturns(k))

-----------------------------------------------------------------------------
(* Properties.                                                             *)

QueueTypes ==
  /\ cancelled \in BOOLEAN
  /\ ingest \in {"next", "send", "done"}
  /\ named \in Seq(Sessions \cup {None}) /\ Len(named) <= MaxInputs
  /\ inputCh \in Seq(Turns) /\ Len(inputCh) <= InCap

LoopTypes ==
  /\ loop \in {"await", "relay", "relaying", "wait", "closed"}
  /\ sid \in Sessions /\ turn \in 0 .. MaxInputs
  /\ ranIn \in [Turns -> Sessions \cup {None}]
  /\ out \in 0 .. OutCap /\ errs \in Nat /\ reported \in Nat
  /\ reader \in {"reading", "ended", "left"}

RunTypes ==
  /\ state \in [Turns -> {"new", "live", "reporting", "failing", "closing", "over"}]
  /\ sent \in [Turns -> 0 .. Length] /\ taken \in [Turns -> 0 .. Length]
  /\ relayed \in [Turns -> 0 .. Length]
  /\ \A k \in Turns : relayed[k] <= taken[k] /\ taken[k] <= sent[k]
  /\ raised \in [Turns -> Nat] /\ heard \in [Turns -> Nat]
  /\ \A k \in Turns : heard[k] <= raised[k] /\ raised[k] - heard[k] <= ErrCap

\* The values of the variables, and what the channels hold.
TypeOK == QueueTypes /\ LoopTypes /\ RunTypes

(* The runs of a stream do not overlap: the next input is run, on the      *)
(* history the run before left, only when that run has returned, also when *)
(* it failed or its answer was cut short.                                  *)
TurnsAreSerial ==
  \A k \in Turns : state[k] # "new" => \A j \in 1 .. k - 1 : state[j] = "over"

(* When an input is run, everything the runs before it sent was passed on, *)
(* each in the session that the last input naming one named.               *)
MeantFor(s, k) ==
  \/ s = StartSession /\ \A j \in 1 .. k : named[j] = None
  \/ \E j \in 1 .. k : named[j] = s /\ \A i \in j + 1 .. k : named[i] = None

AnswersRelayed ==
  \A k \in 1 .. turn :
    /\ MeantFor(ranIn[k], k)
    /\ k < turn => relayed[k] = sent[k] /\ raised[k] = 0

(* At most one error is passed on: a send on errs that does not give way   *)
(* to ctx.Done() cannot block.  A stream that was not cancelled and ends   *)
(* without an error has answered every input.                              *)
EndIsTold ==
  /\ reported <= 1
  /\ loop = "closed" /\ ~cancelled /\ reported = 0 =>
       turn = Len(named) /\ \A k \in 1 .. turn : relayed[k] = Length

(* Once the stream is cancelled, or the application has left its range,    *)
(* its two goroutines end and its channels are closed, whatever the runs   *)
(* do; and every run ends, but one that was given up, at its first error   *)
(* or on cancellation, and fills its errs: nobody reads it, and the error  *)
(* the run ends with waits for room, cancelled or not.                     *)
Stuck(k) == state[k] = "failing" /\ raised[k] - heard[k] = ErrCap

Quiet ==
  /\ ingest = "done" /\ loop = "closed"
  /\ \A k \in Turns : state[k] \in {"new", "over"} \/ Stuck(k)

StoppedStreamEnds == (cancelled \/ reader = "left") ~> Quiet
=============================================================================
