------------------------ MODULE MessageIterator_proofs ------------------------
(***************************************************************************)
(* Proofs about MessageIterator, for any number of inputs, any length of a *)
(* run and any capacities: its types, that the runs of a stream do not     *)
(* overlap, that what they sent was passed on in the session meant, and    *)
(* that the end of the stream is told.                                     *)
(***************************************************************************)
EXTENDS MessageIterator, TLAPS

(* What the loop has in hand: of the turn under way everything received    *)
(* was passed on, but the message being passed on; later turns have shown  *)
(* nothing.                                                                *)
InHand ==
  /\ loop \in {"relay", "relaying"} => turn \in Turns /\ heard[turn] = 0
  /\ loop = "relay" => relayed[turn] = taken[turn]
  /\ loop = "relaying" => taken[turn] = relayed[turn] + 1
  /\ \A k \in Turns : k > turn =>
       /\ state[k] = "new" /\ raised[k] = 0 /\ heard[k] = 0
       /\ sent[k] = 0 /\ taken[k] = 0 /\ relayed[k] = 0

\* The queue holds the inputs that follow the turn; the last one yielded may be in hand.
Queued ==
  /\ \A i \in 1 .. Len(inputCh) : inputCh[i] = turn + i
  /\ turn + Len(inputCh) <= Len(named)
  /\ ingest = "next" => Len(named) = turn + Len(inputCh)
  /\ ingest = "send" => Len(named) = turn + Len(inputCh) + 1
  /\ ingest = "done" /\ ~cancelled => Len(named) = turn + Len(inputCh)

TypeInv == TypeOK /\ InHand /\ Queued

\* Turns the loop is done with, having seen the end of their runs.
Finished(k) == k < turn \/ (k = turn /\ loop = "await")

SerialInv ==
  \A k \in Turns : Finished(k) => state[k] = "over" /\ relayed[k] = sent[k] /\ raised[k] = 0

SessionInv ==
  /\ MeantFor(sid, turn)
  /\ \A k \in 1 .. turn : MeantFor(ranIn[k], k)

\* A run that told nobody of an error has sent its result.
RunTold ==
  \A k \in Turns : state[k] \in {"closing", "over"} /\ raised[k] = 0 => sent[k] = Length

EndInv ==
  /\ loop \in {"await", "relay", "relaying"} => reported = 0
  /\ reported <= 1
  /\ loop \in {"wait", "closed"} /\ ~cancelled /\ reported = 0 =>
       /\ ingest = "done" /\ turn = Len(named)
       /\ \A k \in Turns : k <= turn => state[k] = "over" /\ relayed[k] = Length

-----------------------------------------------------------------------------
\* Types.

LEMMA TypeInit == Init => TypeInv
<1> SUFFICES ASSUME Init PROVE TypeInv
  OBVIOUS
<1> USE IteratorAssumption DEF Init
<1>1. QueueTypes
  <2>1. <<>> \in Seq(Sessions \cup {None}) /\ <<>> \in Seq(Turns) /\ Len(<<>>) = 0
    OBVIOUS
  <2>2. 0 <= MaxInputs /\ 0 <= InCap
    OBVIOUS
  <2> QED
    BY <2>1, <2>2 DEF QueueTypes
<1>2. LoopTypes
  BY DEF LoopTypes
<1>3. RunTypes
  BY DEF RunTypes
<1>4. InHand
  BY DEF InHand, Turns
<1>5. Queued
  BY DEF Queued
<1> QED
  BY <1>1, <1>2, <1>3, <1>4, <1>5 DEF TypeInv, TypeOK

LEMMA IngestTyped ==
  ASSUME TypeInv, IngestStep
  PROVE  TypeInv'
<1> USE IteratorAssumption DEF TypeInv, TypeOK, ingestVars, loopVars, runVars, errVars, outVars
<1>1. LoopTypes' /\ RunTypes' /\ InHand'
  BY DEF IngestStep, Yield, Enqueue, IngestEnds, LoopTypes, RunTypes, InHand
<1>2. CASE Yield
  <2>1. PICK s \in Sessions \cup {None} : named' = Append(named, s)
    BY <1>2 DEF Yield
  <2>2. named \in Seq(Sessions \cup {None}) /\ inputCh \in Seq(Turns)
    BY DEF QueueTypes
  <2>3. named' \in Seq(Sessions \cup {None}) /\ Len(named') = Len(named) + 1
    BY <2>1, <2>2
  <2>4. QueueTypes'
    BY <1>2, <2>3 DEF Yield, QueueTypes
  <2>5. Len(inputCh) \in Nat /\ Len(named) \in Nat /\ turn \in Nat
    BY <2>2 DEF LoopTypes
  <2>6. Queued'
    BY <1>2, <2>3, <2>5 DEF Yield, Queued
  <2> QED
    BY <1>1, <2>4, <2>6
<1>3. CASE Enqueue
  <2>1. Len(named) \in Nat /\ inputCh \in Seq(Turns) /\ Len(inputCh) \in Nat /\ turn \in Nat
    BY DEF QueueTypes, LoopTypes
  <2>2. Len(named) = turn + Len(inputCh) + 1 /\ Len(named) \in Turns
    BY <1>3, <2>1 DEF Enqueue, Queued, QueueTypes, Turns
  <2>3. /\ inputCh' \in Seq(Turns) /\ Len(inputCh') = Len(inputCh) + 1
        /\ \A i \in 1 .. Len(inputCh') :
             inputCh'[i] = IF i = Len(inputCh') THEN Len(named) ELSE inputCh[i]
        /\ turn' = turn
    BY <1>3, <2>1, <2>2 DEF Enqueue
  <2>4. \A i \in 1 .. Len(inputCh') : inputCh'[i] = turn + i
    <3> TAKE i \in 1 .. Len(inputCh')
    <3>1. CASE i = Len(inputCh')
      BY <2>1, <2>2, <2>3, <3>1
    <3>2. CASE i # Len(inputCh')
      <4>1. i \in 1 .. Len(inputCh)
        BY <2>1, <2>3, <3>2
      <4>2. inputCh[i] = turn + i
        BY <4>1 DEF Queued
      <4>3. inputCh'[i] = inputCh[i] /\ turn' = turn
        BY <1>3, <2>3, <3>2 DEF Enqueue
      <4> QED
        BY <4>2, <4>3
    <3> QED
      BY <3>1, <3>2
  <2>5. QueueTypes'
    BY <1>3, <2>3 DEF Enqueue, QueueTypes
  <2>6. Queued'
    BY <1>3, <2>1, <2>2, <2>3, <2>4 DEF Enqueue, Queued
  <2> QED
    BY <1>1, <2>5, <2>6
<1>4. CASE IngestEnds
  <2>1. QueueTypes'
    BY <1>4 DEF IngestEnds, QueueTypes
  <2>2. Queued'
    BY <1>4 DEF IngestEnds, Queued
  <2> QED
    BY <1>1, <2>1, <2>2
<1> QED
  BY <1>2, <1>3, <1>4 DEF IngestStep

\* The next input is the one after the turn.
LEMMA NextTurn ==
  ASSUME TypeInv, StartTurn
  PROVE  /\ turn' = turn + 1 /\ turn' \in Turns /\ turn' <= Len(named)
         /\ inputCh' \in Seq(Turns) /\ Len(inputCh') = Len(inputCh) - 1
         /\ \A i \in 1 .. Len(inputCh') : inputCh'[i] = turn' + i
         /\ sid' \in Sessions
<1> USE DEF TypeInv, TypeOK, StartTurn
<1>1. inputCh \in Seq(Turns) /\ named \in Seq(Sessions \cup {None}) /\ turn \in Nat
  BY IteratorAssumption DEF QueueTypes, LoopTypes
<1>2. Len(inputCh) \in Nat \ {0} /\ Head(inputCh) = inputCh[1] /\ inputCh[1] \in Turns
  BY <1>1
<1>3. turn' = turn + 1 /\ turn' <= Len(named) /\ turn' \in Turns
  BY <1>1, <1>2 DEF Queued
<1>4. /\ inputCh' \in Seq(Turns) /\ Len(inputCh') = Len(inputCh) - 1
      /\ \A i \in 1 .. Len(inputCh') : inputCh'[i] = inputCh[i + 1]
  BY <1>1, <1>2
<1>5. \A i \in 1 .. Len(inputCh') : inputCh'[i] = turn' + i
  BY <1>1, <1>2, <1>3, <1>4 DEF Queued
<1>6. named[turn'] \in Sessions \cup {None}
  BY <1>1, <1>3 DEF Turns
<1>7. sid' \in Sessions
  BY <1>6 DEF SessionFor, LoopTypes
<1> QED
  BY <1>3, <1>4, <1>5, <1>7

LEMMA LoopTyped ==
  ASSUME TypeInv, LoopStep
  PROVE  TypeInv'
<1> USE IteratorAssumption DEF TypeInv, TypeOK, ingestVars, runVars, errVars, outVars
<1>1. CASE StartTurn
  <2>1. /\ turn' = turn + 1 /\ turn' \in Turns /\ turn' <= Len(named)
        /\ inputCh' \in Seq(Turns) /\ Len(inputCh') = Len(inputCh) - 1
        /\ \A i \in 1 .. Len(inputCh') : inputCh'[i] = turn' + i
        /\ sid' \in Sessions
    BY <1>1, NextTurn
  <2>2. Len(named) \in Nat /\ Len(inputCh) \in Nat /\ turn \in Nat
    BY DEF QueueTypes, LoopTypes
  <2>3. QueueTypes'
    BY <1>1, <2>1, <2>2 DEF StartTurn, QueueTypes
  <2>4. LoopTypes' /\ RunTypes'
    <3>1. ranIn' \in [Turns -> Sessions \cup {None}]
      BY <1>1, <2>1 DEF StartTurn, LoopTypes
    <3>2. turn' \in 0 .. MaxInputs
      BY <2>1 DEF Turns
    <3>3. LoopTypes'
      BY <1>1, <2>1, <3>1, <3>2 DEF StartTurn, LoopTypes
    <3>4. RunTypes'
      BY <1>1, <2>1 DEF StartTurn, RunTypes
    <3> QED
      BY <3>3, <3>4
  <2>5. InHand'
    BY <1>1, <2>1, <2>2 DEF StartTurn, InHand, RunTypes, Turns
  <2>6. Queued'
    BY <1>1, <2>1, <2>2 DEF StartTurn, Queued
  <2> QED
    BY <2>3, <2>4, <2>5, <2>6
<1>2. ASSUME NoMoreInputs \/ TakeMessage \/ RelayMessage \/ RelayError \/ TurnEnds
             \/ LoopCancelled \/ CloseStream
      PROVE  TypeInv'
  <2>1. QueueTypes' /\ Queued'
    BY <1>2
    DEF QueueTypes, Queued, NoMoreInputs, TakeMessage, RelayMessage, RelayError, TurnEnds,
        LoopCancelled, CloseStream
  <2>2. LoopTypes'
    BY <1>2
    DEF LoopTypes, NoMoreInputs, TakeMessage, RelayMessage, RelayError, AfterError, Report,
        TurnEnds, LoopCancelled, CloseStream
  <2>3. CASE TakeMessage
    <3>1. turn \in Turns /\ taken[turn] + 1 \in 0 .. Length /\ taken[turn] + 1 <= sent[turn]
      BY <2>3 DEF TakeMessage, InHand, RunTypes
    <3>2. RunTypes'
      BY <2>3, <3>1 DEF TakeMessage, RunTypes
    <3>3. InHand'
      BY <2>3, <3>1 DEF TakeMessage, InHand, RunTypes, LoopTypes, Turns
    <3> QED
      BY <2>1, <2>2, <3>2, <3>3
  <2>4. CASE RelayMessage
    <3>1. turn \in Turns /\ relayed[turn] + 1 = taken[turn] /\ relayed[turn] + 1 \in 0 .. Length
      BY <2>4 DEF RelayMessage, InHand, RunTypes
    <3>2. RunTypes'
      BY <2>4, <3>1 DEF RelayMessage, RunTypes
    <3>3. InHand'
      BY <2>4, <3>1 DEF RelayMessage, InHand, RunTypes, LoopTypes, Turns
    <3> QED
      BY <2>1, <2>2, <3>2, <3>3
  <2>5. CASE RelayError
    <3>1. turn \in Turns /\ loop' = "wait"
      BY <2>5 DEF RelayError, AfterError, InHand
    <3>2. RunTypes'
      BY <2>5, <3>1 DEF RelayError, RunTypes
    <3>3. InHand'
      BY <2>5, <3>1 DEF RelayError, InHand, RunTypes, LoopTypes, Turns
    <3> QED
      BY <2>1, <2>2, <3>2, <3>3
  <2>6. CASE NoMoreInputs \/ TurnEnds \/ LoopCancelled \/ CloseStream
    <3>1. RunTypes'
      BY <2>6 DEF RunTypes, NoMoreInputs, TurnEnds, LoopCancelled, CloseStream
    <3>2. InHand'
      BY <2>6 DEF InHand, NoMoreInputs, TurnEnds, LoopCancelled, CloseStream
    <3> QED
      BY <2>1, <2>2, <3>1, <3>2
  <2> QED
    BY <1>2, <2>3, <2>4, <2>5, <2>6
<1> QED
  BY <1>1, <1>2 DEF LoopStep

\* What a step of a run does: it sends a message, or an error, or moves on.
LEMMA RunMoves ==
  ASSUME NEW k \in Turns, RunStep(k)
  PROVE  /\ state[k] \notin {"new", "over"}
         /\ UNCHANGED <<cancelled, ingest, named, inputCh, loop, sid, turn, ranIn, taken,
                        relayed, heard, out, errs, reported, reader>>
         /\ \/ /\ sent' = [sent EXCEPT ![k] = @ + 1] /\ sent[k] < Length
               /\ state[k] = "live" /\ UNCHANGED <<state, raised>>
            \/ /\ raised' = [raised EXCEPT ![k] = @ + 1] /\ raised[k] - heard[k] < ErrCap
               /\ \E s \in {"live", "closing"} : state' = [state EXCEPT ![k] = s]
               /\ UNCHANGED sent
            \/ /\ \E s \in {"reporting", "failing", "closing", "over"} :
                    /\ state' = [state EXCEPT ![k] = s]
                    /\ s \in {"closing", "over"} => state[k] = "closing" \/ sent[k] = Length
               /\ UNCHANGED <<sent, raised>>
<1> USE DEF Moves, ingestVars, loopVars, outVars, errVars
<1>1. CASE RunMessage(k)
  BY <1>1 DEF RunMessage
<1>2. CASE RunReports(k) \/ RunFails(k) \/ GivesWay(k) \/ RunEnds(k) \/ CloseMessages(k)
  BY <1>2 DEF RunReports, RunFails, GivesWay, RunEnds, CloseMessages
<1>3. CASE SendError(k)
  BY <1>3 DEF SendError, ErrRoom
<1> QED
  BY <1>1, <1>2, <1>3 DEF RunStep, RunReturns

LEMMA RunTyped ==
  ASSUME TypeInv, NEW k \in Turns, RunStep(k)
  PROVE  TypeInv'
<1> USE IteratorAssumption DEF TypeInv, TypeOK, ingestVars, loopVars, runVars, errVars, outVars
<1>1. QueueTypes' /\ LoopTypes' /\ Queued'
  BY RunMoves DEF QueueTypes, LoopTypes, Queued
<1>2. k <= turn
  BY RunMoves DEF InHand, LoopTypes, Turns
<1>3. RunTypes'
  BY RunMoves DEF RunTypes
<1>4. InHand'
  BY <1>2, RunMoves DEF InHand, RunTypes, LoopTypes, Turns
<1> QED
  BY <1>1, <1>3, <1>4

LEMMA ReaderTyped ==
  ASSUME TypeInv, ReadStep \/ Cancel \/ LeaveRange
  PROVE  TypeInv'
<1> USE IteratorAssumption
    DEF TypeInv, TypeOK, ingestVars, loopVars, runVars, errVars, outVars,
        ReadStep, Cancel, LeaveRange, CloseClient, ReadMessage, ReadError, RangeEnds
<1>1. QueueTypes' /\ Queued'
  BY DEF QueueTypes, Queued
<1>2. LoopTypes'
  BY DEF LoopTypes
<1>3. RunTypes' /\ InHand'
  BY DEF RunTypes, InHand
<1> QED
  BY <1>1, <1>2, <1>3

LEMMA TypeStep ==
  ASSUME TypeInv, [Next]_vars
  PROVE  TypeInv'
<1>1. CASE Next
  BY <1>1, IngestTyped, LoopTyped, RunTyped, ReaderTyped DEF Next
<1>2. CASE UNCHANGED vars
  BY <1>2
  DEF vars, ingestVars, loopVars, runVars, errVars, outVars, TypeInv, TypeOK, QueueTypes,
      LoopTypes, RunTypes, InHand, Queued
<1> QED
  BY <1>1, <1>2

(* The variables of MessageIterator keep their types: no channel holds     *)
(* more than its capacity, and no run passes on what it did not send.      *)
THEOREM TypeCorrect == Spec => []TypeOK
<1>1. TypeInv => TypeOK
  BY DEF TypeInv
<1> QED
  BY <1>1, TypeInit, TypeStep, PTL DEF Spec

-----------------------------------------------------------------------------
\* Runs do not overlap.

LEMMA SerialStep ==
  ASSUME TypeInv, SerialInv, [Next]_vars
  PROVE  SerialInv'
<1> USE DEF TypeInv, TypeOK, LoopTypes, RunTypes, SerialInv, Finished, ingestVars, loopVars,
            runVars, errVars, outVars
<1>1. CASE IngestStep \/ ReadStep \/ Cancel \/ LeaveRange \/ UNCHANGED vars
  BY <1>1 DEF IngestStep, Yield, Enqueue, IngestEnds, ReadStep, ReadMessage, ReadError,
              RangeEnds, Cancel, LeaveRange, vars
<1>2. CASE LoopStep
  <2>1. CASE StartTurn
    <3>1. turn' = turn + 1 /\ turn' \in Turns
      BY <2>1, NextTurn
    <3> QED
      BY <2>1, <3>1 DEF StartTurn, Turns
  <2>2. CASE TurnEnds
    <3>1. turn \in Turns => relayed[turn] = sent[turn] /\ raised[turn] = 0
      BY <2>2 DEF TurnEnds, BothClosed, InHand
    <3> QED
      BY <2>2, <3>1 DEF TurnEnds, BothClosed, Turns
  <2>3. CASE TakeMessage \/ RelayMessage \/ RelayError
    <3>1. turn' = turn /\ state' = state /\ sent' = sent /\ loop # "await" /\ loop' # "await"
      BY <2>3 DEF TakeMessage, RelayMessage, RelayError, AfterError
    <3>2. \A k \in Turns : k # turn => relayed'[k] = relayed[k] /\ raised'[k] = raised[k]
      BY <2>3 DEF TakeMessage, RelayMessage, RelayError
    <3> QED
      BY <3>1, <3>2
  <2>4. CASE NoMoreInputs \/ LoopCancelled \/ CloseStream
    BY <2>4 DEF NoMoreInputs, LoopCancelled, CloseStream
  <2> QED
    BY <1>2, <2>1, <2>2, <2>3, <2>4 DEF LoopStep
<1>3. ASSUME NEW k \in Turns, RunStep(k)
      PROVE  SerialInv'
  <2>1. ~ Finished(k)
    BY <1>3, RunMoves
  <2> QED
    BY <1>3, <2>1, RunMoves
<1> QED
  BY <1>1, <1>2, <1>3 DEF Next

LEMMA SerialAlways == Spec => [](TypeInv /\ SerialInv)
<1>1. Init => SerialInv
  BY DEF Init, SerialInv, Finished, Turns
<1> QED
  BY <1>1, TypeInit, TypeStep, SerialStep, PTL DEF Spec

(* The runs of a stream do not overlap, though a run is given up on its    *)
(* first error and may go on: the stream ends then (AfterError).           *)
THEOREM RunsAreSerial == Spec => []TurnsAreSerial
<1>1. TypeInv /\ SerialInv => TurnsAreSerial
  <2> SUFFICES ASSUME TypeInv, SerialInv, NEW k \in Turns, state[k] # "new",
                      NEW j \in 1 .. k - 1
               PROVE  state[j] = "over"
    BY DEF TurnsAreSerial
  <2>1. turn \in Nat /\ k \in Nat /\ ~ (k > turn)
    BY IteratorAssumption DEF TypeInv, TypeOK, LoopTypes, InHand, Turns
  <2>2. j \in Turns /\ j < turn
    BY <2>1, IteratorAssumption DEF Turns
  <2> QED
    BY <2>2 DEF SerialInv, Finished
<1> QED
  BY <1>1, SerialAlways, PTL

-----------------------------------------------------------------------------
\* Sessions.

\* The session an input goes to depends on the inputs up to it.
LEMMA NamesKept ==
  ASSUME TypeInv, [Next]_vars, NEW k \in 0 .. Len(named), NEW s, MeantFor(s, k)
  PROVE  /\ \/ s = StartSession /\ \A j \in 1 .. k : named'[j] = None
            \/ \E j \in 1 .. k : named'[j] = s /\ \A i \in j + 1 .. k : named'[i] = None
<1>1. \A j \in 1 .. k : named'[j] = named[j]
  <2>1. CASE Yield
    <3>1. PICK n \in Sessions \cup {None} : named' = Append(named, n)
      BY <2>1 DEF Yield
    <3>2. named \in Seq(Sessions \cup {None})
      BY DEF TypeInv, TypeOK, QueueTypes
    <3> QED
      BY <3>1, <3>2
  <2>2. CASE ~ Yield
    BY <2>2, RunMoves
    DEF Next, vars, ingestVars, IngestStep, Enqueue, IngestEnds, LoopStep, StartTurn,
        NoMoreInputs, TakeMessage, RelayMessage, RelayError, TurnEnds, LoopCancelled,
        CloseStream, ReadStep, ReadMessage, ReadError, RangeEnds, Cancel, LeaveRange
  <2> QED
    BY <2>1, <2>2
<1>2. \A j \in 1 .. k : \A i \in j + 1 .. k : i \in 1 .. k
  OBVIOUS
<1> QED
  BY <1>1, <1>2 DEF MeantFor

LEMMA SessionStep ==
  ASSUME TypeInv, SessionInv, [Next]_vars
  PROVE  SessionInv'
<1>1. turn \in Nat /\ Len(named) \in Nat /\ turn <= Len(named)
  BY IteratorAssumption DEF TypeInv, TypeOK, LoopTypes, QueueTypes, Queued
<1>2. CASE StartTurn
  <2>1. turn' = turn + 1 /\ turn' \in Turns /\ turn' <= Len(named)
    BY <1>2, NextTurn
  <2>2. named' = named /\ sid' = SessionFor(named[turn']) /\ ranIn' = [ranIn EXCEPT ![turn'] = sid']
    BY <1>2 DEF StartTurn, ingestVars
  <2>3. MeantFor(sid', turn')
    <3>1. CASE named[turn'] = None
      <4>1. sid' = sid /\ 1 .. turn' = (1 .. turn) \cup {turn'}
        BY <1>1, <2>1, <2>2, <3>1 DEF SessionFor
      <4>2. ASSUME \A j \in 1 .. turn : named[j] = None
            PROVE  \A j \in 1 .. turn' : named[j] = None
        BY <3>1, <4>1, <4>2
      <4>3. ASSUME NEW j \in 1 .. turn, \A i \in j + 1 .. turn : named[i] = None
            PROVE  j \in 1 .. turn' /\ \A i \in j + 1 .. turn' : named[i] = None
        BY <1>1, <2>1, <3>1, <4>3
      <4> QED
        BY <4>1, <4>2, <4>3 DEF SessionInv, MeantFor
    <3>2. CASE named[turn'] # None
      <4>1. sid' = named[turn'] /\ turn' \in 1 .. turn'
        BY <1>1, <2>1, <2>2, <3>2 DEF SessionFor
      <4>2. \A i \in turn' + 1 .. turn' : named[i] = None
        BY <1>1, <2>1
      <4> QED
        BY <4>1, <4>2 DEF MeantFor
    <3> QED
      BY <3>1, <3>2
  <2>4. ASSUME NEW k \in 1 .. turn'
        PROVE  MeantFor(ranIn'[k], k)
    <3>1. ranIn \in [Turns -> Sessions \cup {None}] /\ k \in Turns
      BY <1>1, <2>1, IteratorAssumption DEF TypeInv, TypeOK, LoopTypes, Turns
    <3>2. CASE k = turn'
      BY <2>2, <2>3, <3>1, <3>2
    <3>3. CASE k # turn'
      <4>1. k \in 1 .. turn /\ ranIn'[k] = ranIn[k]
        BY <1>1, <2>1, <2>2, <3>1, <3>3
      <4> QED
        BY <4>1 DEF SessionInv
    <3> QED
      BY <3>2, <3>3
  <2> QED
    BY <2>2, <2>3, <2>4 DEF SessionInv, MeantFor
<1>3. CASE ~ StartTurn
  <2>1. sid' = sid /\ turn' = turn /\ ranIn' = ranIn
    BY <1>3, RunMoves
    DEF Next, vars, loopVars, IngestStep, Yield, Enqueue, IngestEnds, LoopStep, NoMoreInputs,
        TakeMessage, RelayMessage, RelayError, TurnEnds, LoopCancelled, CloseStream,
        ReadStep, ReadMessage, ReadError, RangeEnds, Cancel, LeaveRange
  <2>2. (MeantFor(sid, turn))'
    <3>1. turn \in 0 .. Len(named) /\ MeantFor(sid, turn)
      BY <1>1 DEF SessionInv
    <3>2. \/ sid = StartSession /\ \A j \in 1 .. turn : named'[j] = None
          \/ \E j \in 1 .. turn : named'[j] = sid /\ \A i \in j + 1 .. turn : named'[i] = None
      BY <3>1, NamesKept
    <3> QED
      BY <2>1, <3>2 DEF MeantFor
  <2>3. (\A k \in 1 .. turn : MeantFor(ranIn[k], k))'
    <3> SUFFICES ASSUME NEW k \in 1 .. turn'
                 PROVE  \/ ranIn'[k] = StartSession /\ \A j \in 1 .. k : named'[j] = None
                        \/ \E j \in 1 .. k :
                             named'[j] = ranIn'[k] /\ \A i \in j + 1 .. k : named'[i] = None
      BY DEF MeantFor
    <3>1. k \in 0 .. Len(named) /\ MeantFor(ranIn[k], k)
      BY <1>1, <2>1 DEF SessionInv
    <3>2. \/ ranIn[k] = StartSession /\ \A j \in 1 .. k : named'[j] = None
          \/ \E j \in 1 .. k : named'[j] = ranIn[k] /\ \A i \in j + 1 .. k : named'[i] = None
      BY <3>1, NamesKept
    <3> QED
      BY <2>1, <3>2
  <2> QED
    BY <2>2, <2>3 DEF SessionInv
<1> QED
  BY <1>2, <1>3

(* Every input runs in the session meant for it, and when the next one is  *)
(* run everything the turn before sent was passed on.                      *)
THEOREM AnswersAreRelayed == Spec => []AnswersRelayed
<1>1. Init => SessionInv
  BY DEF Init, SessionInv, MeantFor
<1>2. TypeInv /\ SerialInv /\ SessionInv => AnswersRelayed
  <2> SUFFICES ASSUME TypeInv, SerialInv, SessionInv, NEW k \in 1 .. turn, k < turn
               PROVE  relayed[k] = sent[k] /\ raised[k] = 0
    BY DEF AnswersRelayed, SessionInv
  <2>1. k \in Turns
    BY IteratorAssumption DEF TypeInv, TypeOK, LoopTypes, Turns
  <2> QED
    BY <2>1 DEF SerialInv, Finished
<1> QED
  BY <1>1, <1>2, SerialAlways, SessionStep, PTL DEF Spec

-----------------------------------------------------------------------------
\* How a stream ends.

LEMMA ToldStep ==
  ASSUME TypeInv, RunTold, [Next]_vars
  PROVE  RunTold'
<1> USE IteratorAssumption
    DEF TypeInv, TypeOK, LoopTypes, RunTypes, RunTold, ingestVars, loopVars, runVars, errVars, outVars
<1>1. CASE IngestStep \/ ReadStep \/ Cancel \/ LeaveRange \/ UNCHANGED vars
  BY <1>1 DEF IngestStep, Yield, Enqueue, IngestEnds, ReadStep, ReadMessage, ReadError,
              RangeEnds, Cancel, LeaveRange, vars
<1>2. CASE LoopStep
  <2>1. CASE StartTurn
    BY <2>1 DEF StartTurn
  <2>2. CASE RelayError
    BY <2>2 DEF RelayError
  <2>3. CASE NoMoreInputs \/ TakeMessage \/ RelayMessage \/ TurnEnds \/ LoopCancelled \/ CloseStream
    BY <2>3 DEF NoMoreInputs, TakeMessage, RelayMessage, TurnEnds, LoopCancelled, CloseStream
  <2> QED
    BY <1>2, <2>1, <2>2, <2>3 DEF LoopStep
<1>3. ASSUME NEW k \in Turns, RunStep(k)
      PROVE  RunTold'
  BY <1>3, RunMoves
<1> QED
  BY <1>1, <1>2, <1>3 DEF Next

LEMMA EndStep ==
  ASSUME TypeInv, SerialInv, RunTold, EndInv, [Next]_vars
  PROVE  EndInv'
<1> USE IteratorAssumption DEF TypeInv, TypeOK, LoopTypes, RunTypes, EndInv
<1>1. CASE IngestStep
  BY <1>1 DEF IngestStep, Yield, Enqueue, IngestEnds, loopVars, runVars, errVars, outVars
<1>2. CASE ReadStep \/ Cancel \/ LeaveRange
  BY <1>2 DEF ReadStep, ReadMessage, ReadError, RangeEnds, Cancel, LeaveRange, CloseClient,
              ingestVars, loopVars, runVars, errVars, outVars
<1>3. CASE NoMoreInputs
  <2>1. ingest = "done" /\ inputCh = <<>> /\ loop' = "wait"
        /\ UNCHANGED <<cancelled, ingest, named, turn, state, relayed, reported>>
    BY <1>3 DEF NoMoreInputs, ingestVars, runVars, errVars, outVars
  <2>2. cancelled \/ turn = Len(named)
    BY <2>1 DEF Queued, QueueTypes
  <2>3. \A k \in Turns : k <= turn => state[k] = "over" /\ relayed[k] = Length
    BY <1>3 DEF NoMoreInputs, SerialInv, Finished, RunTold, Turns
  <2> QED
    BY <1>3, <2>1, <2>2, <2>3 DEF NoMoreInputs
<1>4. CASE StartTurn \/ TakeMessage \/ RelayMessage \/ TurnEnds
  BY <1>4 DEF StartTurn, TakeMessage, RelayMessage, TurnEnds, outVars
<1>5. CASE RelayError \/ LoopCancelled
  <2>1. reported = 0 /\ loop' = "wait" /\ cancelled' = cancelled
        /\ (reported' = 1 \/ (cancelled /\ reported' = 0))
    BY <1>5 DEF RelayError, AfterError, LoopCancelled, Report, outVars
  <2> QED
    BY <2>1
<1>6. CASE CloseStream
  BY <1>6 DEF CloseStream, ingestVars, runVars, errVars, outVars
<1>7. ASSUME NEW k \in Turns, RunStep(k)
      PROVE  EndInv'
  <2>1. state[k] # "over" /\ k <= turn
    BY <1>7, RunMoves DEF InHand, Turns
  <2>2. UNCHANGED <<cancelled, ingest, named, loop, turn, relayed, reported>>
    BY <1>7, RunMoves
  <2> QED
    BY <2>1, <2>2
<1>8. CASE UNCHANGED vars
  BY <1>8 DEF vars, ingestVars, loopVars, runVars, errVars, outVars
<1> QED
  BY <1>1, <1>2, <1>3, <1>4, <1>5, <1>6, <1>7, <1>8 DEF Next, LoopStep

(* The send of the context's error, which gives way to nothing, finds room *)
(* on errs; and a stream that ends without an error, not cancelled, has    *)
(* answered all its inputs.                                                *)
THEOREM EndsAreTold == Spec => []EndIsTold
<1>1. Init => RunTold /\ EndInv
  BY DEF Init, RunTold, EndInv, Turns
<1>2. TypeInv /\ SerialInv /\ EndInv => EndIsTold
  <2> SUFFICES ASSUME TypeInv, EndInv, loop = "closed", ~cancelled, reported = 0
               PROVE  turn = Len(named) /\ \A k \in 1 .. turn : relayed[k] = Length
    BY DEF EndInv, EndIsTold
  <2>1. \A k \in 1 .. turn : k \in Turns /\ k <= turn
    BY IteratorAssumption DEF TypeInv, TypeOK, LoopTypes, Turns
  <2> QED
    BY <2>1 DEF EndInv
<1> QED
  BY <1>1, <1>2, SerialAlways, ToldStep, EndStep, PTL DEF Spec
=============================================================================
