--------------------------- MODULE ClientLifecycle ---------------------------
(***************************************************************************)
(* client_impl.go: a client shared by several goroutines, the control      *)
(* plane that interrupts it, and the runs its queries start.               *)
(*                                                                         *)
(* Every method takes c.mu for each of its parts but not across them:      *)
(* Query checks that the client is connected, reads activeSession without  *)
(* the lock, starts the run and only then stores its channels and cancel   *)
(* function; Interrupt looks up the controller, checks the connection,     *)
(* reads the cancel function and then calls it.  A run is what QueryRun    *)
(* shows of it: it sends its messages, the last one a result, or reports   *)
(* an error and ends; once cancelled it ends without being read.           *)
(***************************************************************************)
EXTENDS Integers, FiniteSets

CONSTANTS
  Callers,      \* goroutines that use the client
  MaxRuns,      \* bound: runs started in a behaviour
  Length,       \* messages of a run that is not cancelled, the result last
  OutCap,       \* capacity of a run's message channel
  Sessions,     \* session names a Query can be given
  StartSession, \* "default", or the session to resume
  Torn,         \* not a session: what a racing read of a string can yield
  None

ASSUME ClientAssumption ==
  /\ MaxRuns \in Nat /\ Length \in Nat \ {0} /\ OutCap \in Nat \ {0}
  /\ StartSession \in Sessions
  /\ Torn \notin Sessions /\ None \notin Sessions /\ Torn # None
  /\ None \notin Nat

VARIABLES
  connected, closed, activeSession,
  current,      \* run of currentMsgs, currentErrs and currentCancel, or None
  launched,     \* runs started so far; runs are 1 .. launched
  live,         \* runs whose goroutine has not returned
  cancelled,    \* runs whose context is cancelled
  stored,       \* history variable: runs that setCurrent was called for
  sent, read,   \* messages sent on, and received from, each run's channel
  err,          \* each run's errs: "none", "sent" or "read"
  ranged,       \* history variable: who has ranged over each run's channels
  iterated,     \* runs of StartWithStream, fed by an iterator
  session,      \* the session of each run
  pc, handle, asked,
  streaming,    \* callers on their way to start such a run
  saw,          \* what the caller's iterator has yielded last of an end
  before        \* history variable: stored, when Interrupt was called

clientVars == <<connected, closed, activeSession, current>>
runVars    == <<launched, live, cancelled, stored, sent, read, err, ranged, iterated, session>>
callerVars == <<handle, asked, streaming, saw, before>>
vars == <<clientVars, runVars, pc, callerVars>>

Runs == 1 .. MaxRuns

Goto(p, l) == pc' = [pc EXCEPT ![p] = l]

\* The call returns: its local variables are gone.
Return(p) ==
  /\ Goto(p, "idle")
  /\ handle' = [handle EXCEPT ![p] = None]
  /\ asked' = [asked EXCEPT ![p] = None]
  /\ streaming' = streaming \ {p}
  /\ saw' = [saw EXCEPT ![p] = "nothing"]
  /\ before' = [before EXCEPT ![p] = {}]

Init ==
  /\ connected = FALSE /\ closed = FALSE
  /\ activeSession = StartSession /\ current = None
  /\ launched = 0 /\ live = {} /\ cancelled = {} /\ stored = {}
  /\ sent = [r \in Runs |-> 0] /\ read = [r \in Runs |-> 0]
  /\ err = [r \in Runs |-> "none"] /\ ranged = [r \in Runs |-> {}]
  /\ iterated = {} /\ streaming = {}
  /\ session = [r \in Runs |-> None]
  /\ pc = [p \in Callers |-> "idle"] /\ handle = [p \in Callers |-> None]
  /\ asked = [p \in Callers |-> None] /\ saw = [p \in Callers |-> "nothing"]
  /\ before = [p \in Callers |-> {}]

-----------------------------------------------------------------------------
(* Starting, and sending a query.                                          *)

(* Start, StartWithContent and StartWithStream: the call is refused when   *)
(* the client is connected or closed, and may fail before it connects (the *)
(* state is then as before).  StartWithStream goes on without checking     *)
(* again that the client is connected.                                     *)
Start(p) ==
  /\ pc[p] = "idle" /\ ~closed /\ ~connected
  /\ connected' = TRUE
  /\ activeSession' = StartSession
  /\ \/ \E next \in {"idle", "query"} : Goto(p, next) /\ UNCHANGED streaming
     \/ Goto(p, "session") /\ streaming' = streaming \cup {p}
  /\ UNCHANGED <<closed, current, runVars, handle, asked, saw, before>>

Query(p) ==
  /\ pc[p] = "idle"
  /\ \E s \in Sessions \cup {None} : asked' = [asked EXCEPT ![p] = s]
  /\ Goto(p, "query")
  /\ UNCHANGED <<clientVars, runVars, handle, streaming, saw, before>>

CheckConnected(p) ==
  /\ pc[p] = "query"
  /\ IF connected /\ ~closed
     THEN Goto(p, "session") /\ UNCHANGED callerVars
     ELSE Return(p)
  /\ UNCHANGED <<clientVars, runVars>>

(* sid := c.activeSession, without the lock: while another caller is about *)
(* to store a different session, half of either string may be read.        *)
RacingStore(p) == \E q \in Callers \ {p} : pc[q] = "store" /\ asked[q] # activeSession
SessionRead(p) == {activeSession} \cup (IF RacingStore(p) THEN {Torn} ELSE {})

ReadSession(p) ==
  /\ pc[p] = "session"
  /\ IF asked[p] # None
     THEN UNCHANGED asked
     ELSE \E s \in SessionRead(p) : asked' = [asked EXCEPT ![p] = s]
  /\ Goto(p, "launch")
  /\ UNCHANGED <<clientVars, runVars, handle, streaming, saw, before>>

\* runContent and runMessageIterator, up to setCurrent: the run is started.
Launch(p) ==
  /\ pc[p] = "launch" /\ launched < MaxRuns
  /\ launched' = launched + 1
  /\ live' = live \cup {launched'}
  /\ session' = [session EXCEPT ![launched'] = asked[p]]
  /\ handle' = [handle EXCEPT ![p] = launched']
  /\ iterated' = IF p \in streaming THEN iterated \cup {launched'} ELSE iterated
  /\ streaming' = streaming \ {p}
  /\ Goto(p, "store")
  /\ UNCHANGED <<clientVars, cancelled, stored, sent, read, err, ranged,
                 asked, saw, before>>

KeepPrevious   == UNCHANGED cancelled          \* slip: the previous run goes on
CancelPrevious == cancelled' = cancelled \cup ({current} \ {None})

SetCurrent(p) ==
  /\ pc[p] = "store"
  /\ CancelPrevious
  /\ current' = handle[p]
  /\ activeSession' = asked[p]
  /\ stored' = stored \cup {handle[p]}
  /\ Return(p)
  /\ UNCHANGED <<connected, closed, launched, live, sent, read, err, ranged, iterated,
                 session>>

-----------------------------------------------------------------------------
(* Interrupt and Close.                                                    *)

\* getControlPlane: nil unless the client is connected and not closed.
Interrupt(p) ==
  /\ pc[p] = "idle" /\ connected /\ ~closed
  /\ before' = [before EXCEPT ![p] = stored]
  /\ Goto(p, "interrupt")
  /\ UNCHANGED <<clientVars, runVars, handle, asked, streaming, saw>>

HostConnected(p) ==
  /\ pc[p] = "interrupt"
  /\ IF connected /\ ~closed
     THEN Goto(p, "getcancel") /\ UNCHANGED callerVars
     ELSE Return(p)
  /\ UNCHANGED <<clientVars, runVars>>

CurrentCancel(p) ==
  /\ pc[p] = "getcancel"
  /\ IF current = None
     THEN Return(p)
     ELSE /\ Goto(p, "cancel")
          /\ handle' = [handle EXCEPT ![p] = current]
          /\ UNCHANGED <<asked, streaming, saw, before>>
  /\ UNCHANGED <<clientVars, runVars>>

\* cancel(), then Interrupt returns nil.
CallCancel(p) ==
  /\ pc[p] = "cancel"
  /\ cancelled' = cancelled \cup {handle[p]}
  /\ Goto(p, "interrupted")
  /\ UNCHANGED <<clientVars, launched, live, stored, sent, read, err, ranged, iterated,
                 session, callerVars>>

InterruptReturns(p) ==
  /\ pc[p] = "interrupted"
  /\ Return(p)
  /\ UNCHANGED <<clientVars, runVars>>

\* The channels and the cancel function stay stored.
Close(p) ==
  /\ pc[p] = "idle" /\ ~closed
  /\ CancelPrevious
  /\ closed' = TRUE /\ connected' = FALSE
  /\ UNCHANGED <<activeSession, current, launched, live, stored, sent, read,
                 err, ranged, iterated, session, pc, callerVars>>

-----------------------------------------------------------------------------
(* ReceiveMessages and ReceiveResponse: range over the channels of the run *)
(* that is current when the range begins.                                  *)

Receive(p) ==
  /\ pc[p] = "idle" /\ connected /\ current # None
  /\ handle' = [handle EXCEPT ![p] = current]
  /\ ranged' = [ranged EXCEPT ![current] = @ \cup {p}]
  /\ saw' = [saw EXCEPT ![p] = IF ranged[current] = {} THEN "nothing" ELSE "late"]
  /\ Goto(p, "receiving")
  /\ UNCHANGED <<clientVars, launched, live, cancelled, stored, sent, read, err,
                 iterated, session, asked, streaming, before>>

\* The last message of a run of full length is its result.
ReceiveMessage(p) ==
  LET r == handle[p] IN
  /\ pc[p] = "receiving" /\ read[r] < sent[r]
  /\ read' = [read EXCEPT ![r] = @ + 1]
  /\ saw' = IF read'[r] = Length THEN [saw EXCEPT ![p] = "result"] ELSE saw
  /\ UNCHANGED <<clientVars, launched, live, cancelled, stored, sent, err, ranged, iterated,
                 session, pc, handle, asked, streaming, before>>

\* ReceiveResponse drops an error that follows the result.
ReceiveError(p) ==
  LET r == handle[p] IN
  /\ pc[p] = "receiving" /\ err[r] = "sent"
  /\ err' = [err EXCEPT ![r] = "read"]
  /\ saw' = IF saw[p] = "nothing" THEN [saw EXCEPT ![p] = "error"] ELSE saw
  /\ UNCHANGED <<clientVars, launched, live, cancelled, stored, sent, read, ranged, iterated,
                 session, pc, handle, asked, streaming, before>>

\* slips: the range ends with the messages or with the errors; with a result
OneClosed(r)  == r \notin live /\ (read[r] = sent[r] \/ err[r] # "sent")
ResultRead(r) == r \notin live /\ read[r] = Length /\ err[r] # "sent"
BothClosed(r) == r \notin live /\ read[r] = sent[r] /\ err[r] # "sent"

ReceiveEnds(p) ==
  /\ pc[p] = "receiving" /\ BothClosed(handle[p])
  /\ Goto(p, "received")
  /\ UNCHANGED <<clientVars, runVars, callerVars>>

\* The caller leaves the range, or its own context is done.
StopReceiving(p) ==
  /\ pc[p] \in {"receiving", "received"}
  /\ Return(p)
  /\ UNCHANGED <<clientVars, runVars>>

-----------------------------------------------------------------------------
(* A run.                                                                  *)

OneTooMany(r) == sent[r] - read[r] <= OutCap   \* slip: off by one
HasRoom(r)    == sent[r] - read[r] < OutCap

Emit(r) ==
  /\ r \in live /\ sent[r] < Length /\ HasRoom(r)
  /\ sent' = [sent EXCEPT ![r] = @ + 1]
  /\ UNCHANGED <<clientVars, launched, live, cancelled, stored, read, err, ranged, iterated,
                 session, pc, callerVars>>

\* After the result the Stop hook can still report an error.
RunEnds(r) ==
  /\ r \in live /\ sent[r] = Length
  /\ live' = live \ {r}
  /\ \E e \in {"none", "sent"} : err' = [err EXCEPT ![r] = e]
  /\ UNCHANGED <<clientVars, launched, cancelled, stored, sent, read, ranged, iterated,
                 session, pc, callerVars>>

(* A failure of its own, or ctx.Done() where it waits to send.  A run fed  *)
(* by an iterator may also end without a word: the iterator was empty, or  *)
(* it was found closed when the context was done too.                      *)
RunFails(r) ==
  /\ r \in live /\ sent[r] < Length
  /\ r \in cancelled \/ HasRoom(r)
  /\ live' = live \ {r}
  /\ \E e \in (IF r \in iterated THEN {"none", "sent"} ELSE {"sent"}) :
       err' = [err EXCEPT ![r] = e]
  /\ UNCHANGED <<clientVars, launched, cancelled, stored, sent, read, ranged, iterated,
                 session, pc, callerVars>>

RunStep(r) == Emit(r) \/ RunEnds(r) \/ RunFails(r)

CallerStep(p) ==
  \/ Start(p) \/ Query(p) \/ CheckConnected(p) \/ ReadSession(p) \/ Launch(p)
  \/ SetCurrent(p) \/ Interrupt(p) \/ HostConnected(p) \/ CurrentCancel(p)
  \/ CallCancel(p) \/ InterruptReturns(p) \/ Close(p) \/ Receive(p)
  \/ ReceiveMessage(p) \/ ReceiveError(p) \/ ReceiveEnds(p) \/ StopReceiving(p)

Next == (\E p \in Callers : CallerStep(p)) \/ (\E r \in Runs : RunStep(r))

Spec == Init /\ [][Next]_vars

(* A goroutine that ranges over a run's channels goes on; runs go on.      *)
FairSpec ==
  /\ Spec
  /\ \A r \in Runs : WF_vars(RunStep(r))
  /\ \A p \in Callers :
       WF_vars(ReceiveMessage(p) \/ ReceiveError(p) \/ ReceiveEnds(p))

-----------------------------------------------------------------------------
(* Properties.                                                             *)

Labels == {"idle", "query", "session", "launch", "store", "interrupt", "getcancel",
           "cancel", "interrupted", "receiving", "received"}

ClientTypes ==
  /\ connected \in BOOLEAN /\ closed \in BOOLEAN
  /\ activeSession \in Sessions \cup {Torn}
  /\ current \in Runs \cup {None}
RunTypes ==
  /\ launched \in 0 .. MaxRuns
  /\ live \subseteq 1 .. launched /\ iterated \subseteq 1 .. launched
  /\ cancelled \subseteq 1 .. launched /\ stored \subseteq 1 .. launched
  /\ sent \in [Runs -> 0 .. Length] /\ read \in [Runs -> 0 .. Length]
  /\ \A r \in Runs : read[r] <= sent[r] /\ sent[r] - read[r] <= OutCap
  /\ err \in [Runs -> {"none", "sent", "read"}]
  /\ ranged \in [Runs -> SUBSET Callers]
  /\ session \in [Runs -> Sessions \cup {Torn, None}]
CallerTypes ==
  /\ pc \in [Callers -> Labels]
  /\ handle \in [Callers -> Runs \cup {None}]
  /\ asked \in [Callers -> Sessions \cup {Torn, None}]
  /\ streaming \subseteq Callers
  /\ saw \in [Callers -> {"nothing", "late", "error", "result"}]
  /\ before \in [Callers -> SUBSET Runs]

\* The values of the variables, and the capacity of the runs' channels.
TypeOK == ClientTypes /\ RunTypes /\ CallerTypes

(* At most one run of the client goes on uncancelled unless its Query has  *)
(* not returned yet: whoever stores a run has cancelled the one before, so *)
(* the stored cancel function reaches everything that can be reached.      *)
NoOrphan ==
  \A r \in 1 .. launched :
    \/ r \in cancelled
    \/ r = current
    \/ \E p \in Callers : pc[p] = "store" /\ handle[p] = r

(* When Interrupt has returned nil, every run whose Query had returned     *)
(* when it was called is cancelled, whatever the other callers did in      *)
(* between ("Interrupt cancels the current in-flight request", client.go). *)
InterruptReaches ==
  \A p \in Callers : pc[p] = "interrupted" => before[p] \subseteq cancelled

(* A caller that ranges alone over the answer to a Query, to its end, has  *)
(* been given the result or an error.                                      *)
ResponseIsWhole ==
  \A p \in Callers :
    /\ pc[p] = "received"
    /\ ranged[handle[p]] = {p} /\ handle[p] \notin iterated
    => saw[p] # "nothing"

(* Ranging over a run's messages comes to an end, whoever else ranges over *)
(* them and whether or not the run is cancelled.                           *)
ReceiveReturns ==
  \A p \in Callers : pc[p] = "receiving" ~> pc[p] # "receiving"
=============================================================================
