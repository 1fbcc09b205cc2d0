------------------------ MODULE ClientLifecycle_proofs ------------------------
(***************************************************************************)
(* Proofs about ClientLifecycle, for any number of callers and runs: its   *)
(* types, that no run is out of reach of Interrupt and Close once its      *)
(* Query has returned, that Interrupt reaches every such run, and that an  *)
(* answer read to its end is whole.                                        *)
(***************************************************************************)
EXTENDS ClientLifecycle, TLAPS

\* A caller that uses its handle has one.
HandleTypes ==
  \A p \in Callers :
    /\ pc[p] \in {"store", "cancel", "receiving", "received"} => handle[p] \in 1 .. launched
    /\ pc[p] \in {"launch", "store"} => asked[p] \in Sessions \cup {Torn}

TypeInv == TypeOK /\ HandleTypes /\ current \in (1 .. launched) \cup {None}

(* Callers whose step changes only their own place and local variables.    *)
LocalStep(p) ==
  \/ Query(p) \/ CheckConnected(p) \/ ReadSession(p) \/ Interrupt(p)
  \/ HostConnected(p) \/ CurrentCancel(p) \/ InterruptReturns(p)
  \/ ReceiveEnds(p) \/ StopReceiving(p)

-----------------------------------------------------------------------------
\* A call that returns leaves typed local variables.
LEMMA ReturnTyped ==
  ASSUME CallerTypes, NEW p \in Callers, Return(p)
  PROVE  CallerTypes'
<1>1. (pc \in [Callers -> Labels] /\ handle \in [Callers -> Runs \cup {None}])'
  BY DEF CallerTypes, Return, Goto, Labels
<1>2. (asked \in [Callers -> Sessions \cup {Torn, None}] /\ streaming \subseteq Callers)'
  BY DEF CallerTypes, Return
<1>3. (saw \in [Callers -> {"nothing", "late", "error", "result"}])'
  BY DEF CallerTypes, Return
<1>4. (before \in [Callers -> SUBSET Runs])'
  BY DEF CallerTypes, Return
<1> QED
  BY <1>1, <1>2, <1>3, <1>4 DEF CallerTypes

\* What the client remembers stays typed.
LEMMA ClientTypesKept ==
  ASSUME TypeInv, Next
  PROVE  ClientTypes' /\ (current \in (1 .. launched) \cup {None})'
<1> USE ClientAssumption DEF TypeInv, TypeOK, ClientTypes, RunTypes, clientVars, runVars
<1>1. ASSUME NEW p \in Callers, CallerStep(p)
      PROVE  ClientTypes' /\ (current \in (1 .. launched) \cup {None})'
  <2>1. CASE Start(p)
    BY <2>1 DEF Start
  <2>2. CASE SetCurrent(p)
    <3>1. handle[p] \in 1 .. launched /\ asked[p] \in Sessions \cup {Torn}
      BY <2>2 DEF SetCurrent, HandleTypes
    <3>2. handle[p] \in Runs
      BY <3>1 DEF Runs
    <3> QED
      BY <2>2, <3>1, <3>2 DEF SetCurrent
  <2>3. CASE Close(p)
    BY <2>3 DEF Close
  <2>4. CASE Launch(p)
    BY <2>4 DEF Launch
  <2>5. CASE LocalStep(p) \/ CallCancel(p) \/ Receive(p) \/ ReceiveMessage(p) \/ ReceiveError(p)
    BY <2>5
    DEF LocalStep, Query, CheckConnected, ReadSession, Interrupt, HostConnected,
        CurrentCancel, CallCancel, InterruptReturns, Receive, ReceiveMessage,
        ReceiveError, ReceiveEnds, StopReceiving
  <2> QED
    BY <1>1, <2>1, <2>2, <2>3, <2>4, <2>5 DEF CallerStep, LocalStep
<1>2. ASSUME NEW r \in Runs, RunStep(r)
      PROVE  ClientTypes' /\ (current \in (1 .. launched) \cup {None})'
  BY <1>2 DEF RunStep, Emit, RunEnds, RunFails
<1> QED
  BY <1>1, <1>2 DEF Next

\* The runs stay typed, and no run's channel overflows.
LEMMA RunTypesKept ==
  ASSUME TypeInv, Next
  PROVE  RunTypes'
<1> USE ClientAssumption DEF TypeInv, TypeOK, RunTypes, runVars, Runs
<1>1. ASSUME NEW p \in Callers, CallerStep(p)
      PROVE  RunTypes'
  <2>1. CASE Launch(p)
    <3>1. launched' = launched + 1 /\ launched' \in 1 .. MaxRuns
      BY <2>1 DEF Launch
    <3>2. (/\ live \subseteq 1 .. launched /\ iterated \subseteq 1 .. launched
           /\ cancelled \subseteq 1 .. launched /\ stored \subseteq 1 .. launched)'
      BY <2>1, <3>1 DEF Launch
    <3>3. (session \in [Runs -> Sessions \cup {Torn, None}])'
      BY <2>1, <3>1 DEF Launch, CallerTypes
    <3> QED
      BY <2>1, <3>1, <3>2, <3>3 DEF Launch
  <2>2. CASE SetCurrent(p)
    <3>1. handle[p] \in 1 .. launched
      BY <2>2 DEF SetCurrent, HandleTypes
    <3> QED
      BY <2>2, <3>1 DEF SetCurrent, CancelPrevious, ClientTypes
  <2>3. CASE CallCancel(p)
    <3>1. handle[p] \in 1 .. launched
      BY <2>3 DEF CallCancel, HandleTypes
    <3> QED
      BY <2>3, <3>1 DEF CallCancel
  <2>4. CASE Close(p)
    BY <2>4 DEF Close, CancelPrevious
  <2>5. CASE Receive(p)
    BY <2>5 DEF Receive
  <2>6. CASE ReceiveMessage(p)
    <3>1. handle[p] \in Runs
      BY <2>6 DEF ReceiveMessage, HandleTypes
    <3>2. /\ read' = [read EXCEPT ![handle[p]] = @ + 1]
          /\ read[handle[p]] < sent[handle[p]]
          /\ UNCHANGED <<launched, live, cancelled, stored, sent, err, ranged, iterated, session>>
      BY <2>6 DEF ReceiveMessage
    <3>3. \A r \in Runs : sent[r] \in 0 .. Length /\ read[r] \in 0 .. Length
      OBVIOUS
    <3>4. read[handle[p]] + 1 \in 0 .. Length
      BY <3>1, <3>2, <3>3
    <3>5. (read \in [Runs -> 0 .. Length])'
      BY <3>2, <3>4
    <3>6. (\A r \in Runs : read[r] <= sent[r] /\ sent[r] - read[r] <= OutCap)'
      BY <3>1, <3>2, <3>3
    <3> QED
      BY <3>2, <3>5, <3>6
  <2>7. CASE ReceiveError(p)
    BY <2>7 DEF ReceiveError
  <2>8. CASE LocalStep(p) \/ Start(p)
    BY <2>8
    DEF LocalStep, Start, Query, CheckConnected, ReadSession, Interrupt, HostConnected,
        CurrentCancel, InterruptReturns, ReceiveEnds, StopReceiving
  <2> QED
    BY <1>1, <2>1, <2>2, <2>3, <2>4, <2>5, <2>6, <2>7, <2>8 DEF CallerStep, LocalStep
<1>2. ASSUME NEW r \in Runs, RunStep(r)
      PROVE  RunTypes'
  <2>1. CASE Emit(r)
    <3>1. sent[r] \in 0 .. Length /\ read[r] \in 0 .. Length /\ read[r] <= sent[r]
      OBVIOUS
    <3>2. /\ sent' = [sent EXCEPT ![r] = @ + 1] /\ sent[r] < Length
          /\ sent[r] - read[r] < OutCap
          /\ UNCHANGED <<launched, live, cancelled, stored, read, err, ranged, iterated, session>>
      BY <2>1 DEF Emit, HasRoom
    <3>3. (sent \in [Runs -> 0 .. Length])'
      BY <3>1, <3>2
    <3>4. (\A q \in Runs : read[q] <= sent[q] /\ sent[q] - read[q] <= OutCap)'
      BY <3>1, <3>2
    <3> QED
      BY <3>2, <3>3, <3>4
  <2>2. CASE RunEnds(r)
    <3>1. PICK e \in {"none", "sent"} : err' = [err EXCEPT ![r] = e]
      BY <2>2 DEF RunEnds
    <3>2. (err \in [Runs -> {"none", "sent", "read"}])'
      BY <3>1
    <3> QED
      BY <2>2, <3>2 DEF RunEnds
  <2>3. CASE RunFails(r)
    <3>1. PICK e \in {"none", "sent"} : err' = [err EXCEPT ![r] = e]
      BY <2>3 DEF RunFails
    <3>2. (err \in [Runs -> {"none", "sent", "read"}])'
      BY <3>1
    <3> QED
      BY <2>3, <3>2 DEF RunFails
  <2> QED
    BY <1>2, <2>1, <2>2, <2>3 DEF RunStep
<1> QED
  BY <1>1, <1>2 DEF Next

\* The callers' variables stay typed.
LEMMA CallerTypesKept ==
  ASSUME TypeInv, Next
  PROVE  CallerTypes'
<1> USE ClientAssumption DEF TypeInv, TypeOK
<1>1. ASSUME NEW p \in Callers, CallerStep(p)
      PROVE  CallerTypes'
  <2> USE DEF callerVars, Goto, Labels
  <2>1. CASE Start(p)
    BY <2>1 DEF Start, CallerTypes
  <2>2. CASE Query(p)
    <3>1. PICK s \in Sessions \cup {None} : asked' = [asked EXCEPT ![p] = s]
      BY <2>2 DEF Query
    <3> QED
      BY <2>2, <3>1 DEF Query, CallerTypes
  <2>3. CASE CheckConnected(p) \/ HostConnected(p)
    BY <2>3, ReturnTyped DEF CheckConnected, HostConnected, CallerTypes
  <2>4. CASE ReadSession(p)
    <3>1. (asked \in [Callers -> Sessions \cup {Torn, None}])'
      BY <2>4 DEF ReadSession, SessionRead, CallerTypes, ClientTypes
    <3> QED
      BY <2>4, <3>1 DEF ReadSession, CallerTypes
  <2>5. CASE Launch(p)
    <3>1. launched' \in Runs
      BY <2>5 DEF Launch, RunTypes, Runs
    <3> QED
      BY <2>5, <3>1 DEF Launch, CallerTypes
  <2>6. CASE SetCurrent(p) \/ InterruptReturns(p) \/ StopReceiving(p)
    BY <2>6, ReturnTyped DEF SetCurrent, InterruptReturns, StopReceiving
  <2>7. CASE Interrupt(p)
    <3>1. stored \subseteq Runs
      BY DEF RunTypes, Runs
    <3> QED
      BY <2>7, <3>1 DEF Interrupt, CallerTypes
  <2>8. CASE CurrentCancel(p)
    BY <2>8, ReturnTyped DEF CurrentCancel, CallerTypes, ClientTypes
  <2>9. CASE CallCancel(p) \/ Close(p) \/ ReceiveEnds(p)
    BY <2>9 DEF CallCancel, Close, ReceiveEnds, CallerTypes
  <2>10. CASE Receive(p)
    BY <2>10 DEF Receive, CallerTypes, ClientTypes
  <2>11. CASE ReceiveMessage(p) \/ ReceiveError(p)
    BY <2>11 DEF ReceiveMessage, ReceiveError, CallerTypes
  <2> QED
    BY <1>1, <2>1, <2>2, <2>3, <2>4, <2>5, <2>6, <2>7, <2>8, <2>9, <2>10, <2>11
    DEF CallerStep
<1>2. ASSUME NEW r \in Runs, RunStep(r)
      PROVE  CallerTypes'
  BY <1>2 DEF RunStep, Emit, RunEnds, RunFails, CallerTypes, callerVars
<1> QED
  BY <1>1, <1>2 DEF Next

\* A caller still has the handle it uses.
LEMMA HandleTypesKept ==
  ASSUME TypeInv, Next
  PROVE  HandleTypes'
<1> USE ClientAssumption DEF TypeInv, TypeOK, HandleTypes, RunTypes, CallerTypes, runVars
<1>1. ASSUME NEW p \in Callers, CallerStep(p)
      PROVE  HandleTypes'
  <2> USE DEF callerVars, Goto, Return
  <2>1. CASE Start(p) \/ Query(p) \/ CheckConnected(p) \/ HostConnected(p) \/ Interrupt(p)
    BY <2>1 DEF Start, Query, CheckConnected, HostConnected, Interrupt
  <2>2. CASE ReadSession(p)
    <3>1. asked'[p] \in Sessions \cup {Torn}
      BY <2>2 DEF ReadSession, SessionRead, ClientTypes
    <3> QED
      BY <2>2, <3>1 DEF ReadSession
  <2>3. CASE Launch(p)
    <3>1. launched' = launched + 1 /\ launched' \in 1 .. launched'
      BY <2>3 DEF Launch
    <3>2. \A r \in 1 .. launched : r \in 1 .. launched'
      BY <3>1
    <3> QED
      BY <2>3, <3>1, <3>2 DEF Launch
  <2>4. CASE SetCurrent(p) \/ InterruptReturns(p) \/ StopReceiving(p)
    BY <2>4 DEF SetCurrent, InterruptReturns, StopReceiving
  <2>5. CASE CurrentCancel(p) \/ Receive(p)
    BY <2>5 DEF CurrentCancel, Receive
  <2>6. CASE CallCancel(p) \/ Close(p) \/ ReceiveEnds(p)
    BY <2>6 DEF CallCancel, Close, ReceiveEnds
  <2>7. CASE ReceiveMessage(p) \/ ReceiveError(p)
    BY <2>7 DEF ReceiveMessage, ReceiveError
  <2> QED
    BY <1>1, <2>1, <2>2, <2>3, <2>4, <2>5, <2>6, <2>7 DEF CallerStep
<1>2. ASSUME NEW r \in Runs, RunStep(r)
      PROVE  HandleTypes'
  BY <1>2 DEF RunStep, Emit, RunEnds, RunFails, callerVars
<1> QED
  BY <1>1, <1>2 DEF Next

\* TypeInv is inductive.
LEMMA TypesAreInvariant == Spec => []TypeInv
<1>1. Init => TypeInv
  <2> SUFFICES ASSUME Init PROVE TypeInv
    OBVIOUS
  <2> USE ClientAssumption DEF Init
  <2>1. ClientTypes /\ current = None
    BY DEF ClientTypes
  <2>2. RunTypes
    <3>1. launched \in 0 .. MaxRuns /\ 0 \in 0 .. Length
      OBVIOUS
    <3>2. \A r \in Runs : read[r] <= sent[r] /\ sent[r] - read[r] <= OutCap
      OBVIOUS
    <3> QED
      BY <3>1, <3>2 DEF RunTypes
  <2>3. CallerTypes
    BY DEF CallerTypes, Labels
  <2>4. HandleTypes
    BY DEF HandleTypes
  <2> QED
    BY <2>1, <2>2, <2>3, <2>4 DEF TypeInv, TypeOK
<1>2. TypeInv /\ [Next]_vars => TypeInv'
  <2>1. TypeInv /\ Next => TypeInv'
    BY ClientTypesKept, RunTypesKept, CallerTypesKept, HandleTypesKept DEF TypeInv, TypeOK
  <2>2. TypeInv /\ UNCHANGED vars => TypeInv'
    BY DEF TypeInv, TypeOK, ClientTypes, RunTypes, CallerTypes, HandleTypes,
       vars, clientVars, runVars, callerVars
  <2> QED
    BY <2>1, <2>2
<1> QED
  BY <1>1, <1>2, PTL DEF Spec

(* The client's variables keep their types, and no run's channel holds     *)
(* more than its capacity.                                                 *)
THEOREM TypeCorrect == Spec => []TypeOK
<1>1. TypeInv => TypeOK
  BY DEF TypeInv
<1> QED
  BY <1>1, TypesAreInvariant, PTL

-----------------------------------------------------------------------------
(* Reach.  A stored run is cancelled or current; an Interrupt under way    *)
(* will cancel the run it has read, and those it has not read are older    *)
(* and cancelled.                                                          *)

StoredInv == \A r \in stored : r \in cancelled \/ r = current

InterruptInv ==
  \A p \in Callers :
    /\ pc[p] \in {"interrupt", "getcancel"} => before[p] \subseteq stored
    /\ pc[p] = "cancel" => before[p] \subseteq cancelled \cup {handle[p]}
    /\ pc[p] = "interrupted" => before[p] \subseteq cancelled

ReachInv == NoOrphan /\ StoredInv /\ InterruptInv

\* Runs stay stored and cancelled.
LEMMA SetsOnlyGrow ==
  ASSUME Next
  PROVE  cancelled \subseteq cancelled' /\ stored \subseteq stored'
<1>1. ASSUME NEW p \in Callers, CallerStep(p)
      PROVE  cancelled \subseteq cancelled' /\ stored \subseteq stored'
  BY <1>1
  DEF CallerStep, Start, Query, CheckConnected, ReadSession, Launch, SetCurrent,
      CancelPrevious, Interrupt, HostConnected, CurrentCancel, CallCancel,
      InterruptReturns, Close, Receive, ReceiveMessage, ReceiveError, ReceiveEnds,
      StopReceiving, runVars
<1>2. ASSUME NEW r \in Runs, RunStep(r)
      PROVE  cancelled \subseteq cancelled' /\ stored \subseteq stored'
  BY <1>2 DEF RunStep, Emit, RunEnds, RunFails
<1> QED
  BY <1>1, <1>2 DEF Next

\* Every run stays cancelled, current, or on its way to be stored.
LEMMA NoOrphanKept ==
  ASSUME TypeInv, NoOrphan, Next
  PROVE  NoOrphan'
<1> USE DEF TypeInv, TypeOK, RunTypes, CallerTypes
<1>1. SUFFICES ASSUME NEW r \in 1 .. launched', r \notin cancelled', r # current'
               PROVE  \E q \in Callers : pc'[q] = "store" /\ handle'[q] = r
  BY DEF NoOrphan
<1>2. r \notin cancelled
  BY <1>1, SetsOnlyGrow
<1>3. ASSUME NEW p \in Callers, CallerStep(p)
      PROVE  \E q \in Callers : pc'[q] = "store" /\ handle'[q] = r
  <2>1. CASE Launch(p)
    <3>1. CASE r = launched'
      BY <2>1, <3>1 DEF Launch, Goto
    <3>2. CASE r # launched'
      <4>1. r \in 1 .. launched /\ r # current
        BY <1>1, <2>1, <3>2, ClientAssumption DEF Launch, clientVars
      <4>2. PICK q \in Callers : pc[q] = "store" /\ handle[q] = r
        BY <1>2, <4>1 DEF NoOrphan
      <4>3. q # p
        BY <2>1, <4>2 DEF Launch
      <4> QED
        BY <2>1, <4>2, <4>3 DEF Launch, Goto
    <3> QED
      BY <3>1, <3>2
  <2>2. CASE SetCurrent(p)
    <3>1. r \in 1 .. launched /\ r # handle[p]
      BY <1>1, <2>2 DEF SetCurrent
    <3>2. r # current
      <4>1. SUFFICES ASSUME r = current PROVE FALSE
        OBVIOUS
      <4>2. r # None
        BY <3>1, ClientAssumption
      <4> QED
        BY <1>1, <2>2, <4>1, <4>2 DEF SetCurrent, CancelPrevious
    <3>3. PICK q \in Callers : pc[q] = "store" /\ handle[q] = r
      BY <1>2, <3>1, <3>2 DEF NoOrphan
    <3>4. q # p
      BY <3>1, <3>3
    <3> QED
      BY <2>2, <3>3, <3>4 DEF SetCurrent, Return, Goto
  <2>3. CASE ~ (Launch(p) \/ SetCurrent(p))
    <3>1. launched' = launched /\ current' = current
      BY <1>3, <2>3
      DEF CallerStep, Start, Query, CheckConnected, ReadSession, Interrupt,
          HostConnected, CurrentCancel, CallCancel, InterruptReturns, Close, Receive,
          ReceiveMessage, ReceiveError, ReceiveEnds, StopReceiving, clientVars, runVars
    <3>2. PICK q \in Callers : pc[q] = "store" /\ handle[q] = r
      BY <1>1, <1>2, <3>1 DEF NoOrphan
    <3>3. pc'[q] = pc[q] /\ handle'[q] = handle[q]
      BY <1>3, <2>3, <3>2
      DEF CallerStep, Start, Query, CheckConnected, ReadSession, Interrupt,
          HostConnected, CurrentCancel, CallCancel, InterruptReturns, Close, Receive,
          ReceiveMessage, ReceiveError, ReceiveEnds, StopReceiving, callerVars,
          Return, Goto
    <3> QED
      BY <3>2, <3>3
  <2> QED
    BY <2>1, <2>2, <2>3
<1>4. ASSUME NEW s \in Runs, RunStep(s)
      PROVE  \E q \in Callers : pc'[q] = "store" /\ handle'[q] = r
  <2>1. UNCHANGED <<launched, current, pc, handle>>
    BY <1>4 DEF RunStep, Emit, RunEnds, RunFails, clientVars, callerVars
  <2> QED
    BY <1>1, <1>2, <2>1 DEF NoOrphan
<1> QED
  BY <1>3, <1>4 DEF Next

\* A stored run stays cancelled or current.
LEMMA StoredInvKept ==
  ASSUME TypeInv, StoredInv, Next
  PROVE  StoredInv'
<1>1. ASSUME NEW p \in Callers, CallerStep(p)
      PROVE  StoredInv'
  <2>1. CASE SetCurrent(p)
    <3>1. \A r \in stored : r \in cancelled'
      <4>1. \A r \in stored : r # None
        BY ClientAssumption DEF TypeInv, TypeOK, RunTypes
      <4> QED
        BY <2>1, <4>1 DEF SetCurrent, CancelPrevious, StoredInv
    <3> QED
      BY <2>1, <3>1 DEF SetCurrent, StoredInv
  <2>2. CASE ~ SetCurrent(p)
    <3>1. stored' = stored /\ current' = current
      BY <1>1, <2>2
      DEF CallerStep, Start, Query, CheckConnected, ReadSession, Launch, Interrupt,
          HostConnected, CurrentCancel, CallCancel, InterruptReturns, Close, Receive,
          ReceiveMessage, ReceiveError, ReceiveEnds, StopReceiving, clientVars, runVars
    <3> QED
      BY <3>1, SetsOnlyGrow DEF StoredInv
  <2> QED
    BY <2>1, <2>2
<1>2. ASSUME NEW r \in Runs, RunStep(r)
      PROVE  StoredInv'
  BY <1>2, SetsOnlyGrow DEF RunStep, Emit, RunEnds, RunFails, clientVars, StoredInv
<1> QED
  BY <1>1, <1>2 DEF Next

\* An Interrupt under way stays on its way to cancel what it must.
LEMMA InterruptInvKept ==
  ASSUME TypeInv, StoredInv, InterruptInv, Next
  PROVE  InterruptInv'
<1> USE DEF TypeInv, TypeOK, CallerTypes
<1>1. ASSUME NEW p \in Callers, CallerStep(p), NEW q \in Callers
      PROVE  /\ pc'[q] \in {"interrupt", "getcancel"} => before'[q] \subseteq stored'
             /\ pc'[q] = "cancel" => before'[q] \subseteq cancelled' \cup {handle'[q]}
             /\ pc'[q] = "interrupted" => before'[q] \subseteq cancelled'
  <2>1. CASE q # p
    <3>1. pc'[q] = pc[q] /\ handle'[q] = handle[q] /\ before'[q] = before[q]
      BY <1>1, <2>1
      DEF CallerStep, Start, Query, CheckConnected, ReadSession, Launch, SetCurrent,
          Interrupt, HostConnected, CurrentCancel, CallCancel, InterruptReturns, Close,
          Receive, ReceiveMessage, ReceiveError, ReceiveEnds, StopReceiving,
          callerVars, Return, Goto
    <3> QED
      BY <3>1, SetsOnlyGrow DEF InterruptInv
  <2>2. CASE q = p
    <3>1. CASE Interrupt(p)
      BY <2>2, <3>1 DEF Interrupt, Goto, runVars
    <3>2. CASE HostConnected(p)
      BY <2>2, <3>2 DEF HostConnected, Return, Goto, runVars, callerVars, InterruptInv
    <3>3. CASE CurrentCancel(p)
      <4>1. CASE current = None
        BY <2>2, <3>3, <4>1 DEF CurrentCancel, Return, Goto
      <4>2. CASE current # None
        <5>1. pc'[p] = "cancel" /\ handle'[p] = current /\ before'[p] = before[p]
          BY <3>3, <4>2 DEF CurrentCancel, Goto
        <5>2. before[p] \subseteq stored /\ cancelled' = cancelled
          BY <3>3 DEF CurrentCancel, InterruptInv, runVars
        <5> QED
          BY <2>2, <5>1, <5>2 DEF StoredInv
      <4> QED
        BY <4>1, <4>2
    <3>4. CASE CallCancel(p)
      BY <2>2, <3>4 DEF CallCancel, Goto, callerVars, InterruptInv
    <3>5. CASE Start(p) \/ Query(p) \/ CheckConnected(p) \/ ReadSession(p) \/ Launch(p)
               \/ SetCurrent(p) \/ InterruptReturns(p)
      BY <2>2, <3>5
      DEF Start, Query, CheckConnected, ReadSession, Launch, SetCurrent,
          InterruptReturns, Return, Goto, callerVars
    <3>6. CASE Close(p) \/ Receive(p) \/ ReceiveMessage(p) \/ ReceiveError(p)
               \/ ReceiveEnds(p) \/ StopReceiving(p)
      BY <2>2, <3>6
      DEF Close, Receive, ReceiveMessage, ReceiveError, ReceiveEnds, StopReceiving,
          Return, Goto, callerVars
    <3> QED
      BY <1>1, <3>1, <3>2, <3>3, <3>4, <3>5, <3>6 DEF CallerStep
  <2> QED
    BY <2>1, <2>2
<1>2. ASSUME NEW r \in Runs, RunStep(r)
      PROVE  InterruptInv'
  <2>1. UNCHANGED <<pc, handle, before, cancelled, stored>>
    BY <1>2 DEF RunStep, Emit, RunEnds, RunFails, callerVars
  <2> QED
    BY <2>1 DEF InterruptInv
<1> QED
  BY <1>1, <1>2 DEF Next, InterruptInv

\* ReachInv is an invariant.
LEMMA ReachIsInvariant == Spec => []ReachInv
<1>1. Init => ReachInv
  BY ClientAssumption DEF Init, ReachInv, NoOrphan, StoredInv, InterruptInv
<1>2. TypeInv /\ ReachInv /\ [Next]_vars => ReachInv'
  <2>1. TypeInv /\ ReachInv /\ Next => ReachInv'
    BY NoOrphanKept, StoredInvKept, InterruptInvKept DEF ReachInv
  <2>2. ReachInv /\ UNCHANGED vars => ReachInv'
    BY DEF ReachInv, NoOrphan, StoredInv, InterruptInv, vars, clientVars, runVars, callerVars
  <2> QED
    BY <2>1, <2>2
<1> QED
  BY <1>1, <1>2, TypesAreInvariant, PTL DEF Spec

(* For any number of callers, at most the current run and those whose      *)
(* Query has not returned yet go on uncancelled (client_impl.go:137-152).  *)
THEOREM NoRunIsOrphaned == Spec => []NoOrphan
<1>1. ReachInv => NoOrphan
  BY DEF ReachInv
<1> QED
  BY <1>1, ReachIsInvariant, PTL

(* For any number of callers, an Interrupt that returns nil has cancelled  *)
(* every run whose Query had returned before it was called, although it    *)
(* reads the cancel function in one step and calls it in another           *)
(* (controlplane.go:104-119).                                              *)
THEOREM InterruptIsEffective == Spec => []InterruptReaches
<1>1. ReachInv => InterruptReaches
  BY DEF ReachInv, InterruptInv, InterruptReaches
<1> QED
  BY <1>1, ReachIsInvariant, PTL

-----------------------------------------------------------------------------
(* Answers.  What has been taken from a run's channels was taken by        *)
(* someone who ranges over them; whoever was the first and stays alone has *)
(* seen it, and at the end nothing is left in them.                        *)

Ranging(p) == pc[p] \in {"receiving", "received"}

RunsInv ==
  \A r \in Runs :
    /\ ranged[r] = {} => read[r] = 0 /\ err[r] # "read"
    /\ r \in 1 .. launched /\ r \notin live \cup iterated =>
         sent[r] = Length \/ err[r] # "none"

RangingInv ==
  \A p \in Callers : Ranging(p) =>
    /\ p \in ranged[handle[p]]
    /\ ranged[handle[p]] = {p} /\ saw[p] = "nothing" =>
         read[handle[p]] # Length /\ err[handle[p]] # "read"
    /\ pc[p] = "received" => BothClosed(handle[p])

\* The runs and the callers are typed.
LEMMA Typed ==
  ASSUME TypeInv
  PROVE  /\ Length \in Nat /\ Length > 0
         /\ launched \in Nat /\ \A r \in 1 .. launched : r \in Runs /\ r \in Nat
         /\ live \subseteq 1 .. launched /\ iterated \subseteq 1 .. launched
         /\ read \in [Runs -> 0 .. Length] /\ sent \in [Runs -> 0 .. Length]
         /\ err \in [Runs -> {"none", "sent", "read"}]
         /\ ranged \in [Runs -> SUBSET Callers]
         /\ pc \in [Callers -> Labels] /\ saw \in [Callers -> {"nothing", "late", "error", "result"}]
         /\ handle \in [Callers -> Runs \cup {None}] /\ None \notin Runs
         /\ \A p \in Callers : Ranging(p) => handle[p] \in 1 .. launched
         /\ current # None => current \in 1 .. launched
<1>1. RunTypes /\ CallerTypes /\ HandleTypes /\ current \in (1 .. launched) \cup {None}
  BY DEF TypeInv, TypeOK
<1>2. Length \in Nat /\ Length > 0 /\ MaxRuns \in Nat /\ None \notin Runs
  BY ClientAssumption DEF Runs
<1>3. launched \in Nat /\ \A r \in 1 .. launched : r \in Runs /\ r \in Nat
  BY <1>1, <1>2 DEF RunTypes, Runs
<1>4. \A p \in Callers : Ranging(p) => handle[p] \in 1 .. launched
  BY <1>1 DEF HandleTypes, Ranging
<1> QED
  BY <1>1, <1>2, <1>3, <1>4 DEF RunTypes, CallerTypes

\* Steps that leave the runs alone, and every caller that ranges after them.
LEMMA OtherStepsKeep ==
  ASSUME TypeInv, RunsInv, RangingInv,
         UNCHANGED <<sent, read, err, ranged>>,
         \/ UNCHANGED <<launched, live, iterated>>
         \/ /\ launched' = launched + 1 /\ live' = live \cup {launched'}
            /\ iterated \subseteq iterated',
         \A p \in Callers : Ranging(p)' =>
           /\ Ranging(p) /\ handle'[p] = handle[p] /\ saw'[p] = saw[p]
           /\ pc'[p] = "received" => pc[p] = "received" \/ BothClosed(handle[p])
  PROVE  RunsInv' /\ RangingInv'
<1>1. RunsInv'
  <2> SUFFICES ASSUME NEW r \in Runs, r \in 1 .. launched', r \notin live' \cup iterated'
               PROVE  sent[r] = Length \/ err[r] # "none"
    BY DEF RunsInv
  <2>1. r \in 1 .. launched /\ r \notin live \cup iterated
    BY Typed
  <2> QED
    BY <2>1 DEF RunsInv
<1>2. RangingInv'
  <2> SUFFICES ASSUME NEW p \in Callers, Ranging(p)'
               PROVE  /\ p \in ranged[handle[p]]
                      /\ ranged[handle[p]] = {p} /\ saw[p] = "nothing" =>
                           read[handle[p]] # Length /\ err[handle[p]] # "read"
                      /\ pc'[p] = "received" => BothClosed(handle[p])'
    BY DEF RangingInv
  <2>1. Ranging(p) /\ (pc'[p] = "received" => BothClosed(handle[p]))
    BY DEF RangingInv
  <2>2. handle[p] \in 1 .. launched /\ handle'[p] = handle[p]
    BY <2>1, Typed
  <2>3. handle[p] \notin live => handle[p] \notin live'
    BY <2>2, Typed
  <2>4. BothClosed(handle[p]) => BothClosed(handle[p])'
    BY <2>2, <2>3 DEF BothClosed
  <2> QED
    BY <2>1, <2>4 DEF RangingInv
<1> QED
  BY <1>1, <1>2

\* A step of a run, seen from its channels.
LEMMA RunStepKeeps ==
  ASSUME TypeInv, RunsInv, RangingInv, NEW r \in Runs, RunStep(r)
  PROVE  RunsInv' /\ RangingInv'
<1>1. /\ UNCHANGED <<pc, handle, saw, ranged, read, launched, iterated>> /\ r \in live
      /\ live' \subseteq live /\ live \ {r} \subseteq live'
  BY DEF RunStep, Emit, RunEnds, RunFails, callerVars
<1>2. /\ \A q \in Runs : q # r => sent'[q] = sent[q] /\ err'[q] = err[q]
      /\ err'[r] = "read" => err[r] = "read"
  BY Typed DEF RunStep, Emit, RunEnds, RunFails
<1>3. r \notin live' /\ r \notin iterated => sent'[r] = Length \/ err'[r] # "none"
  BY <1>1, Typed DEF RunStep, Emit, RunEnds, RunFails
<1>4. RunsInv'
  BY <1>1, <1>2, <1>3 DEF RunsInv
<1>5. RangingInv'
  <2> SUFFICES ASSUME NEW p \in Callers, Ranging(p)
               PROVE  /\ p \in ranged[handle[p]]
                      /\ ranged[handle[p]] = {p} /\ saw[p] = "nothing" =>
                           read[handle[p]] # Length /\ err'[handle[p]] # "read"
                      /\ pc[p] = "received" => BothClosed(handle[p])'
    BY <1>1 DEF RangingInv, Ranging
  <2>1. handle[p] \in Runs
    BY Typed
  <2>2. err'[handle[p]] = "read" => err[handle[p]] = "read"
    BY <1>2, <2>1
  <2>3. ASSUME BothClosed(handle[p]) PROVE BothClosed(handle[p])'
    <3>1. handle[p] # r
      BY <1>1, <2>3 DEF BothClosed
    <3> QED
      BY <1>1, <1>2, <2>1, <2>3, <3>1 DEF BothClosed
  <2> QED
    BY <2>2, <2>3 DEF RangingInv
<1> QED
  BY <1>4, <1>5

\* A caller begins to range over the current run.
LEMMA ReceiveKeeps ==
  ASSUME TypeInv, RunsInv, RangingInv, NEW p \in Callers, Receive(p)
  PROVE  RunsInv' /\ RangingInv'
<1> DEFINE r == current
<1>1. /\ UNCHANGED <<launched, live, iterated, sent, read, err>> /\ r # None
      /\ handle' = [handle EXCEPT ![p] = r]
      /\ ranged' = [ranged EXCEPT ![r] = @ \cup {p}]
      /\ saw' = [saw EXCEPT ![p] = IF ranged[r] = {} THEN "nothing" ELSE "late"]
      /\ pc' = [pc EXCEPT ![p] = "receiving"]
  BY DEF Receive, Goto
<1>2. r \in Runs
  BY <1>1, Typed
<1> HIDE DEF r
<1>3. /\ ranged'[r] = ranged[r] \cup {p}
      /\ \A q \in Runs : q # r => ranged'[q] = ranged[q]
  BY <1>1, <1>2, Typed
<1>4. RunsInv'
  BY <1>1, <1>3 DEF RunsInv
<1>5. RangingInv'
  <2> SUFFICES ASSUME NEW q \in Callers, Ranging(q)'
               PROVE  /\ q \in ranged'[handle'[q]]
                      /\ ranged'[handle'[q]] = {q} /\ saw'[q] = "nothing" =>
                           read[handle'[q]] # Length /\ err[handle'[q]] # "read"
                      /\ pc'[q] = "received" => BothClosed(handle[q])'
    BY <1>1 DEF RangingInv
  <2>1. CASE q = p
    <3>1. handle'[q] = r /\ pc'[q] = "receiving"
          /\ saw'[q] = IF ranged[r] = {} THEN "nothing" ELSE "late"
      BY <1>1, <2>1, Typed
    <3>2. ranged[r] = {} => read[r] = 0 /\ err[r] # "read"
      BY <1>2 DEF RunsInv
    <3> QED
      BY <1>3, <2>1, <3>1, <3>2, Typed
  <2>2. CASE q # p
    <3>1. /\ handle'[q] = handle[q] /\ pc'[q] = pc[q] /\ saw'[q] = saw[q] /\ Ranging(q)
      BY <1>1, <2>2, Typed DEF Ranging
    <3>2. handle[q] \in Runs /\ q \in ranged[handle[q]]
      BY <3>1, Typed DEF RangingInv
    <3>3. ranged'[handle[q]] = {q} => ranged[handle[q]] = {q}
      BY <1>3, <2>2, <3>2
    <3>4. BothClosed(handle[q])' = BothClosed(handle[q])
      BY <1>1, <3>1 DEF BothClosed
    <3>5. q \in ranged'[handle[q]]
      BY <1>3, <3>2
    <3> QED
      BY <3>1, <3>3, <3>4, <3>5 DEF RangingInv
  <2> QED
    BY <2>1, <2>2
<1> QED
  BY <1>4, <1>5

\* A caller takes a message or the error of the run it ranges over.
LEMMA TakingKeeps ==
  ASSUME TypeInv, RunsInv, RangingInv, NEW p \in Callers, ReceiveMessage(p) \/ ReceiveError(p)
  PROVE  RunsInv' /\ RangingInv'
<1> DEFINE r == handle[p]
<1>1. /\ UNCHANGED <<launched, live, iterated, sent, ranged, pc, handle>>
      /\ pc[p] = "receiving" /\ Ranging(p)
  BY DEF ReceiveMessage, ReceiveError, Ranging
<1>2. r \in Runs /\ p \in ranged[r]
  BY <1>1, Typed DEF RangingInv
<1>3. /\ \A q \in Runs : q # r => read'[q] = read[q] /\ err'[q] = err[q]
      /\ \A q \in Callers : q # p => saw'[q] = saw[q]
      /\ ~ BothClosed(r)
      /\ err'[r] = "none" => err[r] = "none"
      /\ saw'[p] = "nothing" => saw[p] = "nothing"
      /\ saw'[p] = "nothing" /\ read[r] # Length /\ err[r] # "read" =>
           read'[r] # Length /\ err'[r] # "read"
  <2>1. CASE ReceiveMessage(p)
    <3>1. /\ read' = [read EXCEPT ![r] = @ + 1] /\ read[r] < sent[r] /\ UNCHANGED err
          /\ saw' = IF read'[r] = Length THEN [saw EXCEPT ![p] = "result"] ELSE saw
      BY <2>1 DEF ReceiveMessage
    <3>2. read[r] \in Nat /\ sent[r] \in Nat
      BY <1>2, Typed
    <3> QED
      BY <1>2, <3>1, <3>2, Typed DEF BothClosed
  <2>2. CASE ReceiveError(p)
    <3>1. /\ err' = [err EXCEPT ![r] = "read"] /\ err[r] = "sent" /\ UNCHANGED read
          /\ saw' = IF saw[p] = "nothing" THEN [saw EXCEPT ![p] = "error"] ELSE saw
      BY <2>2 DEF ReceiveError
    <3> QED
      BY <1>2, <3>1, Typed DEF BothClosed
  <2> QED
    BY <2>1, <2>2
<1> HIDE DEF r
<1>4. RunsInv'
  BY <1>1, <1>2, <1>3 DEF RunsInv
<1>5. RangingInv'
  <2> SUFFICES ASSUME NEW q \in Callers, Ranging(q)
               PROVE  /\ q \in ranged[handle[q]]
                      /\ ranged[handle[q]] = {q} /\ saw'[q] = "nothing" =>
                           read'[handle[q]] # Length /\ err'[handle[q]] # "read"
                      /\ pc[q] = "received" => BothClosed(handle[q])'
    BY <1>1 DEF RangingInv, Ranging
  <2>1. handle[q] \in Runs /\ q \in ranged[handle[q]]
    BY Typed DEF RangingInv
  <2>2. CASE q = p
    BY <1>1, <1>3, <2>1, <2>2 DEF RangingInv, r
  <2>3. CASE q # p /\ handle[q] = r
    <3>1. ranged[handle[q]] # {q}
      BY <1>2, <2>3
    <3>2. pc[q] # "received"
      BY <1>3, <2>3 DEF RangingInv
    <3> QED
      BY <2>1, <3>1, <3>2
  <2>4. CASE q # p /\ handle[q] # r
    <3>1. /\ read'[handle[q]] = read[handle[q]] /\ err'[handle[q]] = err[handle[q]]
          /\ saw'[q] = saw[q]
      BY <1>3, <2>1, <2>4
    <3>2. BothClosed(handle[q])' = BothClosed(handle[q])
      BY <1>1, <3>1 DEF BothClosed
    <3> QED
      BY <3>1, <3>2 DEF RangingInv
  <2> QED
    BY <2>2, <2>3, <2>4
<1> QED
  BY <1>4, <1>5

\* Both are invariants.
LEMMA AnswersAreRead == Spec => [](RunsInv /\ RangingInv)
<1>1. Init => RunsInv /\ RangingInv
  BY ClientAssumption DEF Init, RunsInv, RangingInv, Ranging
<1>2. TypeInv /\ RunsInv /\ RangingInv /\ [Next]_vars => RunsInv' /\ RangingInv'
  <2> SUFFICES ASSUME TypeInv, RunsInv, RangingInv, [Next]_vars PROVE RunsInv' /\ RangingInv'
    OBVIOUS
  <2>1. ASSUME NEW p \in Callers, CallerStep(p),
               ~ (Receive(p) \/ ReceiveMessage(p) \/ ReceiveError(p))
        PROVE  RunsInv' /\ RangingInv'
    <3> USE DEF clientVars, runVars, callerVars
    <3>1. UNCHANGED <<sent, read, err, ranged>>
      BY <2>1
      DEF CallerStep, Start, Query, CheckConnected, ReadSession, Launch, SetCurrent,
          Interrupt, HostConnected, CurrentCancel, CallCancel, InterruptReturns, Close,
          ReceiveEnds, StopReceiving
    <3>2. \/ UNCHANGED <<launched, live, iterated>>
          \/ /\ launched' = launched + 1 /\ live' = live \cup {launched'}
             /\ iterated \subseteq iterated'
      BY <2>1
      DEF CallerStep, Start, Query, CheckConnected, ReadSession, Launch, SetCurrent,
          Interrupt, HostConnected, CurrentCancel, CallCancel, InterruptReturns, Close,
          ReceiveEnds, StopReceiving
    <3>3. ASSUME NEW q \in Callers, Ranging(q)'
          PROVE  /\ Ranging(q) /\ handle'[q] = handle[q] /\ saw'[q] = saw[q]
                 /\ pc'[q] = "received" => pc[q] = "received" \/ BothClosed(handle[q])
      BY <2>1, <3>3, Typed
      DEF CallerStep, Start, Query, CheckConnected, ReadSession, Launch, SetCurrent,
          Interrupt, HostConnected, CurrentCancel, CallCancel, InterruptReturns, Close,
          ReceiveEnds, StopReceiving, Return, Goto, Ranging
    <3> HIDE DEF clientVars, runVars, callerVars
    <3> QED
      BY <3>1, <3>2, <3>3, OtherStepsKeep
  <2>2. CASE UNCHANGED vars
    BY <2>2, OtherStepsKeep DEF vars, runVars, callerVars, Ranging
  <2> QED
    BY <2>1, <2>2, ReceiveKeeps, TakingKeeps, RunStepKeeps DEF Next, CallerStep
<1> QED
  BY <1>1, <1>2, TypesAreInvariant, PTL DEF Spec

(* For any number of callers, runs and messages, whoever ranges alone over *)
(* the answer to a Query to its end has been given the result or an error, *)
(* also when the run is interrupted or fails, and although the range ends  *)
(* without looking at what it was given (client_impl.go:194-237).          *)
THEOREM AnswersAreWhole == Spec => []ResponseIsWhole
<1>1. TypeInv /\ RunsInv /\ RangingInv => ResponseIsWhole
  <2> SUFFICES ASSUME TypeInv, RunsInv, RangingInv, NEW p \in Callers, pc[p] = "received",
                      ranged[handle[p]] = {p}, handle[p] \notin iterated, saw[p] = "nothing"
               PROVE  FALSE
    BY DEF ResponseIsWhole
  <2> DEFINE r == handle[p]
  <2>1. r \in Runs /\ r \in 1 .. launched /\ Ranging(p)
    BY Typed DEF Ranging
  <2>2. read[r] # Length /\ err[r] # "read" /\ BothClosed(r)
    BY <2>1 DEF RangingInv
  <2>3. sent[r] = Length \/ err[r] # "none"
    BY <2>1, <2>2 DEF RunsInv, BothClosed
  <2>4. err[r] \in {"none", "sent", "read"}
    BY <2>1, Typed
  <2> QED
    BY <2>2, <2>3, <2>4 DEF BothClosed
<1> QED
  BY <1>1, TypesAreInvariant, AnswersAreRead, PTL
=============================================================================
