------------------------- MODULE SessionStore_proofs -------------------------
(***************************************************************************)
(* The type invariant of SessionStore and, when one run follows another,   *)
(* its safety invariants, proved for every value of the other constants.   *)
(***************************************************************************)
EXTENDS SessionStore, TLAPS

-----------------------------------------------------------------------------
(* Types.  A run counts one user turn: the counter stays below the number  *)
(* of the run that is about to count, because no run before it still is.   *)

SessionOf(m, t, c, f) ==
  [messages |-> m, turns |-> t, checkpoints |-> c, fileCheckpoints |-> f]
IsSession(s) == s = SessionOf(s.messages, s.turns, s.checkpoints, s.fileCheckpoints)

Shapes ==
  /\ IsSession(session) /\ IsSession(disk.session)
  /\ disk = [state |-> disk.state, session |-> disk.session]
  /\ pc = [a \in Actors |-> pc[a]]

Counting == {"id", "count"}
Working  == Counting \cup {"setstate", "snapshot", "snapfiles", "snapped", "loop"}

Bounds ==
  /\ \A r \in Runs : pc[r] \in Working => r = begun
  /\ \A r \in Runs : pc[r] = "answered" => r <= begun
  /\ session.turns <= begun /\ disk.session.turns <= begun
  /\ \A r \in Runs : pc[r] \in Counting => session.turns < r
  /\ \A r \in Runs : id[r] <= r /\ seen[r] <= r
  /\ pc[Client] \in {"down", "refused"} => \A r \in Runs : pc[r] \in Over

TypeInv == TypeOK /\ Shapes /\ Bounds

LEMMA ConstantsAreTyped ==
  /\ MaxRuns \in Nat /\ MaxRuns > 0
  /\ \A r \in Runs : r \in Nat /\ r > 0 /\ r <= MaxRuns /\ r \in Turns /\ r # Client
  /\ Runs \subseteq Actors /\ Client \in Actors /\ 0 \in Turns /\ Nobody \notin Actors
<1>1. MaxRuns \in Nat \ {0}
  BY StoreAssumption, Zenon DEF StoreAssumption
<1> QED
  BY <1>1 DEF Runs, Turns, Client, Actors, Nobody

\* Replacing one part of a session.
LEMMA SessionUpdates ==
  ASSUME NEW s, IsSession(s), NEW x
  PROVE  /\ [s EXCEPT !.messages = x] = SessionOf(x, s.turns, s.checkpoints, s.fileCheckpoints)
         /\ [s EXCEPT !.turns = x] = SessionOf(s.messages, x, s.checkpoints, s.fileCheckpoints)
         /\ [s EXCEPT !.checkpoints = x] = SessionOf(s.messages, s.turns, x, s.fileCheckpoints)
         /\ [s EXCEPT !.fileCheckpoints = x] = SessionOf(s.messages, s.turns, s.checkpoints, x)
         /\ \A y : [s EXCEPT !.messages = x, !.turns = y] =
                     SessionOf(x, y, s.checkpoints, s.fileCheckpoints)
<1>1. PICK m, t, c, f : s = SessionOf(m, t, c, f)
  BY Zenon DEF IsSession
<1>2. s.messages = m /\ s.turns = t /\ s.checkpoints = c /\ s.fileCheckpoints = f
  BY <1>1 DEF SessionOf
<1>3. /\ [s EXCEPT !.messages = x] = SessionOf(x, t, c, f)
      /\ [s EXCEPT !.turns = x] = SessionOf(m, x, c, f)
      /\ [s EXCEPT !.checkpoints = x] = SessionOf(m, t, x, f)
      /\ [s EXCEPT !.fileCheckpoints = x] = SessionOf(m, t, c, x)
  BY <1>1 DEF SessionOf
<1>4. ASSUME NEW y
      PROVE  [s EXCEPT !.messages = x, !.turns = y] = SessionOf(x, y, c, f)
  <2> DEFINE z == [s EXCEPT !.messages = x]
  <2>1. [s EXCEPT !.messages = x, !.turns = y] = [z EXCEPT !.turns = y]
    OBVIOUS
  <2>2. z = SessionOf(x, t, c, f)
    BY <1>3
  <2> HIDE DEF z
  <2>3. [z EXCEPT !.turns = y] = SessionOf(x, y, c, f)
    BY <2>2 DEF SessionOf
  <2> QED
    BY <2>1, <2>3, Zenon
<1> QED
  BY <1>2, <1>3, <1>4

LEMMA SessionFields ==
  ASSUME NEW m, NEW t, NEW c, NEW f
  PROVE  /\ SessionOf(m, t, c, f).messages = m
         /\ SessionOf(m, t, c, f).turns = t
         /\ SessionOf(m, t, c, f).checkpoints = c
         /\ SessionOf(m, t, c, f).fileCheckpoints = f
         /\ IsSession(SessionOf(m, t, c, f))
  BY DEF IsSession, SessionOf

LEMMA FreshIsTyped == SessionType(Fresh) /\ IsSession(Fresh) /\ Fresh.turns = 0
  BY ConstantsAreTyped DEF Fresh, SessionType, IsSession, SessionOf

\* What a save does to the session and the store.
LEMMA SaveIs ==
  ASSUME NEW a, NEW s, Save(a, s)
  PROVE  /\ session' = s
         /\ \/ UNCHANGED <<disk, saver>>
            \/ disk' = [state |-> "cut", session |-> s] /\ saver' = a
  BY DEF Save, Truncate, SaveRefused

LEMMA SaveTyped ==
  ASSUME TypeInv, NEW a \in Actors, NEW s, Save(a, s) \/ Truncate(a, s) \/ SaveRefused(s),
         SessionType(s), IsSession(s), s.turns <= begun
  PROVE  /\ SessionType(session') /\ SessionType(disk'.session)
         /\ IsSession(session') /\ IsSession(disk'.session)
         /\ disk' = [state |-> disk'.state, session |-> disk'.session]
         /\ disk'.state \in {"none", "cut", "whole"}
         /\ saver' \in Actors \cup {Nobody}
         /\ session'.turns <= begun /\ disk'.session.turns <= begun
<1>1. /\ session' = s
      /\ \/ UNCHANGED <<disk, saver>>
         \/ disk' = [state |-> "cut", session |-> s] /\ saver' = a
  BY DEF Save, Truncate, SaveRefused
<1>2. CASE UNCHANGED <<disk, saver>>
  BY <1>1, <1>2 DEF TypeInv, TypeOK, Shapes, Bounds
<1>3. CASE disk' = [state |-> "cut", session |-> s] /\ saver' = a
  BY <1>1, <1>3
<1> QED
  BY <1>1, <1>2, <1>3

LEMMA GotoIs ==
  ASSUME Shapes, NEW a \in Actors, NEW l, Goto(a, l)
  PROVE  /\ \A b \in Actors : pc'[b] = IF b = a THEN l ELSE pc[b]
         /\ pc' = [b \in Actors |-> pc'[b]]
<1>1. pc = [b \in Actors |-> pc[b]] /\ pc' = [pc EXCEPT ![a] = l]
  BY DEF Shapes, Goto
<1>2. \A b \in Actors : pc'[b] = IF b = a THEN l ELSE pc[b]
  BY <1>1
<1> QED
  BY <1>1, <1>2

\* The bounds, step by step: who moves, and what becomes of the counter.
LEMMA BoundsOfMove ==
  ASSUME TypeInv, NEW r \in Runs, NEW l,
         \A q \in Runs : pc'[q] = IF q = r THEN l ELSE pc[q], pc'[Client] = pc[Client],
         pc[r] \in Working \cup {"answered"},
         l \in Working => pc[r] \in Working,
         l \in Counting => pc[r] \in Counting /\ session'.turns = session.turns,
         l = "answered" => pc[r] \in Working,
         UNCHANGED begun,
         session'.turns \in Nat, session'.turns <= begun,
         \A q \in Runs \ {r} : pc[q] \in Counting => session'.turns < q,
         disk'.session.turns <= begun,
         \A q \in Runs : id'[q] <= q /\ seen'[q] <= q
  PROVE  Bounds'
<1> USE DEF TypeInv, Bounds
<1>1. begun \in Nat /\ \A q \in Runs : q \in Nat
  BY ConstantsAreTyped DEF TypeOK
<1>2. (\A q \in Runs : pc[q] \in Working => q = begun)'
  OBVIOUS
<1>3. (\A q \in Runs : pc[q] = "answered" => q <= begun)'
  BY <1>1
<1>4. (\A q \in Runs : pc[q] \in Counting => session.turns < q)'
  OBVIOUS
<1>5. pc[Client] \notin {"down", "refused"}
  BY DEF Over, Working, Counting
<1> QED
  BY <1>2, <1>3, <1>4, <1>5

LEMMA TypeFacts ==
  ASSUME TypeInv
  PROVE  /\ begun \in Nat /\ begun <= MaxRuns /\ MaxRuns \in Nat
         /\ session.turns \in Nat /\ disk.session.turns \in Nat
         /\ session.messages \in Seq(Entry)
         /\ \A q \in Runs : q \in Nat /\ q > 0 /\ q # Client /\ q \in Actors
         /\ \A q \in Runs : id[q] \in Nat /\ seen[q] \in Nat
<1>1. MaxRuns \in Nat /\ begun \in 0 .. MaxRuns
  BY ConstantsAreTyped DEF TypeInv, TypeOK
<1>2. \A n \in Turns : n \in Nat
  BY <1>1 DEF Turns
<1>3. SessionType(session) /\ SessionType(disk.session)
  BY DEF TypeInv, TypeOK
<1>4. \A q \in Runs : id[q] \in Turns /\ seen[q] \in Turns
  BY DEF TypeInv, TypeOK
<1> QED
  BY <1>1, <1>2, <1>3, <1>4, ConstantsAreTyped DEF SessionType

LEMMA BeginRunKeepsTypes ==
  ASSUME TypeInv, NEW r \in Runs, BeginRun(r)
  PROVE  TypeInv'
<1>1. /\ begun \in Nat /\ r \in Nat /\ r \in Turns /\ r # Client /\ r = begun + 1 /\ begun' = r
      /\ MaxRuns \in Nat /\ r <= MaxRuns /\ Runs \subseteq Actors /\ Client \in Actors
      /\ session.turns \in Nat /\ disk.session.turns \in Nat
      /\ \A q \in Runs : q \in Nat /\ q > 0 /\ q # Client
  BY TypeFacts, ConstantsAreTyped DEF BeginRun
<1>2. /\ UNCHANGED <<session, disk, saver, files, id, seen, target, faults, rewinds, owed>>
      /\ history' = [history EXCEPT ![r] = session.messages]
      /\ pc' = [pc EXCEPT ![r] = "id", ![Client] = IF @ = "files" THEN @ ELSE "idle"]
  BY DEF BeginRun, StartingHistory
<1>3. /\ \A q \in Runs : pc'[q] = IF q = r THEN "id" ELSE pc[q]
      /\ pc'[Client] \in {"files", "idle"}
      /\ pc' = [a \in Actors |-> pc'[a]]
  BY <1>1, <1>2 DEF TypeInv, Shapes
<1>4. history' \in [Runs -> Seq(Entry)]
  BY <1>2, TypeFacts DEF TypeInv, TypeOK
<1>5. /\ \A q \in Runs : pc'[q] \in RunLabels
      /\ pc'[Client] \in ClientLabels
  BY <1>3 DEF TypeInv, TypeOK, RunLabels, ClientLabels, Settled
<1>6. TypeOK'
  <2>1. SessionType(session') /\ SessionType(disk'.session)
    BY <1>2 DEF TypeInv, TypeOK
  <2>2. begun' \in 0 .. MaxRuns
    BY <1>1
  <2> QED
    BY <1>2, <1>4, <1>5, <2>1, <2>2 DEF TypeInv, TypeOK
<1>7. \A q \in Runs : pc[q] \notin Working
  <2> SUFFICES ASSUME NEW q \in Runs, pc[q] \in Working PROVE FALSE
    OBVIOUS
  <2>1. q = begun
    BY DEF TypeInv, Bounds
  <2>2. q \in 1 .. r - 1
    BY <1>1, <2>1
  <2>3. pc[q] \in Over \cup {"answered"}
    BY <2>2 DEF BeginRun, MayBegin
  <2> QED
    BY <2>3 DEF Over, Working, Counting
<1>8. Bounds'
  <2>1. (\A q \in Runs : pc[q] \in Working => q = begun)'
    BY <1>1, <1>3, <1>7
  <2>2. \A q \in Runs : pc'[q] = "answered" => q <= begun
    BY <1>1, <1>3 DEF TypeInv, Bounds
  <2>3. (\A q \in Runs : pc[q] = "answered" => q <= begun)'
    BY <1>1, <2>2
  <2>4. session.turns <= begun /\ disk.session.turns <= begun
    BY DEF TypeInv, Bounds
  <2>5. (session.turns <= begun /\ disk.session.turns <= begun)'
    BY <1>1, <1>2, <2>4
  <2>6. \A q \in Runs : pc'[q] \in Counting => q = r
    BY <1>3, <1>7 DEF Working
  <2>7. (\A q \in Runs : pc[q] \in Counting => session.turns < q)'
    BY <1>1, <1>2, <2>4, <2>6
  <2> QED
    BY <1>2, <1>3, <2>1, <2>3, <2>5, <2>7 DEF TypeInv, Bounds
<1> QED
  BY <1>2, <1>3, <1>6, <1>8 DEF TypeInv, Shapes

\* A step of a run that is under way: its label, and what it assigns.
LEMMA RunStepKeepsTypes ==
  ASSUME TypeInv, NEW r \in Runs, NEW l \in RunLabels, Goto(r, l), UNCHANGED <<begun, target>>,
         pc[r] \in Working \cup {"answered"},
         l \in Working => pc[r] \in Working,
         l \in Counting => pc[r] \in Counting /\ session'.turns = session.turns,
         l = "answered" => pc[r] \in Working,
         SessionType(session'), IsSession(session'), session'.turns <= begun,
         \A q \in Runs \ {r} : pc[q] \in Counting => session'.turns < q,
         \/ UNCHANGED <<disk, saver>>
         \/ Save(r, session') \/ Truncate(r, session'),
         files' \in Snap, history' \in [Runs -> Seq(Entry)],
         id' \in [Runs -> Turns], seen' \in [Runs -> Turns],
         \A q \in Runs : id'[q] <= q /\ seen'[q] <= q,
         owed' \subseteq Runs
  PROVE  TypeInv'
<1>1. r \in Actors /\ r # Client /\ Client \in Actors
  BY TypeFacts, ConstantsAreTyped
<1>2. /\ \A b \in Actors : pc'[b] = IF b = r THEN l ELSE pc[b]
      /\ pc' = [b \in Actors |-> pc'[b]]
  BY <1>1, GotoIs DEF TypeInv
<1>3. /\ \A q \in Runs : pc'[q] = IF q = r THEN l ELSE pc[q]
      /\ pc'[Client] = pc[Client]
  BY <1>1, <1>2, TypeFacts
<1>4. /\ SessionType(disk'.session) /\ IsSession(disk'.session)
      /\ disk' = [state |-> disk'.state, session |-> disk'.session]
      /\ disk'.state \in {"none", "cut", "whole"}
      /\ saver' \in Actors \cup {Nobody} /\ disk'.session.turns <= begun
  <2>1. CASE UNCHANGED <<disk, saver>>
    BY <2>1 DEF TypeInv, TypeOK, Shapes, Bounds
  <2>2. CASE Save(r, session') \/ Truncate(r, session')
    BY <1>1, <2>2, SaveTyped
  <2> QED
    BY <2>1, <2>2
<1>5. Bounds'
  <2>1. session'.turns \in Nat
    BY ConstantsAreTyped DEF SessionType, Turns
  <2> QED
    BY <1>3, <1>4, <2>1, BoundsOfMove
<1>6. Shapes'
  BY <1>2, <1>4 DEF Shapes
<1>7. TypeOK'
  BY <1>3, <1>4 DEF TypeInv, TypeOK
<1> QED
  BY <1>5, <1>6, <1>7 DEF TypeInv

LEMMA SessionOfTyped ==
  ASSUME NEW m \in Seq(Entry), NEW t \in Turns, NEW c, NEW f,
         DOMAIN c \subseteq Turns, \A n \in DOMAIN c : c[n] \in Seq(Entry),
         DOMAIN f \subseteq Turns, \A n \in DOMAIN f : f[n] \in Snap
  PROVE  SessionType(SessionOf(m, t, c, f)) /\ IsSession(SessionOf(m, t, c, f))
<1> DEFINE s == SessionOf(m, t, c, f)
<1>1. s.messages = m /\ s.turns = t /\ s.checkpoints = c /\ s.fileCheckpoints = f /\ IsSession(s)
  BY SessionFields
<1> HIDE DEF s
<1>2. SessionType(s)
  BY <1>1 DEF SessionType
<1> QED
  BY <1>1, <1>2 DEF s

LEMMA PutTyped ==
  ASSUME NEW D, NEW R, NEW f, DOMAIN f \subseteq D, \A k \in DOMAIN f : f[k] \in R,
         NEW n \in D, NEW v \in R
  PROVE  DOMAIN Put(f, n, v) \subseteq D /\ \A k \in DOMAIN Put(f, n, v) : Put(f, n, v)[k] \in R
<1> DEFINE g == Put(f, n, v)
<1>1. /\ DOMAIN g = DOMAIN f \cup {n} /\ g[n] = v
      /\ \A m \in DOMAIN f : m # n => g[m] = f[m]
  BY DEF Put
<1> HIDE DEF g
<1>2. DOMAIN g \subseteq D /\ \A k \in DOMAIN g : g[k] \in R
  BY <1>1
<1> QED
  BY <1>2 DEF g

\* The parts of the session in memory are typed.
LEMMA SessionParts ==
  ASSUME TypeInv
  PROVE  /\ session.messages \in Seq(Entry) /\ session.turns \in Turns
         /\ DOMAIN session.checkpoints \subseteq Turns
         /\ DOMAIN session.fileCheckpoints \subseteq Turns
         /\ \A n \in DOMAIN session.checkpoints : session.checkpoints[n] \in Seq(Entry)
         /\ \A n \in DOMAIN session.fileCheckpoints : session.fileCheckpoints[n] \in Snap
         /\ SessionType(session) /\ IsSession(session) /\ session.turns <= begun
         /\ \A r \in Runs : history[r] \in Seq(Entry) /\ id[r] \in Turns /\ seen[r] \in Turns
         /\ files \in Snap
  BY DEF TypeInv, TypeOK, Shapes, Bounds, SessionType

\* What the actions on the session leave in memory.
LEMMA StateOfIs ==
  ASSUME TypeInv, NEW r \in Runs, NEW n
  PROVE  StateOf(r, n) = SessionOf(history[r], n, session.checkpoints, session.fileCheckpoints)
  BY SessionParts, SessionUpdates DEF StateOf

LEMMA CheckpointIs ==
  ASSUME TypeInv, NEW n, NEW m
  PROVE  [session EXCEPT !.checkpoints = Put(@, n, m)] =
           SessionOf(session.messages, session.turns, Put(session.checkpoints, n, m),
                     session.fileCheckpoints)
<1> DEFINE x == Put(session.checkpoints, n, m)
<1>1. IsSession(session)
  BY SessionParts
<1> HIDE DEF x
<1>2. [session EXCEPT !.checkpoints = x] =
        SessionOf(session.messages, session.turns, x, session.fileCheckpoints)
  BY <1>1, SessionUpdates
<1> QED
  BY <1>2 DEF x

LEMMA FileCheckpointIs ==
  ASSUME TypeInv, NEW n, NEW m
  PROVE  [session EXCEPT !.fileCheckpoints = Put(@, n, m)] =
           SessionOf(session.messages, session.turns, session.checkpoints,
                     Put(session.fileCheckpoints, n, m))
<1> DEFINE x == Put(session.fileCheckpoints, n, m)
<1>1. IsSession(session)
  BY SessionParts
<1> HIDE DEF x
<1>2. [session EXCEPT !.fileCheckpoints = x] =
        SessionOf(session.messages, session.turns, session.checkpoints, x)
  BY <1>1, SessionUpdates
<1> QED
  BY <1>2 DEF x

LEMMA RewoundIs ==
  ASSUME TypeInv, NEW n
  PROVE  Rewound(n) = SessionOf(session.checkpoints[n], session.turns, session.checkpoints,
                                session.fileCheckpoints)
  BY SessionParts, SessionUpdates DEF Rewound

LEMMA CountingRunsKeepTypes ==
  ASSUME TypeInv, NEW r \in Runs, TakeId(r) \/ CountTurn(r)
  PROVE  TypeInv'
<1>1. r \in Turns /\ r = begun /\ r \in Nat /\ session.turns \in Nat /\ session.turns < r
      /\ \A q \in Runs : q \in Nat
  BY TypeFacts, ConstantsAreTyped DEF TypeInv, Bounds, TakeId, CountTurn, At, Working, Counting
<1>2. \A n \in Nat : n <= r => n \in Turns
  BY <1>1, ConstantsAreTyped DEF Turns
<1>3. \A q \in Runs \ {r} : pc[q] \notin Counting
  BY <1>1 DEF TypeInv, Bounds, Working
<1>4. CASE TakeId(r)
  <2>1. /\ UNCHANGED <<session, disk, saver, files, begun, history, seen, target, owed>>
        /\ id' = [id EXCEPT ![r] = session.turns + 1] /\ Goto(r, "count") /\ pc[r] = "id"
    BY <1>4 DEF TakeId, At
  <2>2. id' \in [Runs -> Turns] /\ \A q \in Runs : id'[q] <= q
    BY <1>1, <1>2, <2>1 DEF TypeInv, TypeOK, Bounds
  <2>3. "count" \in RunLabels /\ "count" \in Counting /\ "id" \in Counting /\ "id" \in Working
    BY DEF RunLabels, Counting, Working
  <2> QED
    BY <1>3, <2>1, <2>2, <2>3, SessionParts, RunStepKeepsTypes DEF TypeInv, TypeOK, Bounds
<1>5. CASE CountTurn(r)
  <2>1. PICK n \in {id[r], session.turns + 1} :
          session' = [session EXCEPT !.turns = n] /\ seen' = [seen EXCEPT ![r] = n]
    BY <1>5 DEF CountTurn
  <2>2. /\ UNCHANGED <<disk, saver, files, begun, id, target, owed>>
        /\ history' = [history EXCEPT ![r] = Append(@, Asked(r, id[r]))]
        /\ pc[r] = "count"
    BY <1>5 DEF CountTurn, At
  <2>3. PICK l \in {"setstate", "loop"} : Goto(r, l)
    BY <1>5 DEF CountTurn
  <2>4. n \in Turns /\ n <= r /\ n \in Nat
    BY <1>1, <1>2, <2>1, TypeFacts, SessionParts DEF TypeInv, Bounds
  <2>5. session' = SessionOf(session.messages, n, session.checkpoints, session.fileCheckpoints)
    BY <2>1, SessionParts, SessionUpdates
  <2>6. SessionType(session') /\ IsSession(session') /\ session'.turns = n
    BY <2>4, <2>5, SessionParts, SessionOfTyped, SessionFields
  <2>7. seen' \in [Runs -> Turns] /\ \A q \in Runs : seen'[q] <= q
    BY <2>1, <2>4 DEF TypeInv, TypeOK, Bounds
  <2>8. history' \in [Runs -> Seq(Entry)]
    <3>1. Asked(r, id[r]) \in Entry
      BY SessionParts DEF Asked, Entry
    <3> QED
      BY <2>2, <3>1 DEF TypeInv, TypeOK
  <2>9. l \in RunLabels /\ l \in Working /\ l \notin Counting /\ "count" \in Working
    BY DEF RunLabels, Counting, Working
  <2> QED
    BY <1>1, <1>3, <2>2, <2>3, <2>4, <2>6, <2>7, <2>8, <2>9, RunStepKeepsTypes
    DEF TypeInv, TypeOK, Bounds
<1> QED
  BY <1>4, <1>5

LEMMA WorkingIsLast ==
  ASSUME TypeInv, NEW r \in Runs, pc[r] \in Working
  PROVE  r = begun /\ \A q \in Runs \ {r} : pc[q] \notin Counting
  BY DEF TypeInv, Bounds, Working

LEMMA StoringRunsKeepTypes ==
  ASSUME TypeInv, NEW r \in Runs, SetState(r) \/ Snapshot(r) \/ SnapshotFiles(r)
  PROVE  TypeInv'
<1> USE DEF runVars
<1>1. pc[r] \in {"setstate", "snapshot", "snapfiles"} /\ pc[r] \in Working
  BY DEF SetState, Snapshot, SnapshotFiles, At, Working
<1>2. r = begun /\ \A q \in Runs \ {r} : pc[q] \notin Counting
  BY <1>1, WorkingIsLast
<1>3. UNCHANGED <<begun, target, files, history, id, seen, owed>>
  BY DEF SetState, Snapshot, SnapshotFiles
<1>4. /\ {"snapshot", "snapfiles", "snapped", "loop"} \subseteq Working \ Counting
      /\ {"snapshot", "snapfiles", "snapped", "loop", "failed"} \subseteq RunLabels
      /\ "failed" \notin Working \cup Counting
  BY DEF Working, Counting, RunLabels
<1>5. ASSUME NEW l \in {"snapshot", "snapfiles", "snapped", "loop", "failed"}, Goto(r, l),
             SessionType(session'), IsSession(session'), session'.turns <= begun,
             UNCHANGED <<disk, saver>> \/ Save(r, session') \/ Truncate(r, session')
      PROVE  TypeInv'
  <2>1. l \in RunLabels /\ l \notin Counting /\ l # "answered"
    BY <1>4
  <2>2. \A q \in Runs : id'[q] <= q /\ seen'[q] <= q
    BY <1>3 DEF TypeInv, Bounds
  <2>3. /\ files' \in Snap /\ history' \in [Runs -> Seq(Entry)]
        /\ id' \in [Runs -> Turns] /\ seen' \in [Runs -> Turns] /\ owed' \subseteq Runs
    BY <1>3 DEF TypeInv, TypeOK
  <2> QED
    BY <1>1, <1>2, <1>3, <1>5, <2>1, <2>2, <2>3, RunStepKeepsTypes
<1>6. CASE SetState(r)
  <2>1. PICK n \in {seen[r], session.turns} : Save(r, StateOf(r, n))
    BY <1>6 DEF SetState
  <2>2. session' = StateOf(r, n)
    BY <2>1, SaveIs
  <2>3. n \in Turns /\ n <= begun
    BY <1>2, <2>1, SessionParts DEF TypeInv, Bounds
  <2>4. SessionType(session') /\ IsSession(session') /\ session'.turns = n
    BY <2>2, <2>3, StateOfIs, SessionParts, SessionOfTyped, SessionFields
  <2> QED
    BY <1>5, <1>6, <2>1, <2>2, <2>3, <2>4 DEF SetState
<1>7. CASE Snapshot(r)
  <2> DEFINE c == Put(session.checkpoints, id[r], session.messages)
             s == SessionOf(session.messages, session.turns, c, session.fileCheckpoints)
  <2>1. Save(r, s)
    BY <1>7, CheckpointIs DEF Snapshot, Captured
  <2>2. DOMAIN c \subseteq Turns /\ \A n \in DOMAIN c : c[n] \in Seq(Entry)
    BY SessionParts, PutTyped
  <2> HIDE DEF c
  <2>3. SessionType(s) /\ IsSession(s) /\ s.turns = session.turns
    BY <2>2, SessionParts, SessionOfTyped, SessionFields
  <2>4. session' = s
    BY <2>1, SaveIs
  <2> HIDE DEF s
  <2> QED
    BY <1>5, <1>7, <2>1, <2>3, <2>4, SessionParts DEF Snapshot
<1>8. CASE SnapshotFiles(r)
  <2> DEFINE c == Put(session.fileCheckpoints, id[r], files)
             s == SessionOf(session.messages, session.turns, session.checkpoints, c)
  <2>1. [session EXCEPT !.fileCheckpoints = Put(@, id[r], CapturedFiles)] = s
    BY FileCheckpointIs DEF CapturedFiles
  <2>2. DOMAIN c \subseteq Turns /\ \A n \in DOMAIN c : c[n] \in Snap
    BY SessionParts, PutTyped
  <2> HIDE DEF c
  <2>3. SessionType(s) /\ IsSession(s) /\ s.turns = session.turns
    BY <2>2, SessionParts, SessionOfTyped, SessionFields
  <2> HIDE DEF s
  <2>4. \/ Truncate(r, s) /\ Goto(r, IF Persistent THEN "snapped" ELSE "loop")
        \/ SaveRefused(s) /\ Goto(r, "failed")
        \/ Goto(r, "failed") /\ UNCHANGED <<session, disk, saver>>
    BY <1>8, <2>1 DEF SnapshotFiles
  <2>5. CASE Truncate(r, s) /\ Goto(r, IF Persistent THEN "snapped" ELSE "loop")
    <3>1. session' = s
      BY <2>5 DEF Truncate
    <3>2. PICK l \in {"snapped", "loop"} : Goto(r, l)
      BY <2>5
    <3> QED
      BY <1>5, <2>3, <2>5, <3>1, <3>2, SessionParts
  <2>6. CASE SaveRefused(s) /\ Goto(r, "failed")
    <3>1. session' = s /\ UNCHANGED <<disk, saver>>
      BY <2>6 DEF SaveRefused
    <3> QED
      BY <1>5, <2>3, <2>6, <3>1, SessionParts
  <2>7. CASE Goto(r, "failed") /\ UNCHANGED <<session, disk, saver>>
    BY <1>5, <2>7, SessionParts
  <2> QED
    BY <2>4, <2>5, <2>6, <2>7
<1> QED
  BY <1>6, <1>7, <1>8

LEMMA LoopingRunsKeepTypes ==
  ASSUME TypeInv, NEW r \in Runs,
         WriteFile(r) \/ ShowResult(r) \/ SaveAnswer(r) \/ FailRun(r)
  PROVE  TypeInv'
<1>1. r \in Turns /\ r \in Nat /\ begun \in Nat /\ session.turns \in Nat /\ seen[r] \in Nat
      /\ \A q \in Runs : q \in Nat
  BY TypeFacts, ConstantsAreTyped
<1>2. /\ {"answered", "done", "failed"} \subseteq RunLabels \ Working
      /\ {"setstate", "loop"} \subseteq Working \ Counting
      /\ Counting \subseteq Working
  BY DEF Working, Counting, RunLabels
<1>3. CASE WriteFile(r)
  <2>1. UNCHANGED <<session, disk, saver, pc, begun, history, id, seen, target, owed>>
    BY <1>3 DEF WriteFile, runVars
  <2>2. files' \in Snap
    <3>1. PICK f \in Files : files' = [files EXCEPT ![f] = r]
      BY <1>3 DEF WriteFile
    <3>2. files \in [Files -> {Absent} \cup Runs]
      BY DEF TypeInv, TypeOK, Snap
    <3> QED
      BY <3>1, <3>2 DEF Snap
  <2>3. TypeOK'
    BY <2>1, <2>2 DEF TypeInv, TypeOK
  <2>4. Shapes' /\ Bounds'
    BY <2>1 DEF TypeInv, Shapes, Bounds
  <2> QED
    BY <2>3, <2>4 DEF TypeInv
<1>4. CASE ShowResult(r)
  <2>1. /\ UNCHANGED <<session, disk, saver, files, begun, id, target, owed>>
        /\ history' = [history EXCEPT ![r] = Append(@, Answered(r))]
        /\ seen' = [seen EXCEPT ![r] = session.turns]
        /\ Goto(r, "answered") /\ pc[r] = "loop"
    BY <1>4 DEF ShowResult, At
  <2>2. r = begun /\ \A q \in Runs \ {r} : pc[q] \notin Counting
    BY <1>2, <2>1, WorkingIsLast
  <2>3. history' \in [Runs -> Seq(Entry)]
    <3>1. Answered(r) \in Entry
      BY ConstantsAreTyped DEF Answered, Entry
    <3> QED
      BY <2>1, <3>1 DEF TypeInv, TypeOK
  <2>4. seen' \in [Runs -> Turns] /\ \A q \in Runs : seen'[q] <= q
    BY <2>1, <2>2, SessionParts DEF TypeInv, TypeOK, Bounds
  <2> QED
    BY <1>2, <2>1, <2>2, <2>3, <2>4, SessionParts, RunStepKeepsTypes DEF TypeInv, TypeOK, Bounds
<1>5. CASE SaveAnswer(r)
  <2>1. PICK n \in {seen[r], session.turns} : Save(r, StateOf(r, n))
    BY <1>5 DEF SaveAnswer
  <2>2. /\ UNCHANGED <<begun, target, files, history, id, seen>> /\ owed' = owed \cup {r}
        /\ Goto(r, "done") /\ pc[r] = "answered"
    BY <1>5 DEF SaveAnswer, At, runVars
  <2>3. session' = StateOf(r, n)
    BY <2>1, SaveIs
  <2>4. r <= begun /\ seen[r] <= r /\ session.turns <= begun
    BY <2>2 DEF TypeInv, Bounds
  <2>5. n \in Turns /\ n \in Nat /\ n <= begun
    BY <1>1, <2>1, <2>4, SessionParts
  <2>6. \A q \in Runs \ {r} : pc[q] \in Counting => n < q
    <3> SUFFICES ASSUME NEW q \in Runs \ {r}, pc[q] \in Counting PROVE n < q
      OBVIOUS
    <3>1. q = begun /\ session.turns < q
      BY <1>2 DEF TypeInv, Bounds
    <3> QED
      BY <1>1, <2>1, <2>4, <3>1
  <2>7. SessionType(session') /\ IsSession(session') /\ session'.turns = n
    BY <2>3, <2>5, StateOfIs, SessionParts, SessionOfTyped, SessionFields
  <2>8. /\ files' \in Snap /\ history' \in [Runs -> Seq(Entry)]
        /\ id' \in [Runs -> Turns] /\ seen' \in [Runs -> Turns] /\ owed' \subseteq Runs
        /\ \A q \in Runs : id'[q] <= q /\ seen'[q] <= q
    BY <2>2 DEF TypeInv, TypeOK, Bounds
  <2>9. "done" \in RunLabels /\ "done" \notin Working /\ "done" \notin Counting
    BY DEF Working, Counting, RunLabels
  <2> QED
    BY <2>1, <2>2, <2>3, <2>5, <2>6, <2>7, <2>8, <2>9, RunStepKeepsTypes
<1>6. CASE FailRun(r)
  <2>1. /\ UNCHANGED <<session, disk, saver, files, begun, history, id, seen, target, owed>>
        /\ Goto(r, "failed") /\ pc[r] \in {"setstate", "loop"}
    BY <1>6 DEF FailRun, runVars
  <2>2. r = begun /\ \A q \in Runs \ {r} : pc[q] \notin Counting
    BY <1>2, <2>1, WorkingIsLast
  <2> QED
    BY <1>2, <2>1, <2>2, SessionParts, RunStepKeepsTypes DEF TypeInv, TypeOK, Bounds
<1> QED
  BY <1>3, <1>4, <1>5, <1>6

\* A step of the client that leaves the runs and the counter alone.
LEMMA ClientStepKeepsTypes ==
  ASSUME TypeInv, NEW l \in ClientLabels, Goto(Client, l), UNCHANGED <<begun, history, id, seen>>,
         l \in {"down", "refused"} => \A r \in Runs : pc[r] \in Over,
         SessionType(session'), IsSession(session'),
         session'.turns = session.turns \/ \A r \in Runs : pc[r] \in Over,
         session'.turns <= begun,
         UNCHANGED <<disk, saver>> \/ Save(Client, session'),
         files' \in Snap, target' \in Turns, owed' \subseteq Runs
  PROVE  TypeInv'
<1>1. Client \in Actors /\ \A q \in Runs : q \in Actors /\ q # Client
  BY TypeFacts, ConstantsAreTyped
<1>2. /\ \A q \in Runs : pc'[q] = pc[q]
      /\ pc'[Client] = l /\ pc' = [b \in Actors |-> pc'[b]]
  BY <1>1, GotoIs DEF TypeInv
<1>3. /\ SessionType(disk'.session) /\ IsSession(disk'.session)
      /\ disk' = [state |-> disk'.state, session |-> disk'.session]
      /\ disk'.state \in {"none", "cut", "whole"}
      /\ saver' \in Actors \cup {Nobody} /\ disk'.session.turns <= begun
  <2>1. CASE UNCHANGED <<disk, saver>>
    BY <2>1 DEF TypeInv, TypeOK, Shapes, Bounds
  <2>2. CASE Save(Client, session')
    BY <1>1, <2>2, SaveTyped
  <2> QED
    BY <2>1, <2>2
<1>4. Bounds'
  <2>1. \A q \in Runs : pc[q] \in Over => pc[q] \notin Counting
    BY DEF Over, Counting
  <2>2. (\A q \in Runs : pc[q] \in Counting => session.turns < q)'
    BY <1>2, <2>1 DEF TypeInv, Bounds
  <2> QED
    BY <1>2, <1>3, <2>2 DEF TypeInv, Bounds
<1>5. Shapes'
  BY <1>2, <1>3 DEF Shapes
<1>6. TypeOK'
  BY <1>2, <1>3 DEF TypeInv, TypeOK
<1> QED
  BY <1>4, <1>5, <1>6 DEF TypeInv

LEMMA RewindKeepsTypes ==
  ASSUME TypeInv, Rewind \/ RewindFiles
  PROVE  TypeInv'
<1>1. UNCHANGED <<begun, history, id, seen>>
  BY DEF Rewind, RewindFiles, runVars
<1>2. {"files", "rewound", "rewindfailed"} \subseteq ClientLabels \ {"down", "refused"}
  BY DEF ClientLabels, Settled
<1>3. CASE Rewind
  <2>1. PICK n \in DOMAIN session.checkpoints :
          target' = n /\ Save(Client, Rewound(n)) /\ owed' = Kept(Rewound(n))
    BY <1>3 DEF Rewind
  <2>2. session' = Rewound(n)
    BY <2>1, SaveIs
  <2>3. n \in Turns /\ session.checkpoints[n] \in Seq(Entry)
    BY <2>1, SessionParts
  <2>4. SessionType(session') /\ IsSession(session') /\ session'.turns = session.turns
    BY <2>2, <2>3, RewoundIs, SessionParts, SessionOfTyped, SessionFields
  <2>5. owed' \subseteq Runs
    BY <2>1 DEF Kept, TypeInv, TypeOK
  <2>6. Goto(Client, "files") /\ files' = files
    BY <1>3 DEF Rewind
  <2> QED
    BY <1>1, <1>2, <2>1, <2>2, <2>3, <2>4, <2>5, <2>6, SessionParts, ClientStepKeepsTypes
<1>4. CASE RewindFiles
  <2>1. target' = target /\ owed' = owed /\ target \in Turns /\ owed \subseteq Runs
    BY <1>4 DEF RewindFiles, TypeInv, TypeOK
  <2>2. CASE Goto(Client, "rewindfailed") /\ UNCHANGED <<session, disk, saver, files>>
    BY <1>1, <1>2, <2>1, <2>2, SessionParts, ClientStepKeepsTypes
  <2>3. CASE /\ target \in DOMAIN session.fileCheckpoints /\ files' = Restored(target)
             /\ Save(Client, session) /\ Goto(Client, "rewound")
    <3>1. session' = session /\ files' \in Snap
      BY <2>3, SaveIs, SessionParts DEF Restored
    <3> QED
      BY <1>1, <1>2, <2>1, <2>3, <3>1, SessionParts, ClientStepKeepsTypes
  <2>4. CASE /\ target \in DOMAIN session.fileCheckpoints
             /\ \E part \in SUBSET Files :
                  files' = [f \in Files |-> IF f \in part THEN Restored(target)[f] ELSE files[f]]
             /\ Goto(Client, "rewindfailed") /\ UNCHANGED <<session, disk, saver>>
    <3>1. Restored(target) \in Snap /\ files \in Snap
      BY <2>4, SessionParts DEF Restored
    <3>2. files' \in Snap
      BY <2>4, <3>1 DEF Snap
    <3> QED
      BY <1>1, <1>2, <2>1, <2>4, <3>2, SessionParts, ClientStepKeepsTypes
  <2> QED
    BY <1>4, <2>2, <2>3, <2>4 DEF RewindFiles
<1> QED
  BY <1>3, <1>4

LEMMA FinishSaveKeepsTypes ==
  ASSUME TypeInv, FinishSave
  PROVE  TypeInv'
<1>1. /\ saver' = Nobody /\ saver \in Actors
      /\ UNCHANGED <<session, files, begun, history, id, seen, target, owed>>
      /\ disk' = disk \/ disk' = [disk EXCEPT !.state = "whole"]
      /\ \E ok \in BOOLEAN : pc' = AfterSave(ok)
  BY DEF FinishSave, runVars, TypeInv, TypeOK
<1>2. /\ disk'.state \in {"none", "cut", "whole"} /\ disk'.session = disk.session
      /\ disk' = [state |-> disk'.state, session |-> disk'.session]
  BY <1>1 DEF TypeInv, TypeOK, Shapes
<1>3. PICK ok \in BOOLEAN : pc' = AfterSave(ok)
  BY <1>1
<1>4. /\ pc' = [a \in Actors |-> pc'[a]]
      /\ \A a \in Actors :
           \/ pc'[a] = pc[a]
           \/ a = saver /\ pc[a] = "snapped" /\ pc'[a] \in {"loop", "failed"}
  <2>1. pc = [a \in Actors |-> pc[a]]
    BY DEF TypeInv, Shapes
  <2>2. CASE pc[saver] # "snapped"
    <3>1. pc' = pc
      BY <1>3, <2>2 DEF AfterSave
    <3> QED
      BY <2>1, <3>1
  <2>3. CASE pc[saver] = "snapped"
    <3>1. PICK l \in {"loop", "failed"} : pc' = [pc EXCEPT ![saver] = l]
      BY <1>3, <2>3 DEF AfterSave
    <3> QED
      BY <1>1, <2>1, <2>3, <3>1
  <2> QED
    BY <2>2, <2>3
<1>5. pc[Client] # "snapped" /\ Client \in Actors /\ \A r \in Runs : r \in Actors /\ r # Client
  BY ConstantsAreTyped DEF TypeInv, TypeOK, ClientLabels, Settled
<1>6. /\ pc'[Client] = pc[Client]
      /\ \A r \in Runs :
           \/ pc'[r] = pc[r]
           \/ pc[r] = "snapped" /\ pc'[r] \in {"loop", "failed"}
  BY <1>4, <1>5
<1>7. TypeOK'
  <2>1. \A r \in Runs : pc'[r] \in RunLabels
    BY <1>6 DEF TypeInv, TypeOK, RunLabels
  <2>2. pc'[Client] \in ClientLabels
    BY <1>6 DEF TypeInv, TypeOK
  <2> QED
    BY <1>1, <1>2, <2>1, <2>2 DEF TypeInv, TypeOK
<1>8. Bounds'
  <2>1. /\ "snapped" \in Working /\ "loop" \notin Counting /\ "failed" \notin Working \cup Counting
        /\ "snapped" \notin Over /\ Counting \subseteq Working
    BY DEF Working, Counting, Over
  <2>2. (\A r \in Runs : pc[r] \in Working => r = begun)'
    BY <1>1, <1>6, <2>1 DEF TypeInv, Bounds
  <2>3. (\A r \in Runs : pc[r] = "answered" => r <= begun)'
    BY <1>1, <1>6 DEF TypeInv, Bounds
  <2>4. (\A r \in Runs : pc[r] \in Counting => session.turns < r)'
    BY <1>1, <1>6, <2>1 DEF TypeInv, Bounds
  <2>5. (pc[Client] \in {"down", "refused"} => \A r \in Runs : pc[r] \in Over)'
    BY <1>6, <2>1 DEF TypeInv, Bounds
  <2> QED
    BY <1>1, <1>2, <2>2, <2>3, <2>4, <2>5 DEF TypeInv, Bounds
<1>9. Shapes'
  BY <1>1, <1>2, <1>4 DEF TypeInv, Shapes
<1> QED
  BY <1>7, <1>8, <1>9 DEF TypeInv

LEMMA CrashKeepsTypes ==
  ASSUME TypeInv, Crash \/ Restart
  PROVE  TypeInv'
<1>0. Client \in Actors /\ \A r \in Runs : r \in Actors /\ r # Client
  BY ConstantsAreTyped
<1>1. CASE Crash
  <2>1. /\ session' = Fresh /\ saver' = Nobody
        /\ UNCHANGED <<disk, files, begun, history, id, seen, target, owed>>
    BY <1>1 DEF Crash, runVars
  <2>2. pc' = [a \in Actors |-> IF a = Client THEN "down"
                               ELSE IF pc[a] \in Over THEN pc[a] ELSE "failed"]
    BY <1>1 DEF Crash
  <2>3. /\ pc' = [a \in Actors |-> pc'[a]] /\ pc'[Client] = "down"
        /\ \A r \in Runs : pc'[r] = IF pc[r] \in Over THEN pc[r] ELSE "failed"
    BY <1>0, <2>2
  <2>4. \A r \in Runs : pc'[r] \in Over /\ pc'[r] \in RunLabels
                       /\ pc'[r] \notin Working \cup Counting \cup {"answered"}
    BY <2>3 DEF TypeInv, TypeOK, Over, Working, Counting, RunLabels
  <2>5. SessionType(session') /\ IsSession(session') /\ session'.turns = 0
    BY <2>1, FreshIsTyped
  <2>6. TypeOK'
    <3>1. "down" \in ClientLabels
      BY DEF ClientLabels
    <3> QED
      BY <2>1, <2>3, <2>4, <2>5, <3>1 DEF TypeInv, TypeOK
  <2>7. Bounds'
    <3>1. begun \in Nat /\ 0 <= begun
      BY TypeFacts
    <3> QED
      BY <2>1, <2>4, <2>5, <3>1 DEF TypeInv, Bounds
  <2>8. Shapes'
    BY <2>1, <2>3, <2>5 DEF TypeInv, Shapes
  <2> QED
    BY <2>6, <2>7, <2>8 DEF TypeInv
<1>2. CASE Restart
  <2>1. /\ UNCHANGED <<disk, saver, files, begun, history, id, seen, target>>
        /\ pc[Client] = "down"
    BY <1>2 DEF Restart, runVars
  <2>2. \A r \in Runs : pc[r] \in Over
    BY <2>1 DEF TypeInv, Bounds
  <2>3. "idle" \in ClientLabels /\ "refused" \in ClientLabels
    BY DEF ClientLabels, Settled
  <2>4. files' \in Snap /\ target' \in Turns
    BY <2>1 DEF TypeInv, TypeOK
  <2>5. CASE Goto(Client, "refused") /\ UNCHANGED <<session, owed>>
    <3>1. owed' \subseteq Runs
      BY <2>5 DEF TypeInv, TypeOK
    <3> QED
      BY <2>1, <2>2, <2>3, <2>4, <2>5, <3>1, SessionParts, ClientStepKeepsTypes
  <2>6. CASE /\ session' = IF disk.state = "whole" THEN disk.session ELSE Fresh
             /\ owed' = Kept(session') /\ Goto(Client, "idle")
    <3>1. SessionType(disk.session) /\ IsSession(disk.session) /\ disk.session.turns <= begun
      BY DEF TypeInv, TypeOK, Shapes, Bounds
    <3>2. SessionType(Fresh) /\ IsSession(Fresh) /\ Fresh.turns <= begun
      BY FreshIsTyped, TypeFacts
    <3>3. SessionType(session') /\ IsSession(session') /\ session'.turns <= begun
      BY <2>6, <3>1, <3>2
    <3>4. owed' \subseteq Runs
      BY <2>6 DEF Kept, TypeInv, TypeOK
    <3> QED
      BY <2>1, <2>2, <2>3, <2>4, <2>6, <3>3, <3>4, ClientStepKeepsTypes
  <2> QED
    BY <1>2, <2>5, <2>6 DEF Restart
<1> QED
  BY <1>1, <1>2

\* TypeInv is inductive.
LEMMA TypeInvHolds == Spec => []TypeInv
<1>1. Init => TypeInv
  <2> SUFFICES ASSUME Init PROVE TypeInv
    OBVIOUS
  <2>1. /\ \A r \in Runs : r \in Nat /\ r > 0 /\ r \in Actors /\ r # Client
        /\ Client \in Actors /\ 0 \in Turns /\ MaxRuns \in Nat
    BY ConstantsAreTyped
  <2>2. /\ \A r \in Runs : pc[r] = "new"
        /\ pc[Client] = "idle" /\ pc = [a \in Actors |-> pc[a]]
    BY <2>1 DEF Init
  <2>3. /\ session = Fresh /\ disk = [state |-> "none", session |-> Fresh] /\ saver = Nobody
        /\ begun = 0 /\ target = 0 /\ owed = {}
        /\ SessionType(Fresh) /\ IsSession(Fresh) /\ Fresh.turns = 0
    BY FreshIsTyped DEF Init
  <2>4. files \in Snap /\ id \in [Runs -> Turns] /\ seen \in [Runs -> Turns]
        /\ history \in [Runs -> Seq(Entry)] /\ \A r \in Runs : id[r] = 0 /\ seen[r] = 0
    BY <2>1 DEF Init, Snap
  <2>5. "new" \in RunLabels /\ "idle" \in ClientLabels /\ "new" \notin Working \cup Counting
    BY DEF RunLabels, ClientLabels, Settled, Working, Counting
  <2>6. TypeOK
    <3>1. begun \in 0 .. MaxRuns
      BY <2>1, <2>3
    <3> QED
      BY <2>1, <2>2, <2>3, <2>4, <2>5, <3>1 DEF TypeOK
  <2>7. Bounds
    <3>1. session.turns = 0 /\ disk.session.turns = 0 /\ begun = 0
      BY <2>3
    <3>2. \A r \in Runs : pc[r] # "answered" /\ pc[r] \notin Working /\ pc[r] \notin Counting
      BY <2>2, <2>5
    <3>3. pc[Client] \notin {"down", "refused"}
      BY <2>2
    <3>4. \A r \in Runs : id[r] <= r /\ seen[r] <= r
      BY <2>1, <2>4
    <3> QED
      BY <3>1, <3>2, <3>3, <3>4 DEF Bounds
  <2> QED
    BY <2>2, <2>3, <2>6, <2>7 DEF TypeInv, Shapes
<1>2. TypeInv /\ [Next]_vars => TypeInv'
  <2>1. TypeInv /\ Next => TypeInv'
    BY BeginRunKeepsTypes, CountingRunsKeepTypes, StoringRunsKeepTypes, LoopingRunsKeepTypes,
       RewindKeepsTypes, FinishSaveKeepsTypes, CrashKeepsTypes DEF Next, RunStep
  <2>2. TypeInv /\ UNCHANGED vars => TypeInv'
    BY DEF TypeInv, TypeOK, Shapes, Bounds, vars, runVars
  <2> QED
    BY <2>1, <2>2
<1> QED
  BY <1>1, <1>2, PTL DEF Spec

(* The variables keep their types; in particular the turn counter never    *)
(* passes the number of runs begun, also when runs race                    *)
(* (query_runner.go:361-397, manager.go:192-201).                          *)
THEOREM TypeCorrect == Spec => []TypeOK
<1>1. TypeInv => TypeOK
  BY DEF TypeInv
<1> QED
  BY <1>1, TypeInvHolds, PTL
-----------------------------------------------------------------------------
(* One run after the other.  Everything hinges on the counter: no message  *)
(* and no checkpoint of a session, in memory or in the store, has a number *)
(* above it, and the run that is under way counted last.                   *)

Storing == {"setstate", "snapshot", "snapfiles", "snapped"}
Counted == Storing \cup {"loop", "answered"}
Active  == Counting \cup Counted

Numbered(m, n) == \A i \in 1 .. Len(m) : m[i].id <= n

EndsWith(m, n, b) ==
  m # <<>> /\ Last(m).role = "user" /\ Last(m).id = n /\ Last(m).run <= b

Predate(snapshot, m) == \A f \in Files : snapshot[f] < Last(m).run

\* What holds of every session that was ever in memory or in the store, after b runs.
Consistent(s, b) ==
  /\ Numbered(s.messages, s.turns)
  /\ DOMAIN s.fileCheckpoints \subseteq DOMAIN s.checkpoints
  /\ \A n \in DOMAIN s.checkpoints :
       /\ n <= s.turns /\ Numbered(s.checkpoints[n], s.turns)
       /\ EndsWith(s.checkpoints[n], n, b)
  /\ \A n \in DOMAIN s.fileCheckpoints :
       Predate(s.fileCheckpoints[n], s.checkpoints[n])

Carries(m, R) == \A q \in R : Answered(q) \in Range(m)

\* What the run that is under way has read is still what the session holds.
InStep(r) ==
  /\ pc[r] \in Counting => history[r] = session.messages
  /\ pc[r] = "count" => id[r] = session.turns + 1
  /\ pc[r] \in Counted => /\ id[r] = session.turns /\ seen[r] = session.turns
                          /\ Numbered(history[r], session.turns)
  /\ pc[r] \in Storing => history[r] # <<>> /\ Last(history[r]) = Asked(r, id[r])
  /\ pc[r] \in Storing \ {"setstate"} => session.messages = history[r]
  /\ pc[r] \in {"setstate", "snapshot"} => id[r] \notin DOMAIN session.checkpoints
  /\ pc[r] = "snapfiles" =>
       id[r] \in DOMAIN session.checkpoints /\ Last(session.checkpoints[id[r]]).run = r
  /\ pc[r] \in Counting \cup Storing => \A f \in Files : files[f] < r
  /\ Carries(history[r], owed)
  /\ pc[r] = "answered" => Carries(history[r], {r})

RunInv == \A r \in Runs : pc[r] \in Active => r = begun /\ pc[Client] = "idle" /\ InStep(r)

RewindInv ==
  /\ pc[Client] \in {"files", "rewound"} =>
       target \in DOMAIN session.checkpoints /\ session.messages = session.checkpoints[target]
  /\ pc[Client] = "rewound" =>
       target \in DOMAIN session.fileCheckpoints /\ files = session.fileCheckpoints[target]

SerialInv ==
  /\ Consistent(session, begun) /\ Consistent(disk.session, begun)
  /\ \A f \in Files : files[f] <= begun
  /\ RunInv /\ RewindInv /\ AnswersKept

-----------------------------------------------------------------------------
(* Lemmas about conversations and sessions.                                *)

LEMMA LastIsEntry ==
  ASSUME NEW m \in Seq(Entry), m # <<>>
  PROVE  Last(m) \in Entry /\ Last(m) = m[Len(m)] /\ Len(m) \in 1 .. Len(m)
         /\ Last(m).run \in Nat /\ Last(m).id \in Nat
<1>1. Len(m) \in Nat /\ Len(m) > 0 /\ m[Len(m)] \in Entry
  OBVIOUS
<1>2. \A e \in Entry : e.run \in Nat /\ e.id \in Nat
  BY ConstantsAreTyped DEF Entry, Runs, Turns
<1> QED
  BY <1>1, <1>2 DEF Last

LEMMA RangeIs ==
  ASSUME NEW m \in Seq(Entry), NEW e
  PROVE  e \in Range(m) <=> \E i \in 1 .. Len(m) : m[i] = e
<1>1. DOMAIN m = 1 .. Len(m)
  OBVIOUS
<1> QED
  BY <1>1 DEF Range

LEMMA Appended ==
  ASSUME NEW m \in Seq(Entry), NEW e \in Entry
  PROVE  /\ Append(m, e) \in Seq(Entry) /\ Append(m, e) # <<>> /\ Last(Append(m, e)) = e
         /\ \A x : x \in Range(m) => x \in Range(Append(m, e))
         /\ e \in Range(Append(m, e))
         /\ \A t \in Nat, u \in Nat :
              Numbered(m, t) /\ t <= u /\ e.id <= u => Numbered(Append(m, e), u)
<1> DEFINE a == Append(m, e)
<1>1. /\ a \in Seq(Entry) /\ Len(a) = Len(m) + 1 /\ Len(m) \in Nat
      /\ a[Len(a)] = e /\ \A i \in 1 .. Len(m) : a[i] = m[i]
  OBVIOUS
<1>2. a # <<>>
  BY <1>1
<1> HIDE DEF a
<1>3. Len(a) \in 1 .. Len(a) /\ \A i \in 1 .. Len(m) : i \in 1 .. Len(a)
  BY <1>1
<1>4. \A x : x \in Range(m) => x \in Range(a)
  BY <1>1, <1>3, RangeIs
<1>5. e \in Range(a)
  BY <1>1, <1>3, RangeIs
<1>6. ASSUME NEW t \in Nat, NEW u \in Nat, Numbered(m, t), t <= u, e.id <= u
      PROVE  Numbered(a, u)
  <2> SUFFICES ASSUME NEW i \in 1 .. Len(a) PROVE a[i].id <= u
    BY DEF Numbered
  <2>1. CASE i = Len(a)
    BY <1>1, <1>6, <2>1
  <2>2. CASE i # Len(a)
    <3>1. i \in 1 .. Len(m)
      BY <1>1, <2>2
    <3>2. a[i] = m[i] /\ m[i].id <= t /\ m[i] \in Entry
      BY <1>1, <1>6, <3>1 DEF Numbered
    <3>3. m[i].id \in Nat
      BY <3>2, ConstantsAreTyped DEF Entry, Turns
    <3> QED
      BY <1>6, <3>2, <3>3
  <2> QED
    BY <2>1, <2>2
<1> QED
  BY <1>1, <1>2, <1>4, <1>5, <1>6 DEF a, Last

LEMMA NumberedGrows ==
  ASSUME NEW m \in Seq(Entry), NEW t \in Nat, NEW u \in Nat, Numbered(m, t), t <= u
  PROVE  Numbered(m, u)
<1> SUFFICES ASSUME NEW i \in 1 .. Len(m) PROVE m[i].id <= u
  BY DEF Numbered
<1>1. m[i] \in Entry /\ m[i].id <= t
  BY DEF Numbered
<1>2. m[i].id \in Nat
  BY <1>1, ConstantsAreTyped DEF Entry, Turns
<1> QED
  BY <1>1, <1>2

LEMMA ConsistentGrows ==
  ASSUME NEW s, SessionType(s), NEW b \in Nat, NEW c \in Nat, b <= c, Consistent(s, b)
  PROVE  Consistent(s, c)
<1> SUFFICES ASSUME NEW n \in DOMAIN s.checkpoints
             PROVE  Last(s.checkpoints[n]).run <= c
  BY DEF Consistent, EndsWith
<1>1. s.checkpoints[n] \in Seq(Entry) /\ s.checkpoints[n] # <<>> /\ Last(s.checkpoints[n]).run <= b
  BY DEF Consistent, EndsWith, SessionType
<1>2. Last(s.checkpoints[n]).run \in Nat
  BY <1>1, LastIsEntry
<1> QED
  BY <1>1, <1>2

LEMMA ConsistentOf ==
  ASSUME NEW m, NEW t, NEW c, NEW f, NEW b,
         Numbered(m, t), DOMAIN f \subseteq DOMAIN c,
         \A n \in DOMAIN c : n <= t /\ Numbered(c[n], t) /\ EndsWith(c[n], n, b),
         \A n \in DOMAIN f : Predate(f[n], c[n])
  PROVE  Consistent(SessionOf(m, t, c, f), b)
<1> DEFINE s == SessionOf(m, t, c, f)
<1>1. s.messages = m /\ s.turns = t /\ s.checkpoints = c /\ s.fileCheckpoints = f
  BY SessionFields
<1> HIDE DEF s
<1>2. Consistent(s, b)
  BY <1>1 DEF Consistent
<1> QED
  BY <1>2 DEF s

LEMMA FreshIsConsistent == ASSUME NEW b PROVE Consistent(Fresh, b)
  BY DEF Consistent, Fresh, Numbered

\* The session with one part replaced.
LEMMA MessagesConsistent ==
  ASSUME NEW s, Consistent(s, begun), NEW m, Numbered(m, s.turns)
  PROVE  Consistent(SessionOf(m, s.turns, s.checkpoints, s.fileCheckpoints), begun)
<1>1. /\ DOMAIN s.fileCheckpoints \subseteq DOMAIN s.checkpoints
      /\ \A n \in DOMAIN s.checkpoints :
           /\ n <= s.turns /\ Numbered(s.checkpoints[n], s.turns)
           /\ EndsWith(s.checkpoints[n], n, begun)
      /\ \A n \in DOMAIN s.fileCheckpoints : Predate(s.fileCheckpoints[n], s.checkpoints[n])
  BY DEF Consistent
<1> QED
  BY <1>1, ConsistentOf

LEMMA SaveKeepsConsistent ==
  ASSUME NEW a, NEW s, Save(a, s) \/ Truncate(a, s) \/ SaveRefused(s),
         Consistent(s, begun), Consistent(disk.session, begun)
  PROVE  /\ session' = s
         /\ Consistent(session', begun) /\ Consistent(disk'.session, begun)
<1>1. /\ session' = s
      /\ \/ UNCHANGED <<disk, saver>>
         \/ disk' = [state |-> "cut", session |-> s] /\ saver' = a
  BY DEF Save, Truncate, SaveRefused
<1>2. disk'.session = s \/ disk'.session = disk.session
  BY <1>1
<1> QED
  BY <1>1, <1>2, Zenon

-----------------------------------------------------------------------------
(* The steps of the run that is under way.                                 *)

LEMMA LabelFacts ==
  /\ Active = Counting \cup Counted /\ Storing \subseteq Counted
  /\ Active \cap Over = {} /\ Active \subseteq Working \cup {"answered"}
  /\ RunLabels = Active \cup Over
  /\ Counting \cap Counted = {}
  BY DEF Active, Counting, Counted, Storing, Over, Working, RunLabels

\* At most one run is under way; its facts.
LEMMA UnderWay ==
  ASSUME TypeInv, SerialInv, NEW r \in Runs, pc[r] \in Active
  PROVE  /\ r = begun /\ pc[Client] = "idle" /\ InStep(r) /\ r \in Nat
         /\ \A q \in Runs \ {r} : pc[q] \notin Active
         /\ Consistent(session, begun) /\ Consistent(disk.session, begun)
         /\ \A f \in Files : files[f] <= begun
         /\ Carries(session.messages, owed)
  BY TypeFacts DEF SerialInv, RunInv, AnswersKept, Carries

LEMMA RunMoves ==
  ASSUME TypeInv, SerialInv, NEW r \in Runs, pc[r] \in Active, NEW l,
         \A q \in Runs : pc'[q] = IF q = r THEN l ELSE pc[q], pc'[Client] = pc[Client],
         UNCHANGED begun,
         Consistent(session', begun), Consistent(disk'.session, begun),
         \A f \in Files : files'[f] <= begun,
         l \in Active => InStep(r)',
         Carries(session'.messages, owed')
  PROVE  SerialInv'
<1>1. /\ r = begun /\ pc'[Client] = "idle" /\ \A q \in Runs \ {r} : pc[q] \notin Active
  BY UnderWay
<1>2. RunInv'
  <2> SUFFICES ASSUME NEW q \in Runs, pc'[q] \in Active
               PROVE  q = begun' /\ pc'[Client] = "idle" /\ InStep(q)'
    BY DEF RunInv
  <2>1. q = r /\ l \in Active
    BY <1>1
  <2> QED
    BY <1>1, <2>1
<1>3. RewindInv'
  BY <1>1 DEF RewindInv
<1>4. AnswersKept'
  BY DEF AnswersKept, Carries
<1>5. Consistent(session, begun)' /\ Consistent(disk.session, begun)'
      /\ (\A f \in Files : files[f] <= begun)'
  OBVIOUS
<1> QED
  BY <1>2, <1>3, <1>4, <1>5 DEF SerialInv

LEMMA RunGoes ==
  ASSUME TypeInv, NEW r \in Runs, NEW l, Goto(r, l)
  PROVE  (\A q \in Runs : pc'[q] = IF q = r THEN l ELSE pc[q]) /\ pc'[Client] = pc[Client]
<1>1. Client \in Actors /\ \A q \in Runs : q \in Actors /\ q # Client
  BY ConstantsAreTyped
<1>2. \A b \in Actors : pc'[b] = IF b = r THEN l ELSE pc[b]
  BY <1>1, GotoIs DEF TypeInv
<1> QED
  BY <1>1, <1>2

LEMMA BeginRunIsSerial ==
  ASSUME Serial, TypeInv, SerialInv, NEW r \in Runs, BeginRun(r)
  PROVE  SerialInv'
<1>1. /\ begun \in Nat /\ r \in Nat /\ r = begun + 1 /\ begun' = r /\ r # Client
      /\ Runs \subseteq Actors /\ Client \in Actors
      /\ \A q \in Runs : q \in Nat /\ q > 0 /\ q # Client
  BY TypeFacts, ConstantsAreTyped DEF BeginRun
<1>2. /\ UNCHANGED <<session, disk, files, id, seen, target, owed>>
      /\ history' = [history EXCEPT ![r] = session.messages]
      /\ pc' = [pc EXCEPT ![r] = "id", ![Client] = IF @ = "files" THEN @ ELSE "idle"]
      /\ pc[Client] \in Settled /\ \A q \in 1 .. r - 1 : pc[q] \in Over
  BY DEF BeginRun, StartingHistory, MayBegin
<1>3. /\ \A q \in Runs : pc'[q] = IF q = r THEN "id" ELSE pc[q]
      /\ pc'[Client] = "idle"
  BY <1>1, <1>2 DEF TypeInv, Shapes, Settled
<1>4. \A q \in Runs : pc[q] \notin Active
  <2> SUFFICES ASSUME NEW q \in Runs, pc[q] \in Active PROVE FALSE
    OBVIOUS
  <2>1. q = begun
    BY DEF SerialInv, RunInv
  <2>2. q \in 1 .. r - 1
    BY <1>1, <2>1
  <2> QED
    BY <1>2, <2>2, LabelFacts
<1>5. history'[r] = session.messages
  BY <1>2 DEF TypeInv, TypeOK
<1>6. Carries(session.messages, owed)
  BY <1>2 DEF SerialInv, AnswersKept, Carries, Settled
<1>7. \A f \in Files : files[f] < r /\ files[f] <= r
  <2>1. \A f \in Files : files[f] \in {Absent} \cup Runs /\ files[f] <= begun
    BY SessionParts DEF Snap, SerialInv
  <2>2. \A f \in Files : files[f] \in Nat
    <3>1. 0 \in Nat /\ \A q \in Runs : q \in Nat
      BY <1>1
    <3> QED
      BY <2>1, <3>1, Zenon DEF Absent
  <2> QED
    BY <1>1, <2>1, <2>2
<1>8. InStep(r)'
  <2>1. pc'[r] = "id" /\ "id" \in Counting /\ "id" \notin Counted /\ "id" \notin Storing
    BY <1>3, LabelFacts DEF Counting
  <2> QED
    BY <1>2, <1>5, <1>6, <1>7, <2>1 DEF InStep
<1>9. RunInv'
  BY <1>1, <1>3, <1>4, <1>8 DEF RunInv
<1>10. Consistent(session', begun') /\ Consistent(disk'.session, begun')
  <2>1. SessionType(session) /\ SessionType(disk.session)
    BY DEF TypeInv, TypeOK
  <2>2. Consistent(session, r) /\ Consistent(disk.session, r)
    BY <1>1, <2>1, ConsistentGrows DEF SerialInv
  <2> QED
    BY <1>1, <1>2, <2>2
<1>11. RewindInv' /\ AnswersKept'
  BY <1>2, <1>3, <1>6 DEF RewindInv, AnswersKept, Carries
<1> QED
  BY <1>1, <1>2, <1>7, <1>9, <1>10, <1>11 DEF SerialInv

LEMMA TakeIdIsSerial ==
  ASSUME TypeInv, SerialInv, NEW r \in Runs, TakeId(r)
  PROVE  SerialInv'
<1>1. /\ UNCHANGED <<session, disk, files, begun, history, seen, owed>>
      /\ id' = [id EXCEPT ![r] = session.turns + 1] /\ Goto(r, "count") /\ pc[r] = "id"
  BY DEF TakeId, At
<1>2. pc[r] \in Active /\ "id" \in Counting /\ "count" \in Counting
      /\ "count" \notin Counted /\ "count" \notin Storing
  BY <1>1, LabelFacts DEF Counting
<1>3. pc'[r] = "count" /\ id'[r] = session.turns + 1
  BY <1>1, RunGoes DEF TypeInv, TypeOK
<1>4. InStep(r)'
  BY <1>1, <1>2, <1>3, UnderWay DEF InStep
<1> QED
  BY <1>1, <1>2, <1>4, RunMoves, RunGoes, UnderWay

LEMMA CountTurnIsSerial ==
  ASSUME TypeInv, SerialInv, NEW r \in Runs, CountTurn(r)
  PROVE  SerialInv'
<1> DEFINE t == session.turns
<1>1. /\ UNCHANGED <<disk, files, begun, id, owed>> /\ pc[r] = "count"
      /\ history' = [history EXCEPT ![r] = Append(@, Asked(r, id[r]))]
      /\ \E n \in {id[r], t + 1} :
           session' = [session EXCEPT !.turns = n] /\ seen' = [seen EXCEPT ![r] = n]
  BY DEF CountTurn, At
<1>2. PICK l \in {"setstate", "loop"} : Goto(r, l)
  BY DEF CountTurn
<1>3. /\ pc[r] \in Counting /\ pc[r] \in Active /\ l \in Counted /\ l \notin Counting
      /\ l \notin Storing \ {"setstate"}
  BY <1>1, <1>2, LabelFacts DEF Counting, Counted, Storing
<1>4. /\ history[r] = session.messages /\ id[r] = t + 1 /\ t \in Nat
      /\ session.messages \in Seq(Entry) /\ Numbered(session.messages, t)
      /\ \A n \in DOMAIN session.checkpoints :
           /\ n <= t /\ n \in Nat /\ session.checkpoints[n] \in Seq(Entry)
           /\ Numbered(session.checkpoints[n], t) /\ EndsWith(session.checkpoints[n], n, begun)
  <2>1. \A n \in DOMAIN session.checkpoints : n \in Nat
    BY SessionParts, ConstantsAreTyped DEF Turns
  <2> QED
    BY <1>1, <1>3, <2>1, UnderWay, TypeFacts, SessionParts DEF InStep, Consistent
<1>5. session' = SessionOf(session.messages, t + 1, session.checkpoints, session.fileCheckpoints)
      /\ seen' = [seen EXCEPT ![r] = t + 1]
  BY <1>1, <1>4, SessionParts, SessionUpdates
<1>6. /\ session'.messages = session.messages /\ session'.turns = t + 1
      /\ session'.checkpoints = session.checkpoints
  BY <1>5, SessionFields
<1>7. Consistent(session', begun)
  <2>1. Numbered(session.messages, t + 1)
    BY <1>4, NumberedGrows
  <2>2. \A n \in DOMAIN session.checkpoints :
          /\ n <= t + 1 /\ Numbered(session.checkpoints[n], t + 1)
          /\ EndsWith(session.checkpoints[n], n, begun)
    BY <1>4, NumberedGrows
  <2>3. /\ DOMAIN session.fileCheckpoints \subseteq DOMAIN session.checkpoints
        /\ \A n \in DOMAIN session.fileCheckpoints :
             Predate(session.fileCheckpoints[n], session.checkpoints[n])
    BY <1>3, UnderWay DEF Consistent
  <2> QED
    BY <1>5, <2>1, <2>2, <2>3, ConsistentOf
<1>8. InStep(r)'
  <2> DEFINE e == Asked(r, t + 1)
  <2>1. e \in Entry /\ e.id = t + 1
    BY <1>4, SessionParts DEF Asked, Entry
  <2>2. pc'[r] = l /\ id'[r] = t + 1 /\ seen'[r] = t + 1
        /\ history'[r] = Append(session.messages, e)
    BY <1>1, <1>2, <1>4, <1>5, RunGoes DEF TypeInv, TypeOK
  <2> HIDE DEF e
  <2>3. /\ history'[r] # <<>> /\ Last(history'[r]) = e
        /\ Numbered(history'[r], t + 1)
        /\ \A x : x \in Range(session.messages) => x \in Range(history'[r])
    BY <1>4, <2>1, <2>2, Appended
  <2>4. t + 1 \notin DOMAIN session.checkpoints
    BY <1>4
  <2>5. Carries(history'[r], owed)
    BY <1>3, <2>3, UnderWay DEF Carries
  <2>6. \A f \in Files : files[f] < r
    BY <1>3, UnderWay DEF InStep
  <2>7. l # "answered" /\ l # "count" /\ l # "snapfiles" /\ l # "snapshot"
    BY <1>2
  <2> QED
    BY <1>1, <1>3, <1>6, <2>2, <2>3, <2>4, <2>5, <2>6, <2>7 DEF InStep, e
<1> QED
  BY <1>1, <1>2, <1>3, <1>6, <1>7, <1>8, RunMoves, RunGoes, UnderWay

LEMMA StoringRunsAreSerial ==
  ASSUME TypeInv, SerialInv, NEW r \in Runs, SetState(r) \/ Snapshot(r) \/ SnapshotFiles(r)
  PROVE  SerialInv'
<1> USE DEF runVars
<1>1. /\ pc[r] \in {"setstate", "snapshot", "snapfiles"}
      /\ pc[r] \in Active /\ pc[r] \in Storing /\ pc[r] \in Counted
  BY LabelFacts DEF SetState, Snapshot, SnapshotFiles, At, Storing
<1>2. UNCHANGED <<begun, files, history, id, seen, owed>>
  BY DEF SetState, Snapshot, SnapshotFiles
<1>3. /\ id[r] = session.turns /\ seen[r] = session.turns /\ Numbered(history[r], session.turns)
      /\ history[r] # <<>> /\ Last(history[r]) = Asked(r, id[r])
      /\ pc[r] # "setstate" => session.messages = history[r]
      /\ pc[r] # "snapfiles" => id[r] \notin DOMAIN session.checkpoints
      /\ pc[r] = "snapfiles" =>
           id[r] \in DOMAIN session.checkpoints /\ Last(session.checkpoints[id[r]]).run = r
      /\ \A f \in Files : files[f] < r
      /\ Carries(history[r], owed)
  BY <1>1, UnderWay DEF InStep
<1>4. /\ Consistent(session, begun) /\ Consistent(disk.session, begun)
      /\ \A f \in Files : files[f] <= begun
      /\ Carries(session.messages, owed) /\ r = begun
      /\ IsSession(session) /\ session.turns \in Nat
  BY <1>1, UnderWay, SessionParts, TypeFacts
<1>5. ASSUME NEW l, Goto(r, l), Consistent(session', begun), Consistent(disk'.session, begun),
             session'.messages \in {history[r], session.messages}, l \in Active => InStep(r)'
      PROVE  SerialInv'
  <2>1. Carries(session'.messages, owed')
    BY <1>2, <1>3, <1>4, <1>5
  <2> QED
    BY <1>1, <1>2, <1>4, <1>5, <2>1, RunMoves, RunGoes
<1>6. CASE SetState(r)
  <2> DEFINE s == SessionOf(history[r], session.turns, session.checkpoints,
                            session.fileCheckpoints)
  <2>1. Save(r, s) /\ Goto(r, "snapshot") /\ pc[r] = "setstate"
    <3>1. PICK n \in {seen[r], session.turns} : Save(r, StateOf(r, n))
      BY <1>6 DEF SetState
    <3> QED
      BY <1>3, <1>6, <3>1, StateOfIs DEF SetState, At
  <2>2. /\ s.messages = history[r] /\ s.turns = session.turns
        /\ s.checkpoints = session.checkpoints
    BY SessionFields
  <2>3. Consistent(s, begun)
    BY <1>3, <1>4, MessagesConsistent
  <2> HIDE DEF s
  <2>4. session' = s /\ Consistent(session', begun) /\ Consistent(disk'.session, begun)
    BY <1>4, <2>1, <2>3, SaveKeepsConsistent
  <2>5. pc'[r] = "snapshot"
    BY <2>1, RunGoes
  <2>6. InStep(r)'
    BY <1>2, <1>3, <2>1, <2>2, <2>4, <2>5 DEF InStep, Counting, Storing
  <2> QED
    BY <1>5, <2>1, <2>2, <2>4, <2>6
<1>7. CASE Snapshot(r)
  <2> DEFINE c == Put(session.checkpoints, id[r], session.messages)
             s == SessionOf(session.messages, session.turns, c, session.fileCheckpoints)
  <2>1. Save(r, s) /\ Goto(r, "snapfiles") /\ pc[r] = "snapshot"
    BY <1>7, CheckpointIs DEF Snapshot, Captured, At
  <2>2. /\ DOMAIN c = DOMAIN session.checkpoints \cup {id[r]}
        /\ c[id[r]] = history[r]
        /\ \A n \in DOMAIN session.checkpoints : c[n] = session.checkpoints[n]
    <3>1. id[r] \notin DOMAIN session.checkpoints /\ session.messages = history[r]
      BY <1>3, <2>1
    <3>2. /\ DOMAIN c = DOMAIN session.checkpoints \cup {id[r]}
          /\ c[id[r]] = session.messages
          /\ \A n \in DOMAIN session.checkpoints : n # id[r] => c[n] = session.checkpoints[n]
      BY DEF Put
    <3> HIDE DEF c
    <3> QED
      BY <3>1, <3>2
  <2> HIDE DEF c
  <2>3. /\ s.messages = session.messages /\ s.turns = session.turns /\ s.checkpoints = c
    BY SessionFields
  <2>4. Consistent(s, begun)
    <3>1. /\ Numbered(session.messages, session.turns)
          /\ DOMAIN session.fileCheckpoints \subseteq DOMAIN session.checkpoints
          /\ \A n \in DOMAIN session.checkpoints :
               /\ n <= session.turns /\ Numbered(session.checkpoints[n], session.turns)
               /\ EndsWith(session.checkpoints[n], n, begun)
          /\ \A n \in DOMAIN session.fileCheckpoints :
               Predate(session.fileCheckpoints[n], session.checkpoints[n])
      BY <1>4 DEF Consistent
    <3>2. EndsWith(history[r], id[r], begun)
      <4>1. r <= begun
        BY <1>4, TypeFacts
      <4> QED
        BY <1>3, <4>1 DEF EndsWith, Asked
    <3>3. id[r] <= session.turns
      BY <1>3, <1>4
    <3>4. \A n \in DOMAIN c : n <= session.turns /\ Numbered(c[n], session.turns)
                              /\ EndsWith(c[n], n, begun)
      BY <1>3, <2>2, <3>1, <3>2, <3>3
    <3>5. \A n \in DOMAIN session.fileCheckpoints : Predate(session.fileCheckpoints[n], c[n])
      BY <2>2, <3>1
    <3>6. DOMAIN session.fileCheckpoints \subseteq DOMAIN c
      BY <2>2, <3>1
    <3> QED
      BY <3>1, <3>4, <3>5, <3>6, ConsistentOf
  <2> HIDE DEF s
  <2>5. session' = s /\ Consistent(session', begun) /\ Consistent(disk'.session, begun)
    BY <1>4, <2>1, <2>4, SaveKeepsConsistent
  <2>6. pc'[r] = "snapfiles"
    BY <2>1, RunGoes
  <2>7. Last(history[r]).run = r
    BY <1>3 DEF Asked
  <2>8. InStep(r)'
    BY <1>2, <1>3, <2>1, <2>2, <2>3, <2>5, <2>6, <2>7 DEF InStep, Counting, Storing
  <2> QED
    BY <1>5, <2>1, <2>3, <2>5, <2>8
<1>8. CASE SnapshotFiles(r)
  <2> DEFINE c == Put(session.fileCheckpoints, id[r], files)
             s == SessionOf(session.messages, session.turns, session.checkpoints, c)
  <2>1. pc[r] = "snapfiles"
    BY <1>8 DEF SnapshotFiles, At
  <2>2. /\ DOMAIN c = DOMAIN session.fileCheckpoints \cup {id[r]}
        /\ c[id[r]] = files
        /\ \A n \in DOMAIN session.fileCheckpoints :
             n # id[r] => c[n] = session.fileCheckpoints[n]
    BY DEF Put
  <2>3. [session EXCEPT !.fileCheckpoints = Put(@, id[r], CapturedFiles)] = s
    BY FileCheckpointIs DEF CapturedFiles
  <2> HIDE DEF c
  <2>4. s.messages = session.messages /\ s.turns = session.turns
        /\ s.checkpoints = session.checkpoints
    BY SessionFields
  <2>5. Consistent(s, begun)
    <3>1. /\ Numbered(session.messages, session.turns)
          /\ DOMAIN session.fileCheckpoints \subseteq DOMAIN session.checkpoints
          /\ \A n \in DOMAIN session.checkpoints :
               /\ n <= session.turns /\ Numbered(session.checkpoints[n], session.turns)
               /\ EndsWith(session.checkpoints[n], n, begun)
          /\ \A n \in DOMAIN session.fileCheckpoints :
               Predate(session.fileCheckpoints[n], session.checkpoints[n])
      BY <1>4 DEF Consistent
    <3>2. id[r] \in DOMAIN session.checkpoints /\ Predate(files, session.checkpoints[id[r]])
      BY <1>3, <2>1 DEF Predate
    <3>3. \A n \in DOMAIN c : Predate(c[n], session.checkpoints[n])
      BY <2>2, <3>1, <3>2
    <3>4. DOMAIN c \subseteq DOMAIN session.checkpoints
      BY <2>2, <3>1, <3>2
    <3> QED
      BY <3>1, <3>3, <3>4, ConsistentOf
  <2> HIDE DEF s
  <2>6. ASSUME session' \in {s, session}, NEW l \in {"snapped", "loop"}, Goto(r, l)
        PROVE  InStep(r)'
    <3>1. pc'[r] = l
      BY <2>6, RunGoes
    <3>2. session'.messages = history[r] /\ session'.turns = session.turns
      BY <1>3, <2>1, <2>4, <2>6
    <3> QED
      BY <1>2, <1>3, <3>1, <3>2 DEF InStep, Counting, Storing
  <2>7. \/ Truncate(r, s) /\ Goto(r, IF Persistent THEN "snapped" ELSE "loop")
        \/ SaveRefused(s) /\ Goto(r, "failed")
        \/ Goto(r, "failed") /\ UNCHANGED <<session, disk, saver>>
    BY <1>8, <2>3 DEF SnapshotFiles
  <2>8. CASE Truncate(r, s) /\ Goto(r, IF Persistent THEN "snapped" ELSE "loop")
    <3>1. session' = s /\ Consistent(session', begun) /\ Consistent(disk'.session, begun)
      BY <1>4, <2>5, <2>8, SaveKeepsConsistent
    <3>2. PICK l \in {"snapped", "loop"} : Goto(r, l)
      BY <2>8
    <3> QED
      BY <1>5, <2>4, <2>6, <3>1, <3>2
  <2>9. CASE SaveRefused(s) /\ Goto(r, "failed")
    <3>1. session' = s /\ Consistent(session', begun) /\ Consistent(disk'.session, begun)
      BY <1>4, <2>5, <2>9, SaveKeepsConsistent
    <3> QED
      BY <1>5, <2>4, <2>9, <3>1, LabelFacts DEF Over
  <2>10. CASE Goto(r, "failed") /\ UNCHANGED <<session, disk, saver>>
    BY <1>4, <1>5, <2>10, LabelFacts DEF Over
  <2> QED
    BY <2>7, <2>8, <2>9, <2>10
<1> QED
  BY <1>6, <1>7, <1>8

LEMMA LoopingRunsAreSerial ==
  ASSUME TypeInv, SerialInv, NEW r \in Runs,
         WriteFile(r) \/ ShowResult(r) \/ SaveAnswer(r) \/ FailRun(r)
  PROVE  SerialInv'
<1> USE DEF runVars
<1>1. pc[r] \in {"setstate", "loop", "answered"} /\ pc[r] \in Active /\ pc[r] \in Counted
  BY LabelFacts DEF WriteFile, ShowResult, SaveAnswer, FailRun, At, Counted, Storing
<1>2. UNCHANGED <<begun, id>>
  BY DEF WriteFile, ShowResult, SaveAnswer, FailRun
<1>3. /\ id[r] = session.turns /\ seen[r] = session.turns /\ Numbered(history[r], session.turns)
      /\ Carries(history[r], owed)
      /\ pc[r] = "answered" => Carries(history[r], {r})
  BY <1>1, UnderWay DEF InStep
<1>4. /\ Consistent(session, begun) /\ Consistent(disk.session, begun)
      /\ \A f \in Files : files[f] <= begun
      /\ Carries(session.messages, owed) /\ r = begun /\ r \in Nat
      /\ IsSession(session) /\ session.turns \in Nat
  BY <1>1, UnderWay, SessionParts, TypeFacts
<1>5. CASE WriteFile(r)
  <2>1. /\ UNCHANGED <<session, disk, pc, history, seen, owed>> /\ pc[r] = "loop"
        /\ \E f \in Files : files' = [files EXCEPT ![f] = r]
    BY <1>5 DEF WriteFile, At
  <2>2. \A f \in Files : files'[f] <= begun
    BY <1>4, <2>1, SessionParts DEF Snap
  <2>3. InStep(r)'
    BY <1>2, <1>3, <2>1 DEF InStep, Counting, Storing
  <2> QED
    BY <1>1, <1>2, <1>4, <2>1, <2>2, <2>3, RunMoves
<1>6. CASE ShowResult(r)
  <2> DEFINE e == Answered(r)
  <2>1. /\ UNCHANGED <<session, disk, files, owed>> /\ Goto(r, "answered")
        /\ history' = [history EXCEPT ![r] = Append(@, e)]
        /\ seen' = [seen EXCEPT ![r] = session.turns]
    BY <1>6 DEF ShowResult
  <2>2. e \in Entry /\ e.id = 0
    BY ConstantsAreTyped DEF Answered, Entry
  <2> HIDE DEF e
  <2>3. pc'[r] = "answered" /\ history'[r] = Append(history[r], e) /\ seen'[r] = session.turns
    BY <2>1, RunGoes DEF TypeInv, TypeOK
  <2>4. /\ Numbered(history'[r], session.turns) /\ e \in Range(history'[r])
        /\ \A x : x \in Range(history[r]) => x \in Range(history'[r])
    BY <1>3, <1>4, <2>2, <2>3, SessionParts, Appended
  <2>5. Carries(history'[r], owed) /\ Carries(history'[r], {r})
    BY <1>3, <2>4 DEF Carries, e
  <2>6. InStep(r)'
    BY <1>2, <1>3, <2>1, <2>3, <2>4, <2>5 DEF InStep, Counting, Storing
  <2> QED
    BY <1>1, <1>2, <1>4, <2>1, <2>6, RunMoves, RunGoes
<1>7. CASE SaveAnswer(r)
  <2> DEFINE s == SessionOf(history[r], session.turns, session.checkpoints,
                            session.fileCheckpoints)
  <2>1. /\ Save(r, s) /\ Goto(r, "done") /\ pc[r] = "answered"
        /\ owed' = owed \cup {r} /\ files' = files
    <3>1. PICK n \in {seen[r], session.turns} : Save(r, StateOf(r, n))
      BY <1>7 DEF SaveAnswer
    <3> QED
      BY <1>3, <1>7, <3>1, StateOfIs DEF SaveAnswer, At
  <2>2. s.messages = history[r]
    BY SessionFields
  <2>3. Consistent(s, begun)
    BY <1>3, <1>4, MessagesConsistent
  <2> HIDE DEF s
  <2>4. session' = s /\ Consistent(session', begun) /\ Consistent(disk'.session, begun)
    BY <1>4, <2>1, <2>3, SaveKeepsConsistent
  <2>5. Carries(session'.messages, owed')
    BY <1>3, <2>1, <2>2, <2>4 DEF Carries
  <2>6. "done" \notin Active
    BY LabelFacts DEF Over
  <2> QED
    BY <1>1, <1>2, <1>4, <2>1, <2>4, <2>5, <2>6, RunMoves, RunGoes
<1>8. CASE FailRun(r)
  <2>1. UNCHANGED <<session, disk, files, owed>> /\ Goto(r, "failed")
    BY <1>8 DEF FailRun
  <2>2. "failed" \notin Active
    BY LabelFacts DEF Over
  <2> QED
    BY <1>1, <1>2, <1>4, <2>1, <2>2, RunMoves, RunGoes
<1> QED
  BY <1>5, <1>6, <1>7, <1>8

LEMMA FinishSaveIsSerial ==
  ASSUME TypeInv, SerialInv, FinishSave
  PROVE  SerialInv'
<1>1. /\ saver \in Actors
      /\ UNCHANGED <<session, files, begun, history, id, seen, target, owed>>
      /\ disk' = disk \/ disk' = [disk EXCEPT !.state = "whole"]
      /\ \E ok \in BOOLEAN : pc' = AfterSave(ok)
  BY DEF FinishSave, runVars, TypeInv, TypeOK
<1>2. disk'.session = disk.session
  BY <1>1 DEF TypeInv, Shapes
<1>3. Consistent(session', begun') /\ Consistent(disk'.session, begun')
      /\ \A f \in Files : files'[f] <= begun'
  BY <1>1, <1>2 DEF SerialInv
<1>4. CASE pc' = pc
  <2>1. RunInv'
    BY <1>1, <1>4 DEF SerialInv, RunInv, InStep
  <2>2. RewindInv' /\ AnswersKept'
    BY <1>1, <1>4 DEF SerialInv, RewindInv, AnswersKept
  <2> QED
    BY <1>3, <2>1, <2>2 DEF SerialInv
<1>5. CASE pc' # pc
  <2>1. PICK l \in {"loop", "failed"} : pc' = [pc EXCEPT ![saver] = l] /\ pc[saver] = "snapped"
    BY <1>1, <1>5 DEF AfterSave
  <2>2. saver \in Runs
    <3>1. saver # Client
      BY <2>1 DEF TypeInv, TypeOK, ClientLabels, Settled
    <3> QED
      BY <1>1, <3>1 DEF Actors
  <2>3. pc[saver] \in Active /\ "snapped" \in Counted /\ "failed" \notin Active
    BY <2>1, LabelFacts DEF Counted, Storing, Over
  <2> DEFINE r == saver
  <2>4. Goto(r, l)
    BY <2>1 DEF Goto
  <2>5. pc'[r] = l
    BY <2>2, <2>4, RunGoes
  <2>6. InStep(r) /\ Carries(session.messages, owed)
    BY <2>2, <2>3, UnderWay
  <2>7. \A q \in Runs : q = r /\ l \in Active => InStep(q)'
    <3> SUFFICES ASSUME NEW q \in Runs, q = r, l \in Active PROVE InStep(q)'
      OBVIOUS
    <3>1. pc[q] = "snapped" /\ pc'[q] = "loop"
      BY <2>1, <2>3, <2>5
    <3>2. /\ id[q] = session.turns /\ seen[q] = session.turns
          /\ Numbered(history[q], session.turns) /\ Carries(history[q], owed)
      BY <2>3, <2>6, <3>1 DEF InStep
    <3> QED
      BY <1>1, <3>1, <3>2 DEF InStep, Counting, Storing
  <2>8. PICK q \in Runs : q = r
    BY <2>2
  <2> HIDE DEF r
  <2> QED
    BY <1>1, <1>3, <2>3, <2>4, <2>6, <2>7, <2>8, RunMoves, RunGoes DEF r
<1> QED
  BY <1>4, <1>5

-----------------------------------------------------------------------------
(* The steps of the client, and of the process.  No run is under way.      *)

LEMMA NoneUnderWay ==
  ASSUME RunInv, pc[Client] # "idle", NEW r \in Runs
  PROVE  pc[r] \notin Active
  BY DEF RunInv

LEMMA ClientMoves ==
  ASSUME TypeInv, \A r \in Runs : pc[r] \notin Active,
         NEW l, Goto(Client, l), UNCHANGED begun,
         Consistent(session', begun), Consistent(disk'.session, begun),
         \A f \in Files : files'[f] <= begun,
         RewindInv', AnswersKept'
  PROVE  SerialInv'
<1>1. Client \in Actors /\ \A q \in Runs : q \in Actors /\ q # Client
  BY ConstantsAreTyped
<1>2. \A q \in Runs : pc'[q] = pc[q]
  BY <1>1, GotoIs DEF TypeInv
<1>3. RunInv'
  BY <1>2 DEF RunInv
<1> QED
  BY <1>3 DEF SerialInv

LEMMA ClientGoes ==
  ASSUME TypeInv, NEW l, Goto(Client, l)
  PROVE  pc'[Client] = l
  BY GotoIs, ConstantsAreTyped DEF TypeInv

LEMMA KeptIsCarried ==
  ASSUME NEW s
  PROVE  Carries(s.messages, Kept(s))
  BY DEF Carries, Kept

LEMMA RewindIsSerial ==
  ASSUME Serial, TypeInv, SerialInv, Rewind \/ RewindFiles
  PROVE  SerialInv'
<1>1. UNCHANGED begun
  BY DEF Rewind, RewindFiles, runVars
<1>2. /\ Consistent(session, begun) /\ Consistent(disk.session, begun)
      /\ \A f \in Files : files[f] <= begun
      /\ RunInv /\ RewindInv /\ AnswersKept
  BY DEF SerialInv
<1>3. CASE Rewind
  <2>1. /\ Goto(Client, "files") /\ UNCHANGED files
        /\ \A r \in Runs : pc[r] \notin Active
    BY <1>3, LabelFacts DEF Rewind
  <2>2. PICK n \in DOMAIN session.checkpoints :
          target' = n /\ Save(Client, Rewound(n)) /\ owed' = Kept(Rewound(n))
    BY <1>3 DEF Rewind
  <2> DEFINE s == Rewound(n)
  <2>3. s = SessionOf(session.checkpoints[n], session.turns, session.checkpoints,
                      session.fileCheckpoints)
    BY RewoundIs
  <2>4. Consistent(s, begun)
    <3>1. Numbered(session.checkpoints[n], session.turns)
      BY <1>2 DEF Consistent
    <3> QED
      BY <1>2, <2>3, <3>1, MessagesConsistent
  <2>5. s.messages = session.checkpoints[n] /\ s.checkpoints = session.checkpoints
    BY <2>3, SessionFields
  <2> HIDE DEF s
  <2>6. session' = s /\ Consistent(session', begun) /\ Consistent(disk'.session, begun)
    BY <1>2, <2>2, <2>4, SaveKeepsConsistent DEF s
  <2>7. pc'[Client] = "files"
    BY <2>1, ClientGoes
  <2>8. RewindInv'
    BY <2>2, <2>5, <2>6, <2>7 DEF RewindInv
  <2>9. AnswersKept'
    <3>1. Carries(session'.messages, owed')
      BY <2>2, <2>6, KeptIsCarried DEF s
    <3> QED
      BY <3>1 DEF AnswersKept, Carries
  <2> QED
    BY <1>1, <1>2, <2>1, <2>6, <2>8, <2>9, ClientMoves
<1>4. CASE RewindFiles
  <2>1. /\ pc[Client] = "files" /\ UNCHANGED <<target, owed>>
        /\ target \in DOMAIN session.checkpoints
        /\ session.messages = session.checkpoints[target]
        /\ \A r \in owed : Answered(r) \in Range(session.messages)
    BY <1>2, <1>4 DEF RewindFiles, At, RewindInv, AnswersKept
  <2>2. \A r \in Runs : pc[r] \notin Active
    BY <1>2, <2>1, NoneUnderWay
  <2>3. ASSUME target \in DOMAIN session.fileCheckpoints
        PROVE  \A f \in Files : Restored(target)[f] <= begun
    <3>1. /\ EndsWith(session.checkpoints[target], target, begun)
          /\ Predate(session.fileCheckpoints[target], session.checkpoints[target])
          /\ session.checkpoints[target] \in Seq(Entry)
      BY <1>2, <2>1, <2>3, SessionParts DEF Consistent
    <3> DEFINE n == Last(session.checkpoints[target]).run
               was == session.fileCheckpoints[target]
    <3>2. n \in Nat /\ n <= begun /\ begun \in Nat
      BY <3>1, LastIsEntry, TypeFacts DEF EndsWith
    <3>3. \A f \in Files : was[f] < n
      BY <3>1 DEF Predate
    <3>4. \A f \in Files : was[f] \in Nat
      <4>1. 0 \in Nat /\ \A q \in Runs : q \in Nat
        BY TypeFacts
      <4>2. \A f \in Files : was[f] \in {0} \cup Runs
        BY <2>3, SessionParts DEF Snap, Absent
      <4> QED
        BY <4>1, <4>2, Zenon
    <3> HIDE DEF n, was
    <3>5. \A f \in Files : was[f] <= begun
      BY <3>2, <3>3, <3>4
    <3> QED
      BY <3>5 DEF Restored, was
  <2>4. CASE Goto(Client, "rewindfailed") /\ UNCHANGED <<session, disk, saver, files>>
    <3>1. pc'[Client] = "rewindfailed"
      BY <2>4, ClientGoes
    <3>2. RewindInv' /\ AnswersKept'
      BY <2>1, <2>4, <3>1 DEF RewindInv, AnswersKept
    <3> QED
      BY <1>1, <1>2, <2>2, <2>4, <3>2, ClientMoves
  <2>5. CASE /\ target \in DOMAIN session.fileCheckpoints /\ files' = Restored(target)
             /\ Save(Client, session) /\ Goto(Client, "rewound")
    <3>1. /\ session' = session
          /\ Consistent(session', begun) /\ Consistent(disk'.session, begun)
      BY <1>2, <2>5, SaveKeepsConsistent
    <3>2. pc'[Client] = "rewound"
      BY <2>5, ClientGoes
    <3>3. RewindInv' /\ AnswersKept'
      BY <2>1, <2>5, <3>1, <3>2 DEF RewindInv, AnswersKept, Restored
    <3>4. \A f \in Files : files'[f] <= begun
      BY <2>3, <2>5
    <3> QED
      BY <1>1, <2>2, <2>5, <3>1, <3>3, <3>4, ClientMoves
  <2>6. CASE /\ target \in DOMAIN session.fileCheckpoints
             /\ \E part \in SUBSET Files :
                  files' = [f \in Files |-> IF f \in part THEN Restored(target)[f] ELSE files[f]]
             /\ Goto(Client, "rewindfailed") /\ UNCHANGED <<session, disk, saver>>
    <3>1. pc'[Client] = "rewindfailed"
      BY <2>6, ClientGoes
    <3>2. RewindInv' /\ AnswersKept'
      BY <2>1, <2>6, <3>1 DEF RewindInv, AnswersKept
    <3>3. \A f \in Files : files'[f] <= begun
      BY <1>2, <2>3, <2>6
    <3> QED
      BY <1>1, <1>2, <2>2, <2>6, <3>2, <3>3, ClientMoves
  <2> QED
    BY <1>4, <2>4, <2>5, <2>6 DEF RewindFiles
<1> QED
  BY <1>3, <1>4

LEMMA CrashIsSerial ==
  ASSUME TypeInv, SerialInv, Crash \/ Restart
  PROVE  SerialInv'
<1>1. /\ Consistent(session, begun) /\ Consistent(disk.session, begun)
      /\ \A f \in Files : files[f] <= begun
  BY DEF SerialInv
<1>2. CASE Crash
  <2>1. /\ UNCHANGED <<disk, files, begun>> /\ session' = Fresh
        /\ pc' = [a \in Actors |-> IF a = Client THEN "down"
                                   ELSE IF pc[a] \in Over THEN pc[a] ELSE "failed"]
    BY <1>2 DEF Crash, runVars
  <2>2. /\ pc'[Client] = "down"
        /\ \A r \in Runs : pc'[r] \in Over
    <3>1. Client \in Actors /\ \A q \in Runs : q \in Actors /\ q # Client
      BY ConstantsAreTyped
    <3> QED
      BY <2>1, <3>1 DEF Over
  <2>3. RunInv' /\ RewindInv' /\ AnswersKept'
    BY <2>2, LabelFacts DEF RunInv, RewindInv, AnswersKept
  <2> QED
    BY <1>1, <2>1, <2>3, FreshIsConsistent DEF SerialInv
<1>3. CASE Restart
  <2>1. UNCHANGED <<disk, files, begun, target>> /\ pc[Client] = "down"
    BY <1>3 DEF Restart, runVars
  <2>2. \A r \in Runs : pc[r] \notin Active
    BY <2>1, LabelFacts DEF TypeInv, Bounds
  <2>3. CASE /\ session' = IF disk.state = "whole" THEN disk.session ELSE Fresh
             /\ owed' = Kept(session') /\ Goto(Client, "idle")
    <3>1. Consistent(session', begun)
      BY <1>1, <2>3, FreshIsConsistent
    <3>2. pc'[Client] = "idle" /\ Carries(session'.messages, owed')
      BY <2>3, ClientGoes, KeptIsCarried
    <3>3. RewindInv' /\ AnswersKept'
      BY <3>2 DEF RewindInv, AnswersKept, Carries
    <3> QED
      BY <1>1, <2>1, <2>2, <2>3, <3>1, <3>3, ClientMoves
  <2>4. CASE Goto(Client, "refused") /\ UNCHANGED <<session, owed>>
    <3>1. pc'[Client] = "refused"
      BY <2>4, ClientGoes
    <3>2. RewindInv' /\ AnswersKept'
      BY <3>1 DEF RewindInv, AnswersKept
    <3> QED
      BY <1>1, <2>1, <2>2, <2>4, <3>2, ClientMoves
  <2> QED
    BY <1>3, <2>3, <2>4 DEF Restart
<1> QED
  BY <1>2, <1>3

\* SerialInv is inductive.
LEMMA SerialInvHolds ==
  ASSUME Serial
  PROVE  Spec => []SerialInv
<1>1. Init => SerialInv
  <2> SUFFICES ASSUME Init PROVE SerialInv
    OBVIOUS
  <2>1. /\ session = Fresh /\ disk = [state |-> "none", session |-> Fresh]
        /\ files = [f \in Files |-> Absent] /\ begun = 0 /\ owed = {}
        /\ pc = [a \in Actors |-> IF a = Client THEN "idle" ELSE "new"]
    BY DEF Init
  <2>2. pc[Client] = "idle" /\ \A r \in Runs : pc[r] = "new"
    <3>1. Client \in Actors /\ \A q \in Runs : q \in Actors /\ q # Client
      BY ConstantsAreTyped
    <3> QED
      BY <2>1, <3>1
  <2>3. RunInv /\ RewindInv /\ AnswersKept
    BY <2>1, <2>2, LabelFacts DEF RunInv, RewindInv, AnswersKept, Over
  <2>4. \A f \in Files : files[f] <= begun
    BY <2>1 DEF Absent
  <2> QED
    BY <2>1, <2>3, <2>4, FreshIsConsistent DEF SerialInv
<1>2. TypeInv /\ SerialInv /\ [Next]_vars => SerialInv'
  <2>1. TypeInv /\ SerialInv /\ Next => SerialInv'
    BY BeginRunIsSerial, TakeIdIsSerial, CountTurnIsSerial, StoringRunsAreSerial,
       LoopingRunsAreSerial, FinishSaveIsSerial, RewindIsSerial, CrashIsSerial
    DEF Next, RunStep
  <2>2. SerialInv /\ UNCHANGED vars => SerialInv'
    BY DEF SerialInv, RunInv, InStep, RewindInv, AnswersKept, Consistent, vars, runVars
  <2> QED
    BY <2>1, <2>2
<1> QED
  BY <1>1, <1>2, TypeInvHolds, PTL DEF Spec

(* When one run follows another, the id a run takes for its user message   *)
(* names no message and no checkpoint of the session, through any sequence *)
(* of rewinds, failed saves, crashes and restarts: the counter is never    *)
(* put back behind what it numbered                                        *)
(* (query_runner.go:361-397, manager.go:155-201, 266-305).                 *)
THEOREM IdsAreFresh ==
  ASSUME Serial
  PROVE  Spec => []FreshIds
<1>1. TypeInv /\ SerialInv => FreshIds
  <2> SUFFICES ASSUME TypeInv, SerialInv, NEW r \in Runs, pc[r] = "count"
               PROVE  /\ id[r] \notin DOMAIN session.checkpoints
                      /\ \A e \in Range(session.messages) : e.id # id[r]
    BY DEF FreshIds
  <2>1. /\ id[r] = session.turns + 1 /\ session.turns \in Nat
        /\ Consistent(session, begun) /\ session.messages \in Seq(Entry)
    BY LabelFacts, UnderWay, TypeFacts DEF InStep, Counting
  <2>2. \A n \in DOMAIN session.checkpoints : n \in Nat /\ n <= session.turns
    BY <2>1, SessionParts, ConstantsAreTyped DEF Consistent, Turns
  <2>3. ASSUME NEW e \in Range(session.messages) PROVE e.id # id[r]
    <3>1. PICK i \in 1 .. Len(session.messages) : session.messages[i] = e
      BY <2>1, RangeIs
    <3>2. e \in Entry /\ e.id <= session.turns
      BY <2>1, <3>1 DEF Consistent, Numbered
    <3>3. e.id \in Nat
      BY <3>2, ConstantsAreTyped DEF Entry, Turns
    <3> QED
      BY <2>1, <3>2, <3>3
  <2> QED
    BY <2>1, <2>2, <2>3
<1> QED
  BY <1>1, TypeInvHolds, SerialInvHolds, PTL

(* When one run follows another, the checkpoint of a user message holds    *)
(* the conversation up to that message and files that no tool of its run   *)
(* or of a later one had written, and a rewind that returned no error left *)
(* exactly them (manager.go:155-264).                                      *)
THEOREM CheckpointsStayFaithful ==
  ASSUME Serial
  PROVE  Spec => []CheckpointsFaithful
<1>1. SerialInv => CheckpointsFaithful
  <2> SUFFICES ASSUME SerialInv PROVE CheckpointsFaithful
    OBVIOUS
  <2>1. SnapshotsPrecede
    BY DEF SerialInv, Consistent, EndsWith, Predate, SnapshotsPrecede
  <2>2. RewindRestores
    BY DEF SerialInv, RewindInv, RewindRestores
  <2> QED
    BY <2>1, <2>2 DEF SerialInv, Consistent, CheckpointsFaithful
<1> QED
  BY <1>1, SerialInvHolds, PTL

(* When one run follows another, no answered exchange is lost but by a     *)
(* rewind or with the store (query_runner.go:918, manager.go:171-201).     *)
THEOREM AnswersStay ==
  ASSUME Serial
  PROVE  Spec => []AnswersKept
<1>1. SerialInv => AnswersKept
  BY DEF SerialInv
<1> QED
  BY <1>1, SerialInvHolds, PTL
=============================================================================
