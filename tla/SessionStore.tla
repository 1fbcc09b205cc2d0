----------------------------- MODULE SessionStore -----------------------------
(***************************************************************************)
(* internal/session/manager.go: one session in memory, its checkpoints and *)
(* file snapshots, and the JSON file it is saved to; the runs that update  *)
(* it and the client's Rewind.                                             *)
(*                                                                         *)
(* Every method of Manager holds m.mu, save included.  A run also reads    *)
(* Messages and UserTurns and increments UserTurns without it.  A save     *)
(* rewrites the store in place: it is truncated, then written; the process *)
(* may die in between and either part may fail, which only SnapshotFiles   *)
(* reports.                                                                *)
(***************************************************************************)
EXTENDS Integers, SequencesExt

CONSTANTS
  MaxRuns,      \* bound: runs on the session, in the order they begin
  Serial,       \* a run begins only when the one before has ended; otherwise
                \* as soon as its result was shown
  Checkpointing,\* opts.EnableFileCheckpointing, with a Cwd
  Persistent,   \* a session store path is configured
  Files,        \* paths under Cwd that tools write
  MaxFaults,    \* bound: crashes and failed writes
  MaxRewinds    \* bound: calls of Rewind

ASSUME StoreAssumption ==
  /\ MaxRuns \in Nat \ {0} /\ {MaxFaults, MaxRewinds} \subseteq Nat
  /\ {Serial, Checkpointing, Persistent} \subseteq BOOLEAN

VARIABLES
  session,  \* the session in memory
  disk,     \* the store: [state, session]
  saver,    \* who holds m.mu while the store is written, or Nobody
  files,    \* content of each path: Absent, or the run that wrote it
  begun,    \* runs begun: 1 .. begun
  pc,       \* where each run is, and where the client's Rewind is
  history,  \* each run's conversation
  id,       \* number in the id of each run's user message
  seen,     \* each run's last reading of UserTurns
  target,   \* the checkpoint Rewind was called for
  faults, rewinds,
  owed      \* history variable: runs answered whose exchange was not undone

runVars == <<begun, history, id, seen>>
vars == <<session, disk, saver, files, pc, runVars, target, faults, rewinds, owed>>

Runs   == 1 .. MaxRuns
Client == 0
Actors == Runs \cup {Client}
Nobody == -1
Absent == 0

Fresh == [messages |-> <<>>, turns |-> 0, checkpoints |-> <<>>, fileCheckpoints |-> <<>>]

Asked(r, n) == [run |-> r, role |-> "user", id |-> n]
Answered(r) == [run |-> r, role |-> "assistant", id |-> 0]

Over == {"new", "done", "failed"}
Settled == {"idle", "rewound", "rewindfailed"} \* the client is up, not rewinding

At(a, l)   == pc[a] = l /\ saver # a
Goto(a, l) == pc' = [pc EXCEPT ![a] = l]
Put(f, n, v) == [m \in DOMAIN f \cup {n} |-> IF m = n THEN v ELSE f[m]]

Init ==
  /\ session = Fresh /\ disk = [state |-> "none", session |-> Fresh]
  /\ saver = Nobody /\ files = [f \in Files |-> Absent] /\ begun = 0
  /\ pc = [a \in Actors |-> IF a = Client THEN "idle" ELSE "new"]
  /\ history = [r \in Runs |-> <<>>]
  /\ id = [r \in Runs |-> 0] /\ seen = [r \in Runs |-> 0]
  /\ target = 0 /\ faults = 0 /\ rewinds = 0 /\ owed = {}

-----------------------------------------------------------------------------
(* Saving.                                                                 *)

Unlocked == saver = Nobody

Fault == faults < MaxFaults /\ faults' = faults + 1

\* saveLocked, up to the truncation of the store.
Truncate(a, s) ==
  /\ session' = s
  /\ IF Persistent
     THEN disk' = [state |-> "cut", session |-> s] /\ saver' = a
     ELSE UNCHANGED <<disk, saver>>
  /\ UNCHANGED faults

\* It fails before that, and the store is as it was.
SaveRefused(s) ==
  /\ Persistent /\ Fault
  /\ session' = s
  /\ UNCHANGED <<disk, saver>>

\* _ = m.saveLocked()
Save(a, s) == Truncate(a, s) \/ SaveRefused(s)

(* The data is written, or only a part of it.  SnapshotFiles returns the   *)
(* error, and its run fails.                                               *)
AfterSave(ok) ==
  IF pc[saver] # "snapped" THEN pc
  ELSE [pc EXCEPT ![saver] = IF ok THEN "loop" ELSE "failed"]

FinishSave ==
  /\ saver # Nobody
  /\ saver' = Nobody
  /\ \/ /\ disk' = [disk EXCEPT !.state = "whole"]
        /\ pc' = AfterSave(TRUE)
        /\ UNCHANGED faults
     \/ /\ Fault
        /\ pc' = AfterSave(FALSE)
        /\ UNCHANGED <<disk>>
  /\ UNCHANGED <<session, files, runVars, target, rewinds, owed>>

-----------------------------------------------------------------------------
(* A run, as far as the session sees it.                                   *)

MayBegin(r) ==
  /\ \A q \in 1 .. r - 1 : pc[q] \in Over \cup (IF Serial THEN {} ELSE {"answered"})
  /\ pc[Client] \in Settled \cup (IF Serial THEN {} ELSE {"files"})

EmptyHistory    == <<>>                        \* slip: the clone is forgotten
StartingHistory == session.messages

(* GetOrCreate, and history := session.Clone(s.Messages).  A session that  *)
(* GetOrCreate makes is as empty as none: its save is left out.            *)
BeginRun(r) ==
  /\ pc[r] = "new" /\ r = begun + 1 /\ MayBegin(r) /\ Unlocked
  /\ begun' = r
  /\ history' = [history EXCEPT ![r] = StartingHistory]
  /\ pc' = [pc EXCEPT ![r] = "id", ![Client] = IF @ = "files" THEN @ ELSE "idle"]
  /\ UNCHANGED <<session, disk, saver, files, id, seen, target, faults, rewinds,
                 owed>>

\* userID := fmt.Sprintf("%s-u%d", sessionID, s.UserTurns+1)
TakeId(r) ==
  /\ At(r, "id")
  /\ id' = [id EXCEPT ![r] = session.turns + 1]
  /\ Goto(r, "count")
  /\ UNCHANGED <<session, disk, saver, files, begun, history, seen, target, faults,
                 rewinds, owed>>

\* s.UserTurns++ reads it again: before or after a racing run wrote it.
CountTurn(r) ==
  /\ At(r, "count")
  /\ \E n \in {id[r], session.turns + 1} :
       /\ session' = [session EXCEPT !.turns = n]
       /\ seen' = [seen EXCEPT ![r] = n]
  /\ history' = [history EXCEPT ![r] = Append(@, Asked(r, id[r]))]
  /\ Goto(r, IF Checkpointing THEN "setstate" ELSE "loop")
  /\ UNCHANGED <<disk, saver, files, begun, id, target, faults, rewinds, owed>>

\* SetState(sessionID, history, s.UserTurns): the argument is read before the lock.
StateCounted(r, n) == [session EXCEPT !.messages = history[r], !.turns = n + 1] \* slip
StateOf(r, n)      == [session EXCEPT !.messages = history[r], !.turns = n]

SetState(r) ==
  /\ At(r, "setstate") /\ Unlocked
  /\ \E n \in {seen[r], session.turns} : Save(r, StateOf(r, n))
  /\ Goto(r, "snapshot")
  /\ UNCHANGED <<files, runVars, target, rewinds, owed>>

CapturedBefore(r) == Front(history[r])         \* slip: taken before SetState
Captured(r)       == session.messages

Snapshot(r) ==
  /\ At(r, "snapshot") /\ Unlocked
  /\ Save(r, [session EXCEPT !.checkpoints = Put(@, id[r], Captured(r))])
  /\ Goto(r, "snapfiles")
  /\ UNCHANGED <<files, runVars, target, rewinds, owed>>

CapturedFiles == files                         \* of every path under Cwd its content

\* captureFiles fails on a file it cannot read; a failed save is an error too.
SnapshotFiles(r) ==
  /\ At(r, "snapfiles") /\ Unlocked
  /\ LET taken == [session EXCEPT !.fileCheckpoints = Put(@, id[r], CapturedFiles)] IN
     \/ Truncate(r, taken) /\ Goto(r, IF Persistent THEN "snapped" ELSE "loop")
     \/ SaveRefused(taken) /\ Goto(r, "failed")
     \/ Fault /\ Goto(r, "failed") /\ UNCHANGED <<session, disk, saver>>
  /\ UNCHANGED <<files, runVars, target, rewinds, owed>>

\* A tool of the run writes a file.
WriteFile(r) ==
  /\ At(r, "loop")
  /\ \E f \in Files : files[f] # r /\ files' = [files EXCEPT ![f] = r]
  /\ UNCHANGED <<session, disk, saver, pc, runVars, target, faults, rewinds, owed>>

\* The run's result is received by the application.
ShowResult(r) ==
  /\ At(r, "loop")
  /\ history' = [history EXCEPT ![r] = Append(@, Answered(r))]
  /\ seen' = [seen EXCEPT ![r] = session.turns]
  /\ Goto(r, "answered")
  /\ UNCHANGED <<session, disk, saver, files, begun, id, target, faults, rewinds,
                 owed>>

SaveAnswer(r) ==
  /\ At(r, "answered") /\ Unlocked
  /\ \E n \in {seen[r], session.turns} : Save(r, StateOf(r, n))
  /\ Goto(r, "done")
  /\ owed' = owed \cup {r}
  /\ UNCHANGED <<files, runVars, target, rewinds>>

\* Any other end of the run: a hook, the stream, a tool, the budget, a cancellation.
FailRun(r) ==
  /\ pc[r] \in {"setstate", "loop"} /\ saver # r
  /\ Goto(r, "failed")
  /\ UNCHANGED <<session, disk, saver, files, runVars, target, faults, rewinds, owed>>

-----------------------------------------------------------------------------
(* Client.Rewind: the messages, then the files.                            *)

\* slip: the counter is put back with the messages
RewoundWithTurns(n) ==
  [session EXCEPT !.messages = session.checkpoints[n], !.turns = n - 1]
Rewound(n) == [session EXCEPT !.messages = session.checkpoints[n]]

Kept(s) == {r \in owed : Answered(r) \in Range(s.messages)}

Rewind ==
  /\ pc[Client] \in Settled /\ saver # Client /\ Unlocked
  /\ Serial => \A r \in Runs : pc[r] \in Over
  /\ rewinds < MaxRewinds /\ rewinds' = rewinds + 1
  /\ \E n \in DOMAIN session.checkpoints :
       /\ target' = n
       /\ Save(Client, Rewound(n))
       /\ owed' = Kept(Rewound(n))
  /\ Goto(Client, "files")
  /\ UNCHANGED <<files, runVars>>

\* slip: what is not in the snapshot is not removed
RestoredOnly(n) ==
  LET snapshot == session.fileCheckpoints[n]
  IN  [f \in Files |-> IF snapshot[f] = Absent THEN files[f] ELSE snapshot[f]]
Restored(n) == session.fileCheckpoints[n]

\* Paths are removed and written one by one: an error leaves the rest as they were.
RewindFiles ==
  /\ At(Client, "files") /\ Unlocked
  /\ \/ /\ target \notin DOMAIN session.fileCheckpoints
        /\ Goto(Client, "rewindfailed")
        /\ UNCHANGED <<session, disk, saver, files, faults>>
     \/ /\ target \in DOMAIN session.fileCheckpoints
        /\ files' = Restored(target)
        /\ Save(Client, session)
        /\ Goto(Client, "rewound")
     \/ /\ target \in DOMAIN session.fileCheckpoints /\ Fault
        /\ \E part \in SUBSET Files :
             files' = [f \in Files |-> IF f \in part THEN Restored(target)[f] ELSE files[f]]
        /\ Goto(Client, "rewindfailed")
        /\ UNCHANGED <<session, disk, saver>>
  /\ UNCHANGED <<runVars, target, rewinds, owed>>

-----------------------------------------------------------------------------
(* The process dies, and another one starts on the same store and files.   *)

Crash ==
  /\ Persistent /\ Fault
  /\ pc[Client] \notin {"down", "refused"}
  /\ session' = Fresh /\ saver' = Nobody
  /\ pc' = [a \in Actors |-> IF a = Client THEN "down"
                             ELSE IF pc[a] \in Over THEN pc[a] ELSE "failed"]
  /\ UNCHANGED <<disk, files, runVars, target, rewinds, owed>>

(* loadLocked.  A store that was cut is empty and loads as if there were   *)
(* none, or it does not parse and Start fails.                             *)
Restart ==
  /\ pc[Client] = "down"
  /\ \/ /\ session' = IF disk.state = "whole" THEN disk.session ELSE Fresh
        /\ owed' = Kept(session')
        /\ Goto(Client, "idle")
     \/ /\ disk.state = "cut"
        /\ Goto(Client, "refused")
        /\ UNCHANGED <<session, owed>>
  /\ UNCHANGED <<disk, saver, files, runVars, target, faults, rewinds>>

RunStep(r) ==
  \/ BeginRun(r) \/ TakeId(r) \/ CountTurn(r) \/ SetState(r) \/ Snapshot(r)
  \/ SnapshotFiles(r) \/ WriteFile(r) \/ ShowResult(r) \/ SaveAnswer(r) \/ FailRun(r)

Next ==
  \/ \E r \in Runs : RunStep(r)
  \/ FinishSave \/ Rewind \/ RewindFiles \/ Crash \/ Restart

Spec == Init /\ [][Next]_vars

-----------------------------------------------------------------------------
(* Properties.                                                             *)

Turns == 0 .. MaxRuns
Entry == [run : Runs, role : {"user", "assistant"}, id : Turns]
Snap  == [Files -> {Absent} \cup Runs]

SessionType(s) ==
  /\ s.messages \in Seq(Entry) /\ s.turns \in Turns
  /\ DOMAIN s.checkpoints \subseteq Turns /\ DOMAIN s.fileCheckpoints \subseteq Turns
  /\ \A n \in DOMAIN s.checkpoints : s.checkpoints[n] \in Seq(Entry)
  /\ \A n \in DOMAIN s.fileCheckpoints : s.fileCheckpoints[n] \in Snap

RunLabels == {"new", "id", "count", "setstate", "snapshot", "snapfiles", "snapped",
              "loop", "answered", "done", "failed"}
ClientLabels == Settled \cup {"files", "down", "refused"}

\* The values of the variables; a run counts one user turn.
TypeOK ==
  /\ SessionType(session) /\ SessionType(disk.session)
  /\ disk.state \in {"none", "cut", "whole"}
  /\ saver \in Actors \cup {Nobody}
  /\ files \in Snap
  /\ begun \in 0 .. MaxRuns
  /\ \A r \in Runs : pc[r] \in RunLabels
  /\ pc[Client] \in ClientLabels
  /\ history \in [Runs -> Seq(Entry)]
  /\ id \in [Runs -> Turns] /\ seen \in [Runs -> Turns] /\ target \in Turns
  /\ owed \subseteq Runs

(* The id a run takes for its user message names no message and no         *)
(* checkpoint of the session, whatever was rewound, failed or restarted    *)
(* before: a checkpoint is never overwritten by that of another message.   *)
FreshIds ==
  \A r \in Runs : pc[r] = "count" =>
    /\ id[r] \notin DOMAIN session.checkpoints
    /\ \A e \in Range(session.messages) : e.id # id[r]

SnapshotsPrecede ==
  \A n \in DOMAIN session.checkpoints :
    LET cp == session.checkpoints[n] IN
    /\ cp # <<>>
    /\ Last(cp).role = "user" /\ Last(cp).id = n
    /\ n \in DOMAIN session.fileCheckpoints =>
         \A f \in Files : session.fileCheckpoints[n][f] < Last(cp).run

RewindRestores ==
  pc[Client] = "rewound" =>
    /\ session.messages = session.checkpoints[target]
    /\ files = session.fileCheckpoints[target]

(* The checkpoint of a user message holds the conversation up to that      *)
(* message, and its files are those before any tool that run or a later    *)
(* one used, also after a rewind or a restart; and a rewind that returned  *)
(* no error leaves the messages and files of its checkpoint.               *)
CheckpointsFaithful ==
  /\ DOMAIN session.fileCheckpoints \subseteq DOMAIN session.checkpoints
  /\ SnapshotsPrecede
  /\ RewindRestores

(* The exchange of every run that was answered and stored is part of the   *)
(* conversation, unless a rewind or the loss of the store undid it         *)
(* ("Client maintains session state across multiple exchanges").           *)
AnswersKept ==
  pc[Client] \notin {"down", "refused"} =>
    \A r \in owed : Answered(r) \in Range(session.messages)
=============================================================================
