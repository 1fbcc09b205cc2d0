---------------------------- MODULE Conversation ----------------------------
(***************************************************************************)
(* What a query promises the application, without models, streams, hooks   *)
(* or channels.  Within a run the user messages are shown first; then tool *)
(* calls are announced one at a time, each followed by its outcome before  *)
(* the next is announced.  A run is answered or fails.  What the session   *)
(* remembers changes only by adding what this run has shown, all of it and *)
(* in that order: when the run is answered and, if the application asked   *)
(* for checkpoints, after each user message.                               *)
(***************************************************************************)
EXTENDS Integers, Sequences

CONSTANTS
  Id,           \* names of user messages and tool calls
  NoCall,       \* no tool call is open
  Checkpointing

VARIABLES
  phase,   \* idle, asking, thinking, answered, failed
  shown,   \* user messages and tool outcomes shown by this run
  open,    \* the tool call announced and not yet concluded, or NoCall
  kept,    \* what the session remembers
  base     \* what it remembered when the run began

vars == <<phase, shown, open, kept, base>>

Init ==
  /\ phase = "idle" /\ shown = <<>> /\ open = NoCall
  /\ kept = <<>> /\ base = <<>>

Ask ==
  /\ phase = "idle"
  /\ phase' \in {"asking", "failed"}
  /\ shown' = <<>> /\ base' = kept
  /\ UNCHANGED <<open, kept>>

ShowUser ==
  /\ phase = "asking"
  /\ shown' \in Seq(Id) /\ Len(shown') = Len(shown) + 1
  /\ SubSeq(shown', 1, Len(shown)) = shown
  /\ UNCHANGED <<phase, open, kept, base>>

RememberQuestion ==
  /\ Checkpointing
  /\ phase = "asking"
  /\ kept' = base \o shown
  /\ phase' \in {"asking", "thinking", "failed"}
  /\ UNCHANGED <<shown, open, base>>

Think ==
  /\ phase = "asking"
  /\ phase' = "thinking"
  /\ UNCHANGED <<shown, open, kept, base>>

AnnounceCall ==
  /\ phase = "thinking" /\ open = NoCall
  /\ open' \in Id \ {NoCall}
  /\ UNCHANGED <<phase, shown, kept, base>>

ConcludeCall ==
  /\ phase = "thinking" /\ open # NoCall
  /\ shown' = Append(shown, open)
  /\ open' = NoCall
  /\ UNCHANGED <<phase, kept, base>>

Answer ==
  /\ phase = "thinking" /\ open = NoCall
  /\ phase' = "answered"
  /\ UNCHANGED <<shown, open, kept, base>>

RememberAnswer ==
  /\ phase = "answered"
  /\ kept' = base \o shown
  /\ phase' \in {"idle", "failed"}
  /\ UNCHANGED <<shown, open, base>>

\* A failing run leaves a call it announced without an outcome.
Fail ==
  /\ phase \in {"asking", "thinking"}
  /\ phase' = "failed"
  /\ open' = NoCall
  /\ UNCHANGED <<shown, kept, base>>

ReportFailure ==
  /\ phase = "failed"
  /\ phase' = "idle"
  /\ UNCHANGED <<shown, open, kept, base>>

Next ==
  \/ Ask \/ ShowUser \/ RememberQuestion \/ Think \/ AnnounceCall
  \/ ConcludeCall \/ Answer \/ RememberAnswer \/ Fail \/ ReportFailure

Spec == Init /\ [][Next]_vars
=============================================================================
