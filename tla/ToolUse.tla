------------------------------- MODULE ToolUse -------------------------------
(***************************************************************************)
(* One tool call from the hooks that may refuse it to the server that runs *)
(* it: the PermissionRequest part of RunMessages, internal/hook, the       *)
(* permission policy in memory and in its files (internal/permission), and *)
(* internal/tools with its retries of external MCP servers.                *)
(*                                                                         *)
(* Calls of different runs of a client share one executor: a run that was  *)
(* interrupted may still be in a callback when the next one begins.  The   *)
(* executor's lock e.mu is held while the policy is read and while updates *)
(* are applied and written to their files, never while the application is  *)
(* asked.  A file is rewritten in place: truncated, then written.          *)
(***************************************************************************)
EXTENDS Integers, Sequences, FiniteSets

CONSTANTS
  Calls,        \* tool calls, each of a run of its own
  Tools,        \* registered tools
  External,     \* those of external MCP servers
  Hooks,        \* PermissionRequest callbacks that match the tools
  HasCallback,  \* opts.CanUseTool is set
  Attempts,     \* attempts of an external call
  Order,        \* the policy files, in the order LoadMerged reads them
  Updates,      \* permission updates that hooks and callbacks may return
  Modes,        \* permission modes the application sets
  MaxFaults,    \* bound: crashes and failed writes
  None

Files    == {Order[i] : i \in DOMAIN Order}
Session  == "session"                \* the destination that is not stored

Behaviors == {"none", "ask", "allow", "deny"}
Policy    == [mode : Modes \cup {"none"}, rules : [Tools -> Behaviors]]
Update    == [type : {"add", "replace", "remove", "mode"}, tools : SUBSET Tools,
              behavior : {"ask", "allow", "deny"}, mode : Modes \cup {"none"},
              to : Files \cup {Session}]

ASSUME ToolAssumption ==
  /\ {Hooks, MaxFaults} \subseteq Nat /\ Attempts \in Nat \ {0}
  /\ External \subseteq Tools /\ HasCallback \in BOOLEAN
  /\ Order \in Seq(STRING) /\ Session \notin Files
  /\ Updates \subseteq Update
  /\ None \notin Updates /\ None \notin Calls /\ None \notin Tools

VARIABLES
  up,        \* the process is running
  policy,    \* the executor's mode and rules
  lock,      \* the call that holds e.mu, or None
  file,      \* each policy file: [state, policy]
  saved,     \* history variable: the updates written to each file, applied
  pc, tool,
  answered,  \* PermissionRequest callbacks that have answered
  denied,    \* a callback has denied the call
  update,    \* update to apply, or None
  loaded,    \* the policy read from the file that is about to be written
  attempt,   \* attempt of an external call
  requests,  \* attempts whose request the external server has and has not run
  ran,       \* how often the tool has been run
  outcome,   \* what the run makes of the call
  cancelled, \* calls whose run is cancelled
  votes,     \* history variable: what hooks, policy and CanUseTool said of each call
  faults

policyVars == <<policy, lock, file, saved, loaded>>
hookVars   == <<answered, denied, update>>
serverVars == <<attempt, requests, ran>>
vars == <<up, policyVars, pc, tool, hookVars, serverVars, outcome, cancelled, votes, faults>>

NoRules   == [t \in Tools |-> "none"]
NoPolicy  == [mode |-> "none", rules |-> NoRules]

Goto(c, l) == pc' = [pc EXCEPT ![c] = l]
Vote(c, v) == votes' = [votes EXCEPT ![c] = @ \cup {v}]
Fault      == faults < MaxFaults /\ faults' = faults + 1

Init ==
  /\ up = TRUE /\ policy = NoPolicy /\ lock = None
  /\ file = [f \in Files |-> [state |-> "none", policy |-> NoPolicy]]
  /\ saved = [f \in Files |-> NoPolicy]
  /\ pc = [c \in Calls |-> "new"] /\ tool = [c \in Calls |-> None]
  /\ answered = [c \in Calls |-> 0] /\ denied = [c \in Calls |-> FALSE]
  /\ update = [c \in Calls |-> None] /\ loaded = [c \in Calls |-> NoPolicy]
  /\ attempt = [c \in Calls |-> 0] /\ requests = [c \in Calls |-> {}]
  /\ ran = [c \in Calls |-> 0] /\ outcome = [c \in Calls |-> "none"]
  /\ cancelled = {} /\ votes = [c \in Calls |-> {}] /\ faults = 0

Conclude(c, o) == Goto(c, "over") /\ outcome' = [outcome EXCEPT ![c] = o]

(* The PostToolUseFailure hook runs: its error is ignored, an output that  *)
(* is not supported ends the run.                                          *)
Fail(c, o) == \E r \in {o, "hook"} : Conclude(c, r)

-----------------------------------------------------------------------------
(* The hooks.                                                              *)

Announce(c) ==
  /\ pc[c] = "new" /\ up
  /\ \E t \in Tools : tool' = [tool EXCEPT ![c] = t]
  /\ Goto(c, "hook")
  /\ UNCHANGED <<up, policyVars, hookVars, serverVars, outcome, cancelled, votes, faults>>

(* permissionDecisionFromHookOutputs: a denial stays; of the updates the   *)
(* last ones given count, also when they are none.                         *)
LastDecision(before, deny) == deny   \* slip: a later "allow" lifts a denial
Decision(before, deny)     == before \/ deny

PermissionRequest(c) ==
  /\ pc[c] = "hook" /\ answered[c] < Hooks
  /\ answered' = [answered EXCEPT ![c] = @ + 1]
  /\ \E deny \in BOOLEAN, u \in Updates \cup {None} :
       /\ denied' = [denied EXCEPT ![c] = Decision(@, deny)]
       /\ update' \in {update, [update EXCEPT ![c] = u]}
       /\ IF deny THEN Vote(c, "veto") ELSE UNCHANGED votes
  /\ UNCHANGED <<up, policyVars, pc, tool, serverVars, outcome, cancelled, faults>>

HooksDone(c) ==
  /\ pc[c] = "hook" /\ answered[c] = Hooks
  /\ Goto(c, "update")
  /\ UNCHANGED <<up, policyVars, tool, hookVars, serverVars, outcome, cancelled, votes, faults>>

(* A callback returns an error or an output that is not supported, or its  *)
(* matcher's timeout or the run's context ends the wait for it: the run    *)
(* ends.  The callback may go on; nobody reads its answer.                 *)
HookFails(c) ==
  /\ pc[c] \in {"hook", "pre", "post"}
  /\ Conclude(c, "hook")
  /\ UNCHANGED <<up, policyVars, tool, hookVars, serverVars, cancelled, votes, faults>>

(* What the PreToolUse callbacks answer when none fails: a decision of     *)
(* "block" or a permissionDecision of "deny" is not looked at, and what    *)
(* validateHookOutputs refuses ends the run (HookFails).                   *)
PreToolUse(c) ==
  /\ pc[c] = "pre"
  /\ \E deny \in BOOLEAN : Vote(c, IF deny THEN "unheeded" ELSE "pre")
  /\ Goto(c, "check")
  /\ UNCHANGED <<up, policyVars, tool, hookVars, serverVars, outcome, cancelled, faults>>

-----------------------------------------------------------------------------
(* Permission updates: ApplyPermissionUpdates, ApplyPersistentUpdate.      *)

Applied(p, u) ==
  CASE u.type = "mode"    -> [p EXCEPT !.mode = u.mode]
    [] u.type = "add"     -> [p EXCEPT !.rules = [t \in Tools |->
                                IF t \in u.tools THEN u.behavior ELSE @[t]]]
    [] u.type = "replace" -> [p EXCEPT !.rules = [t \in Tools |->
                                IF t \in u.tools THEN u.behavior ELSE "none"]]
    [] u.type = "remove"  -> [p EXCEPT !.rules = [t \in Tools |->
                                IF t \in u.tools THEN "none" ELSE @[t]]]

AnyTime == TRUE                      \* slip: the files are written outside e.mu
Free    == lock = None

Stages == [update |-> {"update", "load", "write", "written"},
           reply  |-> {"reply", "reload", "rewrite", "rewritten"}]

\* Where a call goes on when its updates, from the hooks or the callback, are applied.
Applying(c) == update[c] # None
Decided(c) ==
  IF pc[c] \in Stages.reply THEN Goto(c, "dispatch") /\ UNCHANGED outcome
  ELSE IF denied[c] THEN Fail(c, "refused")
  ELSE Goto(c, "pre") /\ UNCHANGED outcome

Release(c) ==
  /\ lock' = None
  /\ update' = [update EXCEPT ![c] = None] /\ loaded' = [loaded EXCEPT ![c] = NoPolicy]
  /\ Decided(c)

NothingToApply(c) ==
  /\ pc[c] \in {"update", "reply"} /\ ~Applying(c)
  /\ Decided(c)
  /\ UNCHANGED <<up, policyVars, tool, hookVars, serverVars, cancelled, votes, faults>>

ApplyUpdate(c) ==
  /\ pc[c] \in {"update", "reply"} /\ Applying(c) /\ Free
  /\ policy' = Applied(policy, update[c])
  /\ IF update[c].to = Session
     THEN Release(c)
     ELSE /\ lock' = c
          /\ Goto(c, IF pc[c] = "update" THEN "load" ELSE "reload")
          /\ UNCHANGED <<update, loaded, outcome>>
  /\ UNCHANGED <<up, file, saved, tool, answered, denied, serverVars, cancelled,
                 votes, faults>>

\* A file that cannot be read or parsed is left as it is; the error is dropped.
LoadPolicy(c) ==
  LET f == update[c].to IN
  /\ pc[c] \in {"load", "reload"}
  /\ IF file[f].state = "bad"
     THEN Release(c)
     ELSE /\ loaded' = [loaded EXCEPT ![c] = file[f].policy]
          /\ Goto(c, IF pc[c] = "load" THEN "write" ELSE "rewrite")
          /\ UNCHANGED <<lock, update, outcome>>
  /\ UNCHANGED <<up, policy, file, saved, tool, answered, denied, serverVars, cancelled,
                 votes, faults>>

\* os.WriteFile truncates the file, or is refused.
TruncateFile(c) ==
  LET f == update[c].to IN
  /\ pc[c] \in {"write", "rewrite"}
  /\ \/ /\ file' = [file EXCEPT ![f].state = "bad"]
        /\ Goto(c, IF pc[c] = "write" THEN "written" ELSE "rewritten")
        /\ UNCHANGED <<lock, update, loaded, outcome, faults>>
     \/ Fault /\ Release(c) /\ UNCHANGED file
  /\ UNCHANGED <<up, policy, saved, tool, answered, denied, serverVars, cancelled,
                 votes>>

WriteFile(c) ==
  LET f == update[c].to IN
  /\ pc[c] \in {"written", "rewritten"}
  /\ \/ /\ file' = [file EXCEPT ![f] = [state |-> "good", policy |-> Applied(loaded[c], update[c])]]
        /\ saved' = [saved EXCEPT ![f] = Applied(@, update[c])]
        /\ UNCHANGED faults
     \/ Fault /\ UNCHANGED <<file, saved>>
  /\ Release(c)
  /\ UNCHANGED <<up, policy, tool, answered, denied, serverVars, cancelled, votes>>

\* SetPermissionMode, which a CanUseTool callback may call.
SetMode(m) ==
  /\ up /\ Free /\ policy.mode # m
  /\ policy' = [policy EXCEPT !.mode = m]
  /\ UNCHANGED <<up, lock, file, saved, loaded, pc, tool, hookVars, serverVars, outcome,
                 cancelled, votes, faults>>

-----------------------------------------------------------------------------
(* The executor.                                                           *)

\* evaluatePolicy: "ask" does not deny.
Denies(t) == policy.mode # "bypassPermissions" /\ policy.rules[t] = "deny"

CheckPolicy(c) ==
  /\ pc[c] = "check" /\ Free
  /\ IF Denies(tool[c])
     THEN Fail(c, "denied") /\ UNCHANGED <<lock, votes>>
     ELSE /\ Goto(c, IF HasCallback THEN "ask" ELSE "dispatch")
          /\ UNCHANGED lock
          /\ Vote(c, "policy")
          /\ UNCHANGED outcome
  /\ UNCHANGED <<up, policy, file, saved, loaded, tool, hookVars, serverVars, cancelled, faults>>

\* No such tool, or no such server: the model is told.
NotConfigured(c) ==
  /\ pc[c] \in {"check", "dispatch"}
  /\ Fail(c, "failed")
  /\ UNCHANGED <<up, policyVars, tool, hookVars, serverVars, cancelled, votes, faults>>

CanUseTool(c) ==
  /\ pc[c] = "ask"
  /\ \/ /\ \E u \in Updates \cup {None} : update' = [update EXCEPT ![c] = u]
        /\ Goto(c, "reply") /\ Vote(c, "user")
        /\ UNCHANGED outcome
     \/ \E o \in {"denied", "refused"} :
          Fail(c, o) /\ Vote(c, "veto") /\ UNCHANGED update
     \/ Fail(c, "failed") /\ UNCHANGED <<votes, update>>
  /\ UNCHANGED <<up, policyVars, tool, answered, denied, serverVars, cancelled, faults>>

\* The handler of an SDK server's tool: its error is a result like any other.
CallSdkTool(c) ==
  /\ pc[c] = "dispatch" /\ tool[c] \notin External
  /\ ran' = [ran EXCEPT ![c] = @ + 1]
  /\ Goto(c, "post")
  /\ UNCHANGED <<up, policyVars, tool, hookVars, attempt, requests, outcome, cancelled, votes,
                 faults>>

CallExternal(c) ==
  /\ pc[c] = "dispatch" /\ tool[c] \in External
  /\ attempt' = [attempt EXCEPT ![c] = 1]
  /\ Goto(c, "connect")
  /\ UNCHANGED <<up, policyVars, tool, hookVars, requests, ran, outcome, cancelled, votes, faults>>

SendRequest(c) ==
  /\ pc[c] = "connect"
  /\ requests' = [requests EXCEPT ![c] = @ \cup {attempt[c]}]
  /\ Goto(c, "wait")
  /\ UNCHANGED <<up, policyVars, tool, hookVars, attempt, ran, outcome, cancelled, votes, faults>>

\* The server runs a request, perhaps one the client no longer waits for.
ServerRuns(c, a) ==
  /\ a \in requests[c]
  /\ requests' = [requests EXCEPT ![c] = @ \ {a}]
  /\ ran' = [ran EXCEPT ![c] = @ + 1]
  /\ pc' = IF pc[c] = "wait" /\ a = attempt[c] THEN [pc EXCEPT ![c] = "result"] ELSE pc
  /\ UNCHANGED <<up, policyVars, tool, hookVars, attempt, outcome, cancelled, votes, faults>>

ResultArrives(c) ==
  /\ pc[c] = "result"
  /\ Goto(c, "post")
  /\ UNCHANGED <<up, policyVars, tool, hookVars, serverVars, outcome, cancelled, votes, faults>>

OneAttemptMore(c) == attempt[c] <= Attempts   \* slip: off by one
MayRetry(c)       == attempt[c] < Attempts

(* The connection fails, the answer is lost or 30 seconds are over, which  *)
(* is retried after a pause; or the run is cancelled, the 45 seconds of    *)
(* the call are over, or the error is another one.                         *)
AttemptFails(c) ==
  /\ pc[c] \in {"connect", "wait", "result"}
  /\ \/ /\ MayRetry(c) /\ c \notin cancelled
        /\ attempt' = [attempt EXCEPT ![c] = @ + 1]
        /\ Goto(c, "connect") /\ UNCHANGED outcome
     \/ Fail(c, "failed") /\ UNCHANGED attempt
  /\ UNCHANGED <<up, policyVars, tool, hookVars, requests, ran, cancelled, votes, faults>>

PostToolUse(c) ==
  /\ pc[c] = "post"
  /\ Conclude(c, "ok")
  /\ UNCHANGED <<up, policyVars, tool, hookVars, serverVars, cancelled, votes, faults>>

-----------------------------------------------------------------------------
\* Elsewhere a cancellation is seen by the hooks, as one that fails.
Cancel(c) ==
  /\ pc[c] \in {"connect", "wait", "result"} /\ c \notin cancelled
  /\ cancelled' = cancelled \cup {c}
  /\ UNCHANGED <<up, policyVars, pc, tool, hookVars, serverVars, outcome, votes, faults>>

Crash ==
  /\ up /\ Fault
  /\ up' = FALSE /\ lock' = None
  /\ pc' = [c \in Calls |-> IF pc[c] = "new" THEN "new" ELSE "over"]
  /\ outcome' = [c \in Calls |-> IF pc[c] \in {"new", "over"} THEN outcome[c] ELSE "crashed"]
  /\ UNCHANGED <<policy, file, saved, loaded, tool, hookVars, serverVars, cancelled, votes>>

(* NewExecutor, LoadMerged: later files override earlier ones; one that    *)
(* cannot be read or parsed makes all of them count for nothing.           *)
Lasting(s, none) ==
  LET set == {i \in DOMAIN s : s[i] # none}
  IN  IF set = {} THEN none ELSE s[CHOOSE i \in set : \A j \in set : j <= i]

Merged ==
  IF \E f \in Files : file[f].state = "bad" THEN NoPolicy
  ELSE [mode  |-> Lasting([i \in DOMAIN Order |-> file[Order[i]].policy.mode], "none"),
        rules |-> [t \in Tools |->
                     Lasting([i \in DOMAIN Order |-> file[Order[i]].policy.rules[t]], "none")]]

Restart ==
  /\ ~up
  /\ up' = TRUE
  /\ policy' = Merged
  /\ UNCHANGED <<lock, file, saved, loaded, pc, tool, hookVars, serverVars, outcome, cancelled,
                 votes, faults>>

CallStep(c) ==
  \/ Announce(c) \/ PermissionRequest(c) \/ HooksDone(c) \/ HookFails(c) \/ PreToolUse(c)
  \/ NothingToApply(c) \/ ApplyUpdate(c) \/ LoadPolicy(c) \/ TruncateFile(c) \/ WriteFile(c)
  \/ CheckPolicy(c) \/ NotConfigured(c) \/ CanUseTool(c) \/ CallSdkTool(c) \/ CallExternal(c)
  \/ SendRequest(c) \/ ResultArrives(c) \/ AttemptFails(c) \/ PostToolUse(c)

Next ==
  \/ \E c \in Calls : CallStep(c) \/ Cancel(c)
  \/ \E c \in Calls, a \in 1 .. Attempts : ServerRuns(c, a)
  \/ \E m \in Modes : SetMode(m)
  \/ Crash \/ Restart

Spec == Init /\ [][Next]_vars

-----------------------------------------------------------------------------
(* Properties.                                                             *)

Labels == {"new", "hook", "pre", "check", "ask", "dispatch", "connect", "wait", "result",
           "post", "over"} \cup Stages.update \cup Stages.reply

PolicyTypes ==
  /\ policy \in Policy /\ lock \in Calls \cup {None}
  /\ file \in [Files -> [state : {"none", "good", "bad"}, policy : Policy]]
  /\ saved \in [Files -> Policy] /\ loaded \in [Calls -> Policy]

CallTypes ==
  /\ pc \in [Calls -> Labels] /\ tool \in [Calls -> Tools \cup {None}]
  /\ answered \in [Calls -> 0 .. Hooks]
  /\ denied \in [Calls -> BOOLEAN]
  /\ update \in [Calls -> Updates \cup {None}]
  /\ outcome \in [Calls -> {"none", "ok", "failed", "denied", "refused", "hook", "crashed"}]
  /\ votes \in [Calls -> SUBSET {"veto", "pre", "unheeded", "policy", "user"}]

ServerTypes ==
  /\ attempt \in [Calls -> 0 .. Attempts] /\ requests \in [Calls -> SUBSET (1 .. Attempts)]
  /\ ran \in [Calls -> Nat]

\* The values of the variables; an attempt is one of those the client makes.
TypeOK ==
  /\ PolicyTypes /\ CallTypes /\ ServerTypes
  /\ up \in BOOLEAN /\ cancelled \subseteq Calls /\ faults \in 0 .. MaxFaults

(* A tool runs, and a server is sent a request, only for a call that no    *)
(* PermissionRequest callback denied, whatever the others said before or   *)
(* after it, that the PreToolUse callbacks were asked about and did not    *)
(* fail, and that the policy and CanUseTool let pass when each was asked.  *)
(* A denial by a PreToolUse callback ("unheeded") does not keep the tool   *)
(* from running, nor does a rule that is set after the policy was asked.   *)
ConsentGiven ==
  \A c \in Calls : ran[c] > 0 \/ requests[c] # {} =>
    /\ "veto" \notin votes[c] /\ answered[c] = Hooks
    /\ votes[c] \cap {"pre", "unheeded"} # {}
    /\ "policy" \in votes[c] /\ (HasCallback => "user" \in votes[c])

(* A call that succeeded was run; a denied one never is, also later; a     *)
(* tool of an SDK server runs once, one of an external server at most as   *)
(* often as it was sent, retries and late requests included.               *)
OutcomeIsTrue ==
  \A c \in Calls :
    /\ outcome[c] = "ok" => ran[c] > 0
    /\ outcome[c] \in {"denied", "refused"} => ran[c] = 0 /\ requests[c] = {}
    /\ ran[c] + Cardinality(requests[c]) <= IF tool[c] \in External THEN attempt[c] ELSE 1
    /\ attempt[c] <= Attempts

(* A policy file that can be read holds every update that was written to   *)
(* it, none lost to another call's; a file that was cut stays unusable.    *)
NoUpdateLost ==
  \A f \in Files : file[f].state # "bad" => file[f].policy = saved[f]
=============================================================================
