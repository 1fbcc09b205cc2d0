---------------------------- MODULE ToolUse_proofs ----------------------------
(***************************************************************************)
(* Proofs about ToolUse, for any number of calls, tools, hooks, attempts,  *)
(* policy files and faults: its types, that nothing runs without consent,  *)
(* and that no update of a policy file is lost to another.                 *)
(***************************************************************************)
EXTENDS ToolUse, FiniteSetTheorems, WellFoundedInduction, TLAPS

Update1 == {"update", "load", "write", "written"}     \* Stages.update
Reply   == {"reply", "reload", "rewrite", "rewritten"} \* Stages.reply
Writing == {"load", "write", "written", "reload", "rewrite", "rewritten"}
Loaded  == {"write", "written", "rewrite", "rewritten"}
Serving == {"connect", "wait", "result"}
Before  == {"new", "hook", "pre", "check", "ask", "dispatch"} \cup Update1 \cup Reply

LEMMA StageSets ==
  /\ Stages.update = Update1 /\ Stages.reply = Reply
  /\ Labels = Before \cup Serving \cup {"post", "over"}
BY DEF Stages, Labels, Update1, Reply, Before, Serving

\* A call that applies an update to a file holds the lock, and has read what was written.
LockInv ==
  \A c \in Calls :
    /\ pc[c] \in Writing => lock = c /\ update[c] \in Updates /\ update[c].to \in Files
    /\ pc[c] \in Loaded => loaded[c] = saved[update[c].to]

\* An attempt under way has a number.
AttemptInv == \A c \in Calls : pc[c] \in Serving => attempt[c] \in 1 .. Attempts

TypeInv == TypeOK /\ AttemptInv

-----------------------------------------------------------------------------
\* The policy.

LEMMA AppliedTyped ==
  ASSUME NEW p \in Policy, NEW u \in Updates
  PROVE  Applied(p, u) \in Policy
<1>1. u \in Update
  BY ToolAssumption
<1>2. u.type \in {"add", "replace", "remove", "mode"} /\ u.mode \in Modes \cup {"none"}
      /\ u.behavior \in Behaviors
  BY <1>1 DEF Update, Behaviors
<1>3. p.rules \in [Tools -> Behaviors] /\ p.mode \in Modes \cup {"none"}
  BY DEF Policy
<1>4. CASE u.type = "mode"
  BY <1>2, <1>3, <1>4 DEF Applied, Policy
<1>5. CASE u.type = "add"
  <2>1. [t \in Tools |-> IF t \in u.tools THEN u.behavior ELSE p.rules[t]] \in [Tools -> Behaviors]
    BY <1>2, <1>3
  <2> QED
    BY <1>3, <1>5, <2>1 DEF Applied, Policy
<1>6. CASE u.type = "replace"
  <2>1. [t \in Tools |-> IF t \in u.tools THEN u.behavior ELSE "none"] \in [Tools -> Behaviors]
    BY <1>2 DEF Behaviors
  <2> QED
    BY <1>3, <1>6, <2>1 DEF Applied, Policy
<1>7. CASE u.type = "remove"
  <2>1. [t \in Tools |-> IF t \in u.tools THEN "none" ELSE p.rules[t]] \in [Tools -> Behaviors]
    BY <1>3 DEF Behaviors
  <2> QED
    BY <1>3, <1>7, <2>1 DEF Applied, Policy
<1> QED
  BY <1>2, <1>4, <1>5, <1>6, <1>7

LEMMA NoPolicyTyped == NoPolicy \in Policy
BY DEF NoPolicy, NoRules, Policy, Behaviors

\* A set of positions that is not empty has a last one.
LEMMA LastOne ==
  ASSUME NEW n \in Nat, NEW T, T \subseteq 1 .. n, T # {}
  PROVE  \E i \in T : \A j \in T : j <= i
<1> DEFINE D == {n - i : i \in T}
<1>1. D \subseteq Nat /\ D # {}
  <2>1. \A i \in T : n - i \in Nat
    OBVIOUS
  <2> QED
    BY <2>1
<1>2. PICK d \in D : \A e \in D : ~ (<<e, d>> \in OpToRel(<, Nat))
  BY <1>1, WFMin, NatLessThanWellFounded
<1>3. \A e \in D : ~ (e < d)
  BY <1>1, <1>2 DEF OpToRel
<1>4. PICK i \in T : d = n - i
  OBVIOUS
<1>5. ASSUME NEW j \in T PROVE j <= i
  <2>1. n - j \in D /\ i \in 1 .. n /\ j \in 1 .. n
    OBVIOUS
  <2>2. ~ (n - j < n - i)
    BY <1>3, <1>4, <2>1
  <2> QED
    BY <2>1, <2>2
<1> QED
  BY <1>5

LEMMA LastingTyped ==
  ASSUME NEW n \in Nat, NEW S, NEW s \in [1 .. n -> S], NEW none \in S
  PROVE  Lasting(s, none) \in S
<1> DEFINE T == {i \in DOMAIN s : s[i] # none}
<1>1. CASE T = {}
  BY <1>1 DEF Lasting
<1>2. CASE T # {}
  <2>1. (CHOOSE i \in T : \A j \in T : j <= i) \in T
    BY <1>2, LastOne
  <2>2. Lasting(s, none) = s[CHOOSE i \in T : \A j \in T : j <= i]
    BY <1>2 DEF Lasting
  <2> QED
    BY <2>1, <2>2
<1> QED
  BY <1>1, <1>2

LEMMA MergedTyped ==
  ASSUME PolicyTypes
  PROVE  Merged \in Policy
<1>1. PICK n \in Nat : DOMAIN Order = 1 .. n
  BY ToolAssumption
<1>2. \A i \in 1 .. n : file[Order[i]].policy \in Policy
  BY <1>1 DEF PolicyTypes, Files
<1> DEFINE M == [i \in DOMAIN Order |-> file[Order[i]].policy.mode]
           R(t) == [i \in DOMAIN Order |-> file[Order[i]].policy.rules[t]]
<1>3. M \in [1 .. n -> Modes \cup {"none"}]
  BY <1>1, <1>2 DEF Policy
<1>4. \A t \in Tools : R(t) \in [1 .. n -> Behaviors]
  BY <1>1, <1>2 DEF Policy
<1>5. Lasting(M, "none") \in Modes \cup {"none"}
  <2> HIDE DEF M
  <2> QED
    BY <1>3, LastingTyped
<1>6. \A t \in Tools : Lasting(R(t), "none") \in Behaviors
  <2> HIDE DEF R
  <2>1. "none" \in Behaviors
    BY DEF Behaviors
  <2> QED
    BY <1>4, <2>1, LastingTyped
<1>7. [mode |-> Lasting(M, "none"), rules |-> [t \in Tools |-> Lasting(R(t), "none")]] \in Policy
  BY <1>5, <1>6 DEF Policy
<1> QED
  BY <1>7, NoPolicyTyped DEF Merged

-----------------------------------------------------------------------------
\* Where a call goes, and what becomes of it.

\* A call that ends its stage of updates goes on, or is over.
LEMMA DecidedMoves ==
  ASSUME CallTypes, NEW c \in Calls, pc[c] \in Update1 \cup Reply, Decided(c)
  PROVE  /\ \/ pc[c] \in Reply /\ pc' = [pc EXCEPT ![c] = "dispatch"] /\ outcome' = outcome
            \/ pc[c] \in Update1 /\ ~denied[c] /\ pc' = [pc EXCEPT ![c] = "pre"] /\ outcome' = outcome
            \/ /\ pc[c] \in Update1 /\ pc' = [pc EXCEPT ![c] = "over"]
               /\ outcome' \in {[outcome EXCEPT ![c] = "refused"], [outcome EXCEPT ![c] = "hook"]}
BY StageSets DEF Decided, Fail, Conclude, Goto, Update1, Reply

LEMMA StepMoves ==
  ASSUME CallTypes, NEW c \in Calls, CallStep(c)
  PROVE  /\ pc' \in [Calls -> Labels] /\ pc[c] # "over"
         /\ \A d \in Calls \ {c} : pc'[d] = pc[d] /\ outcome'[d] = outcome[d]
         /\ outcome' \in [Calls -> {"none", "ok", "failed", "denied", "refused", "hook", "crashed"}]
<1> USE StageSets DEF CallTypes, Goto, Conclude, Fail, Before, Serving
<1>1. CASE Announce(c) \/ PermissionRequest(c) \/ HooksDone(c) \/ PreToolUse(c)
  BY <1>1 DEF Announce, PermissionRequest, HooksDone, PreToolUse, Update1
<1>2. CASE HookFails(c) \/ NotConfigured(c) \/ PostToolUse(c)
  BY <1>2 DEF HookFails, NotConfigured, PostToolUse
<1>3. CASE NothingToApply(c)
  BY <1>3, DecidedMoves DEF NothingToApply, Update1, Reply
<1>4. CASE ApplyUpdate(c)
  <2>1. CASE update[c].to = Session
    BY <1>4, <2>1, DecidedMoves DEF ApplyUpdate, Release, Update1, Reply
  <2>2. CASE update[c].to # Session
    BY <1>4, <2>2 DEF ApplyUpdate, Update1, Reply
  <2> QED
    BY <2>1, <2>2
<1>5. CASE LoadPolicy(c) \/ TruncateFile(c) \/ WriteFile(c)
  <2>1. pc[c] \in Update1 \cup Reply /\ pc[c] # "over"
    BY <1>5 DEF LoadPolicy, TruncateFile, WriteFile, Update1, Reply
  <2>2. CASE Release(c)
    BY <2>1, <2>2, DecidedMoves DEF Release
  <2>3. CASE ~ Release(c)
    BY <1>5, <2>1, <2>3 DEF LoadPolicy, TruncateFile, WriteFile, Update1, Reply
  <2> QED
    BY <2>2, <2>3
<1>6. CASE CheckPolicy(c) \/ CanUseTool(c)
  BY <1>6 DEF CheckPolicy, CanUseTool, Reply
<1>7. CASE CallSdkTool(c) \/ CallExternal(c) \/ SendRequest(c) \/ ResultArrives(c) \/ AttemptFails(c)
  BY <1>7 DEF CallSdkTool, CallExternal, SendRequest, ResultArrives, AttemptFails
<1> QED
  BY <1>1, <1>2, <1>3, <1>4, <1>5, <1>6, <1>7 DEF CallStep

-----------------------------------------------------------------------------
\* Types.

LEMMA TypeInit == Init => TypeInv /\ LockInv
<1> SUFFICES ASSUME Init PROVE TypeInv /\ LockInv
  OBVIOUS
<1> USE ToolAssumption, NoPolicyTyped, StageSets DEF Init
<1>1. PolicyTypes
  BY DEF PolicyTypes
<1>2. CallTypes
  BY DEF CallTypes, Before
<1>3. ServerTypes
  BY DEF ServerTypes
<1>4. up \in BOOLEAN /\ cancelled \subseteq Calls /\ faults \in 0 .. MaxFaults
  OBVIOUS
<1>5. AttemptInv
  BY DEF AttemptInv, Serving
<1>6. LockInv
  BY DEF LockInv, Writing, Loaded
<1> QED
  BY <1>1, <1>2, <1>3, <1>4, <1>5, <1>6 DEF TypeInv, TypeOK

LEMMA PolicyStep ==
  ASSUME TypeOK, LockInv, NEW c \in Calls, CallStep(c)
  PROVE  PolicyTypes'
<1> USE DEF TypeOK, PolicyTypes, policyVars
<1>1. CASE ApplyUpdate(c)
  <2>1. update[c] \in Updates
    BY <1>1 DEF ApplyUpdate, Applying, CallTypes
  <2>2. policy' \in Policy
    BY <1>1, <2>1, AppliedTyped DEF ApplyUpdate
  <2> QED
    BY <1>1, <2>2, NoPolicyTyped DEF ApplyUpdate, Release
<1>2. CASE LoadPolicy(c)
  <2>1. update[c].to \in Files
    BY <1>2 DEF LoadPolicy, LockInv, Writing
  <2> QED
    BY <1>2, <2>1, NoPolicyTyped DEF LoadPolicy, Release
<1>3. CASE TruncateFile(c)
  <2>1. update[c].to \in Files
    BY <1>3 DEF TruncateFile, LockInv, Writing
  <2>2. \A f \in Files : [file EXCEPT ![f].state = "bad"]
          \in [Files -> [state : {"none", "good", "bad"}, policy : Policy]]
    OBVIOUS
  <2> QED
    BY <1>3, <2>1, <2>2, NoPolicyTyped DEF TruncateFile, Release
<1>4. CASE WriteFile(c)
  <2>1. update[c].to \in Files /\ update[c] \in Updates
    BY <1>4 DEF WriteFile, LockInv, Writing
  <2>2. Applied(loaded[c], update[c]) \in Policy /\ Applied(saved[update[c].to], update[c]) \in Policy
    BY <2>1, AppliedTyped
  <2>3. lock' \in Calls \cup {None} /\ loaded' \in [Calls -> Policy] /\ policy' = policy
    BY <1>4, NoPolicyTyped DEF WriteFile, Release
  <2>4. file' \in [Files -> [state : {"none", "good", "bad"}, policy : Policy]]
        /\ saved' \in [Files -> Policy]
    BY <1>4, <2>1, <2>2 DEF WriteFile
  <2> QED
    BY <2>3, <2>4
<1>5. CASE ~ (ApplyUpdate(c) \/ LoadPolicy(c) \/ TruncateFile(c) \/ WriteFile(c))
  BY <1>5
  DEF CallStep, Announce, PermissionRequest, HooksDone, HookFails, PreToolUse, NothingToApply,
      CheckPolicy, NotConfigured, CanUseTool, CallSdkTool, CallExternal, SendRequest,
      ResultArrives, AttemptFails, PostToolUse
<1> QED
  BY <1>1, <1>2, <1>3, <1>4, <1>5

LEMMA CallTypesStep ==
  ASSUME TypeOK, NEW c \in Calls, CallStep(c)
  PROVE  CallTypes'
<1> USE DEF TypeOK
<1>1. pc' \in [Calls -> Labels]
      /\ outcome' \in [Calls -> {"none", "ok", "failed", "denied", "refused", "hook", "crashed"}]
  BY StepMoves
<1>2. tool' \in [Calls -> Tools \cup {None}] /\ answered' \in [Calls -> 0 .. Hooks]
  <2>1. CASE Announce(c)
    BY <2>1 DEF Announce, CallTypes, hookVars
  <2>2. CASE PermissionRequest(c)
    <3>1. answered[c] + 1 \in 0 .. Hooks
      BY <2>2, ToolAssumption DEF PermissionRequest, CallTypes
    <3> QED
      BY <2>2, <3>1 DEF PermissionRequest, CallTypes
  <2>3. CASE ~ (Announce(c) \/ PermissionRequest(c))
    <3>1. tool' = tool /\ answered' = answered
      BY <2>3
      DEF hookVars, CallStep, HooksDone, HookFails, PreToolUse, NothingToApply, ApplyUpdate,
          LoadPolicy, TruncateFile, WriteFile, CheckPolicy, NotConfigured, CanUseTool,
          CallSdkTool, CallExternal, SendRequest, ResultArrives, AttemptFails, PostToolUse
    <3> QED
      BY <3>1 DEF CallTypes
  <2> QED
    BY <2>1, <2>2, <2>3
<1>3. denied' \in [Calls -> BOOLEAN]
  <2>1. CASE PermissionRequest(c)
    BY <2>1 DEF PermissionRequest, Decision, CallTypes
  <2>2. CASE ~ PermissionRequest(c)
    BY <2>2
    DEF CallTypes, hookVars, CallStep, Announce, HooksDone, HookFails, PreToolUse,
        NothingToApply, ApplyUpdate, LoadPolicy, TruncateFile, WriteFile, CheckPolicy,
        NotConfigured, CanUseTool, CallSdkTool, CallExternal, SendRequest, ResultArrives,
        AttemptFails, PostToolUse
  <2> QED
    BY <2>1, <2>2
<1>4. update' \in [Calls -> Updates \cup {None}]
  <2>1. CASE PermissionRequest(c) \/ CanUseTool(c)
    BY <2>1 DEF PermissionRequest, CanUseTool, CallTypes
  <2>2. CASE ~ (PermissionRequest(c) \/ CanUseTool(c))
    BY <2>2
    DEF CallTypes, hookVars, Release, CallStep, Announce, HooksDone, HookFails, PreToolUse,
        NothingToApply, ApplyUpdate, LoadPolicy, TruncateFile, WriteFile, CheckPolicy,
        NotConfigured, CallSdkTool, CallExternal, SendRequest, ResultArrives,
        AttemptFails, PostToolUse
  <2> QED
    BY <2>1, <2>2
<1>5. votes' \in [Calls -> SUBSET {"veto", "pre", "unheeded", "policy", "user"}]
  <2>1. CASE PermissionRequest(c) \/ PreToolUse(c) \/ CheckPolicy(c) \/ CanUseTool(c)
    BY <2>1 DEF PermissionRequest, PreToolUse, CheckPolicy, CanUseTool, Vote, CallTypes
  <2>2. CASE ~ (PermissionRequest(c) \/ PreToolUse(c) \/ CheckPolicy(c) \/ CanUseTool(c))
    BY <2>2
    DEF CallTypes, CallStep, Announce, HooksDone, HookFails,
        NothingToApply, ApplyUpdate, LoadPolicy, TruncateFile, WriteFile,
        NotConfigured, CallSdkTool, CallExternal, SendRequest, ResultArrives,
        AttemptFails, PostToolUse
  <2> QED
    BY <2>1, <2>2
<1> QED
  BY <1>1, <1>2, <1>3, <1>4, <1>5 DEF CallTypes

LEMMA ServerStep ==
  ASSUME TypeInv, NEW c \in Calls, CallStep(c)
  PROVE  ServerTypes' /\ AttemptInv'
<1> USE ToolAssumption DEF TypeInv, TypeOK, ServerTypes, serverVars, AttemptInv, Serving
<1>1. /\ pc' \in [Calls -> Labels] /\ pc[c] # "over"
      /\ \A d \in Calls \ {c} : pc'[d] = pc[d]
  BY StepMoves
<1>2. CASE CallSdkTool(c) \/ CallExternal(c) \/ ResultArrives(c)
  <2>1. pc'[c] \in Serving => attempt'[c] \in 1 .. Attempts
    BY <1>2 DEF CallSdkTool, CallExternal, ResultArrives, Goto, CallTypes
  <2>2. ServerTypes'
    <3>1. CASE CallSdkTool(c)
      <4>1. ran' = [ran EXCEPT ![c] = @ + 1] /\ UNCHANGED <<attempt, requests>>
        BY <3>1 DEF CallSdkTool
      <4> QED
        BY <4>1
    <3>2. CASE CallExternal(c)
      <4>1. attempt' = [attempt EXCEPT ![c] = 1] /\ UNCHANGED <<requests, ran>> /\ 1 \in 0 .. Attempts
        BY <3>2 DEF CallExternal
      <4> QED
        BY <4>1
    <3>3. CASE ResultArrives(c)
      BY <3>3 DEF ResultArrives
    <3> QED
      BY <1>2, <3>1, <3>2, <3>3
  <2>3. \A d \in Calls \ {c} : attempt'[d] = attempt[d]
    BY <1>2 DEF CallSdkTool, CallExternal, ResultArrives
  <2> QED
    BY <1>1, <2>1, <2>2, <2>3
<1>3. CASE SendRequest(c)
  <2>1. attempt[c] \in 1 .. Attempts /\ attempt' = attempt
    BY <1>3 DEF SendRequest
  <2>2. requests' \in [Calls -> SUBSET (1 .. Attempts)]
    BY <1>3, <2>1 DEF SendRequest
  <2> QED
    BY <1>1, <1>3, <2>1, <2>2 DEF SendRequest
<1>5. CASE AttemptFails(c)
  <2>1. CASE UNCHANGED attempt
    <3>1. pc[c] \in Serving
      BY <1>5 DEF AttemptFails
    <3> QED
      BY <1>1, <1>5, <2>1, <3>1 DEF AttemptFails
  <2>2. CASE ~ UNCHANGED attempt
    <3>1. attempt' = [attempt EXCEPT ![c] = @ + 1] /\ attempt[c] < Attempts
      BY <1>5, <2>2 DEF AttemptFails, MayRetry
    <3>2. attempt[c] + 1 \in 1 .. Attempts
      BY <3>1
    <3>3. attempt' \in [Calls -> 0 .. Attempts] /\ attempt'[c] \in 1 .. Attempts
      BY <3>1, <3>2
    <3>4. \A d \in Calls \ {c} : attempt'[d] = attempt[d]
      BY <3>1
    <3> QED
      BY <1>1, <1>5, <3>3, <3>4 DEF AttemptFails
  <2> QED
    BY <2>1, <2>2
<1>4. CASE ~ (CallSdkTool(c) \/ CallExternal(c) \/ SendRequest(c) \/ ResultArrives(c) \/ AttemptFails(c))
  <2>1. UNCHANGED serverVars
    BY <1>4
    DEF CallStep, Announce, PermissionRequest, HooksDone, HookFails, PreToolUse,
        NothingToApply, ApplyUpdate, LoadPolicy, TruncateFile, WriteFile, CheckPolicy,
        NotConfigured, CanUseTool, PostToolUse
  <2>2. pc'[c] \notin Serving
    <3>1. CASE Announce(c) \/ PermissionRequest(c) \/ HooksDone(c) \/ HookFails(c) \/ PreToolUse(c)
      BY <3>1 DEF Announce, PermissionRequest, HooksDone, HookFails, PreToolUse, Goto, Conclude, CallTypes
    <3>2. CASE ApplyUpdate(c) \/ LoadPolicy(c) \/ TruncateFile(c) \/ WriteFile(c) \/ NothingToApply(c)
      <4>1. pc[c] \in Update1 \cup Reply
        BY <3>2 DEF ApplyUpdate, LoadPolicy, TruncateFile, WriteFile, NothingToApply, Update1, Reply
      <4>2. CASE Decided(c)
        <5>1. \E l \in {"dispatch", "pre", "over"} : pc' = [pc EXCEPT ![c] = l]
          BY <4>1, <4>2, DecidedMoves
        <5> QED
          BY <5>1 DEF CallTypes
      <4>3. CASE ~ Decided(c)
        <5>1. \E l \in {"load", "reload", "write", "rewrite", "written", "rewritten"} : Goto(c, l)
          BY <3>2, <4>3
          DEF ApplyUpdate, LoadPolicy, TruncateFile, WriteFile, NothingToApply, Release
        <5> QED
          BY <5>1 DEF Goto, CallTypes
      <4> QED
        BY <4>2, <4>3
    <3>3. CASE CheckPolicy(c) \/ NotConfigured(c) \/ CanUseTool(c) \/ PostToolUse(c)
      BY <3>3 DEF CheckPolicy, NotConfigured, CanUseTool, PostToolUse, Fail, Conclude, Goto, CallTypes
    <3> QED
      BY <1>4, <3>1, <3>2, <3>3 DEF CallStep
  <2> QED
    BY <1>1, <2>1, <2>2
<1> QED
  BY <1>2, <1>3, <1>4, <1>5

\* The steps that are not those of a call.
OtherStep ==
  \/ \E c \in Calls : Cancel(c) \/ \E a \in 1 .. Attempts : ServerRuns(c, a)
  \/ \E m \in Modes : SetMode(m)
  \/ Crash \/ Restart

LEMMA OtherTyped ==
  ASSUME TypeInv, LockInv, OtherStep
  PROVE  TypeInv' /\ LockInv'
<1> USE ToolAssumption
    DEF TypeInv, TypeOK, policyVars, hookVars, serverVars
<1>1. ASSUME NEW c \in Calls, Cancel(c)
      PROVE  TypeInv' /\ LockInv'
  BY <1>1 DEF Cancel, PolicyTypes, CallTypes, ServerTypes, AttemptInv, LockInv
<1>2. ASSUME NEW c \in Calls, NEW a \in 1 .. Attempts, ServerRuns(c, a)
      PROVE  TypeInv' /\ LockInv'
  <2>1. ServerTypes'
    <3>1. ran' = [ran EXCEPT ![c] = @ + 1] /\ requests' = [requests EXCEPT ![c] = @ \ {a}]
          /\ attempt' = attempt
      BY <1>2 DEF ServerRuns
    <3> QED
      BY <3>1 DEF ServerTypes
  <2>2. pc' \in {pc, [pc EXCEPT ![c] = "result"]} /\ (pc' # pc => pc[c] = "wait")
    BY <1>2 DEF ServerRuns, CallTypes
  <2>3. AttemptInv'
    BY <1>2, <2>2 DEF ServerRuns, AttemptInv, CallTypes, Serving
  <2>4. CallTypes'
    BY <1>2, <2>2, StageSets DEF ServerRuns, CallTypes, Serving
  <2>5. LockInv'
    BY <1>2, <2>2 DEF ServerRuns, LockInv, CallTypes, Writing, Loaded
  <2> QED
    BY <1>2, <2>1, <2>3, <2>4, <2>5 DEF ServerRuns, PolicyTypes
<1>3. ASSUME NEW m \in Modes, SetMode(m)
      PROVE  TypeInv' /\ LockInv'
  <2>1. policy' \in Policy
    BY <1>3 DEF SetMode, PolicyTypes, Policy
  <2> QED
    BY <1>3, <2>1 DEF SetMode, PolicyTypes, CallTypes, ServerTypes, AttemptInv, LockInv
<1>4. CASE Crash
  <2>1. pc' \in [Calls -> {"new", "over"}]
    BY <1>4 DEF Crash
  <2>2. outcome' \in [Calls -> {"none", "ok", "failed", "denied", "refused", "hook", "crashed"}]
    BY <1>4 DEF Crash, CallTypes
  <2>3. CallTypes'
    BY <1>4, <2>1, <2>2, StageSets DEF Crash, CallTypes, Before
  <2>4. faults' \in 0 .. MaxFaults
    BY <1>4 DEF Crash, Fault
  <2>5. AttemptInv' /\ LockInv'
    BY <2>1 DEF AttemptInv, LockInv, Serving, Writing, Loaded
  <2> QED
    BY <1>4, <2>3, <2>4, <2>5 DEF Crash, PolicyTypes, ServerTypes
<1>5. CASE Restart
  BY <1>5, MergedTyped DEF Restart, PolicyTypes, CallTypes, ServerTypes, AttemptInv, LockInv
<1> QED
  BY <1>1, <1>2, <1>3, <1>4, <1>5 DEF OtherStep

\* While a call has the lock, no other touches it, nor what the call has read.
LEMMA LockKept ==
  ASSUME TypeOK, LockInv, NEW c \in Calls, CallStep(c),
         NEW d \in Calls \ {c}, pc[d] \in Writing
  PROVE  UNCHANGED <<lock, saved, update[d], loaded[d]>>
<1> USE ToolAssumption DEF policyVars, hookVars
<1>1. lock = d /\ d # c /\ d # None
  BY DEF LockInv
<1>2. pc[c] \notin Writing /\ ~ Free
  BY <1>1 DEF LockInv, Free
<1>3. CASE PermissionRequest(c) \/ CanUseTool(c)
  BY <1>1, <1>3 DEF PermissionRequest, CanUseTool, TypeOK, CallTypes
<1>4. CASE ~ (PermissionRequest(c) \/ CanUseTool(c))
  BY <1>1, <1>2, <1>4
  DEF Writing, CallStep, Announce, HooksDone, HookFails, PreToolUse, NothingToApply, ApplyUpdate,
      LoadPolicy, TruncateFile, WriteFile, CheckPolicy, NotConfigured, CallSdkTool,
      CallExternal, SendRequest, ResultArrives, AttemptFails, PostToolUse
<1> QED
  BY <1>3, <1>4

LEMMA LockStep ==
  ASSUME TypeOK, LockInv, NoUpdateLost, NEW c \in Calls, CallStep(c)
  PROVE  LockInv'
<1> USE DEF TypeOK
<1>1. /\ pc' \in [Calls -> Labels] /\ \A d \in Calls \ {c} : pc'[d] = pc[d]
  BY StepMoves
<1>2. ASSUME NEW d \in Calls \ {c}
      PROVE  /\ pc'[d] \in Writing => lock' = d /\ update'[d] \in Updates /\ update'[d].to \in Files
             /\ pc'[d] \in Loaded => loaded'[d] = saved'[update'[d].to]
  BY <1>1, LockKept DEF LockInv, Writing, Loaded
<1>3. /\ pc'[c] \in Writing => lock' = c /\ update'[c] \in Updates /\ update'[c].to \in Files
      /\ pc'[c] \in Loaded => loaded'[c] = saved'[update'[c].to]
  <2>1. CASE ApplyUpdate(c)
    <3>1. update[c] \in Updates /\ (update[c].to # Session => update[c].to \in Files)
      BY <2>1, ToolAssumption DEF ApplyUpdate, Applying, CallTypes, Update
    <3>2. CASE update[c].to = Session
      <4>1. pc'[c] \in {"dispatch", "pre", "over"}
        BY <2>1, <3>2, DecidedMoves DEF ApplyUpdate, Release, Update1, Reply, CallTypes
      <4> QED
        BY <4>1 DEF Writing, Loaded
    <3>3. CASE update[c].to # Session
      BY <2>1, <3>1, <3>3 DEF ApplyUpdate, Goto, CallTypes, Writing, Loaded
    <3> QED
      BY <3>2, <3>3
  <2>2. CASE LoadPolicy(c)
    <3>1. pc[c] \in {"load", "reload"} /\ lock = c /\ update[c] \in Updates /\ update[c].to \in Files
      BY <2>2 DEF LoadPolicy, LockInv, Writing
    <3>2. CASE Release(c)
      <4>1. pc'[c] \in {"dispatch", "pre", "over"}
        BY <3>1, <3>2, DecidedMoves DEF Release, Update1, Reply, CallTypes
      <4> QED
        BY <4>1 DEF Writing, Loaded
    <3>3. CASE ~ Release(c)
      <4>1. file[update[c].to].state # "bad" /\ UNCHANGED <<lock, update, saved>>
        BY <2>2, <3>3 DEF LoadPolicy
      <4>2. loaded'[c] = file[update[c].to].policy
        BY <2>2, <4>1 DEF LoadPolicy, PolicyTypes
      <4>3. (file[update[c].to].state # "bad") => file[update[c].to].policy = saved[update[c].to]
        BY <3>1 DEF NoUpdateLost
      <4> QED
        BY <3>1, <4>1, <4>2, <4>3
    <3> QED
      BY <3>2, <3>3
  <2>3. CASE TruncateFile(c)
    <3>1. pc[c] \in {"write", "rewrite"}
      BY <2>3 DEF TruncateFile
    <3>2. CASE Release(c)
      <4>1. pc'[c] \in {"dispatch", "pre", "over"}
        BY <3>1, <3>2, DecidedMoves DEF Release, Update1, Reply, CallTypes
      <4> QED
        BY <4>1 DEF Writing, Loaded
    <3>3. CASE ~ Release(c)
      BY <2>3, <3>1, <3>3 DEF TruncateFile, LockInv, Writing, Loaded
    <3> QED
      BY <3>2, <3>3
  <2>4. CASE WriteFile(c)
    <3>1. pc'[c] \in {"dispatch", "pre", "over"}
      BY <2>4, DecidedMoves DEF WriteFile, Release, Update1, Reply, CallTypes
    <3> QED
      BY <3>1 DEF Writing, Loaded
  <2>5. CASE NothingToApply(c)
    <3>1. pc'[c] \in {"dispatch", "pre", "over"}
      BY <2>5, DecidedMoves DEF NothingToApply, Update1, Reply, CallTypes
    <3> QED
      BY <3>1 DEF Writing, Loaded
  <2>6. CASE ~ (ApplyUpdate(c) \/ LoadPolicy(c) \/ TruncateFile(c) \/ WriteFile(c) \/ NothingToApply(c))
    <3>1. pc'[c] \notin Writing
      <4>1. CASE Announce(c) \/ PermissionRequest(c) \/ HooksDone(c) \/ HookFails(c) \/ PreToolUse(c)
        BY <4>1 DEF Announce, PermissionRequest, HooksDone, HookFails, PreToolUse, Goto, Conclude,
                    CallTypes, Writing
      <4>2. CASE CheckPolicy(c) \/ NotConfigured(c) \/ CanUseTool(c) \/ PostToolUse(c)
        BY <4>2 DEF CheckPolicy, NotConfigured, CanUseTool, PostToolUse, Fail, Conclude, Goto,
                    CallTypes, Writing
      <4>3. CASE CallSdkTool(c) \/ CallExternal(c) \/ SendRequest(c) \/ ResultArrives(c) \/ AttemptFails(c)
        BY <4>3 DEF CallSdkTool, CallExternal, SendRequest, ResultArrives, AttemptFails, Fail,
                    Conclude, Goto, CallTypes, Writing
      <4> QED
        BY <2>6, <4>1, <4>2, <4>3 DEF CallStep
    <3> QED
      BY <3>1 DEF Writing, Loaded
  <2> QED
    BY <2>1, <2>2, <2>3, <2>4, <2>5, <2>6
<1> QED
  BY <1>2, <1>3 DEF LockInv

LEMMA SavedStep ==
  ASSUME TypeOK, LockInv, NoUpdateLost, NEW c \in Calls, CallStep(c)
  PROVE  NoUpdateLost'
<1> USE DEF TypeOK, PolicyTypes
<1>1. CASE TruncateFile(c)
  <2>1. CASE file' = file
    BY <1>1, <2>1 DEF TruncateFile, NoUpdateLost
  <2>2. CASE file' # file
    <3>1. file' = [file EXCEPT ![update[c].to].state = "bad"] /\ saved' = saved
      BY <1>1, <2>2 DEF TruncateFile
    <3>2. ASSUME NEW f \in Files
          PROVE  file'[f] = file[f] \/ file'[f].state = "bad"
      BY <3>1
    <3> QED
      BY <3>1, <3>2 DEF NoUpdateLost
  <2> QED
    BY <2>1, <2>2
<1>2. CASE WriteFile(c)
  <2>1. update[c].to \in Files /\ loaded[c] = saved[update[c].to]
    BY <1>2 DEF WriteFile, LockInv, Writing, Loaded
  <2>2. CASE file' = file /\ saved' = saved
    BY <2>2 DEF NoUpdateLost
  <2>3. CASE ~ (file' = file /\ saved' = saved)
    <3> DEFINE p == Applied(loaded[c], update[c])
    <3>1. /\ file' = [file EXCEPT ![update[c].to] = [state |-> "good", policy |-> p]]
          /\ saved' = [saved EXCEPT ![update[c].to] = p]
      BY <1>2, <2>1, <2>3 DEF WriteFile
    <3> HIDE DEF p
    <3> QED
      BY <2>1, <3>1 DEF NoUpdateLost
  <2> QED
    BY <2>2, <2>3
<1>3. CASE ~ (TruncateFile(c) \/ WriteFile(c))
  <2>1. UNCHANGED <<file, saved>>
    BY <1>3
    DEF policyVars, CallStep, Announce, PermissionRequest, HooksDone, HookFails, PreToolUse,
        NothingToApply, ApplyUpdate, LoadPolicy, CheckPolicy, NotConfigured, CanUseTool,
        CallSdkTool, CallExternal, SendRequest, ResultArrives, AttemptFails, PostToolUse
  <2> QED
    BY <2>1 DEF NoUpdateLost
<1> QED
  BY <1>1, <1>2, <1>3

FileInv == TypeInv /\ LockInv /\ NoUpdateLost

LEMMA FileStep ==
  ASSUME FileInv, [Next]_vars
  PROVE  FileInv'
<1> USE DEF FileInv
<1>1. ASSUME NEW c \in Calls, CallStep(c)
      PROVE  FileInv'
  <2>1. PolicyTypes' /\ CallTypes' /\ ServerTypes' /\ AttemptInv'
    BY <1>1, PolicyStep, CallTypesStep, ServerStep DEF TypeInv
  <2>2. up' \in BOOLEAN /\ cancelled' \subseteq Calls /\ faults' \in 0 .. MaxFaults
    BY <1>1, ToolAssumption
    DEF TypeInv, TypeOK, Fault, CallStep, Announce, PermissionRequest, HooksDone, HookFails,
        PreToolUse, NothingToApply, ApplyUpdate, LoadPolicy, TruncateFile, WriteFile,
        CheckPolicy, NotConfigured, CanUseTool, CallSdkTool, CallExternal, SendRequest,
        ResultArrives, AttemptFails, PostToolUse
  <2>3. LockInv' /\ NoUpdateLost'
    BY <1>1, LockStep, SavedStep DEF TypeInv
  <2> QED
    BY <2>1, <2>2, <2>3 DEF TypeInv, TypeOK
<1>2. CASE OtherStep
  <2>1. UNCHANGED <<file, saved>>
    BY <1>2 DEF OtherStep, Cancel, ServerRuns, SetMode, Crash, Restart, policyVars
  <2> QED
    BY <1>2, <2>1, OtherTyped DEF NoUpdateLost
<1>3. CASE UNCHANGED vars
  BY <1>3
  DEF vars, policyVars, hookVars, serverVars, TypeInv, TypeOK, PolicyTypes, CallTypes,
      ServerTypes, AttemptInv, LockInv, NoUpdateLost
<1> QED
  BY <1>1, <1>2, <1>3 DEF Next, OtherStep

LEMMA FileAlways == Spec => []FileInv
<1>1. Init => NoUpdateLost
  BY DEF Init, NoUpdateLost
<1>2. Init => FileInv
  BY <1>1, TypeInit DEF FileInv
<1> QED
  BY <1>2, FileStep, PTL DEF Spec

(* The variables of ToolUse keep their types: the policy and the files     *)
(* stay policies under every update and every merge, and no call makes     *)
(* more attempts than it may.                                              *)
THEOREM TypeCorrect == Spec => []TypeOK
<1>1. FileInv => TypeOK
  BY DEF FileInv, TypeInv
<1> QED
  BY <1>1, FileAlways, PTL

(* A policy file that can be read holds every update written to it: e.mu   *)
(* is held from the reading of the file to its writing.                    *)
THEOREM NoUpdateIsLost == Spec => []NoUpdateLost
<1>1. FileInv => NoUpdateLost
  BY DEF FileInv
<1> QED
  BY <1>1, FileAlways, PTL

-----------------------------------------------------------------------------
\* Consent.

Heard   == {"pre", "check", "ask", "dispatch", "post"} \cup Reply \cup Serving
Passed  == {"check", "ask", "dispatch", "post"} \cup Reply \cup Serving
Asked   == {"ask", "dispatch", "post"} \cup Reply \cup Serving
Agreed  == {"dispatch", "post"} \cup Reply \cup Serving

(* How far a call has come with the ones that may deny it: nothing has run *)
(* before it is dispatched.                                                *)
ConsentOf(c) ==
  /\ pc[c] \in {"new", "hook"} \cup Update1 => ("veto" \in votes[c] => denied[c])
  /\ pc[c] \in Heard => "veto" \notin votes[c]
  /\ pc[c] \in Heard \cup Update1 => answered[c] = Hooks
  /\ pc[c] \in Passed => votes[c] \cap {"pre", "unheeded"} # {}
  /\ pc[c] \in Asked => "policy" \in votes[c]
  /\ pc[c] \in Agreed => (HasCallback => "user" \in votes[c])
  /\ pc[c] \in Before => ran[c] = 0 /\ requests[c] = {}
  /\ ran[c] > 0 \/ requests[c] # {} =>
       /\ "veto" \notin votes[c] /\ answered[c] = Hooks
       /\ votes[c] \cap {"pre", "unheeded"} # {}
       /\ "policy" \in votes[c] /\ (HasCallback => "user" \in votes[c])

ConsentInv == \A c \in Calls : ConsentOf(c)

\* A step of one call leaves the others as they are.
LEMMA OthersKept ==
  ASSUME TypeOK, NEW c \in Calls, CallStep(c), NEW d \in Calls \ {c}
  PROVE  UNCHANGED <<pc[d], tool[d], outcome[d], answered[d], denied[d], votes[d],
                     attempt[d], requests[d], ran[d]>>
<1> USE DEF TypeOK, CallTypes, ServerTypes, hookVars, serverVars
<1>1. UNCHANGED <<pc[d], outcome[d]>>
  BY StepMoves
<1>2. CASE Announce(c) \/ PermissionRequest(c)
  BY <1>1, <1>2 DEF Announce, PermissionRequest, Vote
<1>3. CASE PreToolUse(c) \/ CheckPolicy(c) \/ CanUseTool(c)
  BY <1>1, <1>3 DEF PreToolUse, CheckPolicy, CanUseTool, Vote
<1>4. CASE CallSdkTool(c) \/ CallExternal(c) \/ SendRequest(c) \/ AttemptFails(c)
  BY <1>1, <1>4 DEF CallSdkTool, CallExternal, SendRequest, AttemptFails
<1>5. CASE ~ (\/ Announce(c) \/ PermissionRequest(c) \/ PreToolUse(c) \/ CheckPolicy(c) \/ CanUseTool(c)
              \/ CallSdkTool(c) \/ CallExternal(c) \/ SendRequest(c) \/ AttemptFails(c))
  BY <1>1, <1>5
  DEF CallStep, HooksDone, HookFails, NothingToApply, ApplyUpdate, LoadPolicy,
      TruncateFile, WriteFile, NotConfigured, ResultArrives, PostToolUse
<1> QED
  BY <1>2, <1>3, <1>4, <1>5

\* Where the application of an update leads.
LEMMA UpdateMoves ==
  ASSUME TypeOK, NEW c \in Calls,
         NothingToApply(c) \/ ApplyUpdate(c) \/ LoadPolicy(c) \/ TruncateFile(c) \/ WriteFile(c)
  PROVE  /\ UNCHANGED <<tool, answered, denied, votes, attempt, requests, ran>>
         /\ \/ pc[c] \in Update1 /\ pc'[c] \in Update1 /\ outcome'[c] = outcome[c]
            \/ pc[c] \in Update1 /\ pc'[c] = "pre" /\ ~denied[c] /\ outcome'[c] = outcome[c]
            \/ pc[c] \in Update1 /\ pc'[c] = "over" /\ outcome'[c] \in {"refused", "hook"}
            \/ pc[c] \in Reply /\ pc'[c] \in Reply \cup {"dispatch"} /\ outcome'[c] = outcome[c]
<1> USE DEF TypeOK, CallTypes, hookVars, serverVars
<1>1. UNCHANGED <<tool, answered, denied, votes, attempt, requests, ran>>
  BY DEF NothingToApply, ApplyUpdate, LoadPolicy, TruncateFile, WriteFile
<1>2. pc[c] \in Update1 \cup Reply
  BY DEF NothingToApply, ApplyUpdate, LoadPolicy, TruncateFile, WriteFile, Update1, Reply
<1>3. CASE Decided(c)
  BY <1>1, <1>2, <1>3, DecidedMoves
<1>4. CASE ~ Decided(c)
  BY <1>1, <1>2, <1>4
  DEF NothingToApply, ApplyUpdate, LoadPolicy, TruncateFile, WriteFile, Release, Goto, Update1, Reply
<1> QED
  BY <1>3, <1>4

LEMMA ConsentStep ==
  ASSUME TypeOK, ConsentInv, NEW c \in Calls, CallStep(c)
  PROVE  ConsentInv'
<1> USE DEF TypeOK, CallTypes, ServerTypes, Heard, Passed, Asked, Agreed, Before, Serving
<1>1. ASSUME NEW d \in Calls \ {c}
      PROVE  ConsentOf(d)'
  BY OthersKept DEF ConsentInv, ConsentOf
<1>2. ConsentOf(c)'
  <2> USE DEF hookVars, serverVars, Goto, Conclude, Fail, ConsentInv, ConsentOf
  <2>1. CASE Announce(c)
    BY <2>1 DEF Announce, Update1, Reply
  <2>2. CASE PermissionRequest(c)
    <3>1. pc[c] = "hook" /\ UNCHANGED <<pc, ran, requests>>
      BY <2>2 DEF PermissionRequest
    <3>2. "veto" \in votes'[c] => denied'[c]
      BY <2>2, <3>1 DEF PermissionRequest, Vote, Decision
    <3> QED
      BY <3>1, <3>2 DEF Update1, Reply
  <2>3. CASE HooksDone(c)
    BY <2>3 DEF HooksDone, Update1, Reply
  <2>4. CASE HookFails(c) \/ NotConfigured(c) \/ PostToolUse(c)
    <3>1. pc'[c] = "over" /\ UNCHANGED <<votes, answered, ran, requests>>
      BY <2>4 DEF HookFails, NotConfigured, PostToolUse
    <3> QED
      BY <3>1 DEF Update1, Reply
  <2>5. CASE PreToolUse(c)
    <3>1. /\ pc[c] = "pre" /\ pc'[c] = "check" /\ UNCHANGED <<answered, denied, ran, requests>>
          /\ \E v \in {"pre", "unheeded"} : votes'[c] = votes[c] \cup {v}
      BY <2>5 DEF PreToolUse, Vote
    <3> QED
      BY <3>1 DEF Update1, Reply
  <2>6. CASE NothingToApply(c) \/ ApplyUpdate(c) \/ LoadPolicy(c) \/ TruncateFile(c) \/ WriteFile(c)
    BY <2>6, UpdateMoves DEF Update1, Reply
  <2>7. CASE CheckPolicy(c)
    <3>1. pc[c] = "check" /\ UNCHANGED <<answered, denied, ran, requests>>
      BY <2>7 DEF CheckPolicy
    <3>2. \/ pc'[c] = "over" /\ votes' = votes
          \/ /\ pc'[c] = IF HasCallback THEN "ask" ELSE "dispatch"
             /\ votes'[c] = votes[c] \cup {"policy"}
      BY <2>7 DEF CheckPolicy, Vote
    <3> QED
      BY <3>1, <3>2, ToolAssumption DEF Update1, Reply
  <2>8. CASE CanUseTool(c)
    <3>1. pc[c] = "ask" /\ UNCHANGED <<answered, denied, ran, requests>>
      BY <2>8 DEF CanUseTool
    <3>2. \/ pc'[c] = "over"
          \/ pc'[c] = "reply" /\ votes'[c] = votes[c] \cup {"user"}
      BY <2>8 DEF CanUseTool, Vote
    <3> QED
      BY <3>1, <3>2 DEF Update1, Reply
  <2>9. CASE CallSdkTool(c) \/ CallExternal(c) \/ SendRequest(c) \/ ResultArrives(c) \/ AttemptFails(c)
    <3>1. pc[c] \in {"dispatch"} \cup Serving /\ pc'[c] \in Serving \cup {"post", "over"}
      BY <2>9 DEF CallSdkTool, CallExternal, SendRequest, ResultArrives, AttemptFails
    <3>2. UNCHANGED <<answered, denied, votes>>
      BY <2>9 DEF CallSdkTool, CallExternal, SendRequest, ResultArrives, AttemptFails
    <3> QED
      BY <3>1, <3>2 DEF Update1, Reply
  <2> QED
    BY <2>1, <2>2, <2>3, <2>4, <2>5, <2>6, <2>7, <2>8, <2>9 DEF CallStep
<1> QED
  BY <1>1, <1>2 DEF ConsentInv

\* What the steps that are not a call's may do to it.
LEMMA OtherMoves ==
  ASSUME TypeOK, OtherStep, NEW d \in Calls
  PROVE  /\ UNCHANGED <<tool[d], answered[d], denied[d], votes[d], attempt[d]>>
         /\ \/ UNCHANGED <<pc[d], outcome[d], ran[d], requests[d]>>
            \/ /\ pc[d] # "new" /\ pc'[d] = "over" /\ UNCHANGED <<ran[d], requests[d]>>
               /\ outcome'[d] = IF pc[d] = "over" THEN outcome[d] ELSE "crashed"
            \/ /\ \E a \in requests[d] : requests'[d] = requests[d] \ {a}
               /\ ran'[d] = ran[d] + 1 /\ outcome'[d] = outcome[d]
               /\ pc'[d] = pc[d] \/ (pc[d] = "wait" /\ pc'[d] = "result")
<1> USE DEF TypeOK, CallTypes, ServerTypes, hookVars, serverVars
<1>1. ASSUME NEW c \in Calls, NEW a \in 1 .. Attempts, ServerRuns(c, a)
      PROVE  /\ UNCHANGED <<tool, answered, denied, votes, attempt, outcome>>
             /\ \/ d # c /\ UNCHANGED <<pc[d], ran[d], requests[d]>>
                \/ /\ d = c /\ a \in requests[d] /\ requests'[d] = requests[d] \ {a}
                   /\ ran'[d] = ran[d] + 1
                   /\ pc'[d] = pc[d] \/ (pc[d] = "wait" /\ pc'[d] = "result")
  BY <1>1 DEF ServerRuns
<1>2. CASE Crash
  BY <1>2 DEF Crash
<1>3. ASSUME (\E c \in Calls : Cancel(c)) \/ (\E m \in Modes : SetMode(m)) \/ Restart
      PROVE  UNCHANGED <<pc, outcome, ran, requests, tool, answered, denied, votes, attempt>>
  BY <1>3 DEF Cancel, SetMode, Restart
<1> QED
  BY <1>1, <1>2, <1>3 DEF OtherStep

LEMMA ConsentOther ==
  ASSUME TypeOK, ConsentInv, OtherStep
  PROVE  ConsentInv'
<1> SUFFICES ASSUME NEW d \in Calls PROVE ConsentOf(d)'
  BY DEF ConsentInv
<1>1. ConsentOf(d)
  BY DEF ConsentInv
<1>2. ran[d] \in Nat
  BY DEF TypeOK, ServerTypes
<1>3. CASE UNCHANGED <<pc[d], outcome[d], ran[d], requests[d]>>
  BY <1>1, <1>3, OtherMoves DEF ConsentOf
<1>4. CASE pc'[d] = "over" /\ UNCHANGED <<ran[d], requests[d]>>
  BY <1>1, <1>4, OtherMoves DEF ConsentOf, Heard, Passed, Asked, Agreed, Before, Update1, Reply, Serving
<1>5. CASE /\ \E a \in requests[d] : requests'[d] = requests[d] \ {a}
           /\ pc'[d] = pc[d] \/ (pc[d] = "wait" /\ pc'[d] = "result")
  <2>1. pc[d] \notin Before
    BY <1>1, <1>5 DEF ConsentOf
  <2> QED
    BY <1>1, <1>5, <2>1, OtherMoves
    DEF ConsentOf, Heard, Passed, Asked, Agreed, Before, Update1, Reply, Serving
<1> QED
  BY <1>3, <1>4, <1>5, OtherMoves

ToolInv == FileInv /\ ConsentInv

LEMMA ConsentNext ==
  ASSUME ToolInv, [Next]_vars
  PROVE  ToolInv'
<1>1. CASE UNCHANGED vars
  <2>1. \A c \in Calls : ConsentOf(c)' = ConsentOf(c)
    BY <1>1 DEF vars, hookVars, serverVars, ConsentOf
  <2> QED
    BY <1>1, <2>1, FileStep DEF ToolInv, ConsentInv
<1>2. CASE Next
  <2>1. TypeOK /\ ConsentInv
    BY DEF ToolInv, FileInv, TypeInv
  <2>2. (\E c \in Calls : CallStep(c)) \/ OtherStep
    BY <1>2 DEF Next, OtherStep
  <2> QED
    BY <2>1, <2>2, ConsentStep, ConsentOther, FileStep DEF ToolInv
<1> QED
  BY <1>1, <1>2

LEMMA ToolAlways == Spec => []ToolInv
<1>1. Init => ConsentInv
  BY DEF Init, ConsentInv, ConsentOf, Heard, Passed, Asked, Agreed, Update1, Reply, Serving
<1>2. Spec => [][Next]_vars /\ Init
  BY DEF Spec
<1>3. Init /\ FileInv => ToolInv
  BY <1>1 DEF ToolInv
<1> QED
  BY <1>2, <1>3, FileAlways, ConsentNext, PTL

(* No tool runs, and no server is asked to run one, unless no              *)
(* PermissionRequest callback denied the call, the PreToolUse callbacks    *)
(* were asked and did not fail, and the policy and CanUseTool let it pass  *)
(* when asked, however calls, updates of the policy, crashes and late      *)
(* requests interleave.                                                    *)
THEOREM ConsentIsGiven == Spec => []ConsentGiven
<1>1. ToolInv => ConsentGiven
  BY DEF ToolInv, ConsentInv, ConsentOf, ConsentGiven
<1> QED
  BY <1>1, ToolAlways, PTL

-----------------------------------------------------------------------------
\* What is told of a call.

\* Runs of an external tool that were asked for by now.
Asks(c) == IF pc[c] = "connect" THEN attempt[c] - 1 ELSE attempt[c]

OutcomeOf(c) ==
  /\ outcome[c] # "none" => pc[c] = "over"
  /\ pc[c] \in {"result", "post"} => ran[c] > 0
  /\ outcome[c] = "ok" => ran[c] > 0
  /\ outcome[c] \in {"denied", "refused"} => ran[c] = 0 /\ requests[c] = {}
  /\ pc[c] \in Serving => tool[c] \in External
  /\ IF tool[c] \in External THEN ran[c] + Cardinality(requests[c]) <= Asks(c)
     ELSE requests[c] = {} /\ ran[c] <= 1

OutcomeInv == \A c \in Calls : OutcomeOf(c)

LEMMA RequestsFinite ==
  ASSUME ServerTypes, NEW c \in Calls
  PROVE  /\ IsFiniteSet(requests[c]) /\ Cardinality(requests[c]) \in Nat
         /\ ran[c] \in Nat /\ attempt[c] \in Nat
<1>1. IsFiniteSet(1 .. Attempts)
  BY ToolAssumption, FS_Interval
<1>2. requests[c] \subseteq 1 .. Attempts
  BY DEF ServerTypes
<1>3. IsFiniteSet(requests[c])
  BY <1>1, <1>2, FS_Subset
<1> QED
  BY <1>3, FS_CardinalityType, ToolAssumption DEF ServerTypes

\* A call that ends does not change what was run for it.
LEMMA OutcomeKept ==
  ASSUME ToolInv, NEW c \in Calls, OutcomeOf(c), pc'[c] = "over", pc[c] # "over",
         UNCHANGED <<tool[c], attempt[c], requests[c], ran[c]>>,
         outcome'[c] = "ok" => ran[c] > 0,
         outcome'[c] \in {"denied", "refused"} => pc[c] \in Before
  PROVE  OutcomeOf(c)'
<1>1. Cardinality(requests[c]) \in Nat /\ ran[c] \in Nat /\ attempt[c] \in Nat
  BY RequestsFinite DEF ToolInv, FileInv, TypeInv, TypeOK
<1>2. outcome'[c] \in {"denied", "refused"} => ran[c] = 0 /\ requests[c] = {}
  BY DEF ToolInv, ConsentInv, ConsentOf
<1>3. IF tool[c] \in External THEN ran[c] + Cardinality(requests[c]) <= attempt[c]
      ELSE requests[c] = {} /\ ran[c] <= 1
  BY <1>1 DEF OutcomeOf, Asks
<1> QED
  BY <1>1, <1>2, <1>3 DEF OutcomeOf, Asks, Serving

LEMMA OutcomeStep ==
  ASSUME ToolInv, OutcomeInv, NEW c \in Calls, CallStep(c)
  PROVE  OutcomeInv'
<1> USE DEF OutcomeInv
<1>1. ASSUME NEW d \in Calls \ {c}
      PROVE  OutcomeOf(d)'
  BY OthersKept DEF OutcomeOf, Asks, ToolInv, FileInv, TypeInv
<1>2. OutcomeOf(c)'
  <2>1. /\ IsFiniteSet(requests[c]) /\ Cardinality(requests[c]) \in Nat
        /\ ran[c] \in Nat /\ attempt[c] \in Nat
    BY RequestsFinite DEF ToolInv, FileInv, TypeInv, TypeOK
  <2>2. OutcomeOf(c) /\ ConsentOf(c) /\ CallTypes /\ ServerTypes
    BY DEF ToolInv, ConsentInv, FileInv, TypeInv, TypeOK
  <2>3. pc[c] # "over" /\ outcome[c] = "none"
    BY <2>2, StepMoves DEF OutcomeOf, CallTypes
  <2>0. CallTypes /\ ServerTypes
    BY <2>2
  <2> USE <2>0 DEF CallTypes, ServerTypes, hookVars, serverVars, Goto, Conclude, Fail
  <2>4. CASE Announce(c)
    <3>1. ran[c] = 0 /\ requests[c] = {} /\ Cardinality({}) = 0 /\ pc'[c] = "hook"
      BY <2>2, <2>4, FS_EmptySet DEF Announce, ConsentOf, Before
    <3>2. /\ outcome'[c] = "none" /\ attempt'[c] = attempt[c]
          /\ requests'[c] = {} /\ ran'[c] = 0
      BY <2>3, <2>4, <3>1 DEF Announce
    <3>3. Asks(c)' = attempt[c]
      BY <3>1, <3>2 DEF Asks
    <3>4. (ran[c] + Cardinality(requests[c]) <= Asks(c))'
      BY <2>1, <3>1, <3>2, <3>3
    <3> QED
      BY <3>1, <3>2, <3>4 DEF OutcomeOf, Serving
  <2>5. CASE /\ UNCHANGED <<tool[c], attempt[c], requests[c], ran[c], outcome[c]>>
             /\ pc[c] \in Before /\ pc'[c] \in Before
    BY <2>2, <2>3, <2>5, FS_EmptySet
    DEF OutcomeOf, ConsentOf, Asks, Before, Update1, Reply, Serving
  <2>6. CASE /\ UNCHANGED <<tool[c], attempt[c], requests[c], ran[c]>> /\ pc'[c] = "over"
             /\ outcome'[c] = "ok" => ran[c] > 0
             /\ outcome'[c] \in {"denied", "refused"} => pc[c] \in Before
    BY <2>2, <2>3, <2>6, OutcomeKept
  <2>7. CASE PermissionRequest(c) \/ HooksDone(c) \/ PreToolUse(c)
    BY <2>5, <2>7 DEF PermissionRequest, HooksDone, PreToolUse, Before, Update1
  <2>8. CASE HookFails(c) \/ NotConfigured(c)
    BY <2>6, <2>8 DEF HookFails, NotConfigured
  <2>9. CASE NothingToApply(c) \/ ApplyUpdate(c) \/ LoadPolicy(c) \/ TruncateFile(c) \/ WriteFile(c)
    BY <2>5, <2>6, <2>9, UpdateMoves DEF ToolInv, FileInv, TypeInv, Before, Update1, Reply
  <2>10. CASE CheckPolicy(c)
    BY <2>5, <2>6, <2>10 DEF CheckPolicy, Before
  <2>11. CASE CanUseTool(c)
    BY <2>5, <2>6, <2>11 DEF CanUseTool, Before, Reply
  <2>12. CASE PostToolUse(c)
    BY <2>2, <2>6, <2>12 DEF PostToolUse, OutcomeOf
  <2>13. CASE CallSdkTool(c)
    <3>1. ran[c] = 0 /\ requests[c] = {}
      BY <2>2, <2>13 DEF CallSdkTool, ConsentOf, Before
    <3>2. /\ tool'[c] \notin External /\ ran'[c] = 1 /\ requests'[c] = {}
          /\ pc'[c] = "post" /\ outcome'[c] = "none"
      BY <2>3, <2>13, <3>1 DEF CallSdkTool
    <3> QED
      BY <3>2 DEF OutcomeOf, Asks, Serving
  <2>14. CASE CallExternal(c)
    <3>1. ran[c] = 0 /\ requests[c] = {} /\ Cardinality({}) = 0
      BY <2>2, <2>14, FS_EmptySet DEF CallExternal, ConsentOf, Before
    <3>2. /\ tool'[c] \in External /\ ran'[c] = 0 /\ requests'[c] = {} /\ attempt'[c] = 1
          /\ pc'[c] = "connect" /\ outcome'[c] = "none"
      BY <2>3, <2>14, <3>1 DEF CallExternal
    <3> QED
      BY <3>1, <3>2 DEF OutcomeOf, Asks, Serving
  <2>15. CASE SendRequest(c)
    <3>1. /\ pc[c] = "connect" /\ pc'[c] = "wait" /\ requests'[c] = requests[c] \cup {attempt[c]}
          /\ UNCHANGED <<tool[c], attempt[c], ran[c], outcome[c]>>
      BY <2>15 DEF SendRequest
    <3>2. Cardinality(requests'[c]) <= Cardinality(requests[c]) + 1
          /\ Cardinality(requests'[c]) \in Nat
      <4>1. Cardinality(requests[c] \cup {attempt[c]})
              = IF attempt[c] \in requests[c] THEN Cardinality(requests[c])
                ELSE Cardinality(requests[c]) + 1
        BY <2>1, FS_AddElement
      <4> QED
        BY <2>1, <3>1, <4>1
    <3>3. ran[c] + Cardinality(requests[c]) <= attempt[c] - 1 /\ tool[c] \in External
      BY <2>2, <3>1 DEF OutcomeOf, Asks, Serving
    <3>4. ran'[c] + Cardinality(requests'[c]) <= attempt'[c]
      BY <2>1, <3>1, <3>2, <3>3
    <3> QED
      BY <2>3, <3>1, <3>3, <3>4 DEF OutcomeOf, Asks
  <2>16. CASE ResultArrives(c)
    BY <2>1, <2>2, <2>3, <2>16 DEF ResultArrives, OutcomeOf, Asks, Serving
  <2>17. CASE AttemptFails(c)
    <3>1. CASE UNCHANGED attempt /\ pc'[c] = "over"
      BY <2>6, <2>17, <3>1 DEF AttemptFails
    <3>2. CASE ~ (UNCHANGED attempt /\ pc'[c] = "over")
      <4>1. /\ attempt'[c] = attempt[c] + 1 /\ pc'[c] = "connect" /\ pc[c] \in Serving
            /\ UNCHANGED <<tool[c], requests[c], ran[c], outcome[c]>>
        BY <2>17, <3>2 DEF AttemptFails, Serving
      <4> QED
        BY <2>1, <2>2, <2>3, <4>1 DEF OutcomeOf, Asks, Serving
    <3> QED
      BY <3>1, <3>2
  <2> QED
    BY <2>4, <2>7, <2>8, <2>9, <2>10, <2>11, <2>12, <2>13, <2>14, <2>15, <2>16, <2>17 DEF CallStep
<1> QED
  BY <1>1, <1>2

LEMMA OutcomeOther ==
  ASSUME ToolInv, OutcomeInv, OtherStep
  PROVE  OutcomeInv'
<1> SUFFICES ASSUME NEW d \in Calls PROVE OutcomeOf(d)'
  BY DEF OutcomeInv
<1>1. OutcomeOf(d) /\ TypeOK
  BY DEF OutcomeInv, ToolInv, FileInv, TypeInv
<1>2. /\ IsFiniteSet(requests[d]) /\ Cardinality(requests[d]) \in Nat
      /\ ran[d] \in Nat /\ attempt[d] \in Nat
  BY <1>1, RequestsFinite DEF TypeOK
<1>3. CASE UNCHANGED <<pc[d], outcome[d], ran[d], requests[d]>>
  BY <1>1, <1>3, OtherMoves DEF OutcomeOf, Asks
<1>4. CASE /\ pc'[d] = "over" /\ UNCHANGED <<ran[d], requests[d]>>
           /\ outcome'[d] = IF pc[d] = "over" THEN outcome[d] ELSE "crashed"
  <2>1. UNCHANGED <<tool[d], attempt[d]>>
    BY <1>1, OtherMoves
  <2> QED
    BY <1>1, <1>2, <1>4, <2>1 DEF OutcomeOf, Asks, Serving
<1>5. ASSUME NEW a \in requests[d], requests'[d] = requests[d] \ {a}, ran'[d] = ran[d] + 1,
             outcome'[d] = outcome[d], pc'[d] = pc[d] \/ (pc[d] = "wait" /\ pc'[d] = "result")
      PROVE  OutcomeOf(d)'
  <2>1. Cardinality(requests'[d]) = Cardinality(requests[d]) - 1
    BY <1>2, <1>5, FS_RemoveElement
  <2>2. UNCHANGED <<tool[d], attempt[d]>>
    BY <1>1, OtherMoves
  <2>3. tool[d] \in External /\ Asks(d)' = Asks(d) /\ outcome[d] \notin {"denied", "refused"}
    BY <1>1, <1>5, <2>2 DEF OutcomeOf, Asks
  <2>4. (ran[d] + Cardinality(requests[d]) <= Asks(d))'
    BY <1>1, <1>2, <1>5, <2>1, <2>3 DEF OutcomeOf, Asks
  <2> QED
    BY <1>1, <1>2, <1>5, <2>2, <2>3, <2>4 DEF OutcomeOf, Serving
<1> QED
  BY <1>1, <1>3, <1>4, <1>5, OtherMoves

(* What the model is told of a call is what happened: a success was run, a *)
(* denied call never is, and an external tool runs no more often than it   *)
(* was asked to, late requests included.                                   *)
THEOREM OutcomesAreTrue == Spec => []OutcomeIsTrue
<1>1. Init => OutcomeInv
  BY FS_EmptySet, ToolAssumption DEF Init, OutcomeInv, OutcomeOf, Asks, Serving
<1>2. ToolInv /\ OutcomeInv /\ [Next]_vars => OutcomeInv'
  <2>1. ASSUME OutcomeInv, UNCHANGED vars PROVE OutcomeInv'
    BY <2>1 DEF vars, hookVars, serverVars, OutcomeInv, OutcomeOf, Asks
  <2> QED
    BY <2>1, OutcomeStep, OutcomeOther DEF Next, OtherStep
<1>3. ToolInv /\ OutcomeInv => OutcomeIsTrue
  <2> SUFFICES ASSUME ToolInv, OutcomeInv, NEW c \in Calls
               PROVE  /\ ran[c] + Cardinality(requests[c])
                           <= IF tool[c] \in External THEN attempt[c] ELSE 1
                      /\ attempt[c] <= Attempts
    BY DEF OutcomeInv, OutcomeOf, OutcomeIsTrue
  <2>1. /\ Cardinality(requests[c]) \in Nat /\ ran[c] \in Nat /\ attempt[c] \in Nat
        /\ attempt[c] \in 0 .. Attempts
    BY RequestsFinite DEF ToolInv, FileInv, TypeInv, TypeOK, ServerTypes
  <2>2. Cardinality({}) = 0
    BY FS_EmptySet
  <2>3. OutcomeOf(c)
    BY DEF OutcomeInv
  <2>4. CASE tool[c] \in External
    <3>1. Asks(c) <= attempt[c] /\ Asks(c) \in Int
      BY <2>1 DEF Asks
    <3> QED
      BY <2>1, <2>3, <2>4, <3>1, ToolAssumption DEF OutcomeOf
  <2>5. CASE tool[c] \notin External
    <3>1. requests[c] = {} /\ ran[c] <= 1
      BY <2>3, <2>5 DEF OutcomeOf
    <3>2. Cardinality(requests[c]) = 0 /\ attempt[c] <= Attempts
      BY <2>1, <2>2, <3>1, ToolAssumption
    <3> QED
      BY <2>1, <2>5, <3>1, <3>2
  <2> QED
    BY <2>4, <2>5
<1> QED
  BY <1>1, <1>2, <1>3, ToolAlways, PTL DEF Spec
=============================================================================
