-------------------------------- MODULE Setup --------------------------------
(***************************************************************************)
(* What a client is set up with and what comes of it: options.go and       *)
(* clientImpl.Start (client_impl.go), the MCP server maps, the registry of *)
(* tools offered to the model (internal/tools/registry.go), the session    *)
(* resumed or forked (internal/session/manager.go), and the fields of the  *)
(* requests (Request).                                                     *)
(*                                                                         *)
(* Clients of one process may be given the same MCP server map, which      *)
(* Start writes to; clients one after another may use the same store.      *)
(* Start runs under the client's mutex, its parts in the order written     *)
(* here; it leaves what it did when a later part fails, and may be called  *)
(* again.  Runs, tool calls and the saving of one session in detail are    *)
(* the subject of QueryRun, ToolUse and SessionStore.                      *)
(***************************************************************************)
EXTENDS Request

CONSTANTS
  Clients,
  OptionLists,   \* lists of options an application calls Start with
  CallerServers, \* the map an application passes to WithMCPServers
  ConfigServers, \* the servers in the JSON given to WithMCPConfig
  Shared, Nil,   \* where the caller's map is; no map
  Serial,        \* a client uses a store only when the others have left it
  MaxStarts,     \* bound: calls of Start of each client
  MaxTurns,      \* bound: requests of each client
  MaxFaults      \* bound: unreachable servers, failed reads and writes, crashes

Modes == {"", "chat", "responses"}

IsList(s) == Len(s) \in Nat /\ s = [i \in 1 .. Len(s) |-> s[i]]

ServerType(s) == s.kind \in {"sdk", "external"} /\ s.tools \in [DOMAIN s.tools -> Clients \cup {Nil}]

ASSUME SetupAssumption ==
  /\ {MaxStarts, MaxTurns, MaxFaults} \subseteq Nat
  /\ Serial \in BOOLEAN /\ Shared # Nil /\ {Shared, Nil} \cap Clients = {}

VARIABLES
  pc,       \* where each client's Start is, "up" when connected
  given,    \* the options of its last call of Start
  pos,      \* how many of them were applied
  cfg,      \* its options
  heap,     \* the server maps: the caller's, and each client's own
  listed,   \* servers its registry has asked for their tools
  status,   \* what the registry recorded of each
  offered,  \* the registry: public names of tools
  mem,      \* its session manager: conversations and fork counters
  durable,  \* the manager saves to the store
  disk,     \* the store
  active,   \* activeSession
  sent,     \* the body of its last request
  starts, turns, faults,
  shown,    \* session ids the application was told
  revived,  \* history variable: forks a resume made anew, not finding them
  sharers,  \* history variable: calls of Start that were given the caller's map
  named     \* history variable: the model each application last asked for

startVars   == <<given, pos, cfg, starts, sharers>>
toolVars    == <<heap, listed, status, offered>>
sessionVars == <<mem, durable, disk, active, shown, revived>>
turnVars    == <<sent, turns, named>>
vars == <<pc, startVars, toolVars, sessionVars, turnVars, faults>>

Goto(c, l) == pc' = [pc EXCEPT ![c] = l]

Fault == faults < MaxFaults /\ faults' = faults + 1

Options ==
  [servers |-> Nil, mcpConfig |-> "none", tools |-> {}, allowed |-> {},
   disallowed |-> {}, canUseTool |-> FALSE, onUserInput |-> FALSE, promptTool |-> "",
   hooks |-> {}, store |-> FALSE, resume |-> <<>>, fork |-> FALSE, mode |-> "",
   model |-> "", request |-> NoFields, extra |-> NoFields]

\* The values the options take; WithSDKTools without a tool does nothing.
OptionType(o) ==
  /\ o.set \in DOMAIN Options \cup {"sdk"}
  /\ o.set = "servers" => o.to = Shared
  /\ o.set = "sdk" => o.to # {}
  /\ o.set = "mcpConfig" => o.to \in {"none", "good", "bad"}
  /\ o.set = "mode" => o.to \in Modes
  /\ o.set \in {"canUseTool", "onUserInput", "store", "fork"} => o.to \in BOOLEAN
  /\ o.set = "resume" => IsList(o.to) /\ o.to # <<>>

ASSUME OptionsAssumption ==
  \A l \in OptionLists : IsList(l) /\ \A i \in DOMAIN l : OptionType(l[i])

ASSUME ServersAssumption ==
  \A servers \in {CallerServers, ConfigServers} : \A s \in DOMAIN servers : ServerType(servers[s])

NoServers == [s \in {} |-> Nil]
NoMemory  == [sessions |-> [n \in {} |-> <<>>], forks |-> [n \in {} |-> 0]]
Default   == <<"default">>
Heap      == [a \in Clients \cup {Shared} |-> IF a = Shared THEN CallerServers ELSE NoServers]
NoRequest == [mode |-> "", tools |-> {}, fields |-> NoFields]

Init ==
  /\ pc = [c \in Clients |-> "new"] /\ given = [c \in Clients |-> <<>>]
  /\ pos = [c \in Clients |-> 0] /\ cfg = [c \in Clients |-> Options]
  /\ heap = Heap
  /\ listed = [c \in Clients |-> {}] /\ status = [c \in Clients |-> NoFields]
  /\ offered = [c \in Clients |-> {}]
  /\ mem = [c \in Clients |-> NoMemory] /\ durable = [c \in Clients |-> FALSE]
  /\ disk = [state |-> "none", mem |-> NoMemory]
  /\ active = [c \in Clients |-> Default] /\ sent = [c \in Clients |-> NoRequest]
  /\ starts = [c \in Clients |-> 0] /\ turns = [c \in Clients |-> 0] /\ faults = 0
  /\ shown = {} /\ revived = {} /\ sharers = {} /\ named = [c \in Clients |-> ""]

-----------------------------------------------------------------------------
(* Start applies the options in order.  An option is [set, to]: the field  *)
(* of Options it sets and the value; a request parameter also has a key.   *)

Sets(list, field) == {i \in DOMAIN list : list[i].set = field}

Idle == {"new", "failed", "ended"}

\* An application resumes a session it named or was told of.
MayGive(c, list) ==
  /\ \A i \in Sets(list, "resume") : Len(list[i].to) = 1 \/ list[i].to \in shown
  /\ Serial /\ (durable[c] \/ Sets(list, "store") # {}) =>
       \A d \in Clients \ {c} :
         \/ pc[d] \in Idle
         \/ ~ durable[d] /\ Sets(given[d], "store") = {}

Start(c) ==
  /\ pc[c] \in {"new", "failed"} /\ starts[c] < MaxStarts
  /\ starts' = [starts EXCEPT ![c] = @ + 1]
  /\ \E list \in OptionLists :
       /\ MayGive(c, list)
       /\ given' = [given EXCEPT ![c] = list]
       /\ sharers' = IF Sets(list, "servers") = {} THEN sharers
                     ELSE sharers \cup {<<c, starts'[c]>>}
  /\ pos' = [pos EXCEPT ![c] = 0] /\ cfg' = [cfg EXCEPT ![c] = Options]
  /\ listed' = [listed EXCEPT ![c] = {}] /\ status' = [status EXCEPT ![c] = NoFields]
  /\ offered' = [offered EXCEPT ![c] = {}]
  /\ Goto(c, "options")
  /\ UNCHANGED <<heap, sessionVars, turnVars, faults>>

SdkServer(c, tools) == [kind |-> "sdk", tools |-> [t \in tools |-> c]]
SdkNames(tools) == {<<"sdk", t>> : t \in tools}

MapOf(c, k) == IF k.servers = Nil THEN c ELSE k.servers   \* made when there is none

SdkAllowed(k, tools) == k.allowed \cup SdkNames(tools)

\* WithSDKTools writes to the map in the options, whosever it is.
WithSDKTools(c, tools) ==
  LET k == cfg[c]
      m == MapOf(c, k)
      old == IF k.servers = Nil THEN NoServers ELSE heap[m]
  IN  /\ heap' = [heap EXCEPT ![m] = Put(old, "sdk", SdkServer(c, tools))]
      /\ cfg' = [cfg EXCEPT ![c] = [k EXCEPT !.servers = m, !.allowed = SdkAllowed(k, tools)]]

\* A parameter of the requests is kept under its name, any other value in its field.
WithParameter(k, o) == [k EXCEPT !.request = Put(@, o.key, o.to)]

With(k, o) == IF o.set = "request" THEN WithParameter(k, o) ELSE [k EXCEPT ![o.set] = o.to]

\* Options that store a value concern nobody else: those up to the next that does.
ApplyOptions(c) ==
  LET l     == given[c]
      next  == Min({j \in Sets(l, "sdk") \cup {Len(l) + 1} : j > pos[c]})
      plain == SubSeq(l, pos[c] + 1, next - 1)
  IN
  /\ pc[c] = "options" /\ pos[c] < Len(l)
  /\ \/ /\ plain = <<>>
        /\ WithSDKTools(c, l[next].to)
        /\ pos' = [pos EXCEPT ![c] = next]
     \/ /\ plain # <<>>
        /\ cfg' = [cfg EXCEPT ![c] = FoldLeft(With, @, plain)]
        /\ pos' = [pos EXCEPT ![c] = next - 1]
        /\ UNCHANGED heap
  /\ UNCHANGED <<pc, given, starts, sharers, listed, status, offered, sessionVars,
                 turnVars, faults>>

-----------------------------------------------------------------------------
(* The options are loaded, completed and validated.                        *)

\* applyMCPConfigToOptions: the servers of the JSON replace those given.
BadConfig(k) == k.mcpConfig = "bad"

DefaultModel == "gpt-4o-mini"
WithDefaults(k) ==
  [k EXCEPT !.mode  = IF @ = "" THEN "chat" ELSE @,
            !.model = IF @ = "" THEN DefaultModel ELSE @]

\* validateAndConfigureCompatibilityOptions: each callback takes the prompt tool name.
Conflict(k) ==
  \/ (k.canUseTool \/ k.onUserInput) /\ k.promptTool # ""
  \/ k.canUseTool /\ k.onUserInput

Prompting(k) ==
  [k EXCEPT !.promptTool = IF k.canUseTool \/ k.onUserInput THEN "stdio" ELSE @]

PromptTool == <<"sdk", "stdio">>

\* ensureUserInputTool: an SDK server is kept, anything else named "sdk" replaced.
WithPromptServer(c, servers) ==
  Put(servers, "sdk",
    IF "sdk" \in DOMAIN servers /\ servers["sdk"].kind = "sdk"
    THEN [kind |-> "sdk", tools |-> Put(servers["sdk"].tools, "stdio", c)]
    ELSE SdkServer(c, {"stdio"}))

AlwaysAllow(k)   == k.allowed \cup {PromptTool}      \* slip: activates the allowlist
PromptAllowed(k) == IF k.allowed = {} THEN {} ELSE k.allowed \cup {PromptTool}

SupportedHooks == {"PreToolUse", "PostToolUse", "UserPromptSubmit", "Stop",
                   "PostToolUseFailure", "PermissionRequest"}

Loaded(c, k) == IF k.mcpConfig = "good" THEN [k EXCEPT !.servers = c] ELSE k
LoadedHeap(c, k) == IF k.mcpConfig = "good" THEN [heap EXCEPT ![c] = ConfigServers] ELSE heap

Configure(c) ==
  LET k == WithDefaults(Loaded(c, cfg[c]))
      h == LoadedHeap(c, cfg[c])
      m == MapOf(c, k)
      old == IF k.servers = Nil THEN NoServers ELSE h[m]
  IN
  /\ pc[c] = "options" /\ pos[c] = Len(given[c])
  /\ \/ /\ BadConfig(cfg[c])
        /\ Goto(c, "failed")
        /\ UNCHANGED <<cfg, heap, named>>
     \/ /\ ~ BadConfig(cfg[c]) /\ Conflict(k)
        /\ Goto(c, "failed") /\ heap' = h
        /\ UNCHANGED <<cfg, named>>
     \/ /\ ~ BadConfig(cfg[c]) /\ ~ Conflict(k)
        /\ IF k.onUserInput
           THEN /\ heap' = [h EXCEPT ![m] = WithPromptServer(c, old)]
                /\ cfg' = [cfg EXCEPT ![c] =
                             [Prompting(k) EXCEPT !.servers = m, !.allowed = PromptAllowed(k)]]
           ELSE heap' = h /\ cfg' = [cfg EXCEPT ![c] = Prompting(k)]
        /\ Goto(c, IF k.hooks \subseteq SupportedHooks THEN "load" ELSE "failed")
        /\ named' = [named EXCEPT ![c] = k.model]
  /\ UNCHANGED <<given, pos, starts, sharers, listed, status, offered, sessionVars,
                 sent, turns, faults>>

-----------------------------------------------------------------------------
(* The session store.                                                      *)

ForgetForks(m) == [m EXCEPT !.forks = NoMemory.forks]    \* slip: not restored
Restored(m)    == m

\* configureSessionPersistence; without a path the manager stays as it was.
LoadStore(c) ==
  /\ pc[c] = "load"
  /\ durable' = [durable EXCEPT ![c] = @ \/ cfg[c].store]
  /\ \/ /\ ~ cfg[c].store \/ disk.state # "whole"  \* no file, or an empty one
        /\ Goto(c, "list")
        /\ UNCHANGED <<mem, faults>>
     \/ /\ cfg[c].store /\ disk.state = "whole"
        /\ mem' = [mem EXCEPT ![c] = Restored(disk.mem)]
        /\ Goto(c, "list")
        /\ UNCHANGED faults
     \/ /\ cfg[c].store
        /\ IF disk.state = "cut" THEN UNCHANGED faults ELSE Fault
        /\ Goto(c, "failed")
        /\ UNCHANGED mem
  /\ UNCHANGED <<startVars, toolVars, disk, active, shown, revived, turnVars>>

(* saveLocked.  Its error is not looked at; a write that fails, or that    *)
(* the process does not survive, leaves a store that does not parse.       *)
Save(c, m) ==
  /\ mem' = [mem EXCEPT ![c] = m]
  /\ \/ /\ disk' = IF durable[c] THEN [state |-> "whole", mem |-> m] ELSE disk
        /\ UNCHANGED faults
     \/ /\ durable[c] /\ Fault
        /\ disk' \in {disk, [disk EXCEPT !.state = "cut"]}

Known(c) == DOMAIN mem[c].sessions

GetOrCreate(c, n) ==
  IF n \in Known(c) THEN UNCHANGED <<mem, disk, faults>>
  ELSE Save(c, [mem[c] EXCEPT !.sessions = Put(@, n, <<>>)])

Forks(c, n) == IF n \in DOMAIN mem[c].forks THEN mem[c].forks[n] ELSE 0
ForkId(c, n) == Append(n, Forks(c, n))

\* resolveInitialSession, up to NewForkID when it forks.
ResolveSession(c) ==
  LET base == cfg[c].resume IN
  /\ pc[c] = "session"
  /\ \/ /\ base = <<>>
        /\ active' = [active EXCEPT ![c] = Default] /\ Goto(c, "up")
        /\ shown' = shown \cup {Default}
        /\ UNCHANGED <<mem, disk, faults, revived>>
     \/ /\ base # <<>> /\ ~ cfg[c].fork
        /\ GetOrCreate(c, base)
        /\ active' = [active EXCEPT ![c] = base] /\ Goto(c, "up")
        /\ shown' = shown \cup {base}
        /\ revived' = IF base \in Known(c) \/ Len(base) = 1 THEN revived ELSE revived \cup {base}
     \/ /\ base # <<>> /\ cfg[c].fork
        /\ Save(c, [mem[c] EXCEPT !.forks = Put(@, base, Forks(c, base) + 1)])
        /\ Goto(c, "fork")
        /\ UNCHANGED <<active, shown, revived>>
  /\ UNCHANGED <<durable, startVars, toolVars, turnVars>>

\* Clone, or GetOrCreate when there is nothing to clone.
Clone(c) ==
  LET base == cfg[c].resume
      fork == ForkId(c, base)
  IN
  /\ pc[c] = "fork"
  /\ IF base \in Known(c)
     THEN Save(c, [mem[c] EXCEPT !.sessions = Put(@, fork, mem[c].sessions[base])])
     ELSE GetOrCreate(c, fork)
  /\ active' = [active EXCEPT ![c] = fork] /\ Goto(c, "up")
  /\ shown' = shown \cup {fork}
  /\ UNCHANGED <<durable, revived, startVars, toolVars, turnVars>>

-----------------------------------------------------------------------------
(* NewRegistry asks every server of the map, in no particular order.  The  *)
(* map may be written meanwhile by the Start of another client.            *)

Servers(c) == IF cfg[c].servers = Nil THEN NoServers ELSE heap[cfg[c].servers]

Permitted(k, n) ==
  /\ k.tools = {} \/ n \in k.tools
  /\ k.allowed = {} \/ n \in k.allowed
  /\ n \notin k.disallowed

NamesOf(s, server) == {<<s, t>> : t \in DOMAIN server.tools}

RecordReady(c, s, st) == IF st = "ready" THEN Put(status[c], s, st) ELSE status[c] \* slip
Record(c, s, st)      == Put(status[c], s, st)

\* listExternalTools: the server cannot be reached or listed, three times over.
ListingFails(server) == server.kind = "external" /\ Fault

ListServer(c) ==
  /\ pc[c] = "list"
  /\ \E s \in DOMAIN Servers(c) \ listed[c] :
       /\ listed' = [listed EXCEPT ![c] = @ \cup {s}]
       /\ \/ /\ offered' = [offered EXCEPT ![c] =
                  @ \cup {n \in NamesOf(s, Servers(c)[s]) : Permitted(cfg[c], n)}]
             /\ status' = [status EXCEPT ![c] = Record(c, s, "ready")]
             /\ UNCHANGED faults
          \/ /\ ListingFails(Servers(c)[s])
             /\ status' = [status EXCEPT ![c] = Record(c, s, "error")]
             /\ UNCHANGED offered
  /\ UNCHANGED <<pc, startVars, heap, sessionVars, turnVars>>

\* A server added during the iteration may be left out: "sdk" is the only such one.
EndList(c) ==
  /\ pc[c] = "list"
  /\ LET written == cfg[c].servers = Shared /\ Cardinality(sharers) > 1
     IN  DOMAIN Servers(c) \ listed[c] \subseteq IF written THEN {"sdk"} ELSE {}
  /\ Goto(c, "session")
  /\ UNCHANGED <<startVars, toolVars, sessionVars, turnVars, faults>>

-----------------------------------------------------------------------------
(* The requests of a connected client.                                     *)

Body(k, tools) ==
  [mode |-> k.mode, tools |-> tools, fields |-> Fields(k.request, k.mode, k.model, tools, k.extra)]

\* A turn: its request, and SetState with what was said.
Ask(c) ==
  /\ pc[c] = "up" /\ turns[c] < MaxTurns
  /\ turns' = [turns EXCEPT ![c] = @ + 1]
  /\ sent' = [sent EXCEPT ![c] = Body(cfg[c], offered[c])]
  /\ LET n   == active[c]
         old == IF n \in Known(c) THEN mem[c].sessions[n] ELSE <<>>
     IN  Save(c, [mem[c] EXCEPT !.sessions = Put(@, n, Append(old, <<c, turns'[c]>>))])
  /\ UNCHANGED <<pc, startVars, toolVars, durable, active, shown, revived, named>>

Models == {"m1", ""}

\* The control plane's SetModel, before a request; nil brings the default back.
SetModel(c) ==
  /\ pc[c] = "up" /\ turns[c] < MaxTurns
  /\ \E m \in Models :
       /\ m # cfg[c].model
       /\ cfg' = [cfg EXCEPT ![c] = WithDefaults([@ EXCEPT !.model = m])]
       /\ named' = [named EXCEPT ![c] = IF m = "" THEN DefaultModel ELSE m]
  /\ UNCHANGED <<pc, given, pos, starts, sharers, toolVars, sessionVars, sent, turns, faults>>

Close(c) ==
  /\ pc[c] = "up"
  /\ Goto(c, "ended")
  /\ UNCHANGED <<startVars, toolVars, sessionVars, turnVars, faults>>

\* The process dies: clients that were started are lost, and so are the maps.
Crash ==
  /\ Fault
  /\ \E c \in Clients : pc[c] \notin Idle
  /\ pc' = [c \in Clients |-> IF pc[c] = "new" THEN "new" ELSE "ended"]
  /\ heap' = Heap /\ sharers' = {}
  /\ UNCHANGED <<given, pos, cfg, starts, listed, status, offered, sessionVars, turnVars>>

Next ==
  \/ \E c \in Clients :
       \/ Start(c) \/ ApplyOptions(c) \/ Configure(c) \/ LoadStore(c) \/ ListServer(c)
       \/ EndList(c) \/ ResolveSession(c) \/ Clone(c) \/ Ask(c) \/ SetModel(c) \/ Close(c)
  \/ Crash

Spec == Init /\ [][Next]_vars

-----------------------------------------------------------------------------
(* Properties.                                                             *)

ServerNames == {"sdk"} \cup DOMAIN CallerServers \cup DOMAIN ConfigServers
Labels      == Idle \cup {"options", "load", "list", "session", "fork", "up"}

MemoryType(m) ==
  /\ \A n \in DOMAIN m.sessions : m.sessions[n] \in Seq(Clients \X (1 .. MaxTurns))
  /\ \A n \in DOMAIN m.forks : m.forks[n] \in Nat \ {0}

(* The values of the variables; every server that was asked has a status,  *)
(* and only the tools of ready ones are offered.                           *)
TypeOK ==
  /\ pc \in [Clients -> Labels] /\ given \in [Clients -> OptionLists \cup {<<>>}]
  /\ \A c \in Clients : pos[c] \in 0 .. Len(given[c])
  /\ \A a \in DOMAIN heap : DOMAIN heap[a] \subseteq ServerNames
                           /\ \A s \in DOMAIN heap[a] : ServerType(heap[a][s])
  /\ \A c \in Clients :
       /\ cfg[c].servers \in {Nil, Shared, c} /\ cfg[c].mode \in Modes
       /\ DOMAIN status[c] = listed[c] /\ listed[c] \subseteq ServerNames
       /\ \A n \in offered[c] : n[1] \in listed[c] /\ status[c][n[1]] = "ready"
       /\ MemoryType(mem[c])
  /\ durable \in [Clients -> BOOLEAN] /\ MemoryType(disk.mem)
  /\ disk.state \in {"none", "cut", "whole"}
  /\ starts \in [Clients -> 0 .. MaxStarts] /\ turns \in [Clients -> 0 .. MaxTurns]
  /\ faults \in 0 .. MaxFaults

LastGiven(l, field, none) == IF Sets(l, field) = {} THEN none ELSE l[Max(Sets(l, field))].to

Prompted(l)  == LastGiven(l, "onUserInput", FALSE)
FromConfig(l) == LastGiven(l, "mcpConfig", "none") = "good"

\* The options that put tools of the SDK into the map that is used: the caller's, once given.
OwnSdk(l) ==
  {i \in Sets(l, "sdk") : /\ ~ FromConfig(l)
                          /\ Sets(l, "servers") # {} => \E j \in Sets(l, "servers") : j < i}

\* The tools a client with these options serves itself.
OwnTools(l) ==
  (IF Prompted(l) THEN {PromptTool} ELSE {})
  \cup (IF OwnSdk(l) = {} THEN {} ELSE SdkNames(l[Max(OwnSdk(l))].to))

GivenServers(l) ==
  IF FromConfig(l) THEN ConfigServers
  ELSE IF Sets(l, "servers") = {} THEN NoServers ELSE CallerServers

\* Its own server takes the name of one it was given, except that it joins one of the SDK.
Replaced(l, s) ==
  s = "sdk" /\ (OwnSdk(l) # {} \/ (Prompted(l) /\ GivenServers(l)[s].kind # "sdk"))

\* All the tools there are for it.
Available(l) ==
  LET kept == {s \in DOMAIN GivenServers(l) : ~ Replaced(l, s)}
  IN  OwnTools(l) \cup UNION {NamesOf(s, GivenServers(l)[s]) : s \in kept}

\* What the last allowlist says, and the SDK tools added to it since.
Allowlist(l) ==
  LET since == {i \in Sets(l, "sdk") : \A j \in Sets(l, "allowed") : j < i}
  IN  LastGiven(l, "allowed", {}) \cup UNION {SdkNames(l[i].to) : i \in since}

OnlyUser(c) ==
  Sets(given[c], "servers") # {} => sharers = {<<c, starts[c]>>}

(* A connected client offers the model exactly the tools its options name: *)
(* those of the servers that answered, that no list excludes, with the     *)
(* tool that asks the user among them whenever there is an allowlist or    *)
(* none; an empty allowlist excludes nothing; and a tool of the SDK is     *)
(* answered by the client's own handler.  Unless another Start was given   *)
(* the same server map: it writes to it.                                   *)
ToolsOffered ==
  \A c \in Clients : pc[c] = "up" /\ OnlyUser(c) =>
    LET l == given[c]
        listTools == LastGiven(l, "tools", {})
        permits(n) ==
          /\ n \notin LastGiven(l, "disallowed", {})
          /\ listTools = {} \/ n \in listTools
          /\ (n = PromptTool /\ Prompted(l)) \/ Allowlist(l) = {} \/ n \in Allowlist(l)
        ready == {s \in listed[c] : status[c][s] = "ready"}
    IN  /\ offered[c] = {n \in Available(l) : n[1] \in ready /\ permits(n)}
        /\ \A n \in offered[c] \cap OwnTools(l) : Servers(c)["sdk"].tools[n[2]] = c

Forked(c) == pc[c] = "fork" /\ pc'[c] = "up"

(* The session a fork starts is one that was not there, neither in memory  *)
(* nor in the store, whatever was forked before and by whom, a crash or a  *)
(* failed write between; and it begins as its base was.  Unless a fork of  *)
(* that id was resumed where it was not kept, and so made anew.            *)
ForkIsNew ==
  [][\A c \in Clients : Forked(c) /\ active'[c] \notin revived =>
       LET base == cfg[c].resume IN
       /\ active'[c] \notin Known(c)
       /\ Serial /\ cfg[c].store /\ disk.state = "whole" =>
            active'[c] \notin DOMAIN disk.mem.sessions
       /\ mem'[c].sessions[active'[c]] =
            IF base \in Known(c) THEN mem[c].sessions[base] ELSE <<>>]_vars

Keys(l) == {l[i].key : i \in Sets(l, "request")}
ParameterOf(l, key) == l[Max({i \in Sets(l, "request") : l[i].key = key})].to

\* The fields an option may go to; none when the API has none.
FieldsOf(key, mode) ==
  CASE key \in {"max_tokens", "max_output_tokens"} ->
         IF mode = "responses" THEN {"max_output_tokens"} ELSE {"max_tokens"}
    [] key = "format" -> IF mode = "responses" THEN {"text"} ELSE {"response_format"}
    [] key = "text"   -> IF mode = "responses" THEN {"text"} ELSE {}
    [] key \in {"effort", "thinking", "budget"} -> {"reasoning"}
    [] key = "user" -> {"user", "metadata"}
    [] key = "openrouter_plugins" -> {"plugins"}
    [] key = "logprobs" /\ mode = "responses" -> {"top_logprobs"}
    [] key \in IF mode = "responses" THEN ChatOnly ELSE ResponsesOnly -> {}
    [] OTHER -> {key}

(* The schema of an output format, however it is wrapped; none when it has *)
(* none, and in the Responses API also when only its wrapping is untyped.  *)
SchemaOf(f, mode) ==
  CASE Typed(f) \/ (mode = "chat" /\ ~ Bare(f)) ->
         IF "json_schema" \in DOMAIN f /\ (Typed(f) \/ f["json_schema"] # NoFields)
         THEN Get(f["json_schema"], "schema", NoFields)
         ELSE Get(f, "schema", NoFields)
    [] OTHER -> IF Bare(f) THEN f ELSE NoFields

SchemaSent(fields, mode) ==
  IF mode = "responses" THEN Get(fields["text"]["format"], "schema", NoFields)
  ELSE Get(Get(fields["response_format"], "json_schema", NoFields), "schema", NoFields)

CarriesOptions(c) ==
  LET l      == given[c]
      b      == sent[c]
      extra  == LastGiven(l, "extra", NoFields)
      own    == [f \in DOMAIN b.fields \ DOMAIN extra |-> b.fields[f]]
      has(k) == k \in Keys(l) /\ FieldsOf(k, b.mode) \subseteq DOMAIN own
      value(k) == ParameterOf(l, k)
      goes   == UNION {FieldsOf(k, b.mode) : k \in Keys(l)}
      direct == {k \in Keys(l) \ {"reasoning", "metadata", "text"} : FieldsOf(k, b.mode) = {k}}
  IN
  /\ b.tools = offered[c] /\ Only(b.fields, DOMAIN extra) = extra
  /\ goes \ {"top_logprobs"} \subseteq DOMAIN b.fields
  /\ DOMAIN own \subseteq goes \cup {"model"} \cup (IF b.tools = {} THEN {} ELSE {"tool_choice"})
  /\ "model" \in DOMAIN own => own["model"] = named[c]
     \* a field has the value given under its own name
  /\ \A k \in direct \cap DOMAIN own : own[k] = value(k)
     \* thinking that was disabled is not enabled by anything else, nor an effort lost
  /\ has("thinking") /\ value("thinking") # "adaptive" =>
       own["reasoning"]["enabled"] = IF value("thinking") = "enabled" THEN "true" ELSE "false"
  /\ has("effort") => own["reasoning"]["effort"] = value("effort")
  /\ has("user") => "user" \in DOMAIN own["metadata"]
     \* the API is told the schema, in the place it has for it
  /\ has("format") /\ SchemaOf(value("format"), b.mode) # NoFields =>
       SchemaSent(own, b.mode) = SchemaOf(value("format"), b.mode)

(* A request names the model the application asked for last, and carries   *)
(* each parameter under the name its API has for it, those of              *)
(* WithOpenRouterExtra over the others: a limit on tokens is sent under    *)
(* either name it was given by, a schema in the wrapping the API expects,  *)
(* and what several options say of the reasoning is put together.          *)
RequestsCarryOptions ==
  [][\A c \in Clients : turns'[c] # turns[c] => CarriesOptions(c)']_vars
=============================================================================
