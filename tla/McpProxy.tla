------------------------------ MODULE McpProxy ------------------------------
(***************************************************************************)
(* The MCP proxy of an instance: the sessions of the agents, the calls that*)
(* wait for a reviewer in the memory of a session, and the reloads of the  *)
(* upstream servers on SIGHUP, await by await.                             *)
(*                                                                         *)
(* A server stands for its one tool, and a configuration gives each server *)
(* a kind: "plain" calls go to the upstream client, "vault" calls (a       *)
(* server with connections) to the secure execution of the Gate.  A client *)
(* is named by the reload that made it; Boot is the connecting of main.    *)
(* Answers that change nothing (an unknown tool, an unknown approval,      *)
(* list_pending) are left out, and so are the rows the Gate writes about a *)
(* call and its execution.                                                 *)
(*                                                                         *)
(* Definitions that no action uses are the mistakes the properties are     *)
(* tested against.                                                         *)
(***************************************************************************)
EXTENDS Naturals, FiniteSets

CONSTANTS
  Servers,
  Sessions,    \* SSE connections
  Calls,       \* bound: calls of tools
  Handlers,    \* bound: messages that are handled at once
  Reloads,     \* bound: SIGHUPs, and Boot
  Boot,
  MaxChanges,  \* bound: edits of the configuration
  MaxFaults    \* bound: failures of a request or an upstream server

ASSUME ProxyAssumption ==
  /\ Boot \in Reloads
  /\ {MaxChanges, MaxFaults} \subseteq Nat

Nothing == "nothing"
Kinds == {"plain", "vault"}
Entry == Kinds \cup {Nothing}
ASSUME NothingAssumption == Nothing \notin Servers \cup Sessions \cup Calls \cup Reloads

VARIABLES
  config,    \* the Gate's enabled McpServer rows
  registry,  \* toolRegistry: the kind a tool was registered with
  client,    \* upstreamClients
  open,      \* clients whose transport is open
  reload,    \* where a reload is
  fetched,   \* freshServers of a reload
  visited,   \* servers its closing loop has passed
  link,      \* connectUpstream of a server within a reload
  last,      \* the reload that fetched last
  session,
  tools,     \* tools offered in a session
  deferred,  \* deferredCalls of a session
  home,      \* session of a call, Nothing before it is made
  server,
  kind,      \* config of the call's registry entry, when it was made
  verdict,   \* the Gate's decision or its approval's status
  pc,
  about,     \* the call a handler is about
  using,     \* the client it uses
  changes,
  faults,
  performed, \* history: how often a call was performed
  joined,    \* history: two checks of the call have overlapped
  crowded    \* history: two reloads have overlapped

upstreams == <<registry, client, open>>
reloads == <<reload, fetched, visited, link, last, crowded>>
sessions == <<session, tools>>
calls == <<home, server, kind>>
handlers == <<pc, about, using>>
bounds == <<changes, faults>>
vars == <<config, upstreams, reloads, sessions, deferred, calls, verdict, handlers,
          bounds, performed, joined>>

None == [s \in Servers |-> Nothing]

Init ==
  /\ config \in [Servers -> Entry]
  /\ registry = None
  /\ client = None
  /\ open = {}
  /\ reload = [r \in Reloads |-> IF r = Boot THEN "connect" ELSE "unused"]
  /\ fetched = [r \in Reloads |-> IF r = Boot THEN config ELSE None]
  /\ visited = [r \in Reloads |-> {}]
  /\ link = [r \in Reloads |-> [s \in Servers |->
               IF r = Boot /\ config[s] # Nothing THEN "connecting" ELSE "none"]]
  /\ last = Boot
  /\ session = [x \in Sessions |-> "new"]
  /\ tools = [x \in Sessions |-> {}]
  /\ deferred = [x \in Sessions |-> {}]
  /\ home = [c \in Calls |-> Nothing]
  /\ server = [c \in Calls |-> Nothing]
  /\ kind = [c \in Calls |-> Nothing]
  /\ verdict = [c \in Calls |-> "none"]
  /\ pc = [h \in Handlers |-> "idle"]
  /\ about = [h \in Handlers |-> Nothing]
  /\ using = [h \in Handlers |-> Nothing]
  /\ changes = 0
  /\ faults = 0
  /\ performed = [c \in Calls |-> 0]
  /\ joined = {}
  /\ crowded = FALSE

Fault == faults < MaxFaults /\ faults' = faults + 1

\* A step that may fail: failing counts against the bound.
May(ok) == IF ok THEN UNCHANGED faults ELSE Fault

-----------------------------------------------------------------------------
(* Upstream servers: main and the handler of SIGHUP                        *)

Running(r) == reload[r] \in {"fetch", "close", "connect"}

At(r, phase) == reload' = [reload EXCEPT ![r] = phase]

\* The handlers of two signals share nothing but the maps they change.
Sighup(r) ==
  /\ reload[Boot] = "done"
  /\ reload[r] = "unused"
  /\ At(r, "fetch")
  /\ crowded' = (crowded \/ \E q \in Reloads : Running(q))
  /\ UNCHANGED <<config, upstreams, fetched, visited, link, last, sessions, deferred,
                 calls, verdict, handlers, bounds, performed, joined>>

StaleTools == registry

NoTools == None

\* fetchConfigFromGate answers the empty list for every failure.
Fetch(r) ==
  /\ reload[r] = "fetch"
  /\ \E ok \in BOOLEAN :
       /\ May(ok)
       /\ fetched' = [fetched EXCEPT ![r] = IF ok THEN config ELSE None]
  /\ registry' = NoTools
  /\ last' = r
  /\ At(r, "close")
  /\ UNCHANGED <<config, client, open, visited, link, crowded, sessions, deferred, calls,
                 verdict, handlers, changes, performed, joined>>

Forgotten(s) == open

Closed(s) == open \ {<<s, client[s]>>}

\* The loop over upstreamClients: it also meets an entry that is added meanwhile, and
\* it does not return to one it has passed.
Close(r, s) ==
  /\ reload[r] = "close"
  /\ client[s] # Nothing
  /\ s \notin visited[r]
  /\ visited' = [visited EXCEPT ![r] = @ \cup {s}]
  /\ open' = Closed(s)
  /\ UNCHANGED <<config, registry, client, reload, fetched, link, last, crowded, sessions,
                 deferred, calls, verdict, handlers, bounds, performed, joined>>

Clear(r) ==
  /\ reload[r] = "close"
  /\ \A s \in Servers : client[s] = Nothing \/ s \in visited[r]
  /\ client' = None
  /\ visited' = [visited EXCEPT ![r] = {}]
  /\ At(r, "connect")
  /\ link' = [link EXCEPT ![r] = [s \in Servers |->
                IF fetched[r][s] = Nothing THEN "none" ELSE "connecting"]]
  /\ UNCHANGED <<config, registry, open, fetched, last, crowded, sessions, deferred, calls,
                 verdict, handlers, bounds, performed, joined>>

\* connectUpstream up to the client in the map, and then up to its tools in the registry;
\* a client whose tools cannot be listed stays in the map.
Connect(r, s) ==
  /\ link[r][s] = "connecting"
  /\ \E ok \in BOOLEAN :
       /\ May(ok)
       /\ link' = [link EXCEPT ![r][s] = IF ok THEN "listing" ELSE "none"]
       /\ client' = IF ok THEN [client EXCEPT ![s] = r] ELSE client
       /\ open' = IF ok THEN open \cup {<<s, r>>} ELSE open
  /\ UNCHANGED <<config, registry, reload, fetched, visited, last, crowded, sessions, deferred,
                 calls, verdict, handlers, changes, performed, joined>>

List(r, s) ==
  /\ link[r][s] = "listing"
  /\ link' = [link EXCEPT ![r][s] = "none"]
  /\ registry' = IF <<s, r>> \in open THEN [registry EXCEPT ![s] = fetched[r][s]] ELSE registry
  /\ UNCHANGED <<config, client, open, reload, fetched, visited, last, crowded, sessions,
                 deferred, calls, verdict, handlers, bounds, performed, joined>>

Settled(r) ==
  /\ reload[r] = "connect"
  /\ \A s \in Servers : link[r][s] = "none"
  /\ At(r, "done")
  /\ UNCHANGED <<config, upstreams, fetched, visited, link, last, crowded, sessions, deferred,
                 calls, verdict, handlers, bounds, performed, joined>>

-----------------------------------------------------------------------------
(* Sessions                                                                *)

\* createMcpServerInstance: the tools of a session are those registered when it begins.
Open(x) ==
  /\ reload[Boot] = "done"
  /\ session[x] = "new"
  /\ session' = [session EXCEPT ![x] = "live"]
  /\ tools' = [tools EXCEPT ![x] = {s \in Servers : registry[s] # Nothing}]
  /\ UNCHANGED <<config, upstreams, reloads, deferred, calls, verdict, handlers, bounds,
                 performed, joined>>

\* The transport is forgotten, and with it the way to the session's deferred calls.
Disconnect(x) ==
  /\ session[x] = "live"
  /\ session' = [session EXCEPT ![x] = "closed"]
  /\ UNCHANGED <<config, upstreams, reloads, tools, deferred, calls, verdict, handlers, bounds,
                 performed, joined>>

-----------------------------------------------------------------------------
(* executeToolCall                                                         *)

Handle(h, point, c, w) ==
  /\ pc' = [pc EXCEPT ![h] = point]
  /\ about' = [about EXCEPT ![h] = c]
  /\ using' = [using EXCEPT ![h] = w]

Answer(h) == Handle(h, "idle", Nothing, Nothing)

\* The registry entry is looked up, and kept across the awaits that follow.
Call(h, c, x, s) ==
  /\ pc[h] = "idle"
  /\ home[c] = Nothing
  /\ session[x] = "live"
  /\ s \in tools[x]
  /\ registry[s] # Nothing
  /\ home' = [home EXCEPT ![c] = x]
  /\ server' = [server EXCEPT ![c] = s]
  /\ kind' = [kind EXCEPT ![c] = registry[s]]
  /\ Handle(h, "gate", c, Nothing)
  /\ UNCHANGED <<config, upstreams, reloads, sessions, deferred, verdict, bounds, performed,
                 joined>>

\* executeApprovedToolCall up to its first await: the client is the present one.
Start(h, c) ==
  IF kind[c] = "vault" THEN Handle(h, "vault", c, Nothing)
  ELSE IF client[server[c]] = Nothing THEN Answer(h)
  ELSE Handle(h, "upstream", c, client[server[c]])

\* callGate; a call whose answer is lost may have an approval nobody waits for.
Decide(h) ==
  LET c == about[h] IN
  /\ pc[h] = "gate"
  /\ \E v \in {"allowed", "refused", "pending"} : verdict' = [verdict EXCEPT ![c] = v]
  /\ \E ok \in BOOLEAN :
       /\ May(ok)
       /\ IF ok /\ verdict'[c] = "allowed" THEN Start(h, c) ELSE Answer(h)
       /\ deferred' = IF ok /\ verdict'[c] = "pending"
                      THEN [deferred EXCEPT ![home[c]] = @ \cup {c}] ELSE deferred
  /\ UNCHANGED <<config, upstreams, reloads, sessions, calls, changes, performed, joined>>

\* callGate without an answer: the Gate has not decided.
Unreached(h) ==
  /\ pc[h] = "gate"
  /\ Fault
  /\ Answer(h)
  /\ UNCHANGED <<config, upstreams, reloads, sessions, deferred, calls, verdict, changes,
                 performed, joined>>

Perform(c) == performed' = [performed EXCEPT ![c] = @ + 1]

\* client.callTool: a closed client rejects, an open one performs the call or fails.
Upstream(h) ==
  LET c == about[h] IN
  /\ pc[h] = "upstream"
  /\ \/ /\ <<server[c], using[h]>> \in open
        /\ Perform(c)
        /\ UNCHANGED faults
     \/ /\ May(<<server[c], using[h]>> \notin open)
        /\ UNCHANGED performed
  /\ Answer(h)
  /\ UNCHANGED <<config, upstreams, reloads, sessions, deferred, calls, verdict, changes, joined>>

\* POST /api/tool/structured-execute up to the pre-execution check: connections, scope,
\* credentials and verification may refuse, and then nothing has been performed.
Check(h) ==
  /\ pc[h] = "vault"
  /\ \E ok \in BOOLEAN :
       /\ May(ok)
       /\ IF ok THEN Handle(h, "secure", about[h], Nothing) ELSE Answer(h)
  /\ UNCHANGED <<config, upstreams, reloads, sessions, deferred, calls, verdict, changes,
                 performed, joined>>

\* executeMcpToolCall: the container runs the call, or fails before it does.
Secure(h) ==
  /\ pc[h] = "secure"
  /\ \/ Perform(about[h]) /\ UNCHANGED faults
     \/ Fault /\ UNCHANGED performed
  /\ Answer(h)
  /\ UNCHANGED <<config, upstreams, reloads, sessions, deferred, calls, verdict, changes, joined>>

-----------------------------------------------------------------------------
(* wooblay__check_approval                                                 *)

CheckApproval(h, c) ==
  /\ pc[h] = "idle"
  /\ home[c] # Nothing
  /\ session[home[c]] = "live"
  /\ c \in deferred[home[c]]
  /\ Handle(h, "ask", c, Nothing)
  /\ joined' = IF \E g \in Handlers : pc[g] = "ask" /\ about[g] = c THEN joined \cup {c} ELSE joined
  /\ UNCHANGED <<config, upstreams, reloads, sessions, deferred, calls, verdict, bounds, performed>>

NotRefused(status) == status \in {"approved", "expired"}

Granted(status) == status = "approved"

StillHeld(c) == deferred[home[c]]

Removed(c) == deferred[home[c]] \ {c}

\* checkApprovalOnce and what follows it: the entry goes before the call is performed, and
\* nobody looks whether it was still there.
Resolve(h) ==
  LET c == about[h] IN
  /\ pc[h] = "ask"
  /\ \E ok \in BOOLEAN :
       /\ May(ok)
       /\ IF ok /\ verdict[c] # "pending"
          THEN /\ deferred' = [deferred EXCEPT ![home[c]] = Removed(c)]
               /\ IF Granted(verdict[c]) THEN Start(h, c) ELSE Answer(h)
          ELSE Answer(h) /\ UNCHANGED deferred
  /\ UNCHANGED <<config, upstreams, reloads, sessions, calls, verdict, changes, performed, joined>>

-----------------------------------------------------------------------------
(* Around the proxy                                                        *)

\* The approval of a call is decided, or its time runs out.
Review(c) ==
  /\ verdict[c] = "pending"
  /\ \E v \in {"approved", "denied", "expired"} : verdict' = [verdict EXCEPT ![c] = v]
  /\ UNCHANGED <<config, upstreams, reloads, sessions, deferred, calls, handlers, bounds,
                 performed, joined>>

Configure(s) ==
  /\ changes < MaxChanges
  /\ changes' = changes + 1
  /\ \E e \in Entry \ {config[s]} : config' = [config EXCEPT ![s] = e]
  /\ UNCHANGED <<upstreams, reloads, sessions, deferred, calls, verdict, handlers, faults,
                 performed, joined>>

Die(s, r) ==
  /\ <<s, r>> \in open
  /\ Fault
  /\ open' = open \ {<<s, r>>}
  /\ UNCHANGED <<config, registry, client, reloads, sessions, deferred, calls, verdict, handlers,
                 changes, performed, joined>>

Next ==
  \/ \E r \in Reloads : Sighup(r) \/ Fetch(r) \/ Clear(r) \/ Settled(r)
  \/ \E r \in Reloads, s \in Servers : Close(r, s) \/ Connect(r, s) \/ List(r, s) \/ Die(s, r)
  \/ \E x \in Sessions : Open(x) \/ Disconnect(x)
  \/ \E h \in Handlers, c \in Calls :
       CheckApproval(h, c) \/ \E x \in Sessions, s \in Servers : Call(h, c, x, s)
  \/ \E h \in Handlers :
       Decide(h) \/ Unreached(h) \/ Upstream(h) \/ Check(h) \/ Secure(h) \/ Resolve(h)
  \/ \E c \in Calls : Review(c)
  \/ \E s \in Servers : Configure(s)

Spec == Init /\ [][Next]_vars

-----------------------------------------------------------------------------
(* Properties                                                              *)

\* Every variable has its type: the two maps of the proxy, its sessions, the handlers of
\* messages and the reloads.
TypeOK ==
  /\ config \in [Servers -> Entry] /\ registry \in [Servers -> Entry]
  /\ client \in [Servers -> Reloads \cup {Nothing}]
  /\ open \subseteq Servers \X Reloads
  /\ reload \in [Reloads -> {"unused", "fetch", "close", "connect", "done"}]
  /\ fetched \in [Reloads -> [Servers -> Entry]]
  /\ visited \in [Reloads -> SUBSET Servers]
  /\ link \in [Reloads -> [Servers -> {"none", "connecting", "listing"}]]
  /\ last \in Reloads /\ crowded \in BOOLEAN
  /\ session \in [Sessions -> {"new", "live", "closed"}]
  /\ tools \in [Sessions -> SUBSET Servers]
  /\ deferred \in [Sessions -> SUBSET Calls]
  /\ home \in [Calls -> Sessions \cup {Nothing}]
  /\ server \in [Calls -> Servers \cup {Nothing}]
  /\ kind \in [Calls -> Entry]
  /\ verdict \in [Calls -> {"none", "allowed", "refused", "pending", "approved", "denied", "expired"}]
  /\ pc \in [Handlers -> {"idle", "gate", "upstream", "vault", "secure", "ask"}]
  /\ about \in [Handlers -> Calls \cup {Nothing}]
  /\ using \in [Handlers -> Reloads \cup {Nothing}]
  /\ changes \in 0..MaxChanges /\ faults \in 0..MaxFaults
  /\ performed \in [Calls -> Nat] /\ joined \subseteq Calls

\* A call that was performed had been allowed by the policy or approved by a reviewer,
\* whatever sessions, reloads and failures did in between.  The secure execution of the
\* Gate does not ask again, so this rests on the proxy alone.
PerformedIsPermitted ==
  \A c \in Calls : performed[c] > 0 => verdict[c] \in {"allowed", "approved"}

\* A call is performed at most once, unless two checks of its approval have overlapped:
\* each then finds the approval granted and performs the call.
RepeatsNeedOverlap == \A c \in Calls : performed[c] > 1 => c \in joined

\* When no reload runs and none have overlapped, every registered tool has the kind and the
\* client the last reload gave it, and no client is open that the map has forgotten.
QuietProxyIsConsistent ==
  ~crowded /\ (\A r \in Reloads : ~Running(r)) =>
    /\ \A s \in Servers : registry[s] # Nothing => registry[s] = fetched[last][s] /\ client[s] = last
    /\ \A s \in Servers, r \in Reloads : <<s, r>> \in open => client[s] = r
=============================================================================
