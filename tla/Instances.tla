----------------------------- MODULE Instances -----------------------------
(***************************************************************************)
(* The life of one instance: its row, its directory, its two containers    *)
(* (the agent and the MCP proxy beside it), the commands of an operator,   *)
(* the work they leave in the background, and the delayed refresh of the   *)
(* proxy.                                                                  *)
(*                                                                         *)
(* A command of docker is one step, because the Gate waits for it with its *)
(* event loop stopped (execSync), but for those of stop (exec).  The       *)
(* instance is of type agent; one of type proxy has the proxy for its only *)
(* container and takes the same steps.  Its name, token, port, model and   *)
(* environment are left out, and so are the endpoints that only read, a    *)
(* command whose first read fails, and a directory that an error leaves    *)
(* half written (compose fails on it, and its worker reports that).        *)
(*                                                                         *)
(* Definitions that no action uses are the mistakes the properties are     *)
(* tested against.                                                         *)
(***************************************************************************)
EXTENDS Naturals, FiniteSets

CONSTANTS
  Servers,     \* MCP servers an operator may configure
  Workers,     \* bound: requests and background jobs at once
  MaxCommands, \* bound: commands
  MaxChanges,  \* bound: edits of the MCP servers
  MaxFaults    \* bound: failed commands of docker, statements and writes, ends of the Gate

ASSUME BoundsAssumption == {MaxCommands, MaxChanges, MaxFaults} \subseteq Nat

Container == {"none", "stopped", "up"}
Transient == {"provisioning", "restarting"}
Statuses == Transient \cup {"absent", "running", "stopped", "error"}

VARIABLES
  status,   \* Instance.status, "absent" when there is no row
  servers,  \* enabled McpServerConfig rows
  dir,      \* the instance's directory exists
  file,     \* the servers in .env.mcp-proxy; {}: the compose file has no proxy
  agent,
  proxy,
  loaded,   \* the servers the proxy's container was made with
  timer,    \* pendingProxyRefresh has an entry
  pc,
  seen,     \* servers a worker has read
  commands,
  changes,
  faults,
  amiss     \* history: what a property excuses

containers == <<agent, proxy, loaded>>
disk == <<dir, file>>
rows == <<status, servers>>
worker == <<pc, seen>>
bounds == <<commands, changes, faults>>
vars == <<rows, disk, containers, timer, worker, bounds, amiss>>

Init ==
  /\ status = "absent"
  /\ servers = {}
  /\ dir = FALSE
  /\ file = {}
  /\ agent = "none"
  /\ proxy = "none"
  /\ loaded = {}
  /\ timer = FALSE
  /\ pc = [w \in Workers |-> "idle"]
  /\ seen = [w \in Workers |-> {}]
  /\ commands = 0
  /\ changes = 0
  /\ faults = 0
  /\ amiss = {}

Fault == faults < MaxFaults /\ faults' = faults + 1 /\ UNCHANGED <<commands, changes>>

Refreshing == {"find", "refresh"}

GoTo(w, point) == pc' = [pc EXCEPT ![w] = point] /\ UNCHANGED seen

Busy(w) == pc[w] # "idle"

\* A command is given.  Commands that overlap, and a command that overlaps a refresh, are noted.
Begin(w, point) ==
  /\ ~Busy(w)
  /\ commands < MaxCommands
  /\ commands' = commands + 1
  /\ GoTo(w, point)
  /\ amiss' = amiss \cup (IF \E v \in Workers : Busy(v) /\ pc[v] \notin Refreshing
                          THEN {"tangled"} ELSE {})
                    \cup (IF \E v \in Workers : pc[v] \in Refreshing THEN {"overtaken"} ELSE {})
  /\ UNCHANGED <<changes, faults>>

Note(what) == amiss' = amiss \cup what

\* The update of the row's status rejects, carried out or not, and the worker leaves.
Rejects(w, update, why) ==
  /\ Fault
  /\ status' \in {status, IF status = "absent" THEN status ELSE update}
  /\ GoTo(w, "idle")
  /\ Note({why})

-----------------------------------------------------------------------------
(* docker                                                                  *)

ProxyUp(names) ==
  /\ proxy' = IF names = {} THEN proxy ELSE "up"
  /\ loaded' = IF names = {} THEN loaded ELSE names

\* docker compose up -d: every service of the file is started, a container of a service that
\* has left the file is left alone, and a container may end as soon as it has started.
ComposeUp(names) == agent' \in {"up", "stopped"} /\ ProxyUp(names)

\* It fails before it has touched the agent, or after it has removed the agent's container.
ComposeFails ==
  /\ agent' \in {agent, "none"}
  /\ UNCHANGED <<proxy, loaded>>

\* Nobody looks at the container afterwards; a refresh starts it whatever the row says.
Unwatched ==
  Note((IF agent' # "up" THEN {"ended"} ELSE {})
         \cup (IF status = "stopped" THEN {"revived"} ELSE {}))

\* docker compose up for a worker that goes on at one of two points.
Compose(w, ok, failed) ==
  \/ dir /\ ComposeUp(file) /\ GoTo(w, ok) /\ UNCHANGED <<bounds, amiss>>
  \/ dir /\ Fault /\ ComposeFails /\ GoTo(w, failed) /\ Note({"broken"})
  \/ ~dir /\ GoTo(w, failed) /\ UNCHANGED <<containers, bounds, amiss>>

-----------------------------------------------------------------------------
(* Create, start, restart: up to a container, and then its status          *)

Create(w) ==
  /\ status = "absent"
  /\ commands = 0
  /\ Begin(w, "provision")
  /\ status' = "provisioning"
  /\ UNCHANGED <<servers, disk, containers, timer>>

\* The directory is written without servers, and the containers are started.  If the file system
\* throws, or the row was inserted by a statement that rejects, the request is answered 500 and
\* the row stays as it is.
Provision(w) ==
  /\ pc[w] = "provision"
  /\ \/ /\ dir' = TRUE
        /\ file' = {}
        /\ \/ ComposeUp({}) /\ GoTo(w, "up") /\ Unwatched /\ UNCHANGED bounds
           \/ Fault /\ ComposeFails /\ GoTo(w, "failed") /\ Note({"broken"})
     \/ Fault /\ GoTo(w, "idle") /\ Note({"unreported"}) /\ UNCHANGED <<disk, containers>>
  /\ UNCHANGED <<rows, timer>>

Start(w) ==
  /\ status # "absent"
  /\ Begin(w, "read")
  /\ UNCHANGED <<rows, disk, containers, timer>>

ReadServers(w) ==
  /\ pc[w] = "read"
  /\ \/ /\ pc' = [pc EXCEPT ![w] = "write"]
        /\ seen' = [seen EXCEPT ![w] = servers]
        /\ UNCHANGED bounds
     \/ Fault /\ GoTo(w, "idle")
  /\ UNCHANGED <<rows, disk, containers, timer, amiss>>

\* A missing directory is made again, the compose file is written, the agent is removed; or the
\* file system throws.
WriteDir(w) ==
  /\ pc[w] = "write"
  /\ \/ /\ dir' = TRUE
        /\ file' = seen[w]
        /\ agent' = "none"
        /\ GoTo(w, "mark")
        /\ UNCHANGED <<bounds, amiss>>
     \/ Fault /\ GoTo(w, "idle") /\ Note({"broken"}) /\ UNCHANGED <<disk, agent>>
  /\ UNCHANGED <<rows, proxy, loaded, timer>>

\* The update of a row that is gone rejects, and the command ends.
MarkAs(w, update, next, why) ==
  /\ \/ status # "absent" /\ status' = update /\ GoTo(w, next) /\ UNCHANGED <<bounds, amiss>>
     \/ status = "absent" /\ GoTo(w, "idle") /\ UNCHANGED <<status, bounds, amiss>>
     \/ Rejects(w, update, why)
  /\ UNCHANGED <<servers, disk, containers, timer>>

Mark(w) == pc[w] = "mark" /\ MarkAs(w, "provisioning", "compose", "unreported")

Restart(w) ==
  /\ status # "absent"
  /\ dir
  /\ Begin(w, "restart")
  /\ UNCHANGED <<rows, disk, containers, timer>>

MarkRestart(w) == pc[w] = "restart" /\ MarkAs(w, "restarting", "compose", "unreported")

\* doStart and doRestart (whose stop is undone by the up that follows it).
ComposeStep(w) ==
  /\ pc[w] = "compose"
  /\ Compose(w, "poll", "failed")
  /\ UNCHANGED <<rows, disk, timer>>

AssumedReady == TRUE

Ready == agent = "up"

GiveUpSilently(w) == GoTo(w, "idle")

GiveUp(w) == GoTo(w, "failed")

\* Six looks at the container, five seconds apart; create does not look.
Poll(w) ==
  /\ pc[w] = "poll"
  /\ IF Ready THEN GoTo(w, "up") ELSE GiveUp(w)
  /\ UNCHANGED <<rows, disk, containers, timer, bounds, amiss>>

Reported(w) == IF pc[w] = "up" THEN "running" ELSE "error"

\* The row takes the outcome, whatever it has become since; a row that is gone stays gone.  If
\* the update rejects, a worker that was to report success reports an error instead, and one that
\* was to report an error says nothing.
Report(w) ==
  /\ pc[w] \in {"up", "failed"}
  /\ \/ /\ status' = IF status = "absent" THEN status ELSE Reported(w)
        /\ GoTo(w, "idle")
        /\ UNCHANGED <<bounds, amiss>>
     \/ /\ pc[w] = "up"
        /\ Fault
        /\ status' \in {status, IF status = "absent" THEN status ELSE "running"}
        /\ GoTo(w, "failed")
        /\ UNCHANGED amiss
     \/ pc[w] = "failed" /\ Rejects(w, "error", "unreported")
  /\ UNCHANGED <<servers, disk, containers, timer>>

-----------------------------------------------------------------------------
(* Stop, delete, update                                                    *)

Stopped(c) == IF c = "up" THEN "stopped" ELSE c

Stop(w) ==
  /\ status # "absent"
  /\ Begin(w, "stop")
  /\ UNCHANGED <<rows, disk, containers, timer>>

\* The row says stopped at once; docker stop runs in the background.
MarkStop(w) == pc[w] = "stop" /\ MarkAs(w, "stopped", "stopAgent", "broken")

StopAgent(w) ==
  /\ pc[w] = "stopAgent"
  /\ \/ agent' = Stopped(agent) /\ UNCHANGED <<bounds, amiss>>
     \/ Fault /\ Note({"broken"}) /\ UNCHANGED agent
  /\ GoTo(w, "stopProxy")
  /\ UNCHANGED <<rows, disk, proxy, loaded, timer>>

StopProxy(w) ==
  /\ pc[w] = "stopProxy"
  /\ proxy' = Stopped(proxy)
  /\ GoTo(w, "idle")
  /\ UNCHANGED <<rows, disk, agent, loaded, timer, bounds, amiss>>

Delete(w) ==
  /\ status # "absent"
  /\ Begin(w, "remove")
  /\ UNCHANGED <<rows, disk, containers, timer>>

\* docker stop may take longer than the Gate waits for it, and then nothing is removed.
Remove(w) ==
  /\ pc[w] = "remove"
  /\ \/ agent' = "none" /\ proxy' = "none" /\ UNCHANGED <<bounds, amiss>>
     \/ Fault /\ Note({"broken"}) /\ agent' = Stopped(agent) /\ proxy' = Stopped(proxy)
  /\ dir' = FALSE
  /\ GoTo(w, "erase")
  /\ UNCHANGED <<rows, file, loaded, timer>>

Erase(w) ==
  /\ pc[w] = "erase"
  /\ \/ status' = "absent" /\ servers' = {} /\ UNCHANGED <<bounds, amiss>>
     \/ Fault /\ Note({"broken"}) /\ UNCHANGED rows
  /\ GoTo(w, "idle")
  /\ UNCHANGED <<disk, containers, timer>>

\* An update that needs a restart goes by the status it has read; without a restart it
\* changes nothing here.
Update(w) ==
  /\ status = "running"
  /\ Begin(w, "recreate")
  /\ UNCHANGED <<rows, disk, containers, timer>>

\* The failure is logged.  The update of a row that is gone rejects.
Recreate(w) ==
  /\ pc[w] = "recreate"
  /\ GoTo(w, "idle")
  /\ IF status = "absent" \/ ~dir THEN UNCHANGED <<containers, bounds, amiss>>
     ELSE \/ ComposeUp(file) /\ Unwatched /\ UNCHANGED bounds
          \/ Fault /\ ComposeFails /\ Note({"broken"})
  /\ UNCHANGED <<rows, disk, timer>>

-----------------------------------------------------------------------------
(* The MCP servers and the refresh of the proxy                            *)

Unscheduled == timer

Scheduled == TRUE

\* A server is added, enabled, disabled or removed; the timer starts again, unless the statement
\* rejects though it was carried out.
Change(s) ==
  /\ status # "absent"
  /\ changes < MaxChanges
  /\ changes' = changes + 1
  /\ servers' = IF s \in servers THEN servers \ {s} ELSE servers \cup {s}
  /\ \/ timer' = Scheduled /\ UNCHANGED <<faults, amiss>>
     \/ faults < MaxFaults /\ faults' = faults + 1 /\ Note({"broken"}) /\ UNCHANGED timer
  /\ UNCHANGED <<status, disk, containers, worker, commands>>

\* The entry is dropped before the refresh starts.
Fire(w) ==
  /\ timer
  /\ ~Busy(w)
  /\ timer' = FALSE
  /\ GoTo(w, "find")
  /\ Note(IF \E v \in Workers : Busy(v) THEN {"overtaken"} ELSE {})
  /\ UNCHANGED <<rows, disk, containers, bounds>>

\* An instance without a row or a directory is left alone, and one whose rows cannot be read.
Find(w) ==
  /\ pc[w] = "find"
  /\ \/ (status = "absent" \/ ~dir) /\ GoTo(w, "idle") /\ UNCHANGED <<bounds, amiss>>
     \/ /\ status # "absent" /\ dir
        /\ pc' = [pc EXCEPT ![w] = "refresh"] /\ seen' = [seen EXCEPT ![w] = servers]
        /\ UNCHANGED <<bounds, amiss>>
     \/ Fault /\ GoTo(w, "idle") /\ Note({"broken"})
  /\ UNCHANGED <<rows, disk, containers, timer>>

\* With servers the proxy alone is made again; without, every service of the file is started,
\* which is the agent.  To write into a directory that is gone throws, and nobody hears of it.
Refresh(w) ==
  /\ pc[w] = "refresh"
  /\ GoTo(w, "idle")
  /\ file' = IF dir THEN seen[w] ELSE file
  /\ \/ ~dir /\ UNCHANGED <<containers, bounds, amiss>>
     \/ dir /\ seen[w] # {} /\ ProxyUp(seen[w]) /\ UNCHANGED <<agent, bounds, amiss>>
     \/ dir /\ seen[w] = {} /\ ComposeUp({}) /\ Unwatched /\ UNCHANGED bounds
     \/ dir /\ Fault /\ ComposeFails /\ Note({"broken"})
  /\ UNCHANGED <<rows, dir, timer>>

-----------------------------------------------------------------------------

\* The Gate ends: every worker and the timer are gone, and nothing looks for them when it
\* starts again.
Crash ==
  /\ Fault
  /\ pc' = [w \in Workers |-> "idle"]
  /\ timer' = FALSE
  /\ Note({"crashed"})
  /\ UNCHANGED <<rows, disk, containers, seen>>

Next ==
  \/ \E w \in Workers :
       \/ Create(w) \/ Provision(w)
       \/ Start(w) \/ ReadServers(w) \/ WriteDir(w) \/ Mark(w)
       \/ Restart(w) \/ MarkRestart(w) \/ ComposeStep(w) \/ Poll(w) \/ Report(w)
       \/ Stop(w) \/ MarkStop(w) \/ StopAgent(w) \/ StopProxy(w)
       \/ Delete(w) \/ Remove(w) \/ Erase(w)
       \/ Update(w) \/ Recreate(w)
       \/ Fire(w) \/ Find(w) \/ Refresh(w)
  \/ \E s \in Servers : Change(s)
  \/ Crash

Spec == Init /\ [][Next]_vars

-----------------------------------------------------------------------------
(* Properties                                                              *)

Points == {"idle", "provision", "read", "write", "mark", "restart", "compose", "poll", "up",
           "failed", "stop", "stopAgent", "stopProxy", "remove", "erase", "recreate"}
          \cup Refreshing

Faults == {"tangled", "overtaken", "ended", "revived", "broken", "unreported", "crashed"}

\* The values of the rows, the directory, the containers and the workers.
TypeOK ==
  /\ status \in Statuses
  /\ servers \subseteq Servers
  /\ dir \in BOOLEAN
  /\ file \subseteq Servers
  /\ agent \in Container
  /\ proxy \in Container
  /\ loaded \subseteq Servers
  /\ timer \in BOOLEAN
  /\ pc \in [Workers -> Points]
  /\ seen \in [Workers -> SUBSET Servers]
  /\ commands \in 0 .. MaxCommands
  /\ changes \in 0 .. MaxChanges
  /\ faults \in 0 .. MaxFaults
  /\ amiss \subseteq Faults

Excused(why) == amiss \cap why # {}

\* An instance that is provisioning or restarting has somebody who will say how it went.  No
\* timeout and no job looks after such a row: if its worker left without a word, a page that waits
\* for the outcome would wait for ever.  It does in four cases, which are excused: the Gate ends
\* meanwhile, the statement that makes the row transient rejects though it was carried out, the
\* one that would report an error rejects, or the file system throws while a new instance is
\* written.
TransientIsOwned ==
  status \in Transient =>
    \/ Excused({"crashed", "unreported"})
    \/ \E w \in Workers : pc[w] \in {"provision", "compose", "poll", "up", "failed"}

\* When no command is under way, the status is that of the containers: an instance that runs has
\* its agent, one that is stopped has not, one that is gone has left no container behind.  Excused
\* are commands that overlapped, failed or were lost with the Gate, and a container that ended or
\* was started where no command looks.
QuietStatusIsTrue ==
  \/ \E w \in Workers : Busy(w)
  \/ Excused({"tangled", "broken", "unreported", "crashed", "ended", "revived"})
  \/ /\ status = "running" => agent = "up"
     /\ status = "stopped" => agent # "up"
     /\ status = "absent" => agent = "none" /\ proxy = "none"

\* When no command and no refresh is under way or due, the proxy runs with the servers of the
\* instance, whatever order the edits, the commands and the timer came in.  Excused are commands
\* that overlapped a refresh or failed, and an instance without servers, whose last proxy is left
\* running.
ProxyIsCurrent ==
  \/ timer \/ \E w \in Workers : Busy(w)
  \/ Excused({"overtaken", "broken", "crashed"})
  \/ status = "absent"
  \/ /\ dir => file = servers
     /\ proxy = "up" /\ servers # {} => loaded = servers
=============================================================================
