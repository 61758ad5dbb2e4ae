--------------------------- MODULE ContainersProofs ---------------------------
(***************************************************************************)
(* Theorems about the containers of the Gate: those of an instance         *)
(* (Instances), and those of workspaces with the secrets they take         *)
(* (Workspaces, Vault).                                                    *)
(*                                                                         *)
(* Of Instances, which is extended, for every number of workers, servers,  *)
(* commands, edits and faults: its types; an instance that is provisioning *)
(* or restarting has a worker that will report how it went, but for the    *)
(* excused cases; the status and the proxy of a quiet instance are what    *)
(* they should be.                                                         *)
(*                                                                         *)
(* TransientIsOwned is inductive with the types: the steps that put the    *)
(* row into a transient status leave their worker at a point that ends in  *)
(* Report, every step of such a worker leaves it at another one, and only  *)
(* Report, which settles the status, takes it away; the end of the Gate, a *)
(* rejected update and a file system that throws are noted.                *)
(*                                                                         *)
(* The other two say something of a quiet instance only, so each has an    *)
(* invariant that also speaks of the points in between.  Settled: while no *)
(* two commands overlap, what the status promises is true or is about to   *)
(* be made true by the one command.  Tended: a refresh runs alone, and     *)
(* either the timer is set, so that a refresh is ahead, or all that was    *)
(* read, written and loaded is the servers of now.                         *)
(*                                                                         *)
(* Instances and Workspaces share no variable; the theorems about each are *)
(* of its own specification, first those of Instances, then those of       *)
(* Workspaces.                                                             *)
(***************************************************************************)
EXTENDS Instances, WorkspacesInvariant, TLAPS

\* The points of a worker that will report.
Reporting == {"provision", "compose", "poll", "up", "failed"}

\* A step of the worker w, by the part of the instance's life it belongs to.
StartStep(w) ==
  \/ Create(w) \/ Provision(w)
  \/ Start(w) \/ ReadServers(w) \/ WriteDir(w) \/ Mark(w)
  \/ Restart(w) \/ MarkRestart(w) \/ ComposeStep(w) \/ Poll(w) \/ Report(w)

StopStep(w) ==
  \/ Stop(w) \/ MarkStop(w) \/ StopAgent(w) \/ StopProxy(w)
  \/ Delete(w) \/ Remove(w) \/ Erase(w)
  \/ Update(w) \/ Recreate(w)

RefreshStep(w) == Fire(w) \/ Find(w) \/ Refresh(w)

-----------------------------------------------------------------------------
(* Types                                                                   *)

\* The initial state is well typed.
LEMMA TypeInit == Init => TypeOK
<1>1. MaxCommands \in Nat /\ MaxChanges \in Nat /\ MaxFaults \in Nat
  BY BoundsAssumption
<1> SUFFICES ASSUME Init PROVE TypeOK
  OBVIOUS
<1>2. status \in Statuses /\ agent \in Container /\ proxy \in Container
  BY DEF Init, Statuses, Container
<1>3. pc \in [Workers -> Points] /\ seen \in [Workers -> SUBSET Servers]
  BY DEF Init, Points
<1>4. commands \in 0 .. MaxCommands /\ changes \in 0 .. MaxChanges /\ faults \in 0 .. MaxFaults
  BY <1>1 DEF Init
<1> QED
  BY <1>2, <1>3, <1>4 DEF Init, TypeOK

\* What the helpers of the actions do to the worker, the counters and the history.
LEMMA BeginTypes ==
  ASSUME NEW w \in Workers, NEW point \in Points, TypeOK, Begin(w, point)
  PROVE  /\ pc' \in [Workers -> Points] /\ seen' = seen
         /\ commands' \in 0 .. MaxCommands /\ changes' = changes /\ faults' = faults
         /\ amiss' \subseteq Faults
  BY BoundsAssumption DEF TypeOK, Begin, GoTo, Faults

\* A command of docker leaves containers that exist.
LEMMA ComposeTypes ==
  ASSUME NEW names \in SUBSET Servers, TypeOK, ComposeUp(names) \/ ComposeFails
  PROVE  agent' \in Container /\ proxy' \in Container /\ loaded' \in SUBSET Servers
  BY DEF TypeOK, ComposeUp, ProxyUp, ComposeFails, Container

\* A failure counts against its bound and nothing else does.
LEMMA FaultTypes ==
  ASSUME TypeOK, Fault
  PROVE  faults' \in 0 .. MaxFaults /\ commands' = commands /\ changes' = changes
  BY BoundsAssumption DEF TypeOK, Fault

\* The update of a row leaves it in a status of the row, rejected or not.
LEMMA MarkTypes ==
  ASSUME NEW w \in Workers, NEW update \in Statuses, NEW next \in Points, NEW why \in Faults,
         TypeOK, MarkAs(w, update, next, why)
  PROVE  TypeOK'
<1>1. UNCHANGED <<servers, dir, file, agent, proxy, loaded, timer>>
  BY DEF MarkAs, disk, containers
<1>2. /\ status' \in Statuses /\ pc' \in [Workers -> Points] /\ seen' = seen
      /\ amiss' \subseteq Faults
  BY DEF MarkAs, Rejects, Note, GoTo, TypeOK, Points
<1>3. faults' \in 0 .. MaxFaults /\ commands' = commands /\ changes' = changes
  BY FaultTypes DEF MarkAs, Rejects, bounds, TypeOK
<1> QED
  BY <1>1, <1>2, <1>3 DEF TypeOK

\* Every step keeps the types.
LEMMA TypeStep == TypeOK /\ [Next]_vars => TypeOK'
<1> SUFFICES ASSUME TypeOK, [Next]_vars PROVE TypeOK'
  OBVIOUS
<1>1. ASSUME NEW w \in Workers, StartStep(w) PROVE TypeOK'
  <2>1. CASE Create(w)
    BY <2>1, BeginTypes DEF Create, TypeOK, Points, Statuses, Transient, disk, containers
  <2>2. CASE Provision(w)
    <3>1. agent' \in Container /\ proxy' \in Container /\ loaded' \in SUBSET Servers
      BY <2>2, ComposeTypes DEF Provision, TypeOK, containers
    <3>2. faults' \in 0 .. MaxFaults /\ commands' = commands /\ changes' = changes
      BY <2>2, FaultTypes DEF Provision, bounds, TypeOK
    <3> QED
      BY <2>2, <3>1, <3>2 DEF Provision, TypeOK, Points, Faults, rows, disk, GoTo, Note, Unwatched
  <2>3. CASE Start(w)
    BY <2>3, BeginTypes DEF Start, TypeOK, Points, rows, disk, containers
  <2>4. CASE ReadServers(w) \/ WriteDir(w)
    <3>1. faults' \in 0 .. MaxFaults /\ commands' = commands /\ changes' = changes
      BY <2>4, FaultTypes DEF ReadServers, WriteDir, bounds, TypeOK
    <3> QED
      BY <2>4, <3>1 DEF ReadServers, WriteDir, TypeOK, Points, Faults, Container, rows, disk,
                        containers, GoTo, Note
  <2>5. CASE Mark(w) \/ MarkRestart(w)
    BY <2>5, MarkTypes DEF Mark, MarkRestart, Points, Faults, Statuses, Transient
  <2>6. CASE Restart(w)
    BY <2>6, BeginTypes DEF Restart, TypeOK, Points, rows, disk, containers
  <2>7. CASE ComposeStep(w)
    <3>1. agent' \in Container /\ proxy' \in Container /\ loaded' \in SUBSET Servers
      BY <2>7, ComposeTypes DEF ComposeStep, Compose, TypeOK, containers
    <3>2. faults' \in 0 .. MaxFaults /\ commands' = commands /\ changes' = changes
      BY <2>7, FaultTypes DEF ComposeStep, Compose, bounds, TypeOK
    <3> QED
      BY <2>7, <3>1, <3>2
      DEF ComposeStep, Compose, TypeOK, Points, Faults, rows, disk, GoTo, Note
  <2>8. CASE Poll(w)
    BY <2>8 DEF Poll, GiveUp, TypeOK, Points, rows, disk, containers, bounds, GoTo
  <2>9. CASE Report(w)
    <3>1. faults' \in 0 .. MaxFaults /\ commands' = commands /\ changes' = changes
      BY <2>9, FaultTypes DEF Report, Rejects, bounds, TypeOK
    <3> QED
      BY <2>9, <3>1 DEF Report, Reported, Rejects, Note, TypeOK, Points, Faults, Statuses,
                        disk, containers, GoTo
  <2> QED
    BY <1>1, <2>1, <2>2, <2>3, <2>4, <2>5, <2>6, <2>7, <2>8, <2>9 DEF StartStep
<1>2. ASSUME NEW w \in Workers, StopStep(w) PROVE TypeOK'
  <2>1. CASE Stop(w) \/ Delete(w) \/ Update(w)
    BY <2>1, BeginTypes DEF Stop, Delete, Update, TypeOK, Points, rows, disk, containers
  <2>2. CASE MarkStop(w)
    BY <2>2, MarkTypes DEF MarkStop, Points, Faults, Statuses
  <2>3. CASE StopAgent(w) \/ Remove(w) \/ Erase(w)
    <3>1. faults' \in 0 .. MaxFaults /\ commands' = commands /\ changes' = changes
      BY <2>3, FaultTypes DEF StopAgent, Remove, Erase, bounds, TypeOK
    <3> QED
      BY <2>3, <3>1 DEF StopAgent, Remove, Erase, Stopped, TypeOK, Points, Faults, Statuses,
                        Container, rows, disk, containers, GoTo, Note
  <2>4. CASE StopProxy(w)
    BY <2>4 DEF StopProxy, Stopped, TypeOK, Points, Container, rows, disk, bounds, GoTo
  <2>5. CASE Recreate(w)
    <3>1. agent' \in Container /\ proxy' \in Container /\ loaded' \in SUBSET Servers
      BY <2>5, ComposeTypes DEF Recreate, TypeOK, containers
    <3>2. faults' \in 0 .. MaxFaults /\ commands' = commands /\ changes' = changes
      BY <2>5, FaultTypes DEF Recreate, bounds, TypeOK
    <3> QED
      BY <2>5, <3>1, <3>2
      DEF Recreate, TypeOK, Points, Faults, rows, disk, GoTo, Note, Unwatched
  <2> QED
    BY <1>2, <2>1, <2>2, <2>3, <2>4, <2>5 DEF StopStep
<1>3. ASSUME NEW w \in Workers, RefreshStep(w) PROVE TypeOK'
  <2>1. CASE Fire(w) \/ Find(w)
    <3>1. faults' \in 0 .. MaxFaults /\ commands' = commands /\ changes' = changes
      BY <2>1, FaultTypes DEF Fire, Find, bounds, TypeOK
    <3> QED
      BY <2>1, <3>1 DEF Fire, Find, TypeOK, Points, Faults, Refreshing, rows, disk, containers,
                        GoTo, Note
  <2>2. CASE Refresh(w)
    <3>1. agent' \in Container /\ proxy' \in Container /\ loaded' \in SUBSET Servers
      BY <2>2, ComposeTypes DEF Refresh, TypeOK, containers, ProxyUp, Container
    <3>2. faults' \in 0 .. MaxFaults /\ commands' = commands /\ changes' = changes
      BY <2>2, FaultTypes DEF Refresh, bounds, TypeOK
    <3> QED
      BY <2>2, <3>1, <3>2 DEF Refresh, TypeOK, Points, Faults, rows, GoTo, Note, Unwatched
  <2> QED
    BY <1>3, <2>1, <2>2 DEF RefreshStep
<1>4. ASSUME NEW s \in Servers, Change(s) PROVE TypeOK'
  <2>1. /\ UNCHANGED <<status, dir, file, agent, proxy, loaded, pc, seen, commands>>
        /\ servers' \subseteq Servers /\ timer' \in BOOLEAN /\ amiss' \subseteq Faults
    BY <1>4 DEF Change, Scheduled, TypeOK, Faults, Note, disk, containers, worker
  <2>2. changes' \in 0 .. MaxChanges /\ faults' \in 0 .. MaxFaults
    BY <1>4, BoundsAssumption DEF Change, TypeOK
  <2> QED
    BY <2>1, <2>2 DEF TypeOK
<1>5. CASE Crash
  BY <1>5, FaultTypes DEF Crash, TypeOK, Points, Faults, Note, rows, disk, containers
<1>6. CASE UNCHANGED vars
  BY <1>6 DEF vars, TypeOK, rows, disk, containers, worker, bounds
<1> QED
  BY <1>1, <1>2, <1>3, <1>4, <1>5, <1>6 DEF Next, StartStep, StopStep, RefreshStep

\* Every variable of the life of an instance keeps its type.
THEOREM TypeCorrect == Spec => []TypeOK
  BY TypeInit, TypeStep, PTL DEF Spec

-----------------------------------------------------------------------------
(* Nobody waits for an instance that nobody works on                       *)

\* A worker that reports keeps the property for the status it found.
LEMMA OthersReport ==
  ASSUME TypeOK, TransientIsOwned, status' = status, amiss \subseteq amiss',
         \A w \in Workers : pc[w] \in Reporting => pc'[w] \in Reporting
  PROVE  TransientIsOwned'
  BY DEF TransientIsOwned, Excused, Reporting, Transient

\* Every step keeps TransientIsOwned.
LEMMA OwnedStep == TypeOK /\ TransientIsOwned /\ [Next]_vars => TransientIsOwned'
<1> SUFFICES ASSUME TypeOK, TransientIsOwned, [Next]_vars PROVE TransientIsOwned'
  OBVIOUS
<1>1. ASSUME NEW w \in Workers, StartStep(w) PROVE TransientIsOwned'
  <2>1. CASE Create(w)
    BY <2>1 DEF Create, Begin, GoTo, TransientIsOwned, TypeOK
  <2>2. CASE Provision(w)
    <3>1. CASE Fault /\ GoTo(w, "idle") /\ Note({"unreported"})
      BY <3>1 DEF Note, TransientIsOwned, Excused
    <3>2. CASE ~(Fault /\ GoTo(w, "idle") /\ Note({"unreported"}))
      BY <2>2, <3>2, OthersReport
      DEF Provision, GoTo, TypeOK, Reporting, rows, Unwatched, Note, bounds
    <3> QED
      BY <3>1, <3>2
  <2>3. CASE Start(w) \/ Restart(w)
    BY <2>3, OthersReport DEF Start, Restart, Begin, Busy, GoTo, TypeOK, Reporting, rows
  <2>4. CASE ReadServers(w) \/ WriteDir(w)
    BY <2>4, OthersReport DEF ReadServers, WriteDir, GoTo, TypeOK, Reporting, rows, Note
  <2>5. CASE Mark(w) \/ MarkRestart(w)
    BY <2>5 DEF Mark, MarkRestart, MarkAs, Rejects, Note, GoTo, TypeOK, TransientIsOwned,
                Transient, Excused
  <2>6. CASE ComposeStep(w)
    BY <2>6, OthersReport DEF ComposeStep, Compose, GoTo, TypeOK, Reporting, rows, Note
  <2>7. CASE Poll(w)
    BY <2>7, OthersReport DEF Poll, GiveUp, GoTo, TypeOK, Reporting, rows
  <2>8. CASE Report(w)
    BY <2>8 DEF Report, Reported, Rejects, Note, GoTo, TypeOK, TransientIsOwned, Transient,
                Excused
  <2> QED
    BY <1>1, <2>1, <2>2, <2>3, <2>4, <2>5, <2>6, <2>7, <2>8 DEF StartStep
<1>2. ASSUME NEW w \in Workers, StopStep(w) PROVE TransientIsOwned'
  <2>1. CASE MarkStop(w)
    <3>1. CASE status' = status
      BY <2>1, <3>1, OthersReport
      DEF MarkStop, MarkAs, Rejects, GoTo, TypeOK, Reporting, Note
    <3>2. CASE status' # status
      BY <2>1, <3>2 DEF MarkStop, MarkAs, Rejects, TransientIsOwned, Transient
    <3> QED
      BY <3>1, <3>2
  <2>2. CASE Erase(w)
    <3>1. CASE status' = "absent"
      BY <3>1 DEF TransientIsOwned, Transient
    <3>2. CASE status' # "absent"
      BY <2>2, <3>2, OthersReport DEF Erase, GoTo, TypeOK, Reporting, rows, Note
    <3> QED
      BY <3>1, <3>2
  <2>3. CASE Stop(w) \/ Delete(w) \/ Update(w)
    BY <2>3, OthersReport DEF Stop, Delete, Update, Begin, Busy, GoTo, TypeOK, Reporting, rows
  <2>4. CASE StopAgent(w) \/ StopProxy(w) \/ Remove(w)
    BY <2>4, OthersReport DEF StopAgent, StopProxy, Remove, GoTo, TypeOK, Reporting, rows, Note
  <2>5. CASE Recreate(w)
    BY <2>5, OthersReport DEF Recreate, GoTo, TypeOK, Reporting, rows, Unwatched, Note
  <2> QED
    BY <1>2, <2>1, <2>2, <2>3, <2>4, <2>5 DEF StopStep
<1>3. ASSUME NEW w \in Workers, RefreshStep(w) PROVE TransientIsOwned'
  <2>1. CASE Fire(w)
    BY <2>1, OthersReport DEF Fire, Busy, GoTo, TypeOK, Reporting, rows, Note
  <2>2. CASE Find(w)
    BY <2>2, OthersReport DEF Find, GoTo, TypeOK, Reporting, rows, Note
  <2>3. CASE Refresh(w)
    BY <2>3, OthersReport DEF Refresh, GoTo, TypeOK, Reporting, rows, Unwatched, Note
  <2> QED
    BY <1>3, <2>1, <2>2, <2>3 DEF RefreshStep
<1>4. ASSUME NEW s \in Servers, Change(s) PROVE TransientIsOwned'
  BY <1>4, OthersReport DEF Change, Note, worker
<1>5. CASE Crash
  BY <1>5 DEF Crash, Note, TransientIsOwned, Excused
<1>6. CASE UNCHANGED vars
  BY <1>6, OthersReport DEF vars, rows, worker
<1> QED
  BY <1>1, <1>2, <1>3, <1>4, <1>5, <1>6 DEF Next, StartStep, StopStep, RefreshStep

\* An instance that is provisioning or restarting has a worker that will say how it went, unless
\* the Gate has ended, an update of its status was rejected, or the file system threw while the
\* instance was written.
THEOREM TransientHasAWorker == Spec => []TransientIsOwned
<1>1. Init => TransientIsOwned
  BY DEF Init, TransientIsOwned, Transient
<1> QED
  BY <1>1, TypeInit, TypeStep, OwnedStep, PTL DEF Spec

-----------------------------------------------------------------------------
(* The status and the containers                                           *)

\* A worker in the middle of a command.
Commanding(w) == Busy(w) /\ pc[w] \notin Refreshing

\* With one command at a time: what the status and the containers are at each point of it.
Settled ==
  /\ \A v, w \in Workers : Commanding(v) /\ Commanding(w) => v = w
  /\ status = "absent" =>
       /\ ~dir /\ agent = "none" /\ proxy = "none"
       /\ \A w \in Workers : ~Commanding(w)
  /\ status = "running" => agent = "up" \/ \E w \in Workers : pc[w] \in {"mark", "erase"}
  /\ status = "stopped" => agent # "up" \/ \E w \in Workers : pc[w] = "stopAgent"
  /\ \A w \in Workers :
       /\ pc[w] = "up" => agent = "up"
       /\ pc[w] = "erase" => ~dir /\ agent = "none" /\ proxy = "none"
       /\ pc[w] \in Reporting \ {"failed"} => status \in Transient
       /\ pc[w] = "failed" => status \in Transient \/ (status = "running" /\ agent = "up")
       /\ pc[w] \in {"stopAgent", "stopProxy"} => status = "stopped"

StatusExcused == Excused({"tangled", "broken", "unreported", "crashed", "ended", "revived"})

StatusInv == StatusExcused \/ Settled

\* What was noted stays noted.
LEMMA AmissStays == TypeOK /\ [Next]_vars => amiss \subseteq amiss'
  BY DEF Next, Create, Provision, Start, ReadServers, WriteDir, Mark, Restart, MarkRestart,
    MarkAs, Rejects, ComposeStep, Compose, Poll, Report, Stop, MarkStop, StopAgent, StopProxy,
    Delete, Remove, Erase, Update, Recreate, Fire, Find, Refresh, Change, Crash, Begin, Note,
    Unwatched, vars

\* A command begins alone, or the overlap is noted.
LEMMA BeginAlone ==
  ASSUME TypeOK, NEW w \in Workers, NEW point \in Points \ (Refreshing \cup {"idle"}),
         Begin(w, point), ~StatusExcused'
  PROVE  /\ \A v \in Workers : ~Commanding(v)
         /\ \A v \in Workers : v # w => pc'[v] = pc[v]
         /\ pc'[w] = point
         /\ \A v \in Workers : Commanding(v)' <=> v = w
  <1>1. \A v \in Workers : ~Commanding(v)
    BY DEF Begin, StatusExcused, Excused, Commanding
  <1>2. pc'[w] = point /\ \A v \in Workers : v # w => pc'[v] = pc[v]
    BY DEF Begin, GoTo, TypeOK
  <1> QED
    BY <1>1, <1>2 DEF Commanding, Busy

\* The commands that start an instance keep its status and its containers in step.
LEMMA StartSettled ==
  ASSUME TypeOK, Settled, NEW w \in Workers, StartStep(w), ~StatusExcused'
  PROVE  Settled'
<1> USE DEF Reporting, Transient, Refreshing
<1>1. CASE Create(w)
  <2>1. /\ \A v \in Workers : ~Commanding(v) /\ (v # w => pc'[v] = pc[v])
        /\ pc'[w] = "provision" /\ \A v \in Workers : Commanding(v)' <=> v = w
    BY <1>1, BeginAlone DEF Create, Points
  <2> QED
    BY <1>1, <2>1 DEF Create, Settled, Commanding, Busy, disk, containers
<1>2. CASE Provision(w)
  <2>1. agent' = "up" /\ pc' = [pc EXCEPT ![w] = "up"] /\ status' = status
    BY <1>2 DEF Provision, GoTo, Unwatched, Note, StatusExcused, Excused, rows
  <2> QED
    BY <1>2, <2>1 DEF Settled, Commanding, Busy, TypeOK, Provision
<1>3. CASE Start(w)
  <2>1. /\ \A v \in Workers : ~Commanding(v) /\ (v # w => pc'[v] = pc[v])
        /\ pc'[w] = "read" /\ \A v \in Workers : Commanding(v)' <=> v = w
    BY <1>3, BeginAlone DEF Start, Points
  <2> QED
    BY <1>3, <2>1 DEF Start, Settled, Commanding, Busy, rows, disk, containers
<1>4. CASE ReadServers(w)
  <2>1. /\ pc' = [pc EXCEPT ![w] = "write"] \/ pc' = [pc EXCEPT ![w] = "idle"]
        /\ Commanding(w) /\ UNCHANGED <<status, dir, agent, proxy>> /\ pc[w] = "read"
    BY <1>4 DEF ReadServers, GoTo, rows, disk, containers, Commanding, Busy
  <2> QED
    BY <2>1 DEF Settled, Commanding, Busy, TypeOK
<1>5. CASE WriteDir(w)
  <2>1. /\ Commanding(w) /\ pc' = [pc EXCEPT ![w] = "mark"] /\ status' = status
        /\ agent' = "none"
    BY <1>5 DEF WriteDir, GoTo, Note, StatusExcused, Excused, rows, Commanding, Busy
  <2> QED
    BY <1>5, <2>1 DEF WriteDir, Settled, Commanding, Busy, TypeOK
<1>6. CASE Mark(w)
  <2>1. Commanding(w) /\ status # "absent"
    BY <1>6 DEF Mark, Settled, Commanding, Busy
  <2>2. /\ pc' = [pc EXCEPT ![w] = "compose"] /\ status' = "provisioning"
        /\ UNCHANGED <<dir, agent, proxy>>
    BY <1>6, <2>1 DEF Mark, MarkAs, Rejects, Note, StatusExcused, Excused, GoTo, disk, containers
  <2> QED
    BY <2>1, <2>2 DEF Settled, Commanding, Busy, TypeOK
<1>7. CASE Restart(w)
  <2>1. /\ \A v \in Workers : ~Commanding(v) /\ (v # w => pc'[v] = pc[v])
        /\ pc'[w] = "restart" /\ \A v \in Workers : Commanding(v)' <=> v = w
    BY <1>7, BeginAlone DEF Restart, Points
  <2> QED
    BY <1>7, <2>1 DEF Restart, Settled, Commanding, Busy, rows, disk, containers
<1>8. CASE MarkRestart(w)
  <2>1. Commanding(w) /\ status # "absent"
    BY <1>8 DEF MarkRestart, Settled, Commanding, Busy
  <2>2. /\ pc' = [pc EXCEPT ![w] = "compose"] /\ status' = "restarting"
        /\ UNCHANGED <<dir, agent, proxy>>
    BY <1>8, <2>1
    DEF MarkRestart, MarkAs, Rejects, Note, StatusExcused, Excused, GoTo, disk, containers
  <2> QED
    BY <2>1, <2>2 DEF Settled, Commanding, Busy, TypeOK
<1>9. CASE ComposeStep(w)
  <2>1. /\ pc[w] = "compose" /\ status' = status /\ dir' = dir
        /\ GoTo(w, "poll") \/ GoTo(w, "failed")
    BY <1>9 DEF ComposeStep, Compose, rows, disk
  <2>2. pc' = [pc EXCEPT ![w] = "poll"] \/ pc' = [pc EXCEPT ![w] = "failed"]
    BY <2>1 DEF GoTo
  <2>3. Commanding(w) /\ status \in Transient
    BY <2>1 DEF Settled, Commanding, Busy
  <2> QED
    BY <2>1, <2>2, <2>3 DEF Settled, Commanding, Busy, TypeOK
<1>10. CASE Poll(w)
  <2>1. /\ pc[w] = "poll" /\ UNCHANGED <<status, dir, agent, proxy>>
        /\ \/ agent = "up" /\ pc' = [pc EXCEPT ![w] = "up"]
           \/ pc' = [pc EXCEPT ![w] = "failed"]
    BY <1>10 DEF Poll, Ready, GiveUp, GoTo, rows, disk, containers
  <2>2. Commanding(w) /\ status \in Transient
    BY <2>1 DEF Settled, Commanding, Busy
  <2> QED
    BY <2>1, <2>2 DEF Settled, Commanding, Busy, TypeOK
<1>11. CASE Report(w)
  <2>1. pc[w] \in {"up", "failed"} /\ UNCHANGED <<dir, agent, proxy>>
    BY <1>11 DEF Report, disk, containers
  <2>2. Commanding(w) /\ status # "absent" /\ (pc[w] = "up" => agent = "up")
    BY <2>1 DEF Settled, Commanding, Busy
  <2>3. \/ /\ pc' = [pc EXCEPT ![w] = "idle"]
           /\ (status' = "running" /\ agent = "up") \/ status' = "error"
        \/ /\ pc' = [pc EXCEPT ![w] = "failed"] /\ pc[w] = "up"
           /\ status' = status \/ status' = "running"
    BY <1>11, <2>1, <2>2
    DEF Report, Reported, Rejects, Note, GoTo, StatusExcused, Excused
  <2> QED
    BY <2>1, <2>2, <2>3 DEF Settled, Commanding, Busy, TypeOK
<1> QED
  BY <1>1, <1>2, <1>3, <1>4, <1>5, <1>6, <1>7, <1>8, <1>9, <1>10, <1>11 DEF StartStep

\* So do those that stop, delete and update it.
LEMMA StopSettled ==
  ASSUME TypeOK, Settled, NEW w \in Workers, StopStep(w), ~StatusExcused'
  PROVE  Settled'
<1> USE DEF Reporting, Transient, Refreshing
<1>1. CASE Stop(w)
  <2>1. /\ \A v \in Workers : ~Commanding(v) /\ (v # w => pc'[v] = pc[v])
        /\ pc'[w] = "stop" /\ \A v \in Workers : Commanding(v)' <=> v = w
    BY <1>1, BeginAlone DEF Stop, Points
  <2> QED
    BY <1>1, <2>1 DEF Stop, Settled, Commanding, Busy, rows, disk, containers
<1>2. CASE StopAgent(w)
  <2>1. /\ pc[w] = "stopAgent" /\ agent' = Stopped(agent) /\ UNCHANGED <<status, dir, proxy>>
        /\ pc' = [pc EXCEPT ![w] = "stopProxy"]
    BY <1>2 DEF StopAgent, Note, StatusExcused, Excused, GoTo, rows, disk
  <2>2. Commanding(w) /\ status = "stopped" /\ agent' # "up"
    BY <2>1 DEF Settled, Commanding, Busy, Stopped
  <2> QED
    BY <2>1, <2>2 DEF Settled, Commanding, Busy, TypeOK
<1>3. CASE StopProxy(w)
  <2>1. /\ pc[w] = "stopProxy" /\ UNCHANGED <<status, dir, agent>>
        /\ pc' = [pc EXCEPT ![w] = "idle"]
    BY <1>3 DEF StopProxy, GoTo, rows, disk
  <2>2. Commanding(w) /\ status = "stopped"
    BY <2>1 DEF Settled, Commanding, Busy
  <2> QED
    BY <2>1, <2>2 DEF Settled, Commanding, Busy, TypeOK
<1>4. CASE Delete(w)
  <2>1. /\ \A v \in Workers : ~Commanding(v) /\ (v # w => pc'[v] = pc[v])
        /\ pc'[w] = "remove" /\ \A v \in Workers : Commanding(v)' <=> v = w
    BY <1>4, BeginAlone DEF Delete, Points
  <2> QED
    BY <1>4, <2>1 DEF Delete, Settled, Commanding, Busy, rows, disk, containers
<1>5. CASE Remove(w)
  <2>1. /\ pc[w] = "remove" /\ agent' = "none" /\ proxy' = "none" /\ ~dir' /\ status' = status
        /\ pc' = [pc EXCEPT ![w] = "erase"]
    BY <1>5 DEF Remove, Note, StatusExcused, Excused, GoTo, rows
  <2>2. Commanding(w) /\ status # "absent"
    BY <2>1 DEF Settled, Commanding, Busy
  <2> QED
    BY <2>1, <2>2 DEF Settled, Commanding, Busy, TypeOK
<1>6. CASE Erase(w)
  <2>1. /\ pc[w] = "erase" /\ UNCHANGED <<dir, agent, proxy>> /\ status' = "absent"
        /\ pc' = [pc EXCEPT ![w] = "idle"]
    BY <1>6 DEF Erase, Note, StatusExcused, Excused, GoTo, disk, containers
  <2>2. Commanding(w) /\ ~dir /\ agent = "none" /\ proxy = "none"
    BY <2>1 DEF Settled, Commanding, Busy
  <2> QED
    BY <2>1, <2>2 DEF Settled, Commanding, Busy, TypeOK
<1>7. CASE Update(w)
  <2>1. /\ \A v \in Workers : ~Commanding(v) /\ (v # w => pc'[v] = pc[v])
        /\ pc'[w] = "recreate" /\ \A v \in Workers : Commanding(v)' <=> v = w
    BY <1>7, BeginAlone DEF Update, Points
  <2> QED
    BY <1>7, <2>1 DEF Update, Settled, Commanding, Busy, rows, disk, containers
<1>8. CASE Recreate(w)
  <2>1. /\ pc[w] = "recreate" /\ pc' = [pc EXCEPT ![w] = "idle"] /\ UNCHANGED <<status, dir>>
        /\ \/ UNCHANGED <<agent, proxy>>
           \/ agent' = "up" /\ status \notin {"stopped", "absent"}
    BY <1>8 DEF Recreate, GoTo, Unwatched, Note, StatusExcused, Excused, rows, disk, containers
  <2>2. Commanding(w) /\ status # "absent"
    BY <2>1 DEF Settled, Commanding, Busy
  <2> QED
    BY <2>1, <2>2 DEF Settled, Commanding, Busy, TypeOK
<1>9. CASE MarkStop(w)
  <2>1. Commanding(w) /\ status # "absent"
    BY <1>9 DEF MarkStop, Settled, Commanding, Busy
  <2>2. /\ pc' = [pc EXCEPT ![w] = "stopAgent"] /\ status' = "stopped"
        /\ UNCHANGED <<dir, agent, proxy>>
    BY <1>9, <2>1
    DEF MarkStop, MarkAs, Rejects, Note, StatusExcused, Excused, GoTo, disk, containers
  <2> QED
    BY <2>1, <2>2 DEF Settled, Commanding, Busy, TypeOK
<1> QED
  BY <1>1, <1>2, <1>3, <1>4, <1>5, <1>6, <1>7, <1>8, <1>9 DEF StopStep

\* And so does the refresh of the proxy, which may run beside a command.
LEMMA RefreshSettled ==
  ASSUME TypeOK, Settled, NEW w \in Workers, RefreshStep(w), ~StatusExcused'
  PROVE  Settled'
<1> USE DEF Reporting, Transient, Refreshing
<1>1. PICK point \in {"idle", "find", "refresh"} : pc' = [pc EXCEPT ![w] = point]
  BY DEF RefreshStep, Fire, Find, Refresh, GoTo
<1>2. pc[w] \in {"idle", "find", "refresh"} /\ UNCHANGED <<status, dir>>
  BY DEF RefreshStep, Fire, Find, Refresh, Busy, rows, disk
<1>3. \/ UNCHANGED <<agent, proxy>>
      \/ dir /\ agent' = agent
      \/ dir /\ agent' = "up" /\ status # "stopped"
  BY DEF RefreshStep, Fire, Find, Refresh, ComposeUp, Unwatched, Note, StatusExcused, Excused,
    containers
<1>4. \A v \in Workers :
        /\ Commanding(v)' <=> Commanding(v)
        /\ Commanding(v) => pc'[v] = pc[v]
        /\ ~Commanding(v) => pc'[v] \in {"idle", "find", "refresh"}
  BY <1>1, <1>2 DEF Commanding, Busy, TypeOK
<1> QED
  BY <1>2, <1>3, <1>4 DEF Settled, Commanding, Busy

\* Every step keeps the status and the containers in step, unless it is noted.
LEMMA StatusStep == TypeOK /\ StatusInv /\ [Next]_vars => StatusInv'
<1> SUFFICES ASSUME TypeOK, StatusInv, [Next]_vars, ~StatusExcused' PROVE Settled'
  BY DEF StatusInv
<1>1. Settled
  BY AmissStays DEF StatusInv, StatusExcused, Excused
<1>2. CASE \E s \in Servers : Change(s)
  BY <1>1, <1>2 DEF Change, disk, containers, worker, Settled, Commanding, Busy
<1>3. CASE Crash
  BY <1>3 DEF Crash, Note, StatusExcused, Excused
<1>4. CASE UNCHANGED vars
  BY <1>1, <1>4 DEF vars, rows, disk, containers, worker, Settled, Commanding, Busy
<1> QED
  BY <1>1, <1>2, <1>3, <1>4, StartSettled, StopSettled, RefreshSettled
  DEF Next, StartStep, StopStep, RefreshStep

\* When no command is under way, the status is that of the containers, whatever the commands
\* before it were and whenever the proxy was refreshed.
THEOREM QuietStatusHolds == Spec => []QuietStatusIsTrue
<1>1. Init => StatusInv
  BY DEF Init, StatusInv, Settled, Commanding, Busy, Reporting
<1>2. StatusInv => QuietStatusIsTrue
  BY DEF StatusInv, StatusExcused, Settled, QuietStatusIsTrue, Busy
<1> QED
  BY <1>1, <1>2, TypeInit, TypeStep, StatusStep, PTL DEF Spec

-----------------------------------------------------------------------------
(* The proxy and the servers                                               *)

ProxyExcused == Excused({"overtaken", "broken", "crashed"})

\* What a worker has read and what is written and loaded are the servers.
Tidy ==
  /\ \A w \in Workers :
       /\ pc[w] \in {"write", "refresh"} => seen[w] = servers
       /\ pc[w] = "provision" => servers = {}
  /\ \/ \E w \in Workers : pc[w] \in Refreshing
     \/ /\ dir => file = servers
        /\ proxy = "up" /\ servers # {} => loaded = servers

\* A refresh runs alone, and what is not tidy has a refresh ahead of it.
Tended ==
  /\ \A v, w \in Workers : pc[v] \in Refreshing /\ Busy(w) => v = w
  /\ commands = 0 =>
       /\ status = "absent" /\ servers = {} /\ ~dir /\ ~timer
       /\ \A w \in Workers : ~Busy(w)
  /\ ~dir => proxy # "up"
  /\ timer \/ status = "absent" \/ Tidy

ProxyInv == ProxyExcused \/ Tended

\* A worker takes a step of a command.
StepTo(w, point) ==
  /\ pc' = [pc EXCEPT ![w] = point]
  /\ \A v \in Workers : pc[v] \notin Refreshing
  /\ commands' # 0

\* Workers other than the one that begins a command do not refresh, or the overlap is noted.
LEMMA BeginSteps ==
  ASSUME TypeOK, NEW w \in Workers, NEW point \in Points, Begin(w, point), ~ProxyExcused'
  PROVE  StepTo(w, point) /\ seen' = seen
  BY DEF Begin, ProxyExcused, Excused, GoTo, StepTo, TypeOK, BoundsAssumption

\* A worker that goes on with a command is the only one whose step it could be.
LEMMA GoOnSteps ==
  ASSUME Tended, NEW w \in Workers, NEW point, pc[w] \notin Refreshing \cup {"idle"},
         pc' = [pc EXCEPT ![w] = point], commands' = commands
  PROVE  StepTo(w, point)
  BY DEF Tended, Busy, StepTo

\* A step of a command leaves the instance tended when it leaves the rest of it tidy.
LEMMA CommandTended ==
  ASSUME TypeOK, Tended, NEW w \in Workers, NEW point \in Points \ Refreshing, StepTo(w, point),
         ~dir' => proxy' # "up",
         timer' \/ status' = "absent" \/ Tidy'
  PROVE  Tended'
<1>1. \A v \in Workers : pc'[v] \notin Refreshing
  BY DEF StepTo, TypeOK
<1> QED
  BY <1>1 DEF Tended, StepTo

\* So does one that touches neither what is written nor what is loaded.
LEMMA SteadyTended ==
  ASSUME TypeOK, Tended, NEW w \in Workers,
         NEW point \in Points \ (Refreshing \cup {"write", "provision"}), StepTo(w, point),
         UNCHANGED <<servers, dir, file, proxy, loaded, timer, seen>>,
         status = "absent" => status' = "absent"
  PROVE  Tended'
<1>1. ~dir' => proxy' # "up"
  BY DEF Tended
<1>2. ASSUME ~timer', status' # "absent" PROVE Tidy'
  <2>1. Tidy /\ \A v \in Workers : v # w => pc'[v] = pc[v]
    BY <1>2 DEF Tended, StepTo, TypeOK
  <2>2. pc'[w] = point /\ \A v \in Workers : pc[v] \notin Refreshing
    BY DEF StepTo, TypeOK
  <2> QED
    BY <2>1, <2>2 DEF Tidy, Refreshing
<1> QED
  BY <1>1, <1>2, CommandTended

\* The commands that start an instance leave it tended.
LEMMA StartTended ==
  ASSUME TypeOK, Tended, NEW w \in Workers, StartStep(w), ~ProxyExcused'
  PROVE  Tended'
<1>1. CASE Create(w)
  <2>1. StepTo(w, "provision") /\ seen' = seen
    BY <1>1, BeginSteps DEF Create, Points
  <2>2. \A v \in Workers : pc'[v] \in {"idle", "provision"}
    BY <1>1, <2>1 DEF Create, Tended, StepTo, Busy, TypeOK
  <2>3. Tidy' /\ (~dir' => proxy' # "up")
    BY <1>1, <2>2 DEF Create, Tended, Tidy, disk, containers
  <2> QED
    BY <2>1, <2>3, CommandTended DEF Points, Refreshing
<1>2. CASE Provision(w)
  <2>1. /\ pc[w] = "provision" /\ UNCHANGED <<status, servers, timer, commands, seen>>
        /\ \/ pc' = [pc EXCEPT ![w] = "up"] /\ ProxyUp({}) /\ dir' /\ file' = {}
           \/ pc' = [pc EXCEPT ![w] = "idle"] /\ UNCHANGED <<dir, file, proxy, loaded>>
    BY <1>2 DEF Provision, Fault, GoTo, ComposeUp, Note, ProxyExcused, Excused, rows, disk,
      containers, bounds
  <2>2. PICK point \in {"up", "idle"} : pc' = [pc EXCEPT ![w] = point]
    BY <2>1
  <2>3. StepTo(w, point)
    BY <2>1, <2>2, GoOnSteps DEF Refreshing
  <2>4. ~dir' => proxy' # "up"
    BY <2>1 DEF Tended
  <2>5. ASSUME ~timer', status' # "absent" PROVE Tidy'
    <3>1. Tidy /\ servers = {} /\ \A v \in Workers : v # w => pc'[v] = pc[v]
      BY <2>1, <2>5 DEF Tended, Tidy, TypeOK
    <3>2. pc'[w] = point /\ \A v \in Workers : pc[v] \notin Refreshing
      BY <2>2, <2>3 DEF StepTo, TypeOK
    <3> QED
      BY <2>1, <3>1, <3>2 DEF Tidy
  <2> QED
    BY <2>3, <2>4, <2>5, CommandTended DEF Points, Refreshing
<1>3. CASE Start(w)
  <2>1. StepTo(w, "read") /\ seen' = seen
    BY <1>3, BeginSteps DEF Start, Points
  <2> QED
    BY <1>3, <2>1, SteadyTended DEF Start, Points, Refreshing, rows, disk, containers
<1>4. CASE ReadServers(w)
  <2>1. /\ pc[w] = "read" /\ commands' = commands
        /\ UNCHANGED <<status, servers, dir, file, proxy, loaded, timer>>
        /\ \/ pc' = [pc EXCEPT ![w] = "write"] /\ seen' = [seen EXCEPT ![w] = servers]
           \/ pc' = [pc EXCEPT ![w] = "idle"] /\ seen' = seen
    BY <1>4 DEF ReadServers, Fault, GoTo, rows, disk, containers, bounds
  <2>2. PICK point \in {"write", "idle"} : pc' = [pc EXCEPT ![w] = point]
    BY <2>1
  <2>3. StepTo(w, point)
    BY <2>1, <2>2, GoOnSteps DEF Refreshing
  <2>4. ASSUME ~timer', status' # "absent" PROVE Tidy'
    <3>1. Tidy /\ \A v \in Workers : v # w => pc'[v] = pc[v] /\ seen'[v] = seen[v]
      BY <2>1, <2>4 DEF Tended, TypeOK
    <3>2. (pc'[w] = "write" /\ seen'[w] = servers) \/ pc'[w] = "idle"
      BY <2>1 DEF TypeOK
    <3>3. \A v \in Workers : pc[v] \notin Refreshing
      BY <2>3 DEF StepTo
    <3> QED
      BY <2>1, <3>1, <3>2, <3>3 DEF Tidy
  <2>5. ~dir' => proxy' # "up"
    BY <2>1 DEF Tended
  <2> QED
    BY <2>3, <2>4, <2>5, CommandTended DEF Points, Refreshing
<1>5. CASE WriteDir(w)
  <2>1. /\ pc' = [pc EXCEPT ![w] = "mark"] /\ dir' /\ file' = seen[w]
        /\ pc[w] = "write" /\ UNCHANGED <<status, servers, proxy, loaded, timer, seen, commands>>
    BY <1>5 DEF WriteDir, GoTo, Note, ProxyExcused, Excused, rows, bounds
  <2>2. StepTo(w, "mark")
    BY <2>1, GoOnSteps DEF Refreshing
  <2>3. ASSUME ~timer', status' # "absent" PROVE Tidy'
    <3>1. Tidy /\ seen[w] = servers /\ \A v \in Workers : v # w => pc'[v] = pc[v]
      BY <2>1, <2>3 DEF Tended, Tidy, TypeOK
    <3>2. pc'[w] = "mark" /\ \A v \in Workers : pc[v] \notin Refreshing
      BY <2>1, <2>2 DEF StepTo, TypeOK
    <3>3. proxy = "up" /\ servers # {} => loaded = servers
      BY <3>1, <3>2 DEF Tidy
    <3> QED
      BY <2>1, <3>1, <3>2, <3>3 DEF Tidy
  <2> QED
    BY <2>1, <2>2, <2>3, CommandTended DEF Points, Refreshing
<1>6. CASE Mark(w) \/ MarkRestart(w)
  <2>1. /\ pc[w] \in {"mark", "restart"} /\ commands' = commands
        /\ status = "absent" => status' = "absent"
        /\ UNCHANGED <<servers, dir, file, proxy, loaded, timer, seen>>
        /\ \E point \in {"idle", "compose"} : pc' = [pc EXCEPT ![w] = point]
    BY <1>6 DEF Mark, MarkRestart, MarkAs, Rejects, Fault, GoTo, disk, containers, bounds
  <2>2. PICK point \in {"idle", "compose"} : pc' = [pc EXCEPT ![w] = point]
    BY <2>1
  <2>3. StepTo(w, point)
    BY <2>1, <2>2, GoOnSteps DEF Refreshing
  <2> QED
    BY <2>1, <2>3, SteadyTended DEF Points, Refreshing
<1>7. CASE Restart(w)
  <2>1. StepTo(w, "restart") /\ seen' = seen
    BY <1>7, BeginSteps DEF Restart, Points
  <2> QED
    BY <1>7, <2>1, SteadyTended DEF Restart, Points, Refreshing, rows, disk, containers
<1>8. CASE ComposeStep(w)
  <2>1. /\ pc[w] = "compose" /\ UNCHANGED <<status, servers, dir, file, timer, seen, commands>>
        /\ \/ pc' = [pc EXCEPT ![w] = "poll"] /\ dir /\ ProxyUp(file)
           \/ pc' = [pc EXCEPT ![w] = "failed"] /\ UNCHANGED <<proxy, loaded>>
    BY <1>8 DEF ComposeStep, Compose, ComposeUp, GoTo, Note, ProxyExcused, Excused, rows, disk,
      containers, bounds
  <2>2. PICK point \in {"poll", "failed"} : pc' = [pc EXCEPT ![w] = point]
    BY <2>1
  <2>3. StepTo(w, point)
    BY <2>1, <2>2, GoOnSteps DEF Refreshing
  <2>4. ~dir' => proxy' # "up"
    BY <2>1 DEF Tended
  <2>5. ASSUME ~timer', status' # "absent" PROVE Tidy'
    <3>1. Tidy /\ \A v \in Workers : v # w => pc'[v] = pc[v]
      BY <2>1, <2>5 DEF Tended, TypeOK
    <3>2. pc'[w] = point /\ \A v \in Workers : pc[v] \notin Refreshing
      BY <2>2, <2>3 DEF StepTo, TypeOK
    <3>3. /\ dir => file = servers
          /\ proxy' = "up" /\ servers # {} => loaded' = servers
      BY <2>1, <3>1, <3>2 DEF Tidy, ProxyUp
    <3> QED
      BY <2>1, <3>1, <3>2, <3>3 DEF Tidy
  <2> QED
    BY <2>3, <2>4, <2>5, CommandTended DEF Points, Refreshing
<1>9. CASE Poll(w)
  <2>1. PICK point \in {"up", "failed"} : pc' = [pc EXCEPT ![w] = point]
    BY <1>9 DEF Poll, GiveUp, GoTo
  <2>2. StepTo(w, point)
    BY <1>9, <2>1, GoOnSteps DEF Poll, Refreshing, bounds
  <2> QED
    BY <1>9, <2>2, SteadyTended
    DEF Poll, GiveUp, GoTo, Points, Refreshing, rows, disk, containers
<1>10. CASE Report(w)
  <2>1. /\ pc[w] \in {"up", "failed"} /\ commands' = commands
        /\ status = "absent" => status' = "absent"
        /\ UNCHANGED <<servers, dir, file, proxy, loaded, timer, seen>>
        /\ \E point \in {"idle", "failed"} : pc' = [pc EXCEPT ![w] = point]
    BY <1>10 DEF Report, Rejects, Fault, GoTo, disk, containers, bounds
  <2>2. PICK point \in {"idle", "failed"} : pc' = [pc EXCEPT ![w] = point]
    BY <2>1
  <2>3. StepTo(w, point)
    BY <2>1, <2>2, GoOnSteps DEF Refreshing
  <2> QED
    BY <2>1, <2>3, SteadyTended DEF Points, Refreshing
<1> QED
  BY <1>1, <1>2, <1>3, <1>4, <1>5, <1>6, <1>7, <1>8, <1>9, <1>10 DEF StartStep

\* So do those that stop, delete and update it.
LEMMA StopTended ==
  ASSUME TypeOK, Tended, NEW w \in Workers, StopStep(w), ~ProxyExcused'
  PROVE  Tended'
<1>1. CASE Stop(w)
  <2>1. StepTo(w, "stop") /\ seen' = seen
    BY <1>1, BeginSteps DEF Stop, Points
  <2> QED
    BY <1>1, <2>1, SteadyTended DEF Stop, Points, Refreshing, rows, disk, containers
<1>2. CASE StopAgent(w)
  <2>1. /\ StepTo(w, "stopProxy")
        /\ UNCHANGED <<status, servers, dir, file, proxy, loaded, timer, seen>>
    BY <1>2, GoOnSteps
    DEF StopAgent, Note, ProxyExcused, Excused, GoTo, Refreshing, rows, disk, bounds
  <2> QED
    BY <2>1, SteadyTended DEF Points, Refreshing
<1>3. CASE StopProxy(w)
  <2>1. /\ StepTo(w, "idle") /\ proxy' = Stopped(proxy)
        /\ UNCHANGED <<status, servers, dir, file, loaded, timer, seen>>
    BY <1>3, GoOnSteps DEF StopProxy, GoTo, Refreshing, rows, disk, bounds
  <2>2. proxy' # "up"
    BY <2>1 DEF Stopped
  <2>3. ASSUME ~timer', status' # "absent" PROVE Tidy'
    <3>1. Tidy /\ \A v \in Workers : v # w => pc'[v] = pc[v]
      BY <2>1, <2>3 DEF Tended, StepTo, TypeOK
    <3>2. pc'[w] = "idle" /\ \A v \in Workers : pc[v] \notin Refreshing
      BY <2>1 DEF StepTo, TypeOK
    <3> QED
      BY <2>1, <2>2, <3>1, <3>2 DEF Tidy
  <2> QED
    BY <2>1, <2>2, <2>3, CommandTended DEF Points, Refreshing
<1>4. CASE Delete(w)
  <2>1. StepTo(w, "remove") /\ seen' = seen
    BY <1>4, BeginSteps DEF Delete, Points
  <2> QED
    BY <1>4, <2>1, SteadyTended DEF Delete, Points, Refreshing, rows, disk, containers
<1>5. CASE Remove(w)
  <2>1. /\ StepTo(w, "erase") /\ ~dir' /\ proxy' = "none"
        /\ UNCHANGED <<status, servers, timer, seen>>
    BY <1>5, GoOnSteps DEF Remove, Note, ProxyExcused, Excused, GoTo, Refreshing, rows, bounds
  <2>2. ASSUME ~timer', status' # "absent" PROVE Tidy'
    <3>1. Tidy /\ \A v \in Workers : v # w => pc'[v] = pc[v]
      BY <2>1, <2>2 DEF Tended, StepTo, TypeOK
    <3>2. pc'[w] = "erase" /\ \A v \in Workers : pc[v] \notin Refreshing
      BY <2>1 DEF StepTo, TypeOK
    <3> QED
      BY <2>1, <3>1, <3>2 DEF Tidy
  <2> QED
    BY <2>1, <2>2, CommandTended DEF Points, Refreshing
<1>6. CASE Erase(w)
  <2>1. StepTo(w, "idle") /\ status' = "absent" /\ UNCHANGED <<dir, proxy>>
    BY <1>6, GoOnSteps
    DEF Erase, Note, ProxyExcused, Excused, GoTo, Refreshing, disk, containers, bounds
  <2>2. ~dir' => proxy' # "up"
    BY <2>1 DEF Tended
  <2> QED
    BY <2>1, <2>2, CommandTended DEF Points, Refreshing
<1>7. CASE Update(w)
  <2>1. StepTo(w, "recreate") /\ seen' = seen
    BY <1>7, BeginSteps DEF Update, Points
  <2> QED
    BY <1>7, <2>1, SteadyTended DEF Update, Points, Refreshing, rows, disk, containers
<1>8. CASE Recreate(w)
  <2>1. /\ pc[w] = "recreate" /\ pc' = [pc EXCEPT ![w] = "idle"]
        /\ UNCHANGED <<status, servers, dir, file, timer, seen, commands>>
        /\ UNCHANGED <<proxy, loaded>> \/ (dir /\ ProxyUp(file))
    BY <1>8 DEF Recreate, ComposeUp, GoTo, Note, ProxyExcused, Excused, rows, disk, containers,
      bounds
  <2>2. StepTo(w, "idle")
    BY <2>1, GoOnSteps DEF Refreshing
  <2>3. ~dir' => proxy' # "up"
    BY <2>1 DEF Tended
  <2>4. ASSUME ~timer', status' # "absent" PROVE Tidy'
    <3>1. Tidy /\ \A v \in Workers : v # w => pc'[v] = pc[v]
      BY <2>1, <2>4 DEF Tended, TypeOK
    <3>2. pc'[w] = "idle" /\ \A v \in Workers : pc[v] \notin Refreshing
      BY <2>2 DEF StepTo, TypeOK
    <3>3. /\ dir => file = servers
          /\ proxy' = "up" /\ servers # {} => loaded' = servers
      BY <2>1, <3>1, <3>2 DEF Tidy, ProxyUp
    <3> QED
      BY <2>1, <3>1, <3>2, <3>3 DEF Tidy
  <2> QED
    BY <2>2, <2>3, <2>4, CommandTended DEF Points, Refreshing
<1>9. CASE MarkStop(w)
  <2>1. /\ StepTo(w, "stopAgent") \/ StepTo(w, "idle")
        /\ status = "absent" => status' = "absent"
        /\ UNCHANGED <<servers, dir, file, proxy, loaded, timer, seen>>
    BY <1>9, GoOnSteps
    DEF MarkStop, MarkAs, Rejects, Note, ProxyExcused, Excused, GoTo, Refreshing, disk,
      containers, bounds
  <2> QED
    BY <2>1, SteadyTended DEF Points, Refreshing
<1> QED
  BY <1>1, <1>2, <1>3, <1>4, <1>5, <1>6, <1>7, <1>8, <1>9 DEF StopStep

\* And so does the refresh, which is what makes it tidy again.
LEMMA RefreshTended ==
  ASSUME TypeOK, Tended, NEW w \in Workers, RefreshStep(w), ~ProxyExcused'
  PROVE  Tended'
<1> USE DEF Refreshing
<1>1. CASE Fire(w)
  <2>1. /\ \A v \in Workers : pc[v] = "idle"
        /\ pc' = [pc EXCEPT ![w] = "find"] /\ timer
        /\ UNCHANGED <<status, servers, dir, file, proxy, loaded, seen, commands>>
    BY <1>1 DEF Fire, Note, ProxyExcused, Excused, Busy, GoTo, rows, disk, containers, bounds
  <2>2. pc'[w] = "find" /\ \A v \in Workers : v # w => pc'[v] = "idle"
    BY <2>1 DEF TypeOK
  <2>3. commands' # 0 /\ (~dir' => proxy' # "up")
    BY <2>1 DEF Tended
  <2>4. Tidy'
    BY <2>2 DEF Tidy
  <2> QED
    BY <2>2, <2>3, <2>4 DEF Tended, Busy
<1>2. ASSUME pc[w] \in Refreshing, commands' = commands
      PROVE  commands' # 0 /\ \A v \in Workers : v # w => pc[v] = "idle"
  BY <1>2 DEF Tended, Busy
<1>3. CASE Find(w)
  <2>1. /\ pc[w] = "find" /\ commands' = commands
        /\ UNCHANGED <<status, servers, dir, file, proxy, loaded, timer>>
        /\ \/ (status = "absent" \/ ~dir) /\ pc' = [pc EXCEPT ![w] = "idle"]
           \/ /\ pc' = [pc EXCEPT ![w] = "refresh"]
              /\ seen' = [seen EXCEPT ![w] = servers]
    BY <1>3 DEF Find, Note, ProxyExcused, Excused, GoTo, rows, disk, containers, bounds
  <2>2. commands' # 0 /\ \A v \in Workers : v # w => pc'[v] = "idle"
    BY <1>2, <2>1 DEF TypeOK
  <2>3. \/ (status = "absent" \/ ~dir) /\ pc'[w] = "idle"
        \/ pc'[w] = "refresh" /\ seen'[w] = servers
    BY <2>1 DEF TypeOK
  <2>4. (~dir' => proxy' # "up") /\ (status' = "absent" \/ Tidy')
    BY <2>1, <2>2, <2>3 DEF Tended, Tidy
  <2> QED
    BY <2>2, <2>4 DEF Tended, Busy
<1>4. CASE Refresh(w)
  <2>1. /\ pc[w] = "refresh" /\ commands' = commands /\ pc' = [pc EXCEPT ![w] = "idle"]
        /\ UNCHANGED <<status, servers, dir, timer, seen>>
        /\ \/ ~dir /\ UNCHANGED proxy
           \/ dir /\ file' = seen[w] /\ ProxyUp(seen[w])
    BY <1>4 DEF Refresh, ComposeUp, GoTo, Note, ProxyExcused, Excused, rows, containers, bounds
  <2>2. commands' # 0 /\ \A v \in Workers : pc'[v] = "idle"
    BY <1>2, <2>1 DEF TypeOK
  <2>3. ~dir' => proxy' # "up"
    BY <2>1 DEF Tended
  <2>4. ASSUME ~timer', status' # "absent" PROVE Tidy'
    <3>1. seen[w] = servers
      BY <2>1, <2>4 DEF Tended, Tidy
    <3> QED
      BY <2>1, <2>2, <2>3, <3>1 DEF Tidy, ProxyUp
  <2> QED
    BY <2>2, <2>3, <2>4 DEF Tended, Busy
<1> QED
  BY <1>1, <1>3, <1>4 DEF RefreshStep

\* Every step leaves the instance tended, unless it is noted.
LEMMA ProxyStep == TypeOK /\ ProxyInv /\ [Next]_vars => ProxyInv'
<1> SUFFICES ASSUME TypeOK, ProxyInv, [Next]_vars, ~ProxyExcused' PROVE Tended'
  BY DEF ProxyInv
<1>1. Tended
  BY AmissStays DEF ProxyInv, ProxyExcused, Excused
<1>2. ASSUME NEW s \in Servers, Change(s) PROVE Tended'
  <2>1. /\ UNCHANGED <<status, dir, proxy, pc, commands>> /\ timer' /\ status # "absent"
    BY <1>2 DEF Change, Scheduled, Note, ProxyExcused, Excused, disk, containers, worker
  <2> QED
    BY <1>1, <2>1 DEF Tended, Busy
<1>3. CASE Crash
  BY <1>3 DEF Crash, Note, ProxyExcused, Excused
<1>4. CASE UNCHANGED vars
  <2>1. UNCHANGED <<status, servers, dir, file, proxy, loaded, timer, pc, seen, commands>>
    BY <1>4 DEF vars, rows, disk, containers, worker, bounds
  <2> QED
    BY <1>1, <2>1 DEF Tended, Tidy, Busy
<1> QED
  BY <1>1, <1>2, <1>3, <1>4, StartTended, StopTended, RefreshTended
  DEF Next, StartStep, StopStep, RefreshStep

\* When no command and no refresh is under way or due, the proxy runs with the servers of the
\* instance, whatever order the edits, the commands and the timer came in.
THEOREM QuietProxyIsCurrent == Spec => []ProxyIsCurrent
<1>1. Init => ProxyInv
  BY DEF Init, ProxyInv, Tended, Busy, Refreshing
<1>2. ProxyInv => ProxyIsCurrent
  BY DEF ProxyInv, ProxyExcused, Tended, Tidy, ProxyIsCurrent, Busy, Refreshing
<1> QED
  BY <1>1, <1>2, TypeInit, TypeStep, ProxyStep, PTL DEF Spec

-----------------------------------------------------------------------------
(* Workspaces, with Vault                                                  *)

\* What the editor of a connection's secrets holds, between its read and its write.
Edits ==
  {NoEdit} \cup
    [at : Connections, list : SUBSET Secrets, name : Names, mode : Modes \cup {Removal},
     fresh : BOOLEAN]

\* The invariant holds before the first request.
LEMMA CorrectInit ==
  ASSUME WorkspacesInit
  PROVE  Correct
<1>1. WorkspacesTypeOK
  <2>1. /\ connectionStatus \in [Connections -> {"active", "revoked", "deleted"}]
        /\ secrets \in [Connections -> SUBSET Secrets] /\ told = secrets
        /\ editor \in [Editors -> {NoEdit}] /\ tangled = {}
        /\ execution
             \in [Executors -> [todo : SUBSET Connections, got : SUBSET (Connections \X Names)]]
    BY DEF WorkspacesInit, VaultInit, NoExecution
  <2>2. /\ network \in BOOLEAN /\ stored = {} /\ faulty = {} /\ early = {} /\ replaced = {}
        /\ row \in [Workspaces -> {"absent"}] /\ container \in [Workspaces -> {"none"}]
        /\ linked \in [Runs -> {Nobody}] /\ stopper \in [Stoppers -> {NoStop}]
        /\ env \in [Workspaces -> SUBSET (Connections \X Names)]
        /\ at \in [Workspaces -> {"idle"}] /\ for \in [Workspaces -> {Unknown}]
    BY DEF WorkspacesInit
  <2>3. requests \in 0 .. MaxRequests /\ failures \in 0 .. MaxFailures
    BY VaultAssumption, WorkspacesAssumption DEF WorkspacesInit, VaultInit
  <2> QED
    BY <2>1, <2>2, <2>3 DEF WorkspacesTypeOK, Places
<1>2. AnswersAreTrue
  BY DEF WorkspacesInit, VaultInit, AnswersAreTrue
<1>3. UnknownBeforeOver /\ EmittedHasRun /\ NetworkHasMaker
  BY WorkspacesAssumption
     DEF WorkspacesInit, UnknownBeforeOver, EmittedHasRun, NetworkHasMaker, Stopping
<1>4. SoundUnlessFaulty
  BY DEF WorkspacesInit, SoundUnlessFaulty, Sound, Way
<1> QED
  BY <1>1, <1>2, <1>3, <1>4 DEF Correct

\* Marking an edit as overtaken keeps it an edit, and one that nobody is making as it is.
LEMMA StaleEdit ==
  ASSUME NEW edit \in Edits
  PROVE  /\ [edit EXCEPT !.fresh = FALSE] \in Edits
         /\ [edit EXCEPT !.fresh = FALSE] # NoEdit => ~[edit EXCEPT !.fresh = FALSE].fresh
<1>1. CASE edit = NoEdit
  <2>1. [edit EXCEPT !.fresh = FALSE] = NoEdit
    BY <1>1 DEF NoEdit
  <2> QED
    BY <2>1 DEF Edits
<1>2. CASE edit # NoEdit
  BY <1>2 DEF Edits
<1> QED
  BY <1>1, <1>2

\* Counting a request keeps the count within its bound.
LEMMA RequestCounts ==
  ASSUME WorkspacesTypeOK, Request
  PROVE  requests' \in 0 .. MaxRequests
BY VaultAssumption DEF WorkspacesTypeOK, Request

\* Counting a fault keeps the count within its bound.
LEMMA FaultCounts ==
  ASSUME WorkspacesTypeOK, NEW w \in Workspaces, FaultOf(w)
  PROVE  failures' \in 0 .. MaxFailures /\ faulty' \subseteq Workspaces
BY WorkspacesAssumption DEF WorkspacesTypeOK, FaultOf

\* The edits of connections keep the types.
LEMMA VaultTypes ==
  ASSUME WorkspacesTypeOK, EditVault, UNCHANGED others
  PROVE  WorkspacesTypeOK'
<1>1. WorkspacesTypeOK'
      <=> /\ connectionStatus' \in [Connections -> {"active", "revoked", "deleted"}]
          /\ secrets' \in [Connections -> SUBSET Secrets]
          /\ told' \in [Connections -> SUBSET Secrets]
          /\ editor' \in [Editors -> Edits]
          /\ requests' \in 0 .. MaxRequests
          /\ tangled' \subseteq Connections
          /\ execution' \in
               [Executors -> [todo : SUBSET Connections, got : SUBSET (Connections \X Names)]]
  BY DEF WorkspacesTypeOK, others, docker, tables, maker, history, Edits
<1>2. ASSUME NEW c \in Connections, NEW list \in SUBSET Secrets, Replace(c, list)
      PROVE  WorkspacesTypeOK'
  <2>1. \A e \in Editors : editor[e] \in Edits /\ [editor[e] EXCEPT !.fresh = FALSE] \in Edits
    BY StaleEdit DEF WorkspacesTypeOK, Edits
  <2>2. editor' \in [Editors -> Edits]
    BY <1>2, <2>1 DEF Replace
  <2> QED
    BY <1>1, <1>2, <2>2, RequestCounts DEF Replace, WorkspacesTypeOK
<1>3. ASSUME NEW c \in Connections, NEW e \in Editors, NEW name \in Names,
             NEW mode \in Modes \cup {Removal}, ReadList(e, c, name, mode)
      PROVE  WorkspacesTypeOK'
  <2>1. editor' \in [Editors -> Edits]
    BY <1>3 DEF ReadList, WorkspacesTypeOK, Edits
  <2> QED
    BY <1>1, <1>3, <2>1, RequestCounts DEF ReadList, WorkspacesTypeOK
<1>4. ASSUME NEW c \in Connections, RevokeConnection(c) \/ DeleteConnection(c)
      PROVE  WorkspacesTypeOK'
  BY <1>1, <1>4, RequestCounts DEF RevokeConnection, DeleteConnection, WorkspacesTypeOK, Edits
<1>5. ASSUME NEW e \in Editors, WriteList(e) PROVE WorkspacesTypeOK'
  <2> DEFINE edit == editor[e]
             c == edit.at
  <2>1. edit \in [at : Connections, list : SUBSET Secrets, name : Names,
                  mode : Modes \cup {Removal}, fresh : BOOLEAN]
    BY <1>5 DEF WriteList, WorkspacesTypeOK
  <2>2. CASE connectionStatus[c] = "deleted"
    <3>1. editor' \in [Editors -> Edits]
      BY <1>5, <2>2 DEF WriteList, WorkspacesTypeOK, Edits
    <3> QED
      BY <1>1, <1>5, <2>2, <3>1 DEF WriteList, WorkspacesTypeOK
  <2>3. CASE connectionStatus[c] # "deleted"
    <3>1. Edited(edit.list, edit.name, edit.mode) \in SUBSET Secrets
      BY <2>1 DEF Edited, Secrets, Modes, Removal
    <3>2. ASSUME NEW list \in SUBSET Secrets
          PROVE  {s \in list : s[1] # edit.name} \cup ({edit.name} \X ({edit.mode} \cap Modes))
                   \in SUBSET Secrets
      BY <2>1 DEF Secrets
    <3>3. secrets' \in [Connections -> SUBSET Secrets]
      BY <1>5, <2>3, <3>1 DEF WriteList, WorkspacesTypeOK
    <3>4. told' = [told EXCEPT ![c] = {s \in told[c] : s[1] # edit.name}
                                        \cup ({edit.name} \X ({edit.mode} \cap Modes))]
      BY <1>5, <2>3 DEF WriteList
    <3>5. told[c] \in SUBSET Secrets
      BY <2>1 DEF WorkspacesTypeOK
    <3>6. told' \in [Connections -> SUBSET Secrets]
      BY <3>2, <3>4, <3>5 DEF WorkspacesTypeOK
    <3>7. tangled' \subseteq Connections
      BY <1>5, <2>1, <2>3 DEF WriteList, WorkspacesTypeOK
    <3>8. \A f \in Editors : editor[f] \in Edits /\ [editor[f] EXCEPT !.fresh = FALSE] \in Edits
      BY StaleEdit DEF WorkspacesTypeOK, Edits
    <3>9. editor' = [f \in Editors |->
                       IF f = e THEN NoEdit
                       ELSE IF editor[f].at = c THEN [editor[f] EXCEPT !.fresh = FALSE]
                            ELSE editor[f]]
      BY <1>5, <2>3 DEF WriteList
    <3>10. editor' \in [Editors -> Edits]
      <4>1. NoEdit \in Edits
        BY DEF Edits
      <4> QED
        BY <3>8, <3>9, <4>1
    <3>11. UNCHANGED <<connectionStatus, requests, execution>>
      BY <1>5 DEF WriteList
    <3> QED
      BY <1>1, <3>3, <3>6, <3>7, <3>10, <3>11 DEF WorkspacesTypeOK
  <2> QED
    BY <2>2, <2>3
<1> QED
  BY <1>2, <1>3, <1>4, <1>5 DEF EditVault

\* The executions keep the types.
LEMMA ExecutionTypes ==
  ASSUME WorkspacesTypeOK, UNCHANGED others, NEW x \in Executors,
         \/ \E wanted \in SUBSET Connections : StartExecution(x, wanted)
         \/ \E c \in Connections : ResolveNext(x, c)
  PROVE  WorkspacesTypeOK'
<1>1. ASSUME NEW wanted \in SUBSET Connections, StartExecution(x, wanted) PROVE WorkspacesTypeOK'
  BY <1>1, RequestCounts
     DEF StartExecution, WorkspacesTypeOK, others, docker, tables, maker, history, NoExecution
<1>2. ASSUME NEW c \in Connections, ResolveNext(x, c) PROVE WorkspacesTypeOK'
  <2>1. OfMode(c, "exec_only") \in SUBSET (Connections \X Names)
    BY DEF OfMode, WorkspacesTypeOK, Secrets
  <2>2. execution'
          \in [Executors -> [todo : SUBSET Connections, got : SUBSET (Connections \X Names)]]
    BY <1>2, <2>1 DEF ResolveNext, NoExecution, WorkspacesTypeOK
  <2> QED
    BY <1>2, <2>2
       DEF ResolveNext, vault, WorkspacesTypeOK, others, docker, tables, maker, history
<1> QED
  BY <1>1, <1>2

\* The list that a request to add or remove a secret writes is the one its answer tells of.
LEMMA WriteTells ==
  ASSUME NEW list, list \subseteq Secrets, NEW name, NEW mode \in Modes \cup {Removal}
  PROVE  Edited(list, name, mode)
           = {s \in list : s[1] # name} \cup ({name} \X ({mode} \cap Modes))
<1>1. CASE mode = Removal
  <2>1. {mode} \cap Modes = {}
    BY <1>1 DEF Modes, Removal
  <2> QED
    BY <1>1, <2>1 DEF Edited
<1>2. CASE mode # Removal
  <2>1. {name} \X ({mode} \cap Modes) = {<<name, mode>>}
    BY <1>2
  <2> QED
    BY <1>2, <2>1 DEF Edited
<1> QED
  BY <1>1, <1>2

\* Every step keeps that what the answers say of a connection is what it holds: an edit that
\* is written over another one is noted.
LEMMA AnswersStep ==
  ASSUME WorkspacesTypeOK, AnswersAreTrue, [WorkspacesNext]_workspaceVars
  PROVE  AnswersAreTrue'
<1>1. ASSUME UNCHANGED <<secrets, told, editor, tangled>> PROVE AnswersAreTrue'
  BY <1>1 DEF AnswersAreTrue
<1>2. ASSUME NEW c \in Connections, NEW list \in SUBSET Secrets, Replace(c, list)
      PROVE  AnswersAreTrue'
  <2>1. /\ secrets' = [secrets EXCEPT ![c] = list] /\ told' = [told EXCEPT ![c] = list]
        /\ tangled' = tangled \ {c}
    BY <1>2 DEF Replace
  <2>2. \A d \in Connections \ tangled' : secrets'[d] = told'[d]
    BY <2>1 DEF AnswersAreTrue, WorkspacesTypeOK
  <2>3. ASSUME NEW e \in Editors, editor'[e] # NoEdit, editor'[e].fresh
        PROVE  editor'[e].list = secrets'[editor'[e].at]
    <3>1. editor[e] \in Edits
      BY DEF WorkspacesTypeOK, Edits
    <3>2. editor[e].at # c /\ editor'[e] = editor[e]
      BY <1>2, <2>3, <3>1, StaleEdit DEF Replace
    <3> QED
      BY <2>1, <2>3, <3>1, <3>2 DEF AnswersAreTrue, WorkspacesTypeOK, Edits
  <2> QED
    BY <2>2, <2>3 DEF AnswersAreTrue
<1>3. ASSUME NEW c \in Connections, NEW e \in Editors, NEW name \in Names,
             NEW mode \in Modes \cup {Removal}, ReadList(e, c, name, mode)
      PROVE  AnswersAreTrue'
  BY <1>3 DEF ReadList, AnswersAreTrue, WorkspacesTypeOK
<1>4. ASSUME NEW e \in Editors, WriteList(e) PROVE AnswersAreTrue'
  <2> DEFINE edit == editor[e]
             c == edit.at
  <2>1. edit \in [at : Connections, list : SUBSET Secrets, name : Names,
                  mode : Modes \cup {Removal}, fresh : BOOLEAN]
    BY <1>4 DEF WriteList, WorkspacesTypeOK
  <2>2. CASE connectionStatus[c] = "deleted"
    BY <1>4, <2>2 DEF WriteList, AnswersAreTrue, WorkspacesTypeOK
  <2>3. CASE connectionStatus[c] # "deleted"
    <3> DEFINE after == Edited(edit.list, edit.name, edit.mode)
    <3>1. /\ secrets' = [secrets EXCEPT ![c] = after]
          /\ told' = [told EXCEPT ![c] = {s \in told[c] : s[1] # edit.name}
                                           \cup ({edit.name} \X ({edit.mode} \cap Modes))]
          /\ tangled' = IF edit.fresh THEN tangled ELSE tangled \cup {c}
          /\ editor' = [f \in Editors |->
                           IF f = e THEN NoEdit
                           ELSE IF editor[f].at = c THEN [editor[f] EXCEPT !.fresh = FALSE]
                                ELSE editor[f]]
      BY <1>4, <2>3 DEF WriteList
    <3>2. ASSUME c \notin tangled' PROVE secrets'[c] = told'[c]
      <4>1. edit.list = secrets[c] /\ secrets[c] = told[c]
        BY <1>4, <2>1, <3>1, <3>2 DEF WriteList, AnswersAreTrue
      <4>2. after = {s \in told[c] : s[1] # edit.name}
                      \cup ({edit.name} \X ({edit.mode} \cap Modes))
        BY <2>1, <4>1, WriteTells
      <4> QED
        BY <2>1, <3>1, <4>2 DEF WorkspacesTypeOK
    <3>3. ASSUME NEW d \in Connections, d # c, d \notin tangled' PROVE secrets'[d] = told'[d]
      BY <3>1, <3>3 DEF AnswersAreTrue, WorkspacesTypeOK
    <3>4. ASSUME NEW f \in Editors, editor'[f] # NoEdit, editor'[f].fresh
          PROVE  editor'[f].list = secrets'[editor'[f].at]
      <4>1. editor[f] \in Edits
        BY DEF WorkspacesTypeOK, Edits
      <4>2. editor[f].at # c /\ editor'[f] = editor[f]
        BY <3>1, <3>4, <4>1, StaleEdit
      <4> QED
        BY <3>1, <3>4, <4>1, <4>2 DEF AnswersAreTrue, WorkspacesTypeOK, Edits
    <3> QED
      BY <3>2, <3>3, <3>4 DEF AnswersAreTrue
  <2> QED
    BY <2>2, <2>3
<1>5. ASSUME NEW c \in Connections, RevokeConnection(c) \/ DeleteConnection(c) PROVE AnswersAreTrue'
  BY <1>1, <1>5 DEF RevokeConnection, DeleteConnection
<1>6. ASSUME NEW x \in Executors,
             \/ \E wanted \in SUBSET Connections : StartExecution(x, wanted)
             \/ \E c \in Connections : ResolveNext(x, c)
      PROVE  AnswersAreTrue'
  BY <1>1, <1>6 DEF StartExecution, ResolveNext, vault
<1>7. ASSUME NEW w \in Workspaces, MakeWorkspace(w) PROVE AnswersAreTrue'
  BY <1>1, <1>7
     DEF MakeWorkspace, CreateRow, Inspect, CreateNetwork, ResolveSecrets, Command, SetReady,
         EmitCreated, Link, Failed, vault
<1>8. ASSUME NEW s \in Stoppers,
             StopperStep(s)
      PROVE  AnswersAreTrue'
  BY <1>1, <1>8
     DEF StopperStep, StopWorkspace, FindRun, ReadRow, DockerStop, DockerRemove, SetStopped,
         vault
<1>9. ASSUME UNCHANGED workspaceVars PROVE AnswersAreTrue'
  BY <1>1, <1>9 DEF workspaceVars, vault
<1> QED
  BY <1>2, <1>3, <1>4, <1>5, <1>6, <1>7, <1>8, <1>9 DEF StopperStep, WorkspacesNext, EditVault

\* The requests for workspaces keep the types; the run that a workspace is given to exists
\* because its event could be stored.
LEMMA WorkspaceTypes ==
  ASSUME WorkspacesTypeOK, EmittedHasRun, NEW w \in Workspaces, MakeWorkspace(w)
  PROVE  WorkspacesTypeOK'
<1>1. UNCHANGED <<vault, execution, stopper>>
  BY DEF MakeWorkspace, CreateRow, Inspect, CreateNetwork, ResolveSecrets, Command, SetReady,
         EmitCreated, Link, Failed
<1>2. WorkspacesTypeOK'
      <=> /\ network' \in BOOLEAN
          /\ row' \in [Workspaces -> {"absent", "provisioning", "ready", "error", "stopped"}]
          /\ container' \in [Workspaces -> {"none", "created", "running", "stopped", "removed"}]
          /\ linked' \in [Runs -> Workspaces \cup {Nobody}]
          /\ env' \in [Workspaces -> SUBSET (Connections \X Names)]
          /\ at' \in [Workspaces -> Places] /\ for' \in [Workspaces -> Runs \cup {Unknown}]
          /\ failures' \in 0 .. MaxFailures
          /\ stored' \subseteq Workspaces /\ faulty' \subseteq Workspaces
          /\ early' \subseteq Workspaces /\ replaced' \subseteq Workspaces \cup {Nobody}
  BY <1>1 DEF WorkspacesTypeOK, vault
<1>3. ASSUME NEW r \in Runs \cup {Unknown}, CreateRow(w, r) PROVE WorkspacesTypeOK'
  <2>1. PICK place \in Places : at' = [at EXCEPT ![w] = place]
    BY <1>3 DEF CreateRow, Places
  <2>2. at' \in [Workspaces -> Places]
    BY <2>1 DEF WorkspacesTypeOK
  <2> QED
    BY <1>2, <1>3, <2>2 DEF CreateRow, SetRow, docker, history, WorkspacesTypeOK
<1>4. ASSUME NEW next \in Places, Proceed(w, next)
      PROVE  /\ at' \in [Workspaces -> Places] /\ for' \in [Workspaces -> Runs \cup {Unknown}]
             /\ env' \in [Workspaces -> SUBSET (Connections \X Names)]
  BY <1>4 DEF Proceed, WorkspacesTypeOK
<1>5. ASSUME NEW place, NEW next \in Places, NEW caught \in Places,
             Await(w, place, next, caught)
      PROVE  /\ at' \in [Workspaces -> Places] /\ for' \in [Workspaces -> Runs \cup {Unknown}]
             /\ env' \in [Workspaces -> SUBSET (Connections \X Names)]
             /\ failures' \in 0 .. MaxFailures
             /\ faulty' \subseteq Workspaces /\ UNCHANGED <<early, replaced>>
  BY <1>4, <1>5, FaultCounts DEF Await, history, WorkspacesTypeOK
<1>6. ASSUME NEW place, NEW effect \in {"created", "running"}, NEW next \in Places,
             Command(w, place, effect, next)
      PROVE  WorkspacesTypeOK'
  <2>1. container' \in [Workspaces -> {"none", "created", "running", "stopped", "removed"}]
    BY <1>6 DEF Command, SetContainer, WorkspacesTypeOK
  <2>2. "failed" \in Places
    BY DEF Places
  <2>3. /\ at' \in [Workspaces -> Places] /\ for' \in [Workspaces -> Runs \cup {Unknown}]
        /\ env' \in [Workspaces -> SUBSET (Connections \X Names)]
    BY <1>4, <1>6, <2>2 DEF Command
  <2> QED
    BY <1>2, <1>6, <2>1, <2>3, FaultCounts DEF Command, tables, history, WorkspacesTypeOK
<1>7. CASE Inspect(w)
  <2>1. PICK place \in Places : Proceed(w, place)
    BY <1>7 DEF Inspect, Inspected, Places
  <2>2. /\ at' \in [Workspaces -> Places] /\ for' \in [Workspaces -> Runs \cup {Unknown}]
        /\ env' \in [Workspaces -> SUBSET (Connections \X Names)]
    BY <1>4, <2>1
  <2>3. early' \subseteq Workspaces
    BY <1>7 DEF Inspect, WorkspacesTypeOK
  <2> QED
    BY <1>2, <1>7, <2>2, <2>3, FaultCounts DEF Inspect, docker, tables, WorkspacesTypeOK
<1>8. CASE CreateNetwork(w)
  <2>1. PICK place \in Places : Proceed(w, place)
    BY <1>8 DEF CreateNetwork, Places
  <2>2. /\ at' \in [Workspaces -> Places] /\ for' \in [Workspaces -> Runs \cup {Unknown}]
        /\ env' \in [Workspaces -> SUBSET (Connections \X Names)]
    BY <1>4, <2>1
  <2> QED
    BY <1>2, <1>8, <2>2, FaultCounts DEF CreateNetwork, tables, history, WorkspacesTypeOK
<1>9. CASE ResolveSecrets(w)
  <2>1. AgentSecrets \in SUBSET (Connections \X Names)
    BY DEF AgentSecrets, OfMode, WorkspacesTypeOK, Secrets
  <2>2. env' \in [Workspaces -> SUBSET (Connections \X Names)]
    BY <1>9, <2>1 DEF ResolveSecrets, WorkspacesTypeOK
  <2>3. at' \in [Workspaces -> Places]
    BY <1>9 DEF ResolveSecrets, WorkspacesTypeOK, Places
  <2> QED
    BY <1>2, <1>9, <2>2, <2>3, FaultCounts
       DEF ResolveSecrets, docker, tables, history, WorkspacesTypeOK
<1>10. CASE SetReady(w)
  <2>1. "event" \in Places /\ "failed" \in Places
    BY DEF Places
  <2>2. /\ row' \in [Workspaces -> {"absent", "provisioning", "ready", "error", "stopped"}]
        /\ stored' \subseteq Workspaces
    BY <1>10 DEF SetReady, SetRow, WorkspacesTypeOK
  <2> QED
    BY <1>2, <1>5, <1>10, <2>1, <2>2 DEF SetReady, docker, WorkspacesTypeOK
<1>11. CASE EmitCreated(w)
  <2>1. "link" \in Places /\ "failed" \in Places
    BY DEF Places
  <2> QED
    BY <1>2, <1>4, <1>5, <1>11, <2>1 DEF EmitCreated, docker, tables, history, WorkspacesTypeOK
<1>12. CASE Failed(w)
  <2>1. "over" \in Places
    BY DEF Places
  <2>2. row' \in [Workspaces -> {"absent", "provisioning", "ready", "error", "stopped"}]
    BY <1>12 DEF Failed, SetRow, WorkspacesTypeOK
  <2> QED
    BY <1>2, <1>5, <1>12, <2>1, <2>2 DEF Failed, docker, WorkspacesTypeOK
<1>13. CASE Link(w)
  <2>1. "over" \in Places
    BY DEF Places
  <2>2. linked' \in [Runs -> Workspaces \cup {Nobody}]
    BY <1>13 DEF Link, Given, WorkspacesTypeOK
  <2>3. replaced' \subseteq Workspaces \cup {Nobody}
    BY <1>13 DEF Link, EmittedHasRun, WorkspacesTypeOK
  <2> QED
    BY <1>2, <1>4, <1>13, <2>1, <2>2, <2>3, FaultCounts DEF Link, docker, WorkspacesTypeOK
<1>14. "start" \in Places /\ "ready" \in Places
  BY DEF Places
<1> QED
  BY <1>3, <1>6, <1>7, <1>8, <1>9, <1>10, <1>11, <1>12, <1>13, <1>14 DEF MakeWorkspace

\* The requests to stop keep the types.
LEMMA StopTypes ==
  ASSUME WorkspacesTypeOK, NEW s \in Stoppers,
         StopperStep(s)
  PROVE  WorkspacesTypeOK'
<1> DEFINE Requests == [at : {"find", "read", "stop", "remove", "update"}, of : Workspaces]
<1>1. UNCHANGED <<vault, execution, network, stored, linked, maker, early, replaced>>
  BY DEF StopperStep, StopWorkspace, FindRun, ReadRow, DockerStop, DockerRemove, SetStopped,
         docker, tables, history
<1>2. WorkspacesTypeOK'
      <=> /\ row' \in [Workspaces -> {"absent", "provisioning", "ready", "error", "stopped"}]
          /\ container' \in [Workspaces -> {"none", "created", "running", "stopped", "removed"}]
          /\ stopper' \in [Stoppers -> {NoStop} \cup Requests]
          /\ failures' \in 0 .. MaxFailures /\ faulty' \subseteq Workspaces
  BY <1>1 DEF WorkspacesTypeOK, vault, maker
<1>3. ASSUME NEW w \in Workspaces, StopWorkspace(s, w) PROVE WorkspacesTypeOK'
  BY <1>2, <1>3 DEF StopWorkspace, docker, tables, history, WorkspacesTypeOK
<1>4. ASSUME stopper[s].at \in {"find", "read", "stop", "remove", "update"}
      PROVE  stopper[s] \in Requests
  BY <1>4 DEF WorkspacesTypeOK, NoStop
<1>5. ASSUME stopper[s] \in Requests, NEW place \in {"read", "stop", "remove", "update"},
             StopAt(s, place) \/ End(s)
      PROVE  stopper' \in [Stoppers -> {NoStop} \cup Requests]
  BY <1>5 DEF StopAt, End, WorkspacesTypeOK
<1>6. CASE FindRun(s) \/ ReadRow(s)
  BY <1>2, <1>4, <1>5, <1>6 DEF FindRun, ReadRow, docker, tables, history, WorkspacesTypeOK
<1>7. CASE DockerStop(s)
  <2>1. stopper[s] \in Requests
    BY <1>4, <1>7 DEF DockerStop
  <2>2. container' \in [Workspaces -> {"none", "created", "running", "stopped", "removed"}]
    BY <1>7, <2>1 DEF DockerStop, SetContainer, WorkspacesTypeOK
  <2> QED
    BY <1>2, <1>5, <1>7, <2>1, <2>2, FaultCounts
       DEF DockerStop, tables, history, WorkspacesTypeOK
<1>8. CASE DockerRemove(s)
  <2>1. stopper[s] \in Requests
    BY <1>4, <1>8 DEF DockerRemove
  <2>2. container' \in [Workspaces -> {"none", "created", "running", "stopped", "removed"}]
    BY <1>8, <2>1 DEF DockerRemove, SetContainer, WorkspacesTypeOK
  <2> QED
    BY <1>2, <1>5, <1>8, <2>1, <2>2, FaultCounts
       DEF DockerRemove, tables, history, WorkspacesTypeOK
<1>9. CASE SetStopped(s)
  <2>1. stopper[s] \in Requests
    BY <1>4, <1>9 DEF SetStopped
  <2>2. row' \in [Workspaces -> {"absent", "provisioning", "ready", "error", "stopped"}]
    BY <1>9, <2>1 DEF SetStopped, SetRow, WorkspacesTypeOK
  <2> QED
    BY <1>2, <1>5, <1>9, <2>1, <2>2, FaultCounts
       DEF SetStopped, docker, history, WorkspacesTypeOK
<1> QED
  BY <1>3, <1>6, <1>7, <1>8, <1>9 DEF StopperStep

\* Every step keeps the types.
LEMMA WorkspacesTypeStep ==
  ASSUME WorkspacesTypeOK, EmittedHasRun, [WorkspacesNext]_workspaceVars
  PROVE  WorkspacesTypeOK'
<1>1. ASSUME UNCHANGED workspaceVars PROVE WorkspacesTypeOK'
  BY <1>1 DEF workspaceVars, vault, docker, tables, maker, history, WorkspacesTypeOK
<1> QED
  BY <1>1, VaultTypes, ExecutionTypes, WorkspaceTypes, StopTypes DEF StopperStep, WorkspacesNext

\* A step is one of the vault's, which leaves workspaces alone, or one of a request for a
\* workspace or of a request to stop one.
LEMMA VaultKeepsWorkspaces ==
  ASSUME [WorkspacesNext]_workspaceVars
  PROVE  \/ UNCHANGED others
         \/ \E w \in Workspaces : MakeWorkspace(w)
         \/ \E s \in Stoppers : StopperStep(s)
BY DEF StopperStep, WorkspacesNext, workspaceVars, others

\* Every step keeps that who is about to be given to a run is for a run that exists.
LEMMA EmittedStep ==
  ASSUME WorkspacesTypeOK, EmittedHasRun, [WorkspacesNext]_workspaceVars
  PROVE  EmittedHasRun'
<1>1. ASSUME NEW w \in Workspaces, MakeWorkspace(w) PROVE EmittedHasRun'
  <2>1. ASSUME NEW v \in Workspaces, v # w PROVE at'[v] = at[v] /\ for'[v] = for[v]
    BY <1>1, <2>1
       DEF MakeWorkspace, CreateRow, Inspect, CreateNetwork, ResolveSecrets, Command, SetReady,
           EmitCreated, Link, Failed, Await, Proceed, WorkspacesTypeOK
  <2>2. at'[w] = "link" => for'[w] \in Runs
    BY <1>1
       DEF MakeWorkspace, CreateRow, Inspect, Inspected, CreateNetwork, ResolveSecrets, Command,
           SetReady, EmitCreated, Link, Failed, Await, Proceed, WorkspacesTypeOK
  <2> QED
    BY <2>1, <2>2 DEF EmittedHasRun
<1>2. ASSUME UNCHANGED <<at, for>> PROVE EmittedHasRun'
  BY <1>2 DEF EmittedHasRun
<1> QED
  BY <1>1, <1>2, VaultKeepsWorkspaces
     DEF StopperStep, others, maker, StopWorkspace, FindRun, ReadRow, DockerStop, DockerRemove,
         SetStopped

\* What a step of the request for a workspace leaves alone: requests to stop, the other
\* workspaces, and the runs' workspaces but for the one it overwrites and notes.
LEMMA MakerSteps ==
  ASSUME WorkspacesTypeOK, NEW w \in Workspaces, MakeWorkspace(w)
  PROVE  /\ at[w] # "over" /\ stopper' = stopper
         /\ early \subseteq early' /\ faulty \subseteq faulty' /\ replaced \subseteq replaced'
         /\ \A r \in Runs : linked'[r] = linked[r] \/ (linked'[r] = w /\ at'[w] = "over")
         /\ \A v \in Workspaces \ {w} :
              /\ at'[v] = at[v] /\ for'[v] = for[v]
              /\ row'[v] = row[v] /\ container'[v] = container[v]
              /\ v \in stored <=> v \in stored'
              /\ \A r \in Runs : linked[r] = v => linked'[r] = v \/ v \in replaced'
<1>1. /\ at[w] # "over" /\ stopper' = stopper
      /\ early \subseteq early' /\ faulty \subseteq faulty' /\ replaced \subseteq replaced'
  BY DEF MakeWorkspace, CreateRow, Inspect, CreateNetwork, ResolveSecrets, Command, SetReady,
         EmitCreated, Link, Failed, Await, FaultOf, history
<1>2. ASSUME NEW v \in Workspaces, v # w PROVE at'[v] = at[v] /\ for'[v] = for[v]
  BY <1>2
     DEF MakeWorkspace, CreateRow, Inspect, CreateNetwork, ResolveSecrets, Command, SetReady,
         EmitCreated, Link, Failed, Await, Proceed, WorkspacesTypeOK
<1>3. ASSUME NEW v \in Workspaces, v # w
      PROVE  row'[v] = row[v] /\ container'[v] = container[v] /\ (v \in stored <=> v \in stored')
  <2>1. row'[v] = row[v]
    BY <1>3
       DEF MakeWorkspace, CreateRow, Inspect, CreateNetwork, ResolveSecrets, Command, SetReady,
           EmitCreated, Link, Failed, SetRow, tables, WorkspacesTypeOK
  <2>2. container'[v] = container[v]
    BY <1>3
       DEF MakeWorkspace, CreateRow, Inspect, CreateNetwork, ResolveSecrets, Command, SetReady,
           EmitCreated, Link, Failed, SetContainer, docker, WorkspacesTypeOK
  <2>3. v \in stored <=> v \in stored'
    BY <1>3
       DEF MakeWorkspace, CreateRow, Inspect, CreateNetwork, ResolveSecrets, Command, SetReady,
           EmitCreated, Link, Failed, tables
  <2> QED
    BY <2>1, <2>2, <2>3
<1>4. CASE Link(w)
  <2>1. at'[w] = "over"
    BY <1>4 DEF Link, Proceed, WorkspacesTypeOK
  <2>2. CASE linked' = [linked EXCEPT ![for[w]] = w] /\ replaced' = replaced \cup {linked[for[w]]}
    BY <1>1, <1>2, <1>3, <2>1, <2>2 DEF WorkspacesTypeOK
  <2>3. CASE linked' = linked
    BY <1>1, <1>2, <1>3, <2>3
  <2> QED
    BY <1>4, <2>2, <2>3 DEF Link, Given
<1>5. CASE ~Link(w)
  <2>1. linked' = linked
    BY <1>5
       DEF MakeWorkspace, CreateRow, Inspect, CreateNetwork, ResolveSecrets, Command, SetReady,
           EmitCreated, Failed, tables
  <2> QED
    BY <1>1, <1>2, <1>3, <2>1
<1> QED
  BY <1>4, <1>5

\* What a step of a request to stop leaves alone.
LEMMA StopSteps ==
  ASSUME WorkspacesTypeOK, NEW s \in Stoppers,
         StopperStep(s)
  PROVE  /\ UNCHANGED <<at, for, network, stored, linked, early, replaced>>
         /\ faulty \subseteq faulty'
         /\ \A t \in Stoppers \ {s} : stopper'[t] = stopper[t]
<1>1. UNCHANGED <<at, for, network, stored, linked, early, replaced>>
  BY DEF StopperStep, StopWorkspace, FindRun, ReadRow, DockerStop, DockerRemove, SetStopped,
         docker, tables, maker, history
<1>2. faulty \subseteq faulty'
  BY DEF StopperStep, StopWorkspace, FindRun, ReadRow, DockerStop, DockerRemove, SetStopped,
         history, FaultOf
<1>3. \A t \in Stoppers \ {s} : stopper'[t] = stopper[t]
  BY DEF StopperStep, StopWorkspace, FindRun, ReadRow, DockerStop, DockerRemove, SetStopped,
         StopAt, End, WorkspacesTypeOK
<1> QED
  BY <1>1, <1>2, <1>3

\* A request to stop goes past its look-up only for a workspace that a run names.
LEMMA FoundByRun ==
  ASSUME WorkspacesTypeOK, NEW s \in Stoppers,
         StopperStep(s),
         NEW w \in Workspaces, Stopping(s, w)'
  PROVE  Stopping(s, w) \/ \E r \in Runs : linked[r] = w
<1>1. CASE \E v \in Workspaces : StopWorkspace(s, v)
  BY <1>1 DEF StopWorkspace, Stopping, WorkspacesTypeOK
<1>2. CASE FindRun(s)
  BY <1>2 DEF FindRun, Stopping, StopAt, End, WorkspacesTypeOK, NoStop
<1>3. CASE ReadRow(s) \/ DockerStop(s) \/ DockerRemove(s) \/ SetStopped(s)
  <2>1. stopper[s].at \in {"read", "stop", "remove", "update"}
    BY <1>3 DEF ReadRow, DockerStop, DockerRemove, SetStopped
  <2>2. stopper'[s] = NoStop \/ stopper'[s].of = stopper[s].of
    BY <1>3, <2>1
       DEF ReadRow, DockerStop, DockerRemove, SetStopped, StopAt, End, WorkspacesTypeOK, NoStop
  <2> QED
    BY <2>1, <2>2 DEF Stopping, NoStop
<1> QED
  BY <1>1, <1>2, <1>3 DEF StopperStep

\* Every step keeps that nobody names or stops a workspace before the request for it is over.
LEMMA UnknownStep ==
  ASSUME WorkspacesTypeOK, UnknownBeforeOver, [WorkspacesNext]_workspaceVars
  PROVE  UnknownBeforeOver'
<1>1. ASSUME NEW w \in Workspaces, MakeWorkspace(w) PROVE UnknownBeforeOver'
  <2>1. ASSUME NEW v \in Workspaces, at'[v] # "over" PROVE at[v] # "over"
    BY <1>1, <2>1, MakerSteps
  <2>2. ASSUME NEW v \in Workspaces, at'[v] # "over", NEW r \in Runs PROVE linked'[r] # v
    BY <1>1, <2>1, <2>2, MakerSteps DEF UnknownBeforeOver
  <2>3. \A s \in Stoppers, v \in Workspaces : Stopping(s, v)' = Stopping(s, v)
    BY <1>1, MakerSteps DEF Stopping
  <2> QED
    BY <2>1, <2>2, <2>3 DEF UnknownBeforeOver
<1>2. ASSUME NEW s \in Stoppers,
             StopperStep(s)
      PROVE  UnknownBeforeOver'
  <2>1. at' = at /\ linked' = linked /\ \A t \in Stoppers \ {s} : stopper'[t] = stopper[t]
    BY <1>2, StopSteps
  <2>2. ASSUME NEW t \in Stoppers, NEW v \in Workspaces, Stopping(t, v)' PROVE at[v] = "over"
    <3>1. CASE t = s
      BY <1>2, <2>2, <3>1, FoundByRun DEF UnknownBeforeOver
    <3>2. CASE t # s
      BY <2>1, <2>2, <3>2 DEF UnknownBeforeOver, Stopping
    <3> QED
      BY <3>1, <3>2
  <2> QED
    BY <2>1, <2>2 DEF UnknownBeforeOver
<1>3. ASSUME UNCHANGED others PROVE UnknownBeforeOver'
  BY <1>3 DEF others, maker, tables, UnknownBeforeOver, Stopping
<1> QED
  BY <1>1, <1>2, <1>3, VaultKeepsWorkspaces

\* Every step keeps that a request that still has to create the network either failed to see
\* it or has company.
LEMMA NetworkStep ==
  ASSUME WorkspacesTypeOK, NetworkHasMaker, [WorkspacesNext]_workspaceVars
  PROVE  NetworkHasMaker'
<1>1. ASSUME network' = network, early \subseteq early', faulty \subseteq faulty',
             \A w \in Workspaces : at'[w] = "create network" => at[w] = "create network"
      PROVE  NetworkHasMaker'
  BY <1>1 DEF NetworkHasMaker
<1>2. ASSUME NEW w \in Workspaces, MakeWorkspace(w) PROVE NetworkHasMaker'
  <2>1. CASE Inspect(w)
    <3>1. network' = network /\ \A v \in Workspaces \ {w} : at'[v] = at[v]
      BY <1>2, <2>1, MakerSteps DEF Inspect, docker
    <3>2. at'[w] = "create network" =>
            IF network THEN w \in faulty' ELSE w \in early'
      BY <2>1 DEF Inspect, Inspected, Proceed, FaultOf, WorkspacesTypeOK
    <3>3. early \subseteq early' /\ faulty \subseteq faulty'
      BY <1>2, MakerSteps
    <3> QED
      BY <3>1, <3>2, <3>3 DEF NetworkHasMaker
  <2>2. CASE CreateNetwork(w)
    <3>1. at'[w] # "create network" /\ at[w] = "create network"
      BY <2>2 DEF CreateNetwork, Proceed, WorkspacesTypeOK
    <3>2. /\ \A v \in Workspaces \ {w} : at'[v] = at[v]
          /\ early \subseteq early' /\ faulty \subseteq faulty'
      BY <1>2, MakerSteps
    <3>3. network => network'
      BY <2>2 DEF CreateNetwork
    <3>4. ASSUME NEW v \in Workspaces, at'[v] = "create network"
          PROVE  /\ v \in early' \cup faulty'
                 /\ ~network' => v \in early'
                 /\ network' => v \in faulty' \/ \E u \in early' : u # v
      BY <3>1, <3>2, <3>3, <3>4 DEF NetworkHasMaker, WorkspacesTypeOK
    <3> QED
      BY <3>4 DEF NetworkHasMaker
  <2>3. CASE ~Inspect(w) /\ ~CreateNetwork(w)
    <3>1. network' = network
      BY <1>2, <2>3
         DEF MakeWorkspace, CreateRow, ResolveSecrets, Command, SetReady, EmitCreated, Link,
             Failed, docker
    <3>2. at'[w] # "create network"
      BY <1>2, <2>3
         DEF MakeWorkspace, CreateRow, ResolveSecrets, Command, SetReady, EmitCreated, Link,
             Failed, Await, Proceed, WorkspacesTypeOK
    <3>3. /\ early \subseteq early' /\ faulty \subseteq faulty'
          /\ \A v \in Workspaces \ {w} : at'[v] = at[v]
      BY <1>2, MakerSteps
    <3> QED
      BY <1>1, <3>1, <3>2, <3>3
  <2> QED
    BY <2>1, <2>2, <2>3
<1>3. ASSUME NEW s \in Stoppers,
             StopperStep(s)
      PROVE  NetworkHasMaker'
  <2>1. at' = at /\ network' = network /\ early' = early /\ faulty \subseteq faulty'
    BY <1>3, StopSteps
  <2> QED
    BY <1>1, <2>1
<1>4. ASSUME UNCHANGED others PROVE NetworkHasMaker'
  BY <1>4, <1>1 DEF others, maker, docker, history
<1> QED
  BY <1>2, <1>3, <1>4, VaultKeepsWorkspaces

\* A workspace stays sound when its own state and that of its stoppers stay, whatever becomes
\* of the others.
LEMMA SoundKept ==
  ASSUME NEW w \in Workspaces, Sound(w), for[w] \in Runs \cup {Unknown},
         at'[w] = at[w], for'[w] = for[w], row'[w] = row[w], container'[w] = container[w],
         w \in stored => w \in stored', early \subseteq early',
         w \in replaced => w \in replaced',
         \A r \in Runs : /\ linked'[r] = w => linked[r] = w
                         /\ linked[r] = w => linked'[r] = w \/ w \in replaced',
         \A s \in Stoppers : Stopping(s, w)' =>
           /\ Stopping(s, w)
           /\ stopper'[s].at \in {"remove", "update"} => stopper'[s].at = stopper[s].at
  PROVE  Sound(w)'
<1>1. Way(w)'
  BY DEF Sound, Way, Cause
<1>2. Failure(w) => Failure(w)'
  BY DEF Failure, Cause
<1>3. Success(w) => Success(w)'
  BY DEF Success
<1> QED
  BY <1>1, <1>2, <1>3 DEF Sound

\* A step of the request for a workspace, when it does not fail, keeps the workspace sound.
LEMMA MakerSound ==
  ASSUME WorkspacesTypeOK, UnknownBeforeOver, EmittedHasRun, NetworkHasMaker,
         NEW w \in Workspaces, MakeWorkspace(w), Sound(w), w \notin faulty'
  PROVE  Sound(w)'
<1> USE DEF Sound, Way
<1>1. w \notin faulty /\ failures' = failures
  BY DEF MakeWorkspace, CreateRow, Inspect, CreateNetwork, ResolveSecrets, Command, SetReady,
         EmitCreated, Link, Failed, Await, FaultOf, history
<1>2. \A place \in Places, next \in Places, caught \in Places :
        Await(w, place, next, caught) => at[w] = place /\ Proceed(w, next) /\ UNCHANGED history
  BY DEF Await, FaultOf
<1>3. ASSUME NEW place, Proceed(w, place) PROVE at'[w] = place /\ for' = for
  BY <1>3 DEF Proceed, WorkspacesTypeOK
<1>4. ASSUME NEW r \in Runs \cup {Unknown}, CreateRow(w, r) PROVE Sound(w)'
  <2>1. at'[w] \in {"inspect", "secrets"} /\ row'[w] = "provisioning" /\ container' = container
    BY <1>4 DEF CreateRow, SetRow, docker, WorkspacesTypeOK
  <2> QED
    BY <1>4, <2>1 DEF CreateRow
<1>5. CASE Inspect(w)
  <2>1. /\ at[w] = "inspect" /\ at'[w] \in {"create network", "secrets"}
        /\ UNCHANGED <<row, container>>
    BY <1>5, <1>3 DEF Inspect, Inspected, docker, tables
  <2> QED
    BY <2>1
<1>6. CASE CreateNetwork(w)
  <2>1. CASE ~network /\ Proceed(w, "secrets")
    <3>1. at[w] = "create network" /\ at'[w] = "secrets" /\ UNCHANGED <<row, container>>
      BY <1>3, <1>6, <2>1 DEF CreateNetwork, tables
    <3> QED
      BY <3>1
  <2>2. CASE network /\ Proceed(w, "failed") /\ UNCHANGED history
    <3>1. w \in early /\ \E v \in early : v # w
      BY <1>1, <1>6, <2>2 DEF NetworkHasMaker, CreateNetwork
    <3>2. container[w] = "none" /\ row[w] = "provisioning"
      BY <1>6 DEF CreateNetwork
    <3>3. at'[w] = "failed" /\ UNCHANGED <<row, container, early>>
      BY <1>3, <1>6, <2>2 DEF CreateNetwork, tables, history
    <3> QED
      BY <3>1, <3>2, <3>3 DEF Cause
  <2> QED
    BY <1>6, <2>1, <2>2 DEF CreateNetwork, FaultOf
<1>7. CASE ResolveSecrets(w)
  <2>1. at[w] = "secrets" /\ at'[w] = "create" /\ UNCHANGED <<row, container>>
    BY <1>7 DEF ResolveSecrets, docker, tables, WorkspacesTypeOK
  <2> QED
    BY <2>1
<1>8. CASE Command(w, "create", "created", "start")
  <2>1. at'[w] = "start" /\ container'[w] = "created" /\ row' = row /\ at[w] = "create"
    BY <1>3, <1>8 DEF Command, SetContainer, FaultOf, tables, WorkspacesTypeOK
  <2> QED
    BY <2>1
<1>9. CASE Command(w, "start", "running", "ready")
  <2>1. at'[w] = "ready" /\ container'[w] = "running" /\ row' = row /\ at[w] = "start"
    BY <1>3, <1>9 DEF Command, SetContainer, FaultOf, tables, WorkspacesTypeOK
  <2> QED
    BY <2>1
<1>10. CASE SetReady(w)
  <2>1. at[w] = "ready" /\ at'[w] = "event"
    BY <1>2, <1>3, <1>10 DEF SetReady, Places
  <2>2. row'[w] = "ready" /\ w \in stored' /\ container' = container
    BY <1>10, <2>1 DEF SetReady, SetRow, docker, WorkspacesTypeOK
  <2> QED
    BY <2>1, <2>2
<1>11. CASE EmitCreated(w)
  <2>1. at[w] = "event" /\ UNCHANGED <<row, container, stored>>
    BY <1>2, <1>11 DEF EmitCreated, Await, docker, tables
  <2>2. at'[w] = "link" \/ (at'[w] = "failed" /\ for'[w] = Unknown)
    BY <1>2, <1>3, <1>11 DEF EmitCreated, Places
  <2> QED
    BY <2>1, <2>2 DEF Cause
<1>12. CASE Link(w)
  <2>1. /\ at[w] = "link" /\ at'[w] = "over" /\ for' = for
        /\ linked' = [linked EXCEPT ![for[w]] = w]
        /\ UNCHANGED <<row, container, stored, stopper>>
    BY <1>3, <1>12 DEF Link, Given, FaultOf, docker
  <2>2. for[w] \in Runs /\ linked'[for[w]] = w
    BY <2>1 DEF EmittedHasRun, WorkspacesTypeOK
  <2>3. \A s \in Stoppers : ~Stopping(s, w)'
    BY <2>1 DEF UnknownBeforeOver, Stopping
  <2>4. Success(w)'
    BY <2>1, <2>2, <2>3 DEF Success
  <2> QED
    BY <2>1, <2>4
<1>13. CASE Failed(w)
  <2>1. at[w] = "failed" /\ at'[w] = "over" /\ for' = for /\ UNCHANGED history
    BY <1>2, <1>3, <1>13 DEF Failed, Places
  <2>2. row'[w] = "error" /\ UNCHANGED <<container, linked, stopper>>
    BY <1>1, <1>13 DEF Failed, SetRow, docker, WorkspacesTypeOK
  <2>3. Cause(w)'
    BY <2>1, <2>2 DEF Cause, history
  <2>4. /\ \A r \in Runs : linked'[r] # w
        /\ \A s \in Stoppers : ~Stopping(s, w)'
    BY <2>1, <2>2 DEF UnknownBeforeOver, Stopping
  <2> QED
    BY <2>1, <2>2, <2>3, <2>4 DEF Failure
<1> QED
  BY <1>4, <1>5, <1>6, <1>7, <1>8, <1>9, <1>10, <1>11, <1>12, <1>13 DEF MakeWorkspace

\* A step of a request to stop keeps sound every workspace whose commands did not fail.
LEMMA StopSound ==
  ASSUME WorkspacesTypeOK, UnknownBeforeOver, SoundUnlessFaulty,
         NEW s \in Stoppers,
         StopperStep(s)
  PROVE  SoundUnlessFaulty'
<1>1. /\ UNCHANGED <<at, for, stored, linked, early, replaced>> /\ faulty \subseteq faulty'
      /\ \A t \in Stoppers \ {s} : stopper'[t] = stopper[t]
  BY StopSteps
<1>2. ASSUME NEW w \in Workspaces, w \notin faulty', row'[w] = row[w], container'[w] = container[w],
             Stopping(s, w)' =>
               /\ Stopping(s, w)
               /\ stopper'[s].at \in {"remove", "update"} => stopper'[s].at = stopper[s].at
      PROVE  Sound(w)'
  <2>1. Sound(w) /\ for[w] \in Runs \cup {Unknown}
    BY <1>1, <1>2 DEF SoundUnlessFaulty, WorkspacesTypeOK
  <2>2. \A t \in Stoppers : Stopping(t, w)' =>
          /\ Stopping(t, w)
          /\ stopper'[t].at \in {"remove", "update"} => stopper'[t].at = stopper[t].at
    BY <1>1, <1>2 DEF Stopping
  <2> QED
    BY <1>1, <1>2, <2>1, <2>2, SoundKept
<1>3. ASSUME NEW w \in Workspaces, stopper[s] # NoStop, stopper[s].of = w,
             stopper[s].at # "find", w \notin faulty
      PROVE  at[w] = "over" /\ Success(w)
  <2>1. Stopping(s, w)
    BY <1>3 DEF Stopping
  <2> QED
    BY <1>3, <2>1 DEF UnknownBeforeOver, SoundUnlessFaulty, Sound, Failure
<1>4. ASSUME NEW w \in Workspaces, at[w] = "over", Success(w)' PROVE Sound(w)'
  BY <1>1, <1>4 DEF Sound, Way
<1>5. ASSUME stopper[s].at \in {"find", "read", "stop", "remove", "update"}
      PROVE  stopper[s] # NoStop /\ stopper[s].of \in Workspaces
  BY <1>5 DEF WorkspacesTypeOK, NoStop
<1>6. ASSUME stopper[s] # NoStop, NEW place \in {"read", "stop", "remove", "update"},
             StopAt(s, place)
      PROVE  stopper'[s] # NoStop /\ stopper'[s].of = stopper[s].of /\ stopper'[s].at = place
  BY <1>6 DEF StopAt, WorkspacesTypeOK, NoStop
<1>7. ASSUME End(s) PROVE stopper'[s] = NoStop
  BY <1>7 DEF End, WorkspacesTypeOK
<1>8. ASSUME NEW v \in Workspaces, StopWorkspace(s, v) PROVE SoundUnlessFaulty'
  <2>1. stopper'[s].at = "find" /\ UNCHANGED <<row, container, faulty>>
    BY <1>8 DEF StopWorkspace, docker, tables, history, WorkspacesTypeOK
  <2> QED
    BY <1>2, <2>1 DEF SoundUnlessFaulty, Stopping
<1>9. CASE FindRun(s)
  <2>1. PICK v \in Workspaces : v = stopper[s].of
    BY <1>5, <1>9 DEF FindRun
  <2>2. /\ stopper[s].at = "find" /\ stopper[s] # NoStop
        /\ UNCHANGED <<row, container, faulty>>
    BY <1>5, <1>9, <2>1 DEF FindRun, docker, tables, history
  <2>3. CASE End(s)
    BY <1>2, <1>7, <2>1, <2>2, <2>3 DEF SoundUnlessFaulty, Stopping
  <2>4. CASE StopAt(s, "read") /\ \E r \in Runs : linked[r] = v
    <3>1. stopper'[s] # NoStop /\ stopper'[s].of = v /\ stopper'[s].at = "read"
      BY <1>6, <2>1, <2>2, <2>4
    <3>2. ASSUME NEW w \in Workspaces \ {v}, w \notin faulty PROVE Sound(w)'
      BY <1>2, <2>1, <2>2, <3>1, <3>2 DEF Stopping
    <3>3. ASSUME v \notin faulty PROVE Sound(v)'
      <4>1. at[v] = "over" /\ Success(v)
        BY <2>1, <2>2, <2>4, <3>3 DEF UnknownBeforeOver, SoundUnlessFaulty, Sound, Failure
      <4>2. \A t \in Stoppers : Stopping(t, v)' =>
              \/ Stopping(t, v) /\ stopper'[t].at = stopper[t].at
              \/ stopper'[t].at = "read"
        BY <1>1, <3>1 DEF Stopping
      <4>3. Success(v)'
        BY <1>1, <2>1, <2>2, <4>1, <4>2 DEF Success
      <4> QED
        BY <1>4, <2>1, <2>2, <4>1, <4>3
    <3> QED
      BY <2>1, <2>2, <3>2, <3>3 DEF SoundUnlessFaulty
  <2> QED
    BY <1>9, <2>1, <2>3, <2>4 DEF FindRun
<1>10. CASE ReadRow(s)
  <2>1. /\ stopper[s].at = "read" /\ stopper[s] # NoStop
        /\ UNCHANGED <<row, container, faulty>>
    BY <1>5, <1>10 DEF ReadRow, docker, tables, history
  <2>2. CASE End(s)
    BY <1>2, <1>7, <2>1, <2>2 DEF SoundUnlessFaulty, Stopping
  <2>3. CASE StopAt(s, "stop")
    <3>1. stopper'[s] # NoStop /\ stopper'[s].of = stopper[s].of /\ stopper'[s].at = "stop"
      BY <1>6, <2>1, <2>3
    <3> QED
      BY <1>2, <2>1, <3>1 DEF SoundUnlessFaulty, Stopping
  <2> QED
    BY <1>10, <2>2, <2>3 DEF ReadRow
<1>11. ASSUME stopper[s].at \in {"stop", "remove", "update"},
              NEW v \in Workspaces, v = stopper[s].of,
              \A w \in Workspaces \ {v} : row'[w] = row[w] /\ container'[w] = container[w],
              stopper'[s] = NoStop \/ stopper'[s].of = v,
              v \notin faulty' => Success(v)'
       PROVE  SoundUnlessFaulty'
  <2>1. stopper[s] # NoStop
    BY <1>5, <1>11
  <2>2. ASSUME NEW w \in Workspaces \ {v}, w \notin faulty' PROVE Sound(w)'
    BY <1>2, <1>11, <2>2 DEF Stopping
  <2>3. ASSUME v \notin faulty' PROVE Sound(v)'
    <3>1. at[v] = "over"
      BY <1>1, <1>3, <1>11, <2>1, <2>3
    <3> QED
      BY <1>4, <1>11, <2>1, <2>3, <3>1
  <2> QED
    BY <2>2, <2>3 DEF SoundUnlessFaulty
<1>12. CASE DockerStop(s)
  <2>1. PICK v \in Workspaces : v = stopper[s].of
    BY <1>5, <1>12 DEF DockerStop
  <2>2. /\ stopper[s].at = "stop" /\ stopper[s] # NoStop
        /\ row' = row /\ \A w \in Workspaces \ {v} : container'[w] = container[w]
    BY <1>5, <1>12, <2>1 DEF DockerStop, SetContainer, tables, WorkspacesTypeOK
  <2>3. stopper'[s].of = v
    BY <1>6, <1>12, <2>1, <2>2 DEF DockerStop
  <2>4. ASSUME v \notin faulty' PROVE Success(v)'
    <3>1. at[v] = "over" /\ Success(v)
      BY <1>1, <1>3, <2>1, <2>2, <2>4
    <3>2. CASE /\ container[v] \in {"running", "stopped"} /\ container'[v] = "stopped"
               /\ StopAt(s, "remove")
      <4>1. stopper'[s].at = "remove"
        BY <1>6, <2>1, <2>2, <3>2
      <4>2. \A t \in Stoppers \ {s} :
              Stopping(t, v)' => Stopping(t, v) /\ stopper'[t] = stopper[t]
        BY <1>1 DEF Stopping
      <4> QED
        BY <1>1, <2>1, <2>2, <3>1, <3>2, <4>1, <4>2 DEF Success
    <3>3. CASE container[v] \notin {"running", "stopped"} /\ container' = container
      <4>1. container'[v] = "removed"
        BY <3>1, <3>3 DEF Success
      <4> QED
        BY <1>1, <2>1, <2>2, <3>1, <4>1 DEF Success
    <3> QED
      BY <1>12, <2>1, <2>2, <2>4, <3>2, <3>3
         DEF DockerStop, SetContainer, FaultOf, WorkspacesTypeOK
  <2> QED
    BY <1>11, <2>1, <2>2, <2>3, <2>4
<1>13. CASE DockerRemove(s)
  <2>1. PICK v \in Workspaces : v = stopper[s].of
    BY <1>5, <1>13 DEF DockerRemove
  <2>2. /\ stopper[s].at = "remove" /\ stopper[s] # NoStop
        /\ row' = row /\ \A w \in Workspaces \ {v} : container'[w] = container[w]
    BY <1>5, <1>13, <2>1 DEF DockerRemove, SetContainer, tables, WorkspacesTypeOK
  <2>3. stopper'[s].of = v
    BY <1>6, <1>13, <2>1, <2>2 DEF DockerRemove
  <2>4. ASSUME v \notin faulty' PROVE Success(v)'
    <3>1. Success(v)
      BY <1>1, <1>3, <2>1, <2>2, <2>4
    <3>2. container'[v] = "removed"
      BY <1>13, <2>1, <2>2, <2>4 DEF DockerRemove, SetContainer, FaultOf, WorkspacesTypeOK
    <3> QED
      BY <1>1, <2>1, <2>2, <3>1, <3>2 DEF Success
  <2> QED
    BY <1>11, <2>1, <2>2, <2>3, <2>4
<1>14. CASE SetStopped(s)
  <2>1. PICK v \in Workspaces : v = stopper[s].of
    BY <1>5, <1>14 DEF SetStopped
  <2>2. /\ stopper[s].at = "update" /\ stopper[s] # NoStop
        /\ container' = container /\ \A w \in Workspaces \ {v} : row'[w] = row[w]
    BY <1>5, <1>14, <2>1 DEF SetStopped, SetRow, docker, WorkspacesTypeOK
  <2>3. stopper'[s] = NoStop
    BY <1>7, <1>14 DEF SetStopped
  <2>4. ASSUME v \notin faulty' PROVE Success(v)'
    <3>1. Success(v) /\ Stopping(s, v)
      BY <1>1, <1>3, <2>1, <2>2, <2>4 DEF Stopping
    <3>2. container[v] = "removed"
      BY <2>1, <2>2, <3>1 DEF Success
    <3>3. row'[v] = "stopped"
      BY <1>14, <2>1, <2>2, <2>4 DEF SetStopped, SetRow, FaultOf, WorkspacesTypeOK
    <3> QED
      BY <1>1, <2>1, <2>2, <3>1, <3>2, <3>3 DEF Success
  <2> QED
    BY <1>11, <2>1, <2>2, <2>3, <2>4
<1> QED
  BY <1>8, <1>9, <1>10, <1>12, <1>13, <1>14 DEF StopperStep

\* Every step keeps the workspaces sound whose commands and statements did not fail.
LEMMA SoundStep ==
  ASSUME Correct, [WorkspacesNext]_workspaceVars
  PROVE  SoundUnlessFaulty'
<1> USE DEF Correct
<1>1. ASSUME NEW w \in Workspaces, MakeWorkspace(w) PROVE SoundUnlessFaulty'
  <2>1. ASSUME w \notin faulty' PROVE Sound(w)'
    <3>1. Sound(w)
      BY <1>1, <2>1, MakerSteps DEF SoundUnlessFaulty
    <3> QED
      BY <1>1, <2>1, <3>1, MakerSound
  <2>2. ASSUME NEW v \in Workspaces, v # w, v \notin faulty' PROVE Sound(v)'
    <3>1. Sound(v) /\ for[v] \in Runs \cup {Unknown}
      BY <1>1, <2>2, MakerSteps DEF SoundUnlessFaulty, WorkspacesTypeOK
    <3>2. \A s \in Stoppers : Stopping(s, v)' = Stopping(s, v) /\ stopper'[s] = stopper[s]
      BY <1>1, MakerSteps DEF Stopping
    <3> QED
      BY <1>1, <2>2, <3>1, <3>2, MakerSteps, SoundKept
  <2> QED
    BY <2>1, <2>2 DEF SoundUnlessFaulty
<1>2. ASSUME UNCHANGED others PROVE SoundUnlessFaulty'
  <2>1. UNCHANGED <<at, for, row, container, stored, linked, stopper, early, replaced, faulty>>
    BY <1>2 DEF others, docker, tables, maker, history
  <2> SUFFICES ASSUME NEW w \in Workspaces, w \notin faulty PROVE Sound(w)'
    BY <2>1 DEF SoundUnlessFaulty
  <2>2. Sound(w) /\ for[w] \in Runs \cup {Unknown}
    BY DEF SoundUnlessFaulty, WorkspacesTypeOK
  <2>3. \A s \in Stoppers : Stopping(s, w)' = Stopping(s, w)
    BY <2>1 DEF Stopping
  <2> QED
    BY <2>1, <2>2, <2>3, SoundKept
<1> QED
  BY <1>1, <1>2, StopSound, VaultKeepsWorkspaces

\* The whole invariant is inductive.
LEMMA CorrectStep ==
  ASSUME Correct, [WorkspacesNext]_workspaceVars
  PROVE  Correct'
<1>1. WorkspacesTypeOK' /\ AnswersAreTrue'
  BY WorkspacesTypeStep, AnswersStep DEF Correct
<1>2. UnknownBeforeOver' /\ EmittedHasRun' /\ NetworkHasMaker'
  BY UnknownStep, EmittedStep, NetworkStep DEF Correct
<1> QED
  BY <1>1, <1>2, SoundStep DEF Correct

\* The invariant of Workspaces: what is true of a workspace's row, container and run at each
\* place of the requests that make and stop it, and of the secrets the vault tells of.
THEOREM WorkspacesInvariantHolds == WorkspacesSpec => []Correct
<1>1. WorkspacesInit => Correct
  BY CorrectInit
<1>2. Correct /\ [WorkspacesNext]_workspaceVars => Correct'
  BY CorrectStep
<1> QED
  BY <1>1, <1>2, PTL DEF WorkspacesSpec

\* A container that createWorkspace leaves can be found and stopped through its run, and a row
\* says stopped only of a container that stopWorkspace has removed, unless a fault intervened.
THEOREM LeftContainersAreReachable == WorkspacesSpec => []ContainersAreReachable
<1>1. Correct => ContainersAreReachable
  <2> SUFFICES ASSUME Correct, NEW w \in Workspaces \ faulty
               PROVE  /\ Abandoned(w) /\ for[w] # Unknown =>
                           /\ row[w] = "ready" /\ w \in stored
                           /\ linked[for[w]] = w \/ w \in replaced
                      /\ row[w] = "stopped" => container[w] = "removed"
    BY DEF ContainersAreReachable
  <2>1. Sound(w) /\ at[w] \in Places
    BY DEF Correct, SoundUnlessFaulty, WorkspacesTypeOK
  <2> QED
    BY <2>1 DEF Sound, Way, Failure, Success, Cause, Abandoned, Places
<1> QED
  BY <1>1, WorkspacesInvariantHolds, PTL

\* createWorkspace fails without a fault only for a run that does not exist, or when two first
\* creations race for the network.
THEOREM ErrorsHaveCauses == WorkspacesSpec => []ErrorHasCause
<1>1. Correct => ErrorHasCause
  <2> SUFFICES ASSUME Correct, NEW w \in Workspaces \ faulty, row[w] = "error"
               PROVE  for[w] = Unknown \/ (w \in early /\ \E v \in early : v # w)
    BY DEF ErrorHasCause
  <2>1. Sound(w) /\ at[w] \in Places
    BY DEF Correct, SoundUnlessFaulty, WorkspacesTypeOK
  <2> QED
    BY <2>1 DEF Sound, Way, Failure, Success, Cause, Places
<1> QED
  BY <1>1, WorkspacesInvariantHolds, PTL

\* The secrets of a live connection that have a mode have it by the answers to the editors.
LEMMA OfModeIsDeclared ==
  ASSUME WorkspacesTypeOK, AnswersAreTrue, NEW c \in Connections, Live(c), NEW mode
  PROVE  Declared(OfMode(c, mode), mode)
<1>1. ASSUME NEW entry \in OfMode(c, mode)
      PROVE  entry[1] = c /\ <<entry[2], mode>> \in secrets[c]
  BY <1>1 DEF OfMode, WorkspacesTypeOK, Secrets
<1> QED
  BY <1>1 DEF Declared, AnswersAreTrue, Live

\* Secrets enter a workspace, or an execution, only from connections that are active at that
\* moment and with the mode its editors were told, unless two edits crossed.
THEOREM SecretsGoOnlyWhereDeclared == WorkspacesSpec => SecretsGoWhereDeclared
<1>1. ASSUME Correct, [WorkspacesNext]_workspaceVars
      PROVE  [/\ \A w \in Workspaces : env'[w] # env[w] => Declared(env'[w], "agent")
              /\ \A x \in Executors :
                   Declared(execution'[x].got \ execution[x].got, "exec_only")]_workspaceVars
  <2>1. ASSUME NEW w \in Workspaces, env'[w] # env[w] PROVE Declared(env'[w], "agent")
    <3>1. PICK v \in Workspaces : ResolveSecrets(v)
      BY <1>1, <2>1
         DEF WorkspacesNext, workspaceVars, others, maker, MakeWorkspace, CreateRow, Inspect,
             CreateNetwork, Command, SetReady, EmitCreated, Link, Failed, Await, Proceed,
             StopWorkspace, FindRun, ReadRow, DockerStop, DockerRemove, SetStopped
    <3>2. env'[w] = AgentSecrets
      BY <1>1, <2>1, <3>1 DEF ResolveSecrets, Correct, WorkspacesTypeOK
    <3>3. ASSUME NEW entry \in AgentSecrets
          PROVE  \E c \in Connections : Live(c) /\ entry \in OfMode(c, "agent")
      BY <3>3 DEF AgentSecrets
    <3> QED
      BY <1>1, <3>2, <3>3, OfModeIsDeclared DEF Correct, Declared
  <2>2. ASSUME NEW x \in Executors
        PROVE  Declared(execution'[x].got \ execution[x].got, "exec_only")
    <3>1. CASE execution'[x].got \subseteq execution[x].got
      BY <3>1 DEF Declared
    <3>2. ASSUME NEW y \in Executors, NEW wanted \in SUBSET Connections, StartExecution(y, wanted)
          PROVE  execution'[x].got = execution[x].got
      BY <1>1, <3>2 DEF StartExecution, Correct, WorkspacesTypeOK
    <3>3. ASSUME NEW y \in Executors, NEW c \in Connections, ResolveNext(y, c)
          PROVE  \/ execution'[x].got \subseteq execution[x].got
                 \/ /\ Live(c)
                    /\ execution'[x].got \ execution[x].got \subseteq OfMode(c, "exec_only")
      BY <1>1, <3>3 DEF ResolveNext, NoExecution, Correct, WorkspacesTypeOK
    <3>4. ASSUME UNCHANGED execution PROVE execution'[x].got = execution[x].got
      BY <3>4
    <3>5. \/ UNCHANGED execution
          \/ \E y \in Executors :
               \/ \E wanted \in SUBSET Connections : StartExecution(y, wanted)
               \/ \E c \in Connections : ResolveNext(y, c)
      BY <1>1
         DEF WorkspacesNext, workspaceVars, EditVault, Replace, ReadList, WriteList,
             RevokeConnection, DeleteConnection, MakeWorkspace, CreateRow, Inspect,
             CreateNetwork, ResolveSecrets, Command, SetReady, EmitCreated, Link, Failed,
             StopWorkspace, FindRun, ReadRow, DockerStop, DockerRemove, SetStopped
    <3>6. ASSUME NEW y \in Executors, NEW c \in Connections, ResolveNext(y, c)
          PROVE  Declared(execution'[x].got \ execution[x].got, "exec_only")
      BY <1>1, <3>1, <3>3, <3>6, OfModeIsDeclared DEF Correct, Declared
    <3> QED
      BY <3>1, <3>2, <3>4, <3>5, <3>6
  <2> QED
    BY <2>1, <2>2
<1> QED
  BY <1>1, WorkspacesInvariantHolds, PTL DEF WorkspacesSpec, SecretsGoWhereDeclared

=============================================================================
