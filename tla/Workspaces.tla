----------------------------- MODULE Workspaces -----------------------------
(***************************************************************************)
(* Workspaces: the request that makes the container of a run, command by   *)
(* command, the request that stops it, and the Docker network that the     *)
(* workspaces share.  Secrets come from Vault.                             *)
(*                                                                         *)
(* A command of docker may fail, or be given up after it has taken effect. *)
(* Such a fault, and that of a statement, is the only thing noted about a  *)
(* workspace besides its state.  The commands between the start of a       *)
(* container and the update of its row are one step with the update: their *)
(* failures are ignored (the egress rules, the hash of the files) or end   *)
(* like its failure (the clone, the name space).  Resource limits and the  *)
(* commands' arguments are left out.  The route names no organization, so  *)
(* the connections are all there are.                                      *)
(*                                                                         *)
(* Definitions that no action uses are the mistakes the properties are     *)
(* tested against.                                                         *)
(***************************************************************************)
EXTENDS Vault

CONSTANTS
  Workspaces, \* one for each request for a workspace
  Runs,
  Unknown,    \* an id that is no run's: the route does not look
  Stoppers,   \* bound: requests at once that stop a workspace
  MaxFailures \* bound: failed commands and statements

Nobody == "nobody"

ASSUME WorkspacesAssumption ==
  MaxFailures \in Nat /\ Unknown \notin Runs /\ Nobody \notin Workspaces

NoStop == [at |-> "idle"]

VARIABLES
  network, \* the Docker network exists
  row,     \* Workspace.status, "absent" before there is a row
  stored,  \* workspaces whose row has the containerId
  container,
  linked,  \* Run.workspaceId
  env,     \* <<connection, name>> of the secrets in the container's environment
  at,      \* where the request for a workspace stands
  for,     \* its runId
  stopper, \* where a request to stop stands, and its workspace
  failures,
  faulty,  \* history: workspaces one of whose commands or statements failed
  early,   \* history: workspaces that looked for the network before it was there
  replaced \* history: workspaces whose run has been given another one

docker == <<network, container>>
tables == <<row, stored, linked>>
maker == <<at, for, env>>
history == <<failures, faulty, early, replaced>>
workspaceVars == <<vault, execution, docker, tables, maker, stopper, history>>

WorkspacesInit ==
  /\ VaultInit
  /\ network = FALSE
  /\ row = [w \in Workspaces |-> "absent"]
  /\ stored = {}
  /\ container = [w \in Workspaces |-> "none"]
  /\ linked = [r \in Runs |-> Nobody]
  /\ env = [w \in Workspaces |-> {}]
  /\ at = [w \in Workspaces |-> "idle"]
  /\ for = [w \in Workspaces |-> Unknown]
  /\ stopper = [s \in Stoppers |-> NoStop]
  /\ failures = 0
  /\ faulty = {}
  /\ early = {}
  /\ replaced = {}

FaultOf(w) ==
  /\ failures < MaxFailures
  /\ failures' = failures + 1
  /\ faulty' = faulty \cup {w}

Proceed(w, place) == at' = [at EXCEPT ![w] = place] /\ UNCHANGED <<for, env>>

\* The two ends of an awaited statement or command that changes nothing by itself.
Await(w, place, next, caught) ==
  /\ at[w] = place
  /\ \/ Proceed(w, next) /\ UNCHANGED history
     \/ FaultOf(w) /\ Proceed(w, caught) /\ UNCHANGED <<early, replaced>>

SetRow(w, value) == row' = [row EXCEPT ![w] = value]

SetContainer(w, value) == container' = [container EXCEPT ![w] = value]

-----------------------------------------------------------------------------
(* createWorkspace                                                         *)

\* A workspace with unrestricted egress uses the network of the host.
CreateRow(w, r) ==
  /\ at[w] = "idle"
  /\ \E place \in {"inspect", "secrets"} : at' = [at EXCEPT ![w] = place]
  /\ for' = [for EXCEPT ![w] = r]
  /\ SetRow(w, "provisioning")
  /\ UNCHANGED <<vault, execution, docker, stored, linked, env, stopper, history>>

\* An inspection that fails is taken for a network that is not there.
Uninspected == {"create network"}
Inspected == IF network THEN {"secrets"} ELSE {"create network"}

Inspect(w) ==
  /\ at[w] = "inspect"
  /\ early' = IF network THEN early ELSE early \cup {w}
  /\ \/ \E place \in Inspected : Proceed(w, place) /\ UNCHANGED <<failures, faulty>>
     \/ network /\ FaultOf(w) /\ Proceed(w, "create network")
  /\ UNCHANGED <<vault, execution, docker, tables, stopper, replaced>>

CreateNetwork(w) ==
  /\ at[w] = "create network"
  /\ \/ ~network /\ network' = TRUE /\ Proceed(w, "secrets") /\ UNCHANGED history
     \/ network /\ Proceed(w, "failed") /\ UNCHANGED <<network, history>>
     \/ /\ ~network
        /\ network' \in BOOLEAN
        /\ FaultOf(w)
        /\ Proceed(w, "failed")
        /\ UNCHANGED <<early, replaced>>
  /\ UNCHANGED <<vault, execution, container, tables, stopper>>

\* Without the secrets if they cannot be read.
ResolveSecrets(w) ==
  /\ at[w] = "secrets"
  /\ \/ env' = [env EXCEPT ![w] = AgentSecrets] /\ UNCHANGED history
     \/ UNCHANGED <<env, early, replaced>> /\ FaultOf(w)
  /\ at' = [at EXCEPT ![w] = "create"]
  /\ UNCHANGED <<vault, execution, docker, tables, for, stopper>>

\* docker create and docker start.
Command(w, place, effect, next) ==
  /\ at[w] = place
  /\ \/ SetContainer(w, effect) /\ Proceed(w, next) /\ UNCHANGED history
     \/ /\ \/ SetContainer(w, effect)
           \/ UNCHANGED container
        /\ FaultOf(w)
        /\ Proceed(w, "failed")
        /\ UNCHANGED <<early, replaced>>
  /\ UNCHANGED <<vault, execution, network, tables, stopper>>

\* Egress rules, clone, hash, name space and the update of the row.
SetReady(w) ==
  /\ Await(w, "ready", "event", "failed")
  /\ IF at'[w] = "event"
     THEN SetRow(w, "ready") /\ stored' = stored \cup {w}
     ELSE UNCHANGED <<row, stored>>
  /\ UNCHANGED <<vault, execution, docker, linked, stopper>>

\* emitRunEvent refers to the run: without one it fails.
EmitCreated(w) ==
  /\ \/ for[w] \in Runs /\ Await(w, "event", "link", "failed")
     \/ for[w] = Unknown /\ at[w] = "event" /\ Proceed(w, "failed") /\ UNCHANGED history
  /\ UNCHANGED <<vault, execution, docker, tables, stopper>>

\* The catch: the row, and an event that changes nothing here; the request ends with an error
\* in any case.
Failed(w) ==
  /\ Await(w, "failed", "over", "over")
  /\ \/ failures' = failures /\ SetRow(w, "error")
     \/ failures' # failures /\ UNCHANGED row
  /\ UNCHANGED <<vault, execution, docker, stored, linked, stopper>>

Unlinked(w) == linked

\* The route gives the run its workspace, over one that it has.
Given(w) == [linked EXCEPT ![for[w]] = w]

Link(w) ==
  /\ at[w] = "link"
  /\ Proceed(w, "over")
  /\ \/ /\ linked' = Given(w)
        /\ replaced' = replaced \cup {linked[for[w]]}
        /\ UNCHANGED <<failures, faulty, early>>
     \/ UNCHANGED <<linked, early, replaced>> /\ FaultOf(w)
  /\ UNCHANGED <<vault, execution, docker, row, stored, stopper>>

MakeWorkspace(w) ==
  \/ \E r \in Runs \cup {Unknown} : CreateRow(w, r)
  \/ Inspect(w) \/ CreateNetwork(w) \/ ResolveSecrets(w)
  \/ Command(w, "create", "created", "start")
  \/ Command(w, "start", "running", "ready")
  \/ SetReady(w) \/ EmitCreated(w) \/ Link(w) \/ Failed(w)

-----------------------------------------------------------------------------
(* stopWorkspace                                                           *)

StopAt(s, place) == stopper' = [stopper EXCEPT ![s].at = place]
End(s) == stopper' = [stopper EXCEPT ![s] = NoStop]

StopWorkspace(s, w) ==
  /\ stopper[s] = NoStop
  /\ row[w] # "absent"
  /\ stopper' = [stopper EXCEPT ![s] = [at |-> "find", of |-> w]]
  /\ UNCHANGED <<vault, execution, docker, tables, maker, history>>

\* A workspace of no run is answered with 404.
FindRun(s) ==
  /\ stopper[s].at = "find"
  /\ IF \E r \in Runs : linked[r] = stopper[s].of THEN StopAt(s, "read") ELSE End(s)
  /\ UNCHANGED <<vault, execution, docker, tables, maker, history>>

ReadRow(s) ==
  /\ stopper[s].at = "read"
  /\ IF stopper[s].of \in stored THEN StopAt(s, "stop") ELSE End(s)
  /\ UNCHANGED <<vault, execution, docker, tables, maker, history>>

\* docker stop, of a container that is there; whatever fails, the row is updated.
DockerStop(s) ==
  LET w == stopper[s].of IN
  /\ stopper[s].at = "stop"
  /\ \/ /\ container[w] \in {"running", "stopped"}
        /\ SetContainer(w, "stopped")
        /\ StopAt(s, "remove")
        /\ UNCHANGED history
     \/ /\ container[w] \notin {"running", "stopped"}
        /\ StopAt(s, "update")
        /\ UNCHANGED <<container, history>>
     \/ /\ container[w] = "running"
        /\ container' \in {container, [container EXCEPT ![w] = "stopped"]}
        /\ StopAt(s, "update")
        /\ FaultOf(w)
        /\ UNCHANGED <<early, replaced>>
  /\ UNCHANGED <<vault, execution, network, tables, maker>>

\* docker rm, without force.
DockerRemove(s) ==
  LET w == stopper[s].of IN
  /\ stopper[s].at = "remove"
  /\ StopAt(s, "update")
  /\ \/ SetContainer(w, "removed") /\ UNCHANGED history
     \/ UNCHANGED <<container, early, replaced>> /\ FaultOf(w)
  /\ UNCHANGED <<vault, execution, network, tables, maker>>

\* The event after it changes nothing here.
SetStopped(s) ==
  /\ stopper[s].at = "update"
  /\ End(s)
  /\ \/ SetRow(stopper[s].of, "stopped") /\ UNCHANGED history
     \/ UNCHANGED <<row, early, replaced>> /\ FaultOf(stopper[s].of)
  /\ UNCHANGED <<vault, execution, docker, stored, linked, maker>>

-----------------------------------------------------------------------------
(* Specification                                                           *)

others == <<docker, tables, maker, stopper, history>>

WorkspacesNext ==
  \/ EditVault /\ UNCHANGED others
  \/ \E x \in Executors :
       /\ \/ \E wanted \in SUBSET Connections : StartExecution(x, wanted)
          \/ \E c \in Connections : ResolveNext(x, c)
       /\ UNCHANGED others
  \/ \E w \in Workspaces : MakeWorkspace(w) \/ \E s \in Stoppers : StopWorkspace(s, w)
  \/ \E s \in Stoppers :
       FindRun(s) \/ ReadRow(s) \/ DockerStop(s) \/ DockerRemove(s) \/ SetStopped(s)

WorkspacesSpec == WorkspacesInit /\ [][WorkspacesNext]_workspaceVars

-----------------------------------------------------------------------------
(* Properties                                                              *)

Places == {"idle", "inspect", "create network", "secrets", "create", "start", "ready", "event",
           "link", "failed", "over"}

\* The values of the rows, the containers, the requests and the vault.
WorkspacesTypeOK ==
  /\ connectionStatus \in [Connections -> {"active", "revoked", "deleted"}]
  /\ secrets \in [Connections -> SUBSET Secrets] /\ told \in [Connections -> SUBSET Secrets]
  /\ editor \in [Editors -> {NoEdit} \cup
       [at : Connections, list : SUBSET Secrets, name : Names, mode : Modes \cup {Removal},
        fresh : BOOLEAN]]
  /\ requests \in 0 .. MaxRequests /\ tangled \subseteq Connections
  /\ execution \in
       [Executors -> [todo : SUBSET Connections, got : SUBSET (Connections \X Names)]]
  /\ network \in BOOLEAN
  /\ row \in [Workspaces -> {"absent", "provisioning", "ready", "error", "stopped"}]
  /\ container \in [Workspaces -> {"none", "created", "running", "stopped", "removed"}]
  /\ linked \in [Runs -> Workspaces \cup {Nobody}]
  /\ env \in [Workspaces -> SUBSET (Connections \X Names)]
  /\ at \in [Workspaces -> Places] /\ for \in [Workspaces -> Runs \cup {Unknown}]
  /\ stopper \in [Stoppers -> {NoStop} \cup
       [at : {"find", "read", "stop", "remove", "update"}, of : Workspaces]]
  /\ failures \in 0 .. MaxFailures
  /\ stored \subseteq Workspaces /\ faulty \subseteq Workspaces /\ early \subseteq Workspaces
  /\ replaced \subseteq Workspaces \cup {Nobody}

\* What a secret's mode says, according to the answers to those who edited the connection:
\* only secrets of mode "agent" enter a workspace, only those of mode "exec_only" an
\* execution, and both only from connections that are active at that moment; unless an
\* edit of the connection was written over another one.
Declared(entries, mode) ==
  \A entry \in entries :
    /\ connectionStatus[entry[1]] = "active"
    /\ <<entry[2], mode>> \in told[entry[1]] \/ entry[1] \in tangled

SecretsGoWhereDeclared ==
  [][/\ \A w \in Workspaces : env'[w] # env[w] => Declared(env'[w], "agent")
     /\ \A x \in Executors : Declared(execution'[x].got \ execution[x].got, "exec_only")
    ]_workspaceVars

\* A container that a request has left behind can be stopped: its row has its id, and its
\* run names it, unless the run has been given another workspace since, the run does not
\* exist, or a command or statement failed.  And a row says stopped of a container that
\* is gone, unless docker failed.
Abandoned(w) ==
  /\ at[w] = "over"
  /\ \A s \in Stoppers : stopper[s] = NoStop \/ stopper[s].of # w
  /\ container[w] \notin {"none", "removed"}

ContainersAreReachable ==
  \A w \in Workspaces \ faulty :
    /\ Abandoned(w) /\ for[w] # Unknown =>
         row[w] = "ready" /\ w \in stored /\ (linked[for[w]] = w \/ w \in replaced)
    /\ row[w] = "stopped" => container[w] = "removed"

\* A workspace whose creation failed without a fault was for a run that does not exist, or
\* looked for the network while another first creation did.
ErrorHasCause ==
  \A w \in Workspaces \ faulty :
    row[w] = "error" => \/ for[w] = Unknown
                        \/ w \in early /\ \E v \in early : v # w
=============================================================================
