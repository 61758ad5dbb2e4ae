-------------------------- MODULE WorkspacesInvariant --------------------------
(***************************************************************************)
(* The inductive invariant of Workspaces: what is true of a workspace at   *)
(* each place of the request that makes it and of the one that stops it,   *)
(* and of the two copies of a connection's secrets.  ContainersProofs      *)
(* proves it.                                                              *)
(***************************************************************************)
EXTENDS Workspaces

\* What the answers say of a connection is what it holds, and an edit that nothing has
\* overtaken is of that.
AnswersAreTrue ==
  /\ \A c \in Connections \ tangled : secrets[c] = told[c]
  /\ \A e \in Editors :
       editor[e] # NoEdit /\ editor[e].fresh => editor[e].list = secrets[editor[e].at]

\* A request to stop that has found the run of its workspace.
Stopping(s, w) == stopper[s] # NoStop /\ stopper[s].of = w /\ stopper[s].at # "find"

\* A step of one of them.
StopperStep(s) ==
  \/ \E w \in Workspaces : StopWorkspace(s, w)
  \/ FindRun(s) \/ ReadRow(s) \/ DockerStop(s) \/ DockerRemove(s) \/ SetStopped(s)

\* Before the request for a workspace is over, no run names it, and nobody stops it.
UnknownBeforeOver ==
  \A w \in Workspaces : at[w] # "over" =>
    /\ \A r \in Runs : linked[r] # w
    /\ \A s \in Stoppers : ~Stopping(s, w)

\* The request for a workspace of a run that does not exist fails at the event.
EmittedHasRun == \A w \in Workspaces : at[w] = "link" => for[w] \in Runs

\* Who still has to create the network looked for it when it was not there, or his
\* inspection failed; and if it is there now, another one has created it, who looked when
\* it was not there either.
NetworkHasMaker ==
  \A w \in Workspaces : at[w] = "create network" =>
    /\ w \in early \cup faulty
    /\ ~network => w \in early
    /\ network => w \in faulty \/ \E v \in early : v # w

Cause(w) ==
  \/ for[w] = Unknown
  \/ w \in early /\ container[w] = "none" /\ \E v \in early : v # w

\* The row and the container of a workspace on its way, none of whose commands and
\* statements failed.
Way(w) ==
  /\ at[w] = "idle" => row[w] = "absent"
  /\ at[w] \in {"idle", "inspect", "create network", "secrets", "create"} => container[w] = "none"
  /\ at[w] \in {"inspect", "create network", "secrets", "create", "start", "ready"} =>
       row[w] = "provisioning"
  /\ at[w] = "start" => container[w] = "created"
  /\ at[w] \in {"ready", "event", "link"} => container[w] = "running"
  /\ at[w] \in {"event", "link"} => row[w] = "ready" /\ w \in stored
  /\ at[w] = "failed" => row[w] \in {"provisioning", "ready"} /\ Cause(w)

\* At its end: creation failed, and nothing will stop the workspace; or it succeeded, and
\* the row and the container change with the requests to stop.
Failure(w) ==
  /\ row[w] = "error" /\ Cause(w)
  /\ \A r \in Runs : linked[r] # w
  /\ \A s \in Stoppers : ~Stopping(s, w)

Success(w) ==
  /\ row[w] \in {"ready", "stopped"} /\ w \in stored
  /\ container[w] \in {"running", "stopped", "removed"}
  /\ for[w] \in Runs
  /\ linked[for[w]] = w \/ w \in replaced
  /\ row[w] = "stopped" => container[w] = "removed"
  /\ \A s \in Stoppers : Stopping(s, w) =>
       /\ stopper[s].at = "remove" => container[w] # "running"
       /\ stopper[s].at = "update" => container[w] = "removed"

Sound(w) == Way(w) /\ (at[w] = "over" => Failure(w) \/ Success(w))

SoundUnlessFaulty == \A w \in Workspaces \ faulty : Sound(w)

Correct ==
  /\ WorkspacesTypeOK /\ AnswersAreTrue
  /\ UnknownBeforeOver /\ EmittedHasRun /\ NetworkHasMaker
  /\ SoundUnlessFaulty
=============================================================================
