-------------------------- MODULE RunOrchestrator --------------------------
(***************************************************************************)
(* The control plane of runs: transitionRun and what is built on it, that  *)
(* is the pause, resume, transition, kill and quarantine endpoints and the *)
(* scheduling pass behind POST /api/runs/schedule with its timeout check,  *)
(* caps and preemption.                                                    *)
(*                                                                         *)
(* Runs are numbered in the order of their createdAt, and each may appear  *)
(* between any two steps of the others.  A process is an operator, whose   *)
(* requests are commands on one run, or a scheduler, whose requests are    *)
(* passes; each is cut at its awaits.  The timeline that emitRunEvent      *)
(* writes is read by none of them: here its transaction and the persisted  *)
(* event after it are one await, which may fail.                           *)
(*                                                                         *)
(* Definitions that no action uses are the mistakes the properties are     *)
(* tested against.                                                         *)
(***************************************************************************)
EXTENDS Naturals, FiniteSets

CONSTANTS
  Runs,         \* a set of numbers: the runs that may be created
  Operators,
  Schedulers,
  Priority,     \* Run.priority
  WorkspaceOf,  \* Run.workspaceId
  NoWorkspace,  \* the null workspaceId
  GlobalCap,    \* MAX_GLOBAL_CONCURRENT_RUNS
  WorkspaceCap, \* MAX_CONCURRENT_RUNS_PER_WORKSPACE
  Commands,     \* what the operators ask for
  Expiring,     \* bound: the runs whose timeoutAt may pass
  MaxCommands,  \* bound: commands of all operators
  MaxFaults     \* bound: failed statements

Priorities == {"P0", "P1", "P2"}
Statuses == {"pending", "scheduled", "running", "paused",
             "completed", "failed", "quarantined", "cancelled"}
Workspaces == {WorkspaceOf[r] : r \in Runs}

ASSUME RunsAssumption ==
  /\ Runs \subseteq Nat \ {0}
  /\ IsFiniteSet(Runs)
  /\ Priority \in [Runs -> Priorities]
  /\ DOMAIN WorkspaceOf = Runs

ASSUME ProcessesAssumption ==
  /\ Operators \cap Schedulers = {}
  /\ Commands \subseteq Statuses \cup {"kill", "quarantine"}

ASSUME BoundsAssumption ==
  /\ Expiring \subseteq Runs
  /\ GlobalCap \in Nat
  /\ WorkspaceCap \in Nat
  /\ MaxCommands \in Nat
  /\ MaxFaults \in Nat

VARIABLES
  status,       \* Run.status, "none" before the run is created
  late,         \* runs whose timeoutAt has passed
  revoked,      \* runs whose capabilities have been revoked
  pc,           \* where a process stands
  job,          \* the transitionRun call it is in, and where that returns to
  pass,         \* the locals of a scheduling pass
  commands,
  faults,
  \* history
  lifted,       \* runs that an operator made active
  quarantined   \* runs whose quarantine was acknowledged

history == <<lifted, quarantined>>
vars == <<status, late, revoked, pc, job, pass, commands, faults,
          lifted, quarantined>>

Processes == Operators \cup Schedulers
Active == {"scheduled", "running"}

NoJob == [run |-> 0, to |-> "none", seen |-> "none", after |-> "idle"]

\* waiting is history: the runs that were pending when the pass looked.
NoPass == [batch |-> {}, chosen |-> {}, slots |-> 0, urgent |-> 0,
           counts |-> [w \in Workspaces |-> 0], waiting |-> {}]

Init ==
  /\ status = [r \in Runs |-> "none"]
  /\ late = {}
  /\ revoked = {}
  /\ pc = [p \in Processes |-> "idle"]
  /\ job = [p \in Processes |-> NoJob]
  /\ pass = [s \in Schedulers |-> NoPass]
  /\ commands = 0
  /\ faults = 0
  /\ lifted = {}
  /\ quarantined = {}

Created == {r \in Runs : status[r] # "none"}

\* The row that createRun inserts, for POST /api/runs or a webhook; no request
\* here reads what it writes after that.
Create(r) ==
  /\ r \notin Created
  /\ \A x \in Runs \ Created : r <= x
  /\ status' = [status EXCEPT ![r] = "pending"]
  /\ UNCHANGED <<late, revoked, pc, job, pass, commands, faults, history>>

-----------------------------------------------------------------------------
(* transitionRun                                                           *)

\* RUN_TRANSITIONS.
Transitions ==
  {<<"pending", "scheduled">>, <<"pending", "cancelled">>,
   <<"scheduled", "running">>, <<"scheduled", "cancelled">>,
   <<"running", "paused">>, <<"running", "completed">>,
   <<"running", "failed">>, <<"running", "quarantined">>,
   <<"paused", "running">>, <<"paused", "cancelled">>,
   <<"paused", "quarantined">>, <<"quarantined", "cancelled">>}

AnyTransition(from, to) == from # to

CanTransition(from, to) == <<from, to>> \in Transitions

\* transitionRun(run, to) is called; when it returns, the caller is at after.
Begin(p, r, to, after) ==
  /\ pc' = [pc EXCEPT ![p] = "read"]
  /\ job' = [job EXCEPT ![p] = [run |-> r, to |-> to, seen |-> "none",
                                after |-> after]]

\* The request is over, answered or failed: its locals are gone.
Finish(p) ==
  /\ pc' = [pc EXCEPT ![p] = "idle"]
  /\ job' = [job EXCEPT ![p] = NoJob]
  /\ pass' = [s \in Schedulers |-> IF s = p THEN NoPass ELSE pass[s]]

\* The run is read and the transition checked; a forbidden one throws, and
\* with it goes the whole request.
Read(p) ==
  /\ pc[p] = "read"
  /\ IF CanTransition(status[job[p].run], job[p].to)
     THEN /\ job' = [job EXCEPT ![p].seen = status[job[p].run]]
          /\ pc' = [pc EXCEPT ![p] = "write"]
          /\ UNCHANGED pass
     ELSE Finish(p)
  /\ UNCHANGED <<status, late, revoked, commands, faults, history>>

\* The update names the run only: it overwrites whatever the status is by now.
Write(p) ==
  LET r == job[p].run IN
  /\ pc[p] = "write"
  /\ status' = [status EXCEPT ![r] = job[p].to]
  /\ lifted' = IF p \in Operators /\ job[p].to \in Active /\ status[r] \notin Active
               THEN lifted \cup {r} ELSE lifted
  /\ pc' = [pc EXCEPT ![p] = "emit"]
  /\ UNCHANGED <<late, revoked, job, pass, commands, faults, quarantined>>

\* emitRunEvent and persistEvent; then transitionRun returns.
Emit(p) ==
  /\ pc[p] = "emit"
  /\ IF job[p].after = "done"
     THEN Finish(p)
     ELSE pc' = [pc EXCEPT ![p] = job[p].after] /\ UNCHANGED <<job, pass>>
  /\ UNCHANGED <<status, late, revoked, commands, faults, history>>

\* A statement fails, or the Gate process dies under the request.
Fault(p) ==
  /\ faults < MaxFaults
  /\ pc[p] # "idle"
  /\ faults' = faults + 1
  /\ Finish(p)
  /\ UNCHANGED <<status, late, revoked, commands, history>>

-----------------------------------------------------------------------------
(* The operators' endpoints                                                *)

\* POST /api/runs/:id/transition, pause, resume, quarantine and kill.
Command(o, r, command) ==
  /\ pc[o] = "idle"
  /\ r \in Created
  /\ commands < MaxCommands
  /\ commands' = commands + 1
  /\ CASE command = "kill" ->
            /\ pc' = [pc EXCEPT ![o] = "kill"]
            /\ job' = [job EXCEPT ![o].run = r]
       [] command = "quarantine" -> Begin(o, r, "quarantined", "revoke")
       [] OTHER -> Begin(o, r, command, "done")
  /\ UNCHANGED <<status, late, revoked, pass, faults, history>>

\* killRun reads the run to choose where to send it.
KillTarget(from) ==
  CASE from \in {"pending", "scheduled", "paused"} -> "cancelled"
    [] from = "running" -> "failed"
    [] OTHER -> "none"

Kill(o) ==
  /\ pc[o] = "kill"
  /\ LET to == KillTarget(status[job[o].run])
     IN  IF to = "none"
         THEN Finish(o)
         ELSE Begin(o, job[o].run, to, "done") /\ UNCHANGED pass
  /\ UNCHANGED <<status, late, revoked, commands, faults, history>>

SkipRevocation(o) == revoked

\* capability.updateMany of quarantineRun.
Revocation(o) == revoked \cup {job[o].run}

Revoke(o) ==
  /\ pc[o] = "revoke"
  /\ revoked' = Revocation(o)
  /\ pc' = [pc EXCEPT ![o] = "publish"]
  /\ UNCHANGED <<status, late, job, pass, commands, faults, history>>

PublishQuarantine(o) ==
  /\ pc[o] = "publish"
  /\ quarantined' = quarantined \cup {job[o].run}
  /\ Finish(o)
  /\ UNCHANGED <<status, late, revoked, commands, faults, lifted>>

-----------------------------------------------------------------------------
(* The scheduling pass                                                     *)

\* orderBy priority, then createdAt.
Rank(priority) == CASE priority = "P0" -> 0 [] priority = "P1" -> 1 [] priority = "P2" -> 2

ByAge(r, x) == r < x

Before(r, x) ==
  \/ Rank(Priority[r]) < Rank(Priority[x])
  \/ Priority[r] = Priority[x] /\ r < x

IsFirst(r, set) == r \in set /\ \A x \in set \ {r} : Before(r, x)

\* take: n.
Leading(set, n) == {r \in set : Cardinality({x \in set : Before(x, r)}) < n}

PendingRuns == {r \in Runs : status[r] = "pending"}
ActiveRuns == {r \in Runs : status[r] \in Active}
ActiveIn(w) == {r \in ActiveRuns : WorkspaceOf[r] = w}

TimeoutsIgnored == {}

\* checkTimeouts: what its query finds.
TimedOut == {r \in late : status[r] \in {"running", "paused"}}

\* A request to schedule arrives, and looks up the runs to fail.
StartPass(s) ==
  /\ pc[s] = "idle"
  /\ pc' = [pc EXCEPT ![s] = "timeouts"]
  /\ pass' = [pass EXCEPT ![s].batch = TimedOut]
  /\ UNCHANGED <<status, late, revoked, job, commands, faults, history>>

FailLate(s) ==
  /\ pc[s] = "timeouts"
  /\ \E r \in pass[s].batch :
       /\ pass' = [pass EXCEPT ![s].batch = @ \ {r}]
       /\ Begin(s, r, "failed", "timeouts")
  /\ UNCHANGED <<status, late, revoked, commands, faults, history>>

RunningOnly == {r \in Runs : status[r] = "running"}

Unfinished == {r \in Runs : status[r] \in Active \cup {"paused"}}

\* The runs that take up a slot.
Counted == ActiveRuns

\* getSchedulableRuns: with every slot taken, the pass is over.
CountActive(s) ==
  /\ pc[s] = "timeouts"
  /\ pass[s].batch = {}
  /\ IF Cardinality(Counted) >= GlobalCap
     THEN Finish(s)
     ELSE /\ pass' = [pass EXCEPT ![s].slots = GlobalCap - Cardinality(Counted)]
          /\ pc' = [pc EXCEPT ![s] = "pending"]
          /\ UNCHANGED job
  /\ UNCHANGED <<status, late, revoked, commands, faults, history>>

FindPending(s) ==
  LET found == Leading(PendingRuns, pass[s].slots) IN
  /\ pc[s] = "pending"
  /\ pass' = [pass EXCEPT ![s].batch = found, ![s].waiting = PendingRuns]
  /\ pc' = [pc EXCEPT ![s] = IF found = {} THEN "dispatch" ELSE "filter"]
  /\ UNCHANGED <<status, late, revoked, job, commands, faults, history>>

\* The per-workspace cap, for the next run found.  A workspace is counted in
\* the database until its count is positive; then the pass adds up its own.
Filter(s) ==
  /\ pc[s] = "filter"
  /\ \E r \in pass[s].batch :
       LET w == WorkspaceOf[r]
           known == pass[s].counts[w]
           count == IF known = 0 THEN Cardinality(ActiveIn(w)) ELSE known
           fits == count < WorkspaceCap
       IN
       /\ IsFirst(r, pass[s].batch)
       /\ pass' = [pass EXCEPT ![s].batch = @ \ {r},
                               ![s].counts[w] = IF fits THEN count + 1 ELSE count,
                               ![s].chosen = IF fits THEN @ \cup {r} ELSE @]
       /\ pc' = [pc EXCEPT ![s] =
                    IF pass[s].batch = {r} THEN "dispatch" ELSE "filter"]
  /\ UNCHANGED <<status, late, revoked, job, commands, faults, history>>

\* The next chosen run is scheduled; for a P0 run, a running one is looked for
\* to be paused first.
DispatchNext(s, r) ==
  /\ pass' = [pass EXCEPT ![s].chosen = @ \ {r},
                          ![s].urgent = IF Priority[r] = "P0" THEN r ELSE @]
  /\ IF Priority[r] = "P0"
     THEN pc' = [pc EXCEPT ![s] = "preempt"] /\ UNCHANGED job
     ELSE Begin(s, r, "scheduled", "dispatch")

\* With none left the pass answers.
Dispatch(s) ==
  /\ pc[s] = "dispatch"
  /\ \/ pass[s].chosen = {} /\ Finish(s)
     \/ \E r \in pass[s].chosen :
          IsFirst(r, pass[s].chosen) /\ DispatchNext(s, r)
  /\ UNCHANGED <<status, late, revoked, commands, faults, history>>

\* preemptForPriority: of the running P1 and P2 runs of the workspace, of any if
\* the urgent run has none, one of the lowest priority.
Pausable(urgent) ==
  {r \in Runs : /\ status[r] = "running"
                /\ Priority[r] # "P0"
                /\ \/ WorkspaceOf[urgent] = NoWorkspace
                   \/ WorkspaceOf[urgent] = WorkspaceOf[r]}

Preempt(s) ==
  LET pausable == Pausable(pass[s].urgent) IN
  /\ pc[s] = "preempt"
  /\ IF pausable = {}
     THEN Begin(s, pass[s].urgent, "scheduled", "dispatch")
     ELSE \E r \in pausable :
            /\ \A x \in pausable : Rank(Priority[x]) <= Rank(Priority[r])
            /\ Begin(s, r, "paused", "urgent")
  /\ UNCHANGED <<status, late, revoked, pass, commands, faults, history>>

ScheduleUrgent(s) ==
  /\ pc[s] = "urgent"
  /\ Begin(s, pass[s].urgent, "scheduled", "dispatch")
  /\ UNCHANGED <<status, late, revoked, pass, commands, faults, history>>

\* timeoutAt passes.
Expire(r) ==
  /\ r \in (Expiring \cap Created) \ late
  /\ late' = late \cup {r}
  /\ UNCHANGED <<status, revoked, pc, job, pass, commands, faults, history>>

-----------------------------------------------------------------------------
TransitionStep(p) == Read(p) \/ Write(p) \/ Emit(p)

OperatorStep(o) == Kill(o) \/ Revoke(o) \/ PublishQuarantine(o)

PassStep(s) ==
  \/ FailLate(s) \/ CountActive(s) \/ FindPending(s) \/ Filter(s)
  \/ Dispatch(s) \/ Preempt(s) \/ ScheduleUrgent(s)

Next ==
  \/ \E p \in Processes : TransitionStep(p) \/ Fault(p)
  \/ \E o \in Operators : OperatorStep(o)
  \/ \E o \in Operators, r \in Runs, c \in Commands : Command(o, r, c)
  \/ \E s \in Schedulers : StartPass(s) \/ PassStep(s)
  \/ \E r \in Runs : Create(r) \/ Expire(r)

\* Every await settles, and POST /api/runs/schedule is called again and again
\* (nothing in the Gate itself calls it).  No operator has to act, no run has
\* to be created or to time out.
Fairness ==
  /\ \A p \in Processes : WF_vars(TransitionStep(p))
  /\ \A o \in Operators : WF_vars(OperatorStep(o))
  /\ \A s \in Schedulers : WF_vars(PassStep(s)) /\ WF_vars(StartPass(s))

Spec == Init /\ [][Next]_vars /\ Fairness

-----------------------------------------------------------------------------
(* Properties                                                              *)

TransitionPoints == {"read", "write", "emit"}
OperatorPoints == {"idle", "kill", "revoke", "publish"} \cup TransitionPoints
PassPoints == {"idle", "timeouts", "pending", "filter", "dispatch", "preempt",
               "urgent"} \cup TransitionPoints
Jobs == [run : Runs \cup {0}, to : Statuses \cup {"none"},
         seen : Statuses \cup {"none"},
         after : OperatorPoints \cup PassPoints \cup {"done"}]
Passes == [batch : SUBSET Runs, chosen : SUBSET Runs, slots : Nat,
           urgent : Runs \cup {0}, counts : [Workspaces -> Nat], waiting : SUBSET Runs]

\* Every variable has its type: statuses, places in the code, locals.
TypeOK ==
  /\ status \in [Runs -> Statuses \cup {"none"}]
  /\ late \subseteq Runs
  /\ revoked \subseteq Runs
  /\ pc \in [Processes -> OperatorPoints \cup PassPoints]
  /\ job \in [Processes -> Jobs]
  /\ pass \in [Schedulers -> Passes]
  /\ commands \in Nat
  /\ faults \in Nat
  /\ lifted \subseteq Runs
  /\ quarantined \subseteq Runs

\* A single scheduler's passes stay within the global and the per-workspace cap,
\* however statuses move between its counts and its updates: beyond the caps are
\* only runs that an operator resumed or scheduled by hand.
WithinCaps ==
  LET own == ActiveRuns \ lifted
  IN  /\ Cardinality(own) <= GlobalCap
      /\ \A w \in Workspaces :
           Cardinality(own \cap ActiveIn(w)) <= WorkspaceCap

\* A status changes against RUN_TRANSITIONS only where two requests overlap: the
\* writer had read another status than the one it replaces.
LegalUnlessOvertaken ==
  [][\A r \in Created :
       (status'[r] # status[r] /\ <<status[r], status'[r]>> \notin Transitions) =>
         \E p \in Processes : /\ pc[p] = "write" /\ pc'[p] = "emit"
                              /\ job[p].run = r
                              /\ job[p].seen # status[r]]_vars

\* Once a quarantine has been acknowledged no capability of the run is accepted
\* again (validateCapability wants an active run and no revocation), even if a
\* concurrent request overwrites the quarantined status.
QuarantineDisarms ==
  \A r \in quarantined : status[r] \notin Active \/ r \in revoked

\* A pass schedules a run only when no more urgent run of its workspace is left
\* pending, of those that were pending when it looked: a run created after that
\* waits for the next pass, whatever its priority.
UrgentFirst ==
  [][\A s \in Schedulers :
       (pc[s] = "write" /\ pc'[s] = "emit" /\ job[s].to = "scheduled") =>
         \A x \in pass[s].waiting :
           (/\ WorkspaceOf[x] = WorkspaceOf[job[s].run]
            /\ Rank(Priority[x]) < Rank(Priority[job[s].run]))
           => status[x] # "pending"]_vars

\* A late run that is paused: its transition to failed is forbidden, and every
\* pass that finds it throws.
Jammed == \E r \in late : status[r] = "paused"

\* While nothing jams the passes, a late running run is stopped.
LateRunIsStopped ==
  \A r \in Runs :
    (r \in late /\ status[r] = "running") ~> (status[r] # "running" \/ Jammed)

\* A pending run that no pass looks at: take fills the slots with the runs before
\* it, if only to drop them because their workspaces are full.  With every slot
\* taken that is each pending run.
Overlooked(r) ==
  LET active == Cardinality(ActiveRuns)
      slots == IF active < GlobalCap THEN GlobalCap - active ELSE 0
  IN  r \notin Leading(PendingRuns, slots)

\* While nothing jams the passes, a pending run among those that the free slots
\* reach is served, unless its own workspace is full.
PendingIsServed ==
  \A r \in Runs :
    status[r] = "pending" ~>
      \/ status[r] # "pending" \/ Jammed
      \/ Overlooked(r)
      \/ Cardinality(ActiveIn(WorkspaceOf[r])) >= WorkspaceCap
=============================================================================
