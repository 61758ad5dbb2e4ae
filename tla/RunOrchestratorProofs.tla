----------------------- MODULE RunOrchestratorProofs -----------------------
(***************************************************************************)
(* Proofs about the run control plane for any set of runs, operators and   *)
(* schedulers, any caps and any number of commands and faults.  The        *)
(* inductive invariant IInv adds to the types where each process can stand *)
(* and what its locals hold there.                                         *)
(*                                                                         *)
(* What a pass has chosen and taken up but not written is Promised.  The   *)
(* order of the runs rests on OrderOK (nothing more urgent waits before a  *)
(* promised run but promised ones) and holds for any number of passes; the *)
(* caps rest on CapsOK (what is active, promised or found fits) and hold   *)
(* for a single one.  A pass is followed by what a step does to these sets *)
(* (Empties, Keeps, TakesUp, Counts, Finds, Chooses, Writes) rather than   *)
(* by its actions.                                                         *)
(***************************************************************************)
EXTENDS RunOrchestrator, FiniteSetTheorems, TLAPS

\* Inside transitionRun a process has a run and a status for it, returns to one
\* of the places in set, and got to the write because the transition was allowed
\* when it read the run.
TransitionOK(p, set) ==
  /\ pc[p] \in TransitionPoints =>
       /\ job[p].run \in Runs
       /\ job[p].to \in Statuses
       /\ job[p].after \in set
  /\ pc[p] = "write" => CanTransition(job[p].seen, job[p].to)

\* An operator's request that is past the revocation has revoked.
OperatorOK(o) ==
  /\ pc[o] \in OperatorPoints
  /\ TransitionOK(o, {"done", "revoke"})
  /\ pc[o] \in {"kill", "revoke", "publish"} => job[o].run \in Runs
  /\ pc[o] = "publish" => job[o].run \in revoked

\* A pass knows its urgent run from the preemption until it schedules it.
SchedulerOK(s) ==
  /\ pc[s] \in PassPoints
  /\ TransitionOK(s, {"timeouts", "urgent", "dispatch"})
  /\ (\/ pc[s] \in {"preempt", "urgent"}
      \/ pc[s] \in TransitionPoints /\ job[s].after = "urgent")
     => pass[s].urgent \in Runs

ProcessOK(p) ==
  /\ p \in Operators => OperatorOK(p)
  /\ p \in Schedulers => SchedulerOK(p)

LocalsOK ==
  /\ pc \in [Processes -> OperatorPoints \cup PassPoints]
  /\ job \in [Processes -> Jobs]
  /\ pass \in [Schedulers -> Passes]
  /\ \A p \in Processes : ProcessOK(p)

IInv ==
  /\ TypeOK
  /\ LocalsOK
  /\ quarantined \subseteq revoked

-----------------------------------------------------------------------------
(* Steps that move one process                                             *)

\* What a set of runs counts is a number.
LEMMA CountsAreNumbers ==
  ASSUME NEW S \in SUBSET Runs
  PROVE  Cardinality(S) \in Nat
  BY RunsAssumption, FS_Subset, FS_CardinalityType

\* A step of p that keeps p in order, and at most revokes more, keeps all
\* processes in order.
LEMMA OneProcessMoves ==
  ASSUME IInv, NEW p \in Processes, revoked \subseteq revoked',
         \A q \in Processes \ {p} : pc'[q] = pc[q] /\ job'[q] = job[q],
         \A s \in Schedulers \ {p} : pass'[s] = pass[s],
         ProcessOK(p)'
  PROVE  \A q \in Processes : ProcessOK(q)'
  <1> SUFFICES ASSUME NEW q \in Processes, q # p PROVE ProcessOK(q)'
    OBVIOUS
  <1>1. pc'[q] = pc[q] /\ job'[q] = job[q] /\ ProcessOK(q)
    BY DEF IInv, LocalsOK
  <1>2. ASSUME q \in Operators PROVE OperatorOK(q)'
    BY <1>1, <1>2 DEF ProcessOK, OperatorOK, TransitionOK
  <1>3. ASSUME q \in Schedulers PROVE SchedulerOK(q)'
    <2>1. pass'[q] = pass[q]
      BY <1>3
    <2> QED
      BY <1>1, <1>3, <2>1 DEF ProcessOK, SchedulerOK, TransitionOK
  <1> QED
    BY <1>2, <1>3 DEF ProcessOK

\* Calling transitionRun on a run from the places that do.
LEMMA BeginKeeps ==
  ASSUME IInv, NEW p \in Processes, NEW r \in Runs, NEW to \in Statuses,
         NEW after, Begin(p, r, to, after), revoked' = revoked,
         p \in Operators => after \in {"done", "revoke"},
         p \in Schedulers =>
           /\ after \in {"timeouts", "urgent", "dispatch"}
           /\ after = "urgent" => pass'[p].urgent \in Runs,
         pass' \in [Schedulers -> Passes],
         \A s \in Schedulers \ {p} : pass'[s] = pass[s]
  PROVE  LocalsOK'
  <1>0. TypeOK
    BY DEF IInv
  <1>1. after \in OperatorPoints \cup PassPoints \cup {"done"}
    BY DEF Processes, OperatorPoints, PassPoints, TransitionPoints
  <1>2. [run |-> r, to |-> to, seen |-> "none", after |-> after] \in Jobs
    BY <1>1 DEF Jobs
  <1>3. "read" \in OperatorPoints \cap PassPoints
    BY DEF OperatorPoints, PassPoints, TransitionPoints
  <1>4. /\ pc' \in [Processes -> OperatorPoints \cup PassPoints]
        /\ job' \in [Processes -> Jobs]
        /\ pc'[p] = "read"
        /\ job'[p] = [run |-> r, to |-> to, seen |-> "none", after |-> after]
        /\ \A q \in Processes \ {p} : pc'[q] = pc[q] /\ job'[q] = job[q]
    BY <1>0, <1>2, <1>3 DEF TypeOK, Begin
  <1>5. ProcessOK(p)'
    BY <1>3, <1>4 DEF ProcessOK, OperatorOK, SchedulerOK, TransitionOK
  <1> QED
    BY <1>4, <1>5, OneProcessMoves DEF LocalsOK

\* A request that ends.
LEMMA FinishKeeps ==
  ASSUME IInv, NEW p \in Processes, Finish(p), revoked \subseteq revoked'
  PROVE  LocalsOK'
  <1>0. TypeOK
    BY DEF IInv
  <1>1. NoJob \in Jobs /\ NoPass \in Passes
    BY DEF NoJob, NoPass, Jobs, Passes, OperatorPoints
  <1>2. "idle" \in OperatorPoints \cap PassPoints /\ "idle" \notin TransitionPoints
    BY DEF OperatorPoints, PassPoints, TransitionPoints
  <1>3. /\ pc' \in [Processes -> OperatorPoints \cup PassPoints]
        /\ job' \in [Processes -> Jobs]
        /\ pass' \in [Schedulers -> Passes]
        /\ pc'[p] = "idle"
        /\ \A q \in Processes \ {p} : pc'[q] = pc[q] /\ job'[q] = job[q]
        /\ \A s \in Schedulers \ {p} : pass'[s] = pass[s]
    BY <1>0, <1>1, <1>2 DEF TypeOK, Finish
  <1>4. ProcessOK(p)'
    BY <1>2, <1>3 DEF ProcessOK, OperatorOK, SchedulerOK, TransitionOK
  <1> QED
    BY <1>3, <1>4, OneProcessMoves DEF LocalsOK

\* A pass goes on to a place outside transitionRun, with locals it may have there.
LEMMA PassGoesOn ==
  ASSUME IInv, NEW s \in Schedulers, NEW place \in PassPoints \ TransitionPoints,
         NEW locals \in Passes,
         pc' = [pc EXCEPT ![s] = place], job' = job,
         pass' = [pass EXCEPT ![s] = locals], revoked' = revoked,
         place \in {"preempt", "urgent"} => locals.urgent \in Runs
  PROVE  LocalsOK'
  <1>0. TypeOK /\ s \in Processes /\ s \notin Operators
    BY ProcessesAssumption DEF IInv, Processes
  <1>1. /\ pc' \in [Processes -> OperatorPoints \cup PassPoints]
        /\ job' \in [Processes -> Jobs]
        /\ pass' \in [Schedulers -> Passes]
        /\ pc'[s] = place
        /\ pass'[s] = locals
        /\ \A q \in Processes \ {s} : pc'[q] = pc[q] /\ job'[q] = job[q]
        /\ \A x \in Schedulers \ {s} : pass'[x] = pass[x]
    BY <1>0 DEF TypeOK
  <1>2. ProcessOK(s)'
    BY <1>0, <1>1 DEF ProcessOK, SchedulerOK, TransitionOK, TransitionPoints
  <1> QED
    BY <1>0, <1>1, <1>2, OneProcessMoves DEF LocalsOK

-----------------------------------------------------------------------------
(* The steps                                                               *)

\* The initial state satisfies the invariant.
LEMMA InitInv == Init => IInv
  <1> SUFFICES ASSUME Init PROVE IInv
    OBVIOUS
  <1>1. NoJob \in Jobs /\ NoPass \in Passes
    BY DEF NoJob, NoPass, Jobs, Passes, OperatorPoints
  <1>2. "idle" \in OperatorPoints \cap PassPoints /\ "idle" \notin TransitionPoints
    BY DEF OperatorPoints, PassPoints, TransitionPoints
  <1>3. TypeOK
    BY <1>1, <1>2 DEF Init, TypeOK, Statuses
  <1>4. ASSUME NEW p \in Processes PROVE ProcessOK(p)
    BY <1>2 DEF Init, ProcessOK, OperatorOK, SchedulerOK, TransitionOK, Processes
  <1> QED
    BY <1>3, <1>4 DEF Init, IInv, LocalsOK, TypeOK

\* The steps inside transitionRun.
LEMMA TransitionInv ==
  ASSUME IInv, NEW p \in Processes, TransitionStep(p)
  PROVE  IInv'
  <1>0. TypeOK /\ LocalsOK /\ ProcessOK(p) /\ quarantined \subseteq revoked
    BY DEF IInv, LocalsOK
  <1>1. pc[p] \in TransitionPoints =>
          /\ job[p].run \in Runs
          /\ job[p].to \in Statuses
    BY <1>0 DEF ProcessOK, OperatorOK, SchedulerOK, TransitionOK, Processes
  <1>2. CASE Read(p)
    <2>1. CASE CanTransition(status[job[p].run], job[p].to)
      <3>1. /\ pc[p] = "read"
            /\ job' = [job EXCEPT ![p].seen = status[job[p].run]]
            /\ pc' = [pc EXCEPT ![p] = "write"]
            /\ UNCHANGED <<pass, revoked>>
        BY <1>2, <2>1 DEF Read
      <3>2. status[job[p].run] \in Statuses
        BY <2>1 DEF CanTransition, Transitions, Statuses
      <3>3. /\ pc' \in [Processes -> OperatorPoints \cup PassPoints]
            /\ job' \in [Processes -> Jobs]
        BY <1>0, <3>1, <3>2 DEF TypeOK, Jobs, OperatorPoints, TransitionPoints
      <3>4. /\ job[p] \in Jobs
            /\ job'[p] = [job[p] EXCEPT !.seen = status[job[p].run]]
            /\ pc'[p] = "write"
        BY <1>0, <3>1 DEF TypeOK
      <3>5. /\ job'[p].run = job[p].run
            /\ job'[p].to = job[p].to
            /\ job'[p].after = job[p].after
            /\ job'[p].seen = status[job[p].run]
        BY <3>4 DEF Jobs
      <3>6. ProcessOK(p)'
        BY <1>0, <2>1, <3>1, <3>4, <3>5
           DEF ProcessOK, OperatorOK, SchedulerOK, TransitionOK, OperatorPoints,
               PassPoints, TransitionPoints, CanTransition
      <3>7. \A q \in Processes : ProcessOK(q)'
        BY <3>1, <3>6, OneProcessMoves, <1>0 DEF TypeOK
      <3> QED
        BY <1>0, <1>2, <3>1, <3>3, <3>7 DEF IInv, LocalsOK, TypeOK, Read, history
    <2>2. CASE ~CanTransition(status[job[p].run], job[p].to)
      <3>1. Finish(p) /\ UNCHANGED <<status, late, revoked, commands, faults, history>>
        BY <1>2, <2>2 DEF Read
      <3>2. LocalsOK'
        BY <3>1, FinishKeeps
      <3> QED
        BY <1>0, <3>1, <3>2 DEF IInv, LocalsOK, TypeOK, history
    <2> QED
      BY <2>1, <2>2
  <1>3. CASE Write(p)
    <2>1. /\ pc[p] = "write"
          /\ status' = [status EXCEPT ![job[p].run] = job[p].to]
          /\ pc' = [pc EXCEPT ![p] = "emit"]
          /\ UNCHANGED <<job, pass, revoked, late, commands, faults, quarantined>>
      BY <1>3 DEF Write
    <2>2. job[p].run \in Runs /\ job[p].to \in Statuses
      BY <1>1, <2>1 DEF TransitionPoints
    <2>3. lifted' \subseteq Runs
      BY <1>0, <1>3, <2>2 DEF Write, TypeOK
    <2>4. status' \in [Runs -> Statuses \cup {"none"}]
      BY <1>0, <2>1, <2>2 DEF TypeOK
    <2>5. /\ pc' \in [Processes -> OperatorPoints \cup PassPoints]
          /\ pc'[p] = "emit"
      BY <1>0, <2>1 DEF TypeOK, OperatorPoints, TransitionPoints
    <2>6. ProcessOK(p)'
      BY <1>0, <2>1, <2>5
         DEF ProcessOK, OperatorOK, SchedulerOK, TransitionOK, OperatorPoints,
             PassPoints, TransitionPoints
    <2>7. \A q \in Processes : ProcessOK(q)'
      BY <1>0, <2>1, <2>6, OneProcessMoves DEF TypeOK
    <2> QED
      BY <1>0, <2>1, <2>3, <2>4, <2>5, <2>7 DEF IInv, LocalsOK, TypeOK
  <1>4. CASE Emit(p)
    <2>1. pc[p] = "emit" /\ UNCHANGED <<status, late, revoked, commands, faults, history>>
      BY <1>4 DEF Emit
    <2>2. CASE job[p].after = "done"
      <3>1. Finish(p)
        BY <1>0, <1>1, <1>4, <2>1, <2>2 DEF Emit, TypeOK, TransitionPoints
      <3>2. LocalsOK'
        BY <2>1, <3>1, FinishKeeps
      <3> QED
        BY <1>0, <2>1, <3>1, <3>2 DEF IInv, LocalsOK, TypeOK, history
    <2>3. CASE job[p].after # "done"
      <3>1. /\ pc' = [pc EXCEPT ![p] = job[p].after]
            /\ UNCHANGED <<job, pass>>
        BY <1>4, <2>3 DEF Emit
      <3>2. /\ p \in Operators => job[p].after = "revoke"
            /\ p \in Schedulers => job[p].after \in {"timeouts", "urgent", "dispatch"}
        BY <1>0, <2>1, <2>3
           DEF ProcessOK, OperatorOK, SchedulerOK, TransitionOK, TransitionPoints
      <3>3. /\ pc' \in [Processes -> OperatorPoints \cup PassPoints]
            /\ pc'[p] = job[p].after
        BY <1>0, <3>1, <3>2 DEF TypeOK, OperatorPoints, PassPoints, Processes
      <3>4. ASSUME p \in Operators PROVE OperatorOK(p)'
        BY <1>1, <2>1, <3>1, <3>2, <3>3, <3>4
           DEF OperatorOK, TransitionOK, OperatorPoints, TransitionPoints
      <3>5. ASSUME p \in Schedulers PROVE SchedulerOK(p)'
        BY <1>0, <2>1, <3>1, <3>2, <3>3, <3>5
           DEF ProcessOK, SchedulerOK, TransitionOK, PassPoints, TransitionPoints
      <3>6. \A q \in Processes : ProcessOK(q)'
        BY <1>0, <2>1, <3>1, <3>4, <3>5, OneProcessMoves DEF ProcessOK, TypeOK
      <3> QED
        BY <1>0, <2>1, <3>1, <3>3, <3>6 DEF IInv, LocalsOK, TypeOK, history
    <2> QED
      BY <2>2, <2>3
  <1> QED
    BY <1>2, <1>3, <1>4 DEF TransitionStep

\* The steps of the operators' endpoints.
LEMMA OperatorInv ==
  ASSUME IInv, NEW o \in Operators,
         OperatorStep(o) \/ \E r \in Runs, c \in Commands : Command(o, r, c)
  PROVE  IInv'
  <1>0. TypeOK /\ LocalsOK /\ OperatorOK(o) /\ quarantined \subseteq revoked
    BY DEF IInv, LocalsOK, ProcessOK, Processes
  <1>1. o \in Processes /\ o \notin Schedulers
    BY ProcessesAssumption DEF Processes
  <1>2. pc[o] \in {"kill", "revoke", "publish"} => job[o].run \in Runs
    BY <1>0 DEF OperatorOK
  <1>3. CASE Kill(o)
    <2> DEFINE to == KillTarget(status[job[o].run])
    <2>1. pc[o] = "kill" /\ UNCHANGED <<status, late, revoked, commands, faults, history>>
      BY <1>3 DEF Kill
    <2>2. CASE to = "none"
      <3>1. Finish(o)
        BY <1>3, <2>2 DEF Kill
      <3>2. LocalsOK'
        BY <1>1, <2>1, <3>1, FinishKeeps
      <3> QED
        BY <1>0, <2>1, <3>2 DEF IInv, LocalsOK, TypeOK, history
    <2>3. CASE to # "none"
      <3>1. Begin(o, job[o].run, to, "done") /\ UNCHANGED pass
        BY <1>3, <2>3 DEF Kill
      <3>2. to \in Statuses
        BY <2>3 DEF KillTarget, Statuses
      <3>3. LocalsOK'
        BY <1>0, <1>1, <1>2, <2>1, <3>1, <3>2, BeginKeeps DEF TypeOK
      <3> QED
        BY <1>0, <2>1, <3>3 DEF IInv, LocalsOK, TypeOK, history
    <2> QED
      BY <2>2, <2>3
  <1>4. CASE Revoke(o)
    <2>1. /\ pc[o] = "revoke"
          /\ revoked' = revoked \cup {job[o].run}
          /\ pc' = [pc EXCEPT ![o] = "publish"]
          /\ UNCHANGED <<status, late, job, pass, commands, faults, history>>
      BY <1>4 DEF Revoke, Revocation
    <2>2. job[o].run \in Runs
      BY <1>2, <2>1
    <2>3. pc' \in [Processes -> OperatorPoints \cup PassPoints] /\ pc'[o] = "publish"
      BY <1>0, <1>1, <2>1 DEF TypeOK, OperatorPoints
    <2>4. OperatorOK(o)'
      BY <2>1, <2>2, <2>3 DEF OperatorOK, TransitionOK, OperatorPoints, TransitionPoints
    <2>5. \A q \in Processes : ProcessOK(q)'
      BY <1>0, <1>1, <2>1, <2>4, OneProcessMoves DEF ProcessOK, TypeOK
    <2> QED
      BY <1>0, <2>1, <2>2, <2>3, <2>5 DEF IInv, LocalsOK, TypeOK, history
  <1>5. CASE PublishQuarantine(o)
    <2>1. /\ pc[o] = "publish"
          /\ quarantined' = quarantined \cup {job[o].run}
          /\ Finish(o)
          /\ UNCHANGED <<status, late, revoked, commands, faults, lifted>>
      BY <1>5 DEF PublishQuarantine
    <2>2. job[o].run \in Runs /\ job[o].run \in revoked
      BY <1>0, <2>1 DEF OperatorOK
    <2>3. LocalsOK'
      BY <1>1, <2>1, FinishKeeps
    <2> QED
      BY <1>0, <2>1, <2>2, <2>3 DEF IInv, LocalsOK, TypeOK
  <1>6. ASSUME NEW r \in Runs, NEW c \in Commands, Command(o, r, c)
        PROVE  IInv'
    <2>1. commands' = commands + 1 /\ UNCHANGED <<status, late, revoked, pass, faults, history>>
      BY <1>6 DEF Command
    <2>2. CASE c = "kill"
      <3>1. /\ pc' = [pc EXCEPT ![o] = "kill"]
            /\ job' = [job EXCEPT ![o].run = r]
        BY <1>6, <2>2 DEF Command
      <3>2. /\ pc' \in [Processes -> OperatorPoints \cup PassPoints]
            /\ job' \in [Processes -> Jobs]
            /\ pc'[o] = "kill"
            /\ job'[o].run = r
        BY <1>0, <1>1, <3>1 DEF TypeOK, OperatorPoints, Jobs
      <3>3. OperatorOK(o)'
        BY <3>2 DEF OperatorOK, TransitionOK, OperatorPoints, TransitionPoints
      <3>4. \A q \in Processes : ProcessOK(q)'
        BY <1>0, <1>1, <2>1, <3>1, <3>3, OneProcessMoves DEF ProcessOK, TypeOK
      <3> QED
        BY <1>0, <2>1, <3>2, <3>4 DEF IInv, LocalsOK, TypeOK, history
    <2>3. CASE c = "quarantine"
      <3>1. Begin(o, r, "quarantined", "revoke") /\ "quarantined" \in Statuses
        BY <1>6, <2>3 DEF Command, Statuses
      <3>2. LocalsOK'
        BY <1>0, <1>1, <2>1, <3>1, BeginKeeps DEF TypeOK
      <3> QED
        BY <1>0, <2>1, <3>2 DEF IInv, LocalsOK, TypeOK, history
    <2>4. CASE c \notin {"kill", "quarantine"}
      <3>1. Begin(o, r, c, "done") /\ c \in Statuses
        BY <1>6, <2>4, ProcessesAssumption DEF Command
      <3>2. LocalsOK'
        BY <1>0, <1>1, <2>1, <3>1, BeginKeeps DEF TypeOK
      <3> QED
        BY <1>0, <2>1, <3>2 DEF IInv, LocalsOK, TypeOK, history
    <2> QED
      BY <2>2, <2>3, <2>4
  <1> QED
    BY <1>3, <1>4, <1>5, <1>6 DEF OperatorStep

\* The runs a query takes are runs.
LEMMA FoundAreRuns == \A S \in SUBSET Runs : \A n : Leading(S, n) \subseteq Runs
  BY DEF Leading

\* The steps of a scheduling pass.
LEMMA PassInv ==
  ASSUME IInv, NEW s \in Schedulers, StartPass(s) \/ PassStep(s)
  PROVE  IInv'
  <1>0. TypeOK /\ LocalsOK /\ SchedulerOK(s) /\ quarantined \subseteq revoked
    BY DEF IInv, LocalsOK, ProcessOK, Processes
  <1>1. s \in Processes /\ s \notin Operators
    BY ProcessesAssumption DEF Processes
  <1>2. UNCHANGED <<status, late, revoked, commands, faults, history>>
    BY DEF StartPass, PassStep, FailLate, CountActive, FindPending, Filter,
           Dispatch, Preempt, ScheduleUrgent
  <1>3. SUFFICES LocalsOK'
    BY <1>0, <1>2 DEF IInv, LocalsOK, TypeOK, history
  <1>4. pass \in [Schedulers -> Passes] /\ pass[s] \in Passes
    BY <1>0 DEF TypeOK
  <1>5. /\ pass[s].batch \subseteq Runs
        /\ pass[s].chosen \subseteq Runs
    BY <1>4 DEF Passes
  <1>6. CASE StartPass(s)
    <2> DEFINE locals == [pass[s] EXCEPT !.batch = TimedOut]
    <2>1. /\ pc' = [pc EXCEPT ![s] = "timeouts"]
          /\ pass' = [pass EXCEPT ![s] = locals]
          /\ job' = job
      BY <1>6 DEF StartPass
    <2>2. TimedOut \subseteq Runs
      BY <1>0 DEF TimedOut, TypeOK
    <2>3. locals \in Passes
      BY <1>4, <2>2 DEF Passes
    <2> QED
      BY <1>2, <2>1, <2>3, PassGoesOn DEF PassPoints, TransitionPoints
  <1>7. CASE FailLate(s)
    <2>1. PICK r \in pass[s].batch :
            /\ pass' = [pass EXCEPT ![s].batch = @ \ {r}]
            /\ Begin(s, r, "failed", "timeouts")
      BY <1>7 DEF FailLate
    <2>2. r \in Runs /\ "failed" \in Statuses
      BY <1>5 DEF Statuses
    <2>3. pass' \in [Schedulers -> Passes]
      BY <1>4, <2>1 DEF Passes
    <2> QED
      BY <1>1, <1>2, <2>1, <2>2, <2>3, <1>4, BeginKeeps
  <1>8. CASE CountActive(s)
    <2>1. CASE Cardinality(Counted) >= GlobalCap
      BY <1>1, <1>2, <1>8, <2>1, FinishKeeps DEF CountActive
    <2>2. CASE ~(Cardinality(Counted) >= GlobalCap)
      <3> DEFINE free == GlobalCap - Cardinality(Counted)
                 locals == [pass[s] EXCEPT !.slots = free]
      <3>1. /\ pc' = [pc EXCEPT ![s] = "pending"]
            /\ pass' = [pass EXCEPT ![s] = locals]
            /\ job' = job
        BY <1>8, <2>2 DEF CountActive
      <3>2. Cardinality(Counted) \in Nat
        BY CountsAreNumbers DEF Counted, ActiveRuns
      <3>3. free \in Nat
        BY <2>2, <3>2, BoundsAssumption
      <3>4. locals \in Passes
        BY <1>4, <3>3 DEF Passes
      <3> QED
        BY <1>2, <3>1, <3>4, PassGoesOn DEF PassPoints, TransitionPoints
    <2> QED
      BY <2>1, <2>2
  <1>9. CASE FindPending(s)
    <2> DEFINE found == Leading(PendingRuns, pass[s].slots)
               locals == [pass[s] EXCEPT !.batch = found, !.waiting = PendingRuns]
               place == IF found = {} THEN "dispatch" ELSE "filter"
    <2>1. /\ pc' = [pc EXCEPT ![s] = place]
          /\ pass' = [pass EXCEPT ![s] = locals]
          /\ job' = job
      BY <1>9 DEF FindPending
    <2>2. found \subseteq Runs /\ PendingRuns \subseteq Runs
      BY FoundAreRuns DEF PendingRuns
    <2>3. locals \in Passes
      BY <1>4, <2>2 DEF Passes
    <2>4. place \in PassPoints \ TransitionPoints /\ place \notin {"preempt", "urgent"}
      BY DEF PassPoints, TransitionPoints
    <2> HIDE DEF place, locals
    <2> QED
      BY <1>2, <2>1, <2>3, <2>4, PassGoesOn
  <1>10. CASE Filter(s)
    <2>1. PICK r \in pass[s].batch :
            LET w == WorkspaceOf[r]
                known == pass[s].counts[w]
                count == IF known = 0 THEN Cardinality(ActiveIn(w)) ELSE known
                fits == count < WorkspaceCap
            IN
            /\ pass' = [pass EXCEPT ![s].batch = @ \ {r},
                                    ![s].counts[w] = IF fits THEN count + 1 ELSE count,
                                    ![s].chosen = IF fits THEN @ \cup {r} ELSE @]
            /\ pc' = [pc EXCEPT ![s] =
                         IF pass[s].batch = {r} THEN "dispatch" ELSE "filter"]
      BY <1>10 DEF Filter
    <2> DEFINE w == WorkspaceOf[r]
               known == pass[s].counts[w]
               count == IF known = 0 THEN Cardinality(ActiveIn(w)) ELSE known
               new == IF count < WorkspaceCap THEN count + 1 ELSE count
               chosen == IF count < WorkspaceCap THEN pass[s].chosen \cup {r}
                                                 ELSE pass[s].chosen
               locals == [pass[s] EXCEPT !.batch = @ \ {r},
                                         !.counts[w] = new,
                                         !.chosen = chosen]
               place == IF pass[s].batch = {r} THEN "dispatch" ELSE "filter"
    <2>2. r \in Runs /\ w \in Workspaces
      BY <1>5 DEF Workspaces
    <2>3. Cardinality(ActiveIn(w)) \in Nat
      BY CountsAreNumbers DEF ActiveIn, ActiveRuns
    <2>4. known \in Nat
      BY <1>4, <2>2 DEF Passes
    <2>5. new \in Nat
      BY <2>3, <2>4
    <2>6. chosen \subseteq Runs
      BY <1>5, <2>2
    <2>7. /\ pc' = [pc EXCEPT ![s] = place]
          /\ pass' = [pass EXCEPT ![s] = locals]
      BY <1>4, <2>1 DEF Passes
    <2>8. locals \in Passes
      BY <1>4, <2>2, <2>5, <2>6 DEF Passes
    <2>9. place \in PassPoints \ TransitionPoints /\ place \notin {"preempt", "urgent"}
      BY DEF PassPoints, TransitionPoints
    <2>10. job' = job
      BY <1>10 DEF Filter
    <2> HIDE DEF place, locals
    <2> QED
      BY <1>2, <2>7, <2>8, <2>9, <2>10, PassGoesOn
  <1>11. CASE Dispatch(s)
    <2>1. CASE pass[s].chosen = {} /\ Finish(s)
      BY <1>1, <1>2, <2>1, FinishKeeps
    <2>2. ASSUME NEW r \in pass[s].chosen, DispatchNext(s, r) PROVE LocalsOK'
      <3> DEFINE locals == [pass[s] EXCEPT !.chosen = @ \ {r},
                              !.urgent = IF Priority[r] = "P0" THEN r ELSE @]
      <3>1. r \in Runs /\ "scheduled" \in Statuses
        BY <1>5 DEF Statuses
      <3>2. locals \in Passes /\ (Priority[r] = "P0" => locals.urgent = r)
        BY <1>4, <3>1 DEF Passes
      <3>3. pass' = [pass EXCEPT ![s] = locals]
        BY <2>2 DEF DispatchNext
      <3>4. CASE Priority[r] = "P0"
        <4>1. pc' = [pc EXCEPT ![s] = "preempt"] /\ job' = job
          BY <2>2, <3>4 DEF DispatchNext
        <4> HIDE DEF locals
        <4> QED
          BY <1>2, <3>1, <3>2, <3>3, <3>4, <4>1, PassGoesOn
             DEF PassPoints, TransitionPoints
      <3>5. CASE Priority[r] # "P0"
        <4>1. Begin(s, r, "scheduled", "dispatch")
          BY <2>2, <3>5 DEF DispatchNext
        <4>2. pass' \in [Schedulers -> Passes]
          BY <1>4, <3>2, <3>3
        <4> QED
          BY <1>1, <1>2, <1>4, <3>1, <3>3, <4>1, <4>2, BeginKeeps
      <3> QED
        BY <3>4, <3>5
    <2> QED
      BY <1>11, <2>1, <2>2 DEF Dispatch
  <1>12. CASE Preempt(s)
    <2>1. pass[s].urgent \in Runs
      BY <1>0, <1>12 DEF SchedulerOK, Preempt
    <2>2. pass' = pass
      BY <1>12 DEF Preempt
    <2>3. CASE Begin(s, pass[s].urgent, "scheduled", "dispatch")
      BY <1>1, <1>2, <1>4, <2>1, <2>2, <2>3, BeginKeeps DEF Statuses
    <2>4. ASSUME NEW r \in Pausable(pass[s].urgent), Begin(s, r, "paused", "urgent")
          PROVE  LocalsOK'
      <3>1. r \in Runs /\ "paused" \in Statuses
        BY DEF Pausable, Statuses
      <3> QED
        BY <1>1, <1>2, <1>4, <2>1, <2>2, <2>4, <3>1, BeginKeeps
    <2> QED
      BY <1>12, <2>3, <2>4 DEF Preempt
  <1>13. CASE ScheduleUrgent(s)
    <2>1. /\ pass[s].urgent \in Runs
          /\ Begin(s, pass[s].urgent, "scheduled", "dispatch")
          /\ pass' = pass
      BY <1>0, <1>13 DEF SchedulerOK, ScheduleUrgent
    <2> QED
      BY <1>1, <1>2, <1>4, <2>1, BeginKeeps DEF Statuses
  <1> QED
    BY <1>6, <1>7, <1>8, <1>9, <1>10, <1>11, <1>12, <1>13 DEF PassStep

\* Every step keeps the invariant.
LEMMA NextInv == IInv /\ [Next]_vars => IInv'
  <1> SUFFICES ASSUME IInv, [Next]_vars PROVE IInv'
    OBVIOUS
  <1>0. TypeOK /\ LocalsOK /\ quarantined \subseteq revoked
    BY DEF IInv
  <1>1. ASSUME NEW p \in Processes, TransitionStep(p) PROVE IInv'
    BY <1>1, TransitionInv
  <1>2. ASSUME NEW p \in Processes, Fault(p) PROVE IInv'
    <2>1. /\ faults' = faults + 1
          /\ Finish(p)
          /\ UNCHANGED <<status, late, revoked, commands, history>>
      BY <1>2 DEF Fault
    <2>2. LocalsOK'
      BY <2>1, FinishKeeps
    <2> QED
      BY <1>0, <2>1, <2>2 DEF IInv, LocalsOK, TypeOK, history
  <1>3. ASSUME NEW o \in Operators,
               OperatorStep(o) \/ \E r \in Runs, c \in Commands : Command(o, r, c)
        PROVE  IInv'
    BY <1>3, OperatorInv
  <1>4. ASSUME NEW s \in Schedulers, StartPass(s) \/ PassStep(s) PROVE IInv'
    BY <1>4, PassInv
  <1>5. ASSUME NEW r \in Runs, Expire(r) PROVE IInv'
    BY <1>0, <1>5 DEF Expire, IInv, LocalsOK, TypeOK, ProcessOK, OperatorOK,
                      SchedulerOK, TransitionOK, history
  <1>6. ASSUME NEW r \in Runs, Create(r) PROVE IInv'
    <2>1. status' \in [Runs -> Statuses \cup {"none"}]
      BY <1>0, <1>6 DEF Create, TypeOK, Statuses
    <2> QED
      BY <1>0, <1>6, <2>1 DEF Create, IInv, LocalsOK, TypeOK, ProcessOK, OperatorOK,
                              SchedulerOK, TransitionOK, history
  <1>7. CASE UNCHANGED vars
    BY <1>0, <1>7 DEF vars, IInv, LocalsOK, TypeOK, ProcessOK, OperatorOK,
                      SchedulerOK, TransitionOK
  <1> QED
    BY <1>1, <1>2, <1>3, <1>4, <1>5, <1>6, <1>7 DEF Next

-----------------------------------------------------------------------------
(* Theorems                                                                *)

\* The inductive invariant holds in every reachable state.
THEOREM Invariance == Spec => []IInv
  BY InitInv, NextInv, PTL DEF Spec

\* Every variable keeps its type: no request leaves a run in a status that
\* transitionRun does not know, or loses the run it works on.
THEOREM TypeCorrect == Spec => []TypeOK
  <1>1. IInv => TypeOK
    BY DEF IInv
  <1> QED
    BY <1>1, Invariance, PTL

\* Once a quarantine has been acknowledged no capability of the run is accepted
\* again, whatever overwrites its status: quarantineRun revokes before it answers
\* and nothing takes a revocation back.
THEOREM QuarantineIsFinal == Spec => []QuarantineDisarms
  <1>1. IInv => QuarantineDisarms
    BY DEF IInv, QuarantineDisarms
  <1> QED
    BY <1>1, Invariance, PTL

\* A step that changes the status of a run writes what a transition had been
\* allowed for.
LEMMA OnlyWritesChange ==
  ASSUME IInv, [Next]_vars, NEW r \in Created, status'[r] # status[r]
  PROVE  \E p \in Processes :
           /\ pc[p] = "write" /\ pc'[p] = "emit"
           /\ job[p].run = r
           /\ <<job[p].seen, status'[r]>> \in Transitions
  <1>0. r \in Runs /\ TypeOK /\ \A p \in Processes : ProcessOK(p)
    BY DEF Created, IInv, LocalsOK
  <1>1. PICK p \in Processes : Write(p)
    <2>1. ~UNCHANGED status
      OBVIOUS
    <2>2. UNCHANGED vars => UNCHANGED status
      BY DEF vars
    <2>3. \A p \in Processes : Read(p) \/ Emit(p) \/ Fault(p) => UNCHANGED status
      BY DEF Read, Emit, Fault
    <2>4. \A o \in Operators : OperatorStep(o) => UNCHANGED status
      BY DEF OperatorStep, Kill, Revoke, PublishQuarantine
    <2>5. \A o \in Operators, x \in Runs, c \in Commands :
            Command(o, x, c) => UNCHANGED status
      BY DEF Command
    <2>6. \A s \in Schedulers : StartPass(s) \/ PassStep(s) => UNCHANGED status
      BY DEF StartPass, PassStep, FailLate, CountActive, FindPending, Filter,
             Dispatch, Preempt, ScheduleUrgent
    <2>7. \A x \in Runs : Expire(x) => UNCHANGED status
      BY DEF Expire
    <2>8. \A x \in Runs : ~Create(x)
      BY <1>0 DEF Create, TypeOK
    <2> QED
      BY <2>1, <2>2, <2>3, <2>4, <2>5, <2>6, <2>7, <2>8 DEF Next, TransitionStep
  <1>2. /\ pc[p] = "write"
        /\ pc'[p] = "emit"
        /\ status' = [status EXCEPT ![job[p].run] = job[p].to]
    BY <1>0, <1>1 DEF Write, TypeOK
  <1>3. CanTransition(job[p].seen, job[p].to)
    BY <1>0, <1>2 DEF ProcessOK, OperatorOK, SchedulerOK, TransitionOK, Processes
  <1>4. job[p].run = r /\ status'[r] = job[p].to
    BY <1>0, <1>2 DEF TypeOK
  <1> QED
    BY <1>2, <1>3, <1>4 DEF CanTransition

\* A status changes against RUN_TRANSITIONS only where two requests overlap: the
\* writer had read another status than the one it replaces.
THEOREM OnlyOvertakenIsIllegal == Spec => LegalUnlessOvertaken
  <1>1. IInv /\ [Next]_vars =>
          [\A r \in Created :
             (status'[r] # status[r] /\ <<status[r], status'[r]>> \notin Transitions) =>
               \E p \in Processes : /\ pc[p] = "write" /\ pc'[p] = "emit"
                                    /\ job[p].run = r
                                    /\ job[p].seen # status[r]]_vars
    BY OnlyWritesChange
  <1> QED
    BY <1>1, Invariance, PTL DEF Spec, LegalUnlessOvertaken

-----------------------------------------------------------------------------
(* What a pass is about to schedule                                        *)

\* The run it has taken up and not yet written.
Current(s) ==
  (IF pc[s] \in {"read", "write"} /\ job[s].after = "dispatch" THEN {job[s].run} ELSE {})
    \cup (IF \/ pc[s] \in {"preempt", "urgent"}
             \/ pc[s] \in TransitionPoints /\ job[s].after = "urgent"
          THEN {pass[s].urgent} ELSE {})

Promised(s) == pass[s].chosen \cup Current(s)

\* The runs it has found and may yet choose.
Found(s) == IF pc[s] = "filter" THEN pass[s].batch ELSE {}

In(set, w) == {r \in set : WorkspaceOf[r] = w}

\* A pass that has not looked for pending runs.
Unstarted(s) ==
  \/ pc[s] \in {"idle", "timeouts", "pending"}
  \/ pc[s] \in TransitionPoints /\ job[s].after = "timeouts"

\* What a pass does inside transitionRun, and what its counts say of its choices.
PassOK(s) ==
  /\ pc[s] \in TransitionPoints =>
       <<job[s].to, job[s].after>> \in
         {<<"failed", "timeouts">>, <<"paused", "urgent">>, <<"scheduled", "dispatch">>}
  /\ Unstarted(s) =>
       pass[s].chosen = {} /\ \A w \in Workspaces : pass[s].counts[w] = 0
  /\ pc[s] = "filter" =>
       \A w \in Workspaces : pass[s].counts[w] = 0 => In(pass[s].chosen, w) = {}

\* A run more urgent than another one of its workspace, pending when the pass looked and
\* still pending.
Waits(s, x, r) ==
  /\ x \in pass[s].waiting
  /\ status[x] = "pending"
  /\ WorkspaceOf[x] = WorkspaceOf[r]
  /\ Rank(Priority[x]) < Rank(Priority[r])

\* What waits before a chosen run is chosen too, and nothing waits before the one taken up.
\* What waits before a run that is found is found, or the workspace is full.
OrderOK(s) ==
  /\ pass[s].waiting \subseteq Created
  /\ \A r \in pass[s].chosen, x \in Runs : Waits(s, x, r) => x \in Promised(s)
  /\ \A r \in Current(s), x \in Runs : ~Waits(s, x, r)
  /\ \A r \in Found(s), x \in Runs : Waits(s, x, r) =>
       \/ x \in Found(s) \cup pass[s].chosen
       \/ pass[s].counts[WorkspaceOf[r]] >= WorkspaceCap

Own == ActiveRuns \ lifted

\* What is active and what a pass may yet schedule stay within the caps.
CapsOK(s) ==
  /\ Cardinality(Own \cup Promised(s) \cup Found(s))
       + (IF pc[s] = "pending" THEN pass[s].slots ELSE 0) <= GlobalCap
  /\ \A w \in Workspaces : Cardinality(In(Own \cup Promised(s), w)) <= WorkspaceCap
  /\ pc[s] = "filter" =>
       \A w \in Workspaces : pass[s].counts[w] > 0 =>
         Cardinality(In(Own \cup pass[s].chosen, w)) <= pass[s].counts[w]

PassesOK == \A s \in Schedulers : PassOK(s) /\ OrderOK(s)

-----------------------------------------------------------------------------
(* The steps of a pass, by what they do to its choices                     *)

PassMoves(s) == TransitionStep(s) \/ Fault(s) \/ StartPass(s) \/ PassStep(s)

\* Nothing is chosen yet, or no longer.
Empties(s) ==
  /\ pass'[s].chosen = {} /\ Current(s)' = {} /\ pc'[s] \notin {"pending", "filter"}
  /\ pass'[s].waiting \subseteq pass[s].waiting
  /\ UNCHANGED <<status, lifted>>

\* The choices stay.
Keeps(s) ==
  /\ pass'[s].chosen = pass[s].chosen /\ Current(s)' = Current(s)
  /\ pass'[s].waiting = pass[s].waiting
  /\ {pc[s], pc'[s]} \cap {"pending", "filter"} = {}
  /\ UNCHANGED <<status, lifted>>

\* A chosen run before all others is taken up.
TakesUp(s) ==
  /\ pc[s] = "dispatch" /\ pc'[s] \notin {"pending", "filter"}
  /\ pass'[s].waiting = pass[s].waiting
  /\ UNCHANGED <<status, lifted>>
  /\ \E r \in pass[s].chosen :
       /\ IsFirst(r, pass[s].chosen)
       /\ pass'[s].chosen = pass[s].chosen \ {r}
       /\ Current(s)' = {r}

\* The slots are counted.
Counts(s) ==
  /\ Unstarted(s) /\ pc'[s] = "pending"
  /\ pass'[s].chosen = {} /\ Current(s)' = {} /\ pass'[s].waiting = pass[s].waiting
  /\ UNCHANGED <<status, lifted>>
  /\ Cardinality(ActiveRuns) + pass'[s].slots = GlobalCap

\* As many pending runs are found as there are slots.
Finds(s) ==
  /\ pc[s] = "pending" /\ pass[s].chosen = {} /\ pass'[s].chosen = {} /\ Current(s)' = {}
  /\ UNCHANGED <<status, lifted>>
  /\ pc'[s] \in {"dispatch", "filter"}
  /\ pass'[s].waiting = PendingRuns
  /\ pass'[s].batch = Leading(PendingRuns, pass[s].slots)
  /\ \A w \in Workspaces : pass'[s].counts[w] = 0

\* How many active runs a pass takes a workspace to have.
CountOf(s, w) ==
  IF pass[s].counts[w] = 0 THEN Cardinality(ActiveIn(w)) ELSE pass[s].counts[w]

\* The first of them is chosen, or dropped because its workspace is full.
Chooses(s) ==
  /\ pc[s] = "filter" /\ pc'[s] \in {"dispatch", "filter"} /\ Current(s)' = {}
  /\ pass'[s].waiting = pass[s].waiting
  /\ UNCHANGED <<status, lifted>>
  /\ \E r \in pass[s].batch :
       LET w == WorkspaceOf[r] IN
       /\ IsFirst(r, pass[s].batch)
       /\ pass'[s].batch = pass[s].batch \ {r}
       /\ \A v \in Workspaces \ {w} : pass'[s].counts[v] = pass[s].counts[v]
       /\ \/ /\ CountOf(s, w) < WorkspaceCap
             /\ pass'[s].counts[w] = CountOf(s, w) + 1
             /\ pass'[s].chosen = pass[s].chosen \cup {r}
          \/ /\ CountOf(s, w) >= WorkspaceCap
             /\ pass'[s].counts[w] = CountOf(s, w)
             /\ pass'[s].chosen = pass[s].chosen

\* The update of a run.
Writes(s) == Write(s) /\ pc'[s] = "emit" /\ pass' = pass /\ job' = job

\* What transitionRun is called for, and where it returns to.
Calls(s, r, to, after) ==
  /\ pc'[s] = "read"
  /\ job'[s].run = r /\ job'[s].to = to /\ job'[s].after = after

\* A pass that begins a transition calls transitionRun for it.
LEMMA BeginCalls ==
  ASSUME TypeOK, NEW s \in Schedulers, NEW r, NEW to, NEW after, Begin(s, r, to, after)
  PROVE  Calls(s, r, to, after)
<1>1. s \in Processes
  BY DEF Processes
<1> QED
  BY <1>1 DEF TypeOK, Begin, Calls

\* A request that ends has no choices.
LEMMA FinishEmpties ==
  ASSUME TypeOK, NEW s \in Schedulers, Finish(s), UNCHANGED <<status, lifted>>
  PROVE  PassOK(s)' /\ Empties(s)
<1>1. pc'[s] = "idle" /\ pass'[s] = NoPass
  BY DEF TypeOK, Finish, Processes
<1>2. NoPass.chosen = {} /\ NoPass.waiting = {} /\ \A w \in Workspaces : NoPass.counts[w] = 0
  BY DEF NoPass
<1> QED
  BY <1>1, <1>2 DEF PassOK, Empties, Current, TransitionPoints

\* The steps inside transitionRun.
LEMMA TransitionMoves ==
  ASSUME IInv, NEW s \in Schedulers, PassOK(s), TransitionStep(s) \/ Fault(s)
  PROVE  PassOK(s)' /\ (Empties(s) \/ Keeps(s) \/ Writes(s))
<1> USE DEF TransitionPoints
<1>0. TypeOK /\ s \in Processes /\ job[s] \in Jobs
  BY DEF IInv, TypeOK, Processes
<1>1. CASE Read(s)
  <2>1. CASE Finish(s)
    BY <1>0, <1>1, <2>1, FinishEmpties DEF Read, history
  <2>2. CASE /\ job' = [job EXCEPT ![s].seen = status[job[s].run]]
             /\ pc' = [pc EXCEPT ![s] = "write"] /\ pass' = pass
    <3>1. /\ pc[s] = "read" /\ pc'[s] = "write" /\ job'[s].run = job[s].run
          /\ job'[s].to = job[s].to /\ job'[s].after = job[s].after
          /\ UNCHANGED <<pass, status, lifted>>
      BY <1>0, <1>1, <2>2 DEF Read, TypeOK, Jobs, history
    <3>2. PassOK(s)'
      BY <3>1 DEF PassOK, Unstarted
    <3>3. Keeps(s)
      BY <3>1 DEF Keeps, Current
    <3> QED
      BY <3>2, <3>3
  <2> QED
    BY <1>1, <2>1, <2>2 DEF Read
<1>2. CASE Write(s)
  <2>1. pc[s] = "write" /\ pc'[s] = "emit" /\ UNCHANGED <<pass, job>>
    BY <1>0, <1>2 DEF Write, TypeOK
  <2>2. PassOK(s)'
    BY <2>1 DEF PassOK, Unstarted
  <2> QED
    BY <1>2, <2>1, <2>2 DEF Writes
<1>3. CASE Emit(s)
  <2>1. pc[s] = "emit" /\ UNCHANGED <<status, lifted>>
    BY <1>3 DEF Emit, history
  <2>2. job[s].after \in {"timeouts", "urgent", "dispatch"}
    BY <2>1 DEF PassOK
  <2>3. pc'[s] = job[s].after /\ UNCHANGED <<job, pass>>
    BY <1>0, <1>3, <2>2 DEF Emit, TypeOK
  <2>4. PassOK(s)'
    BY <2>1, <2>2, <2>3 DEF PassOK, Unstarted
  <2>5. Keeps(s)
    BY <2>1, <2>2, <2>3 DEF Keeps, Current
  <2> QED
    BY <2>4, <2>5
<1>4. CASE Fault(s)
  BY <1>0, <1>4, FinishEmpties DEF Fault, history
<1> QED
  BY <1>1, <1>2, <1>3, <1>4 DEF TransitionStep

\* The steps of a pass outside transitionRun.
LEMMA PassStepMoves ==
  ASSUME IInv, NEW s \in Schedulers, PassOK(s), StartPass(s) \/ PassStep(s)
  PROVE  /\ PassOK(s)'
         /\ \/ Empties(s) \/ Keeps(s) \/ TakesUp(s)
            \/ Counts(s) \/ Finds(s) \/ Chooses(s)
<1> USE DEF TransitionPoints
<1>0. /\ TypeOK /\ s \in Processes /\ pass \in [Schedulers -> Passes] /\ pass[s] \in Passes
      /\ pc \in [Processes -> OperatorPoints \cup PassPoints]
  BY DEF IInv, TypeOK, Processes
<1>1. UNCHANGED <<status, lifted>>
  BY DEF StartPass, PassStep, FailLate, CountActive, FindPending, Filter, Dispatch, Preempt,
    ScheduleUrgent, history
<1>2. CASE StartPass(s)
  <2>1. /\ pc[s] = "idle" /\ pc'[s] = "timeouts"
        /\ pass'[s].chosen = pass[s].chosen /\ pass'[s].counts = pass[s].counts
        /\ pass'[s].waiting = pass[s].waiting
    BY <1>0, <1>2 DEF StartPass, Passes
  <2>2. PassOK(s)'
    BY <2>1 DEF PassOK, Unstarted
  <2>3. Empties(s)
    BY <1>1, <2>1 DEF PassOK, Unstarted, Empties, Current
  <2> QED
    BY <2>2, <2>3
<1>3. CASE FailLate(s)
  <2>1. PICK r \in pass[s].batch : /\ pass' = [pass EXCEPT ![s].batch = @ \ {r}]
                                   /\ Begin(s, r, "failed", "timeouts")
    BY <1>3 DEF FailLate
  <2>2. Calls(s, r, "failed", "timeouts")
    BY <1>0, <2>1, BeginCalls
  <2>3. /\ pc[s] = "timeouts" /\ pass'[s].chosen = pass[s].chosen
        /\ pass'[s].counts = pass[s].counts /\ pass'[s].waiting = pass[s].waiting
    BY <1>0, <1>3, <2>1 DEF FailLate, Passes
  <2>4. PassOK(s)'
    BY <2>2, <2>3 DEF PassOK, Unstarted, Calls
  <2>5. Empties(s)
    BY <1>1, <2>2, <2>3 DEF PassOK, Unstarted, Empties, Current, Calls
  <2> QED
    BY <2>4, <2>5
<1>4. CASE CountActive(s)
  <2>1. CASE Finish(s)
    BY <1>0, <1>1, <2>1, FinishEmpties
  <2>2. CASE ~Finish(s)
    <3> DEFINE free == GlobalCap - Cardinality(ActiveRuns)
    <3>1. /\ pass' = [pass EXCEPT ![s].slots = free]
          /\ pc[s] = "timeouts" /\ pc' = [pc EXCEPT ![s] = "pending"]
      BY <1>4, <2>2 DEF CountActive, Counted
    <3>2. Cardinality(ActiveRuns) \in Nat
      BY CountsAreNumbers DEF ActiveRuns
    <3>3. Cardinality(ActiveRuns) + free = GlobalCap
      BY <3>2, BoundsAssumption
    <3> HIDE DEF free
    <3>4. /\ pc'[s] = "pending" /\ pass'[s].slots = free
          /\ pass'[s].chosen = pass[s].chosen /\ pass'[s].counts = pass[s].counts
          /\ pass'[s].waiting = pass[s].waiting
      BY <1>0, <3>1 DEF Passes
    <3>5. PassOK(s)'
      BY <3>1, <3>4 DEF PassOK, Unstarted
    <3>6. Counts(s)
      BY <1>1, <3>1, <3>3, <3>4 DEF PassOK, Unstarted, Counts, Current
    <3> QED
      BY <3>5, <3>6
  <2> QED
    BY <2>1, <2>2
<1>5. CASE FindPending(s)
  <2> DEFINE found == Leading(PendingRuns, pass[s].slots)
             place == IF found = {} THEN "dispatch" ELSE "filter"
  <2>1. /\ pc[s] = "pending"
        /\ pass' = [pass EXCEPT ![s].batch = found, ![s].waiting = PendingRuns]
        /\ pc' = [pc EXCEPT ![s] = place]
    BY <1>5 DEF FindPending
  <2>2. place \in {"dispatch", "filter"}
    OBVIOUS
  <2> HIDE DEF found, place
  <2>3. /\ pc'[s] = place /\ pass'[s].batch = found /\ pass'[s].waiting = PendingRuns
        /\ pass'[s].chosen = pass[s].chosen /\ pass'[s].counts = pass[s].counts
    BY <1>0, <2>1 DEF Passes
  <2>4. PassOK(s)'
    BY <2>1, <2>2, <2>3 DEF PassOK, Unstarted, In
  <2>5. Finds(s)
    BY <1>1, <2>1, <2>2, <2>3 DEF PassOK, Unstarted, Finds, Current, found
  <2> QED
    BY <2>4, <2>5
<1>6. CASE Filter(s)
  <2>1. PICK r \in pass[s].batch :
          LET w == WorkspaceOf[r]
              known == pass[s].counts[w]
              count == IF known = 0 THEN Cardinality(ActiveIn(w)) ELSE known
              fits == count < WorkspaceCap
          IN
          /\ IsFirst(r, pass[s].batch)
          /\ pass' = [pass EXCEPT ![s].batch = @ \ {r},
                                  ![s].counts[w] = IF fits THEN count + 1 ELSE count,
                                  ![s].chosen = IF fits THEN @ \cup {r} ELSE @]
          /\ pc' = [pc EXCEPT ![s] = IF pass[s].batch = {r} THEN "dispatch" ELSE "filter"]
    BY <1>6 DEF Filter
  <2> DEFINE w == WorkspaceOf[r]
             count == CountOf(s, w)
             new == IF count < WorkspaceCap THEN count + 1 ELSE count
             chosen == IF count < WorkspaceCap THEN pass[s].chosen \cup {r} ELSE pass[s].chosen
  <2>2. r \in Runs /\ w \in Workspaces
    BY <1>0 DEF Passes, Workspaces
  <2>3. Cardinality(ActiveIn(w)) \in Nat /\ pass[s].counts[w] \in Nat
    BY <1>0, <2>2, CountsAreNumbers DEF ActiveIn, ActiveRuns, Passes
  <2>4. count \in Nat
    BY <2>3 DEF CountOf
  <2>5. /\ pass'[s].batch = pass[s].batch \ {r}
        /\ pass'[s].counts = [pass[s].counts EXCEPT ![w] = new]
        /\ pass'[s].chosen = chosen /\ pass'[s].waiting = pass[s].waiting
    BY <1>0, <2>1 DEF Passes, CountOf
  <2>6. pass[s].counts \in [Workspaces -> Nat]
    BY <1>0 DEF Passes
  <2>7. /\ pass'[s].counts[w] = new
        /\ \A v \in Workspaces \ {w} : pass'[s].counts[v] = pass[s].counts[v]
    BY <2>2, <2>5, <2>6
  <2>8. pc[s] = "filter" /\ pc'[s] \in {"dispatch", "filter"}
    BY <1>0, <1>6, <2>1 DEF Filter
  <2>9. IsFirst(r, pass[s].batch)
    BY <2>1
  <2>10. WorkspaceCap \in Nat
    BY BoundsAssumption
  <2>11. \/ /\ count < WorkspaceCap /\ new = count + 1 /\ chosen = pass[s].chosen \cup {r}
         \/ /\ count >= WorkspaceCap /\ new = count /\ chosen = pass[s].chosen
    BY <2>4, <2>10
  <2>12. Chooses(s)
    <3> HIDE DEF count, new, chosen
    <3>1. Current(s)' = {}
      BY <2>8 DEF Current
    <3> QED
      BY <1>1, <2>5, <2>7, <2>8, <2>9, <2>11, <3>1 DEF Chooses, count
  <2>13. ASSUME pc'[s] = "filter", NEW v \in Workspaces, pass'[s].counts[v] = 0
         PROVE  In(pass'[s].chosen, v) = {}
    <3>1. CASE v # w
      <4>1. In(pass[s].chosen, v) = {}
        BY <2>7, <2>8, <2>13, <3>1 DEF PassOK
      <4> QED
        BY <2>5, <3>1, <4>1 DEF In
    <3>2. CASE v = w
      <4>1. new = 0 /\ count = 0 /\ chosen = pass[s].chosen
        BY <2>4, <2>7, <2>11, <2>13, <3>2
      <4>2. pass[s].counts[w] = 0
        BY <2>3, <4>1 DEF CountOf
      <4> QED
        BY <2>2, <2>5, <2>8, <3>2, <4>1, <4>2 DEF PassOK
    <3> QED
      BY <3>1, <3>2
  <2>14. PassOK(s)'
    BY <2>8, <2>13 DEF PassOK, Unstarted
  <2> QED
    BY <2>12, <2>14
<1>7. CASE Dispatch(s)
  <2>1. CASE Finish(s)
    BY <1>0, <1>1, <2>1, FinishEmpties
  <2>2. ASSUME NEW r \in pass[s].chosen, IsFirst(r, pass[s].chosen), DispatchNext(s, r)
        PROVE  PassOK(s)' /\ TakesUp(s)
    <3>1. /\ pc[s] = "dispatch" /\ pass'[s].chosen = pass[s].chosen \ {r}
          /\ pass'[s].urgent = IF Priority[r] = "P0" THEN r ELSE pass[s].urgent
          /\ pass'[s].waiting = pass[s].waiting
      BY <1>0, <1>7, <2>2 DEF Dispatch, DispatchNext, Passes
    <3>2. CASE Priority[r] = "P0"
      <4>1. pc'[s] = "preempt" /\ pass'[s].urgent = r
        BY <1>0, <2>2, <3>1, <3>2 DEF DispatchNext
      <4>2. PassOK(s)'
        BY <4>1 DEF PassOK, Unstarted
      <4>3. Current(s)' = {r}
        BY <4>1 DEF Current
      <4> QED
        BY <1>1, <2>2, <3>1, <4>1, <4>2, <4>3 DEF TakesUp
    <3>3. CASE Priority[r] # "P0"
      <4>1. Calls(s, r, "scheduled", "dispatch")
        BY <1>0, <2>2, <3>3, BeginCalls DEF DispatchNext
      <4>2. PassOK(s)'
        BY <4>1 DEF PassOK, Unstarted, Calls
      <4>3. Current(s)' = {r}
        BY <4>1 DEF Current, Calls
      <4> QED
        BY <1>1, <2>2, <3>1, <4>1, <4>2, <4>3 DEF TakesUp, Calls
    <3> QED
      BY <3>2, <3>3
  <2> QED
    BY <1>7, <2>1, <2>2 DEF Dispatch
<1>8. ASSUME pc[s] \in {"preempt", "urgent"}, pass' = pass, NEW r, NEW to, NEW after,
             Begin(s, r, to, after),
             \/ r = pass[s].urgent /\ to = "scheduled" /\ after = "dispatch"
             \/ to = "paused" /\ after = "urgent"
      PROVE  PassOK(s)' /\ Keeps(s)
  <2>1. Calls(s, r, to, after)
    BY <1>0, <1>8, BeginCalls
  <2>2. PassOK(s)'
    BY <1>8, <2>1 DEF PassOK, Unstarted, Calls
  <2>3. Current(s)' = Current(s)
    BY <1>8, <2>1 DEF Current, Calls
  <2> QED
    BY <1>1, <1>8, <2>1, <2>2, <2>3 DEF Keeps, Calls
<1>9. CASE Preempt(s)
  BY <1>8, <1>9 DEF Preempt
<1>10. CASE ScheduleUrgent(s)
  BY <1>8, <1>10 DEF ScheduleUrgent
<1> QED
  BY <1>2, <1>3, <1>4, <1>5, <1>6, <1>7, <1>9, <1>10 DEF PassStep

\* Nothing of s moves.
Aside(s) == UNCHANGED <<pc[s], job[s], pass[s]>>

\* A step is one of the pass of s, or leaves the pass alone and at most updates or
\* creates a run.
LEMMA StepsAroundAPass ==
  ASSUME IInv, [Next]_vars, NEW s \in Schedulers
  PROVE  \/ PassMoves(s)
         \/ Aside(s) /\ UNCHANGED <<status, lifted>>
         \/ Aside(s) /\ \E p \in Processes \ {s} : Write(p)
         \/ Aside(s) /\ \E r \in Runs : Create(r)
<1> SUFFICES ASSUME ~PassMoves(s)
             PROVE  \/ Aside(s) /\ UNCHANGED <<status, lifted>>
                    \/ Aside(s) /\ \E p \in Processes \ {s} : Write(p)
                    \/ Aside(s) /\ \E r \in Runs : Create(r)
  OBVIOUS
<1>0. TypeOK /\ s \in Processes /\ s \notin Operators
  BY ProcessesAssumption DEF IInv, Processes
<1>1. ASSUME NEW p \in Processes \ {s}, NEW r, NEW to, NEW after,
             Begin(p, r, to, after), pass'[s] = pass[s]
      PROVE  Aside(s)
  BY <1>0, <1>1 DEF Begin, Aside, TypeOK
<1>2. ASSUME NEW p \in Processes \ {s}, Finish(p) PROVE Aside(s)
  BY <1>0, <1>2 DEF Finish, Aside, TypeOK
<1>3. ASSUME NEW p \in Processes, TransitionStep(p) \/ Fault(p)
      PROVE  \/ Aside(s) /\ UNCHANGED <<status, lifted>>
             \/ Aside(s) /\ \E q \in Processes \ {s} : Write(q)
  <2>1. p # s
    BY <1>3 DEF PassMoves
  <2>2. CASE Read(p)
    BY <1>0, <1>2, <2>1, <2>2 DEF Read, Aside, TypeOK, history
  <2>3. CASE Write(p)
    BY <1>0, <2>1, <2>3 DEF Write, Aside, TypeOK
  <2>4. CASE Emit(p)
    BY <1>0, <1>2, <2>1, <2>4 DEF Emit, Aside, TypeOK, history
  <2>5. CASE Fault(p)
    BY <1>2, <2>1, <2>5 DEF Fault, history
  <2> QED
    BY <1>3, <2>2, <2>3, <2>4, <2>5 DEF TransitionStep
<1>4. ASSUME NEW o \in Operators,
             OperatorStep(o) \/ \E r \in Runs, c \in Commands : Command(o, r, c)
      PROVE  Aside(s) /\ UNCHANGED <<status, lifted>>
  <2>1. o \in Processes \ {s}
    BY <1>0 DEF Processes
  <2>2. CASE Kill(o)
    BY <1>1, <1>2, <2>1, <2>2 DEF Kill, history
  <2>3. CASE Revoke(o)
    BY <1>0, <2>1, <2>3 DEF Revoke, Aside, TypeOK, history
  <2>4. CASE PublishQuarantine(o)
    BY <1>2, <2>1, <2>4 DEF PublishQuarantine
  <2>5. ASSUME NEW r \in Runs, NEW c \in Commands, Command(o, r, c)
        PROVE  Aside(s) /\ UNCHANGED <<status, lifted>>
    <3>1. UNCHANGED <<pass, status, lifted>>
      BY <2>5 DEF Command, history
    <3>2. CASE c = "kill"
      BY <1>0, <2>1, <2>5, <3>1, <3>2 DEF Command, Aside, TypeOK
    <3>3. CASE c # "kill"
      <4>1. Begin(o, r, "quarantined", "revoke") \/ Begin(o, r, c, "done")
        BY <2>5, <3>3 DEF Command
      <4> QED
        BY <1>1, <2>1, <3>1, <4>1
    <3> QED
      BY <3>2, <3>3
  <2> QED
    BY <1>4, <2>2, <2>3, <2>4, <2>5 DEF OperatorStep
<1>5. ASSUME NEW t \in Schedulers, StartPass(t) \/ PassStep(t)
      PROVE  Aside(s) /\ UNCHANGED <<status, lifted>>
  <2>1. t # s /\ t \in Processes
    BY <1>5 DEF PassMoves, Processes
  <2>2. UNCHANGED <<status, lifted>>
    BY <1>5 DEF StartPass, PassStep, FailLate, CountActive, FindPending, Filter, Dispatch,
      Preempt, ScheduleUrgent, history
  <2>3. SUFFICES Aside(s)
    BY <2>2
  <2>4. CASE StartPass(t)
    BY <1>0, <2>1, <2>4 DEF StartPass, Aside, TypeOK
  <2>5. CASE FindPending(t)
    BY <1>0, <2>1, <2>5 DEF FindPending, Aside, TypeOK
  <2>6. CASE Filter(t)
    BY <1>0, <2>1, <2>6 DEF Filter, Aside, TypeOK
  <2>7. CASE CountActive(t)
    BY <1>0, <1>2, <2>1, <2>7 DEF CountActive, Aside, TypeOK
  <2>8. CASE FailLate(t)
    <3>1. pass'[s] = pass[s]
      BY <1>0, <2>1, <2>8 DEF FailLate, TypeOK
    <3>2. PICK r \in pass[t].batch : Begin(t, r, "failed", "timeouts")
      BY <2>8 DEF FailLate
    <3> QED
      BY <1>1, <2>1, <3>1, <3>2
  <2>9. CASE Preempt(t)
    <3>1. pass'[s] = pass[s]
      BY <2>9 DEF Preempt
    <3>2. PICK r, to, after : Begin(t, r, to, after)
      BY <2>9 DEF Preempt
    <3> QED
      BY <1>1, <2>1, <3>1, <3>2
  <2>10. CASE ScheduleUrgent(t)
    <3>1. pass'[s] = pass[s] /\ Begin(t, pass[t].urgent, "scheduled", "dispatch")
      BY <2>10 DEF ScheduleUrgent
    <3> QED
      BY <1>1, <2>1, <3>1
  <2>11. CASE Dispatch(t)
    <3>1. ASSUME NEW r, DispatchNext(t, r) PROVE Aside(s)
      <4>1. pass'[s] = pass[s]
        BY <1>0, <2>1, <3>1 DEF DispatchNext, TypeOK
      <4>2. CASE Begin(t, r, "scheduled", "dispatch")
        BY <1>1, <2>1, <4>1, <4>2
      <4>3. CASE pc' = [pc EXCEPT ![t] = "preempt"] /\ UNCHANGED job
        BY <1>0, <2>1, <4>1, <4>3 DEF Aside, TypeOK
      <4> QED
        BY <3>1, <4>2, <4>3 DEF DispatchNext
    <3> QED
      BY <1>2, <2>1, <2>11, <3>1 DEF Dispatch
  <2> QED
    BY <1>5, <2>4, <2>5, <2>6, <2>7, <2>8, <2>9, <2>10, <2>11 DEF PassStep
<1>6. ASSUME NEW r \in Runs, Expire(r) PROVE Aside(s) /\ UNCHANGED <<status, lifted>>
  BY <1>6 DEF Expire, Aside, history
<1>7. ASSUME NEW r \in Runs, Create(r) PROVE Aside(s)
  BY <1>7 DEF Create, Aside
<1>8. CASE UNCHANGED vars
  BY <1>8 DEF vars, Aside
<1> QED
  BY <1>3, <1>4, <1>5, <1>6, <1>7, <1>8 DEF Next

\* Every step keeps what a pass does inside transitionRun and what its counts say, and is of
\* one of the kinds above.
LEMMA StepsOfAPass ==
  ASSUME IInv, [Next]_vars, NEW s \in Schedulers, PassOK(s)
  PROVE  /\ PassOK(s)'
         /\ \/ Empties(s) \/ Keeps(s) \/ TakesUp(s)
            \/ Counts(s) \/ Finds(s) \/ Chooses(s) \/ Writes(s)
            \/ Aside(s) /\ UNCHANGED <<status, lifted>>
            \/ Aside(s) /\ \E p \in Processes \ {s} : Write(p)
            \/ Aside(s) /\ \E r \in Runs : Create(r)
<1>1. ASSUME Aside(s) PROVE PassOK(s)'
  BY <1>1 DEF Aside, PassOK, Unstarted, In
<1> QED
  BY <1>1, StepsAroundAPass, TransitionMoves, PassStepMoves DEF PassMoves

-----------------------------------------------------------------------------
(* The order of the runs                                                   *)

\* The ranks of two runs are numbers.
LEMMA RanksAreNumbers == \A r \in Runs : Rank(Priority[r]) \in 0 .. 2
  BY RunsAssumption DEF Rank, Priorities

\* Two runs with one rank have one priority, and their numbers order them.
LEMMA SamePriority ==
  ASSUME NEW r \in Runs, NEW x \in Runs, Rank(Priority[r]) = Rank(Priority[x])
  PROVE  Priority[r] = Priority[x]
  BY RunsAssumption DEF Rank, Priorities

\* Before orders the runs, and no run is before itself.
LEMMA BeforeIsAnOrder ==
  /\ \A r \in Runs : ~Before(r, r)
  /\ \A r, x \in Runs : r # x => Before(r, x) \/ Before(x, r)
  /\ \A r, x, y \in Runs : Before(r, x) /\ Before(x, y) => Before(r, y)
<1>1. \A r \in Runs : r \in Nat /\ Rank(Priority[r]) \in Nat
  BY RunsAssumption, RanksAreNumbers
<1>2. \A r \in Runs : ~Before(r, r)
  BY <1>1 DEF Before
<1>3. \A r, x \in Runs : r # x => Before(r, x) \/ Before(x, r)
  BY <1>1, SamePriority DEF Before
<1>4. \A r, x, y \in Runs : Before(r, x) /\ Before(x, y) => Before(r, y)
  BY <1>1, SamePriority DEF Before
<1> QED
  BY <1>2, <1>3, <1>4

\* A run of lower rank is before, and the first of a set has none of lower rank beside it.
LEMMA FirstIsMostUrgent ==
  ASSUME NEW S \in SUBSET Runs, NEW r \in S, IsFirst(r, S), NEW x \in S
  PROVE  ~(Rank(Priority[x]) < Rank(Priority[r]))
<1>1. Rank(Priority[r]) \in Nat /\ Rank(Priority[x]) \in Nat
  BY RanksAreNumbers
<1>2. CASE x = r
  BY <1>1, <1>2
<1>3. CASE x # r
  BY <1>1, <1>3 DEF IsFirst, Before
<1> QED
  BY <1>2, <1>3

\* What is before a run that Leading takes is taken too.
LEMMA LeadingIsClosed ==
  ASSUME NEW S \in SUBSET Runs, NEW n \in Nat, NEW r \in Leading(S, n), NEW x \in S, Before(x, r)
  PROVE  x \in Leading(S, n)
<1> DEFINE Ahead(y) == {z \in S : Before(z, y)}
<1>1. r \in S /\ Cardinality(Ahead(r)) < n
  BY DEF Leading
<1>2. Ahead(x) \subseteq Ahead(r)
  BY <1>1, BeforeIsAnOrder
<1>3. Cardinality(Ahead(x)) \in Nat /\ Cardinality(Ahead(r)) \in Nat
  BY CountsAreNumbers
<1>4. IsFiniteSet(Ahead(r))
  BY RunsAssumption, FS_Subset
<1>5. Cardinality(Ahead(x)) <= Cardinality(Ahead(r))
  BY <1>2, <1>4, FS_Subset
<1>6. Cardinality(Ahead(x)) < n
  BY <1>1, <1>3, <1>5
<1> QED
  BY <1>6 DEF Leading

\* take: n takes at most n.
LEMMA LeadingIsBounded ==
  ASSUME NEW S \in SUBSET Runs, NEW n \in Nat
  PROVE  Cardinality(Leading(S, n)) <= n
<1> DEFINE Ahead(y) == {z \in S : Before(z, y)}
           L == Leading(S, n)
           f == [r \in L |-> Cardinality(Ahead(r))]
<1>1. L \subseteq S /\ \A r \in L : Cardinality(Ahead(r)) < n
  BY DEF Leading
<1>2. \A y \in Runs : IsFiniteSet(Ahead(y)) /\ Cardinality(Ahead(y)) \in Nat
  BY RunsAssumption, FS_Subset, CountsAreNumbers
<1>3. f \in [L -> 0 .. n - 1]
  BY <1>1, <1>2
<1>4. IsFiniteSet(L) /\ Cardinality(L) \in Nat
  BY <1>1, RunsAssumption, FS_Subset, CountsAreNumbers
<1>5. IsFiniteSet(0 .. n - 1) /\ Cardinality(0 .. n - 1) = n
  <2>1. 0 \in Int /\ n - 1 \in Int
    OBVIOUS
  <2> QED
    BY <2>1, FS_Interval
<1>6. ASSUME NEW r \in L, NEW x \in L, Before(r, x) PROVE f[r] # f[x]
  <2>1. Ahead(r) \subseteq Ahead(x) /\ r \in Ahead(x) \ Ahead(r)
    BY <1>1, <1>6, BeforeIsAnOrder
  <2>2. Cardinality(Ahead(x)) # Cardinality(Ahead(r))
    BY <1>1, <1>2, <2>1, FS_Subset
  <2> QED
    BY <2>2
<1>7. \A r, x \in L : r # x => f[r] # f[x]
  BY <1>1, <1>6, BeforeIsAnOrder
<1> HIDE DEF f, L
<1>8. ~(n < Cardinality(L))
  BY <1>3, <1>4, <1>5, <1>7, FS_PigeonHole
<1> QED
  BY <1>4, <1>8 DEF L

\* No run goes away or becomes pending again.
LEMMA RunsStay ==
  ASSUME IInv, [Next]_vars, NEW x \in Created
  PROVE  x \in Created' /\ (status'[x] = "pending" => status[x] = "pending")
<1>1. CASE status'[x] # status[x]
  <2>1. \E from : <<from, status'[x]>> \in Transitions
    BY <1>1, OnlyWritesChange
  <2>2. status'[x] \notin {"none", "pending"}
    BY <2>1 DEF Transitions
  <2> QED
    BY <2>2 DEF Created
<1> QED
  BY <1>1 DEF Created

\* While a pass keeps the runs it saw waiting, no more of them wait.
LEMMA NothingMoreWaits ==
  ASSUME IInv, [Next]_vars, NEW s \in Schedulers, OrderOK(s),
         pass'[s].waiting = pass[s].waiting
  PROVE  /\ pass'[s].waiting \subseteq Created'
         /\ \A x, r \in Runs : Waits(s, x, r)' => Waits(s, x, r)
  BY RunsStay DEF OrderOK, Waits

\* The choice of the first run found keeps the order of the choices.
LEMMA ChoosingKeepsOrder ==
  ASSUME IInv, [Next]_vars, NEW s \in Schedulers, OrderOK(s), Chooses(s)
  PROVE  OrderOK(s)'
<1>1. /\ Found(s) = pass[s].batch /\ Current(s) = {} /\ Current(s)' = {}
      /\ pc'[s] \in {"dispatch", "filter"} /\ pass'[s].waiting = pass[s].waiting
  BY DEF Chooses, Found, Current, TransitionPoints
<1>2. /\ pass[s].batch \in SUBSET Runs /\ pass[s].chosen \in SUBSET Runs
      /\ pass[s].counts \in [Workspaces -> Nat]
  BY DEF IInv, TypeOK, Passes
<1>3. PICK r \in pass[s].batch :
        LET w == WorkspaceOf[r] IN
        /\ IsFirst(r, pass[s].batch)
        /\ pass'[s].batch = pass[s].batch \ {r}
        /\ \A v \in Workspaces \ {w} : pass'[s].counts[v] = pass[s].counts[v]
        /\ \/ /\ CountOf(s, w) < WorkspaceCap
              /\ pass'[s].counts[w] = CountOf(s, w) + 1
              /\ pass'[s].chosen = pass[s].chosen \cup {r}
           \/ /\ CountOf(s, w) >= WorkspaceCap
              /\ pass'[s].counts[w] = CountOf(s, w)
              /\ pass'[s].chosen = pass[s].chosen
  BY DEF Chooses
<1> DEFINE w == WorkspaceOf[r]
           count == CountOf(s, w)
<1>4. /\ w \in Workspaces /\ pass[s].counts[w] \in Nat
      /\ Cardinality(ActiveIn(w)) \in Nat /\ WorkspaceCap \in Nat
  BY <1>2, CountsAreNumbers, BoundsAssumption DEF ActiveIn, ActiveRuns, Workspaces
<1>5. count \in Nat /\ count >= pass[s].counts[w]
  BY <1>4 DEF CountOf
<1>6. /\ pass'[s].waiting \subseteq Created'
      /\ \A x, y \in Runs : Waits(s, x, y)' => Waits(s, x, y)
  BY <1>1, NothingMoreWaits
<1>7. \A x \in pass[s].batch : ~Waits(s, x, r)
  BY <1>2, <1>3, FirstIsMostUrgent DEF Waits
<1>8. ASSUME NEW y \in pass'[s].chosen, NEW x \in Runs, Waits(s, x, y)
      PROVE  x \in pass'[s].chosen
  <2>1. CASE y \in pass[s].chosen
    BY <1>1, <1>3, <1>8, <2>1 DEF OrderOK, Promised
  <2>2. CASE y \notin pass[s].chosen
    <3>1. y = r /\ count < WorkspaceCap /\ pass[s].chosen \subseteq pass'[s].chosen
      BY <1>3, <1>8, <2>2
    <3>2. ~(pass[s].counts[w] >= WorkspaceCap)
      BY <1>4, <1>5, <3>1
    <3>3. x \in pass[s].batch \cup pass[s].chosen
      BY <1>1, <1>8, <3>1, <3>2 DEF OrderOK
    <3> QED
      BY <1>7, <1>8, <3>1, <3>3
  <2> QED
    BY <2>1, <2>2
<1>9. ASSUME NEW y \in Found(s)', NEW x \in Runs, Waits(s, x, y)
      PROVE  \/ x \in Found(s)' \cup pass'[s].chosen
             \/ pass'[s].counts[WorkspaceOf[y]] >= WorkspaceCap
  <2>1. y \in pass[s].batch /\ Found(s)' = pass[s].batch \ {r} /\ y \in Runs
    BY <1>2, <1>3, <1>9 DEF Found
  <2>2. WorkspaceOf[y] \in Workspaces
    BY <2>1 DEF Workspaces
  <2>3. pass[s].chosen \subseteq pass'[s].chosen
    BY <1>3
  <2>4. CASE x = r
    <3>1. WorkspaceOf[y] = w
      BY <1>9, <2>4 DEF Waits
    <3> QED
      BY <1>3, <2>4, <3>1
  <2>5. CASE x \in (pass[s].batch \ {r}) \cup pass[s].chosen
    BY <2>1, <2>3, <2>5
  <2>6. CASE pass[s].counts[WorkspaceOf[y]] >= WorkspaceCap
    <3>1. CASE WorkspaceOf[y] = w
      <4>1. pass'[s].counts[w] \in Nat /\ pass'[s].counts[w] >= count
        BY <1>3, <1>5
      <4> QED
        BY <1>4, <1>5, <2>6, <3>1, <4>1
    <3>2. CASE WorkspaceOf[y] # w
      BY <1>3, <2>2, <2>6, <3>2
    <3> QED
      BY <3>1, <3>2
  <2> QED
    BY <1>1, <1>9, <2>1, <2>4, <2>5, <2>6 DEF OrderOK
<1>10. /\ pass'[s].chosen \in SUBSET Runs /\ Found(s)' \in SUBSET Runs
       /\ Promised(s)' = pass'[s].chosen
  BY <1>1, <1>2, <1>3 DEF Promised, Found
<1> QED
  BY <1>1, <1>6, <1>8, <1>9, <1>10 DEF OrderOK

\* Every step keeps the order of the choices.
LEMMA StepsKeepOrder ==
  ASSUME IInv, [Next]_vars, NEW s \in Schedulers, PassOK(s), OrderOK(s)
  PROVE  OrderOK(s)'
<1>0. /\ IInv' /\ pass[s] \in Passes /\ pass'[s] \in Passes
  BY NextInv DEF IInv, TypeOK
<1>1. ASSUME pass'[s].waiting = pass[s].waiting
      PROVE  /\ pass'[s].waiting \subseteq Created'
             /\ \A x, r \in Runs : Waits(s, x, r)' => Waits(s, x, r)
  BY <1>1, NothingMoreWaits
<1>2. /\ pass[s].chosen \in SUBSET Runs /\ pass'[s].chosen \in SUBSET Runs
      /\ Current(s) \in SUBSET Runs
  <2>1. job[s].after = "dispatch" /\ pc[s] \in {"read", "write"} => job[s].run \in Runs
    BY DEF IInv, LocalsOK, ProcessOK, SchedulerOK, TransitionOK, TransitionPoints, Processes
  <2>2. (\/ pc[s] \in {"preempt", "urgent"}
         \/ pc[s] \in TransitionPoints /\ job[s].after = "urgent") => pass[s].urgent \in Runs
    BY DEF IInv, LocalsOK, ProcessOK, SchedulerOK, Processes
  <2> QED
    BY <1>0, <2>1, <2>2 DEF Passes, Current
<1>3. CASE Empties(s) \/ Counts(s)
  <2>1. pass'[s].chosen = {} /\ Current(s)' = {} /\ pc'[s] # "filter"
    BY <1>3 DEF Empties, Counts
  <2>2. pass'[s].waiting \subseteq Created'
    BY <1>3, RunsStay DEF OrderOK, Empties, Counts
  <2> QED
    BY <2>1, <2>2 DEF OrderOK, Found
<1>4. CASE Keeps(s)
  BY <1>1, <1>2, <1>4 DEF Keeps, OrderOK, Promised, Found
<1>5. CASE TakesUp(s)
  <2>1. PICK r \in pass[s].chosen :
          /\ IsFirst(r, pass[s].chosen)
          /\ pass'[s].chosen = pass[s].chosen \ {r}
          /\ Current(s)' = {r}
    BY <1>5 DEF TakesUp
  <2>2. Current(s) = {} /\ Found(s)' = {}
    BY <1>5 DEF TakesUp, Current, Found, TransitionPoints
  <2>3. Promised(s)' = pass[s].chosen /\ Promised(s) = pass[s].chosen
    BY <2>1, <2>2 DEF Promised
  <2>4. \A x \in Runs : ~Waits(s, x, r)
    BY <1>2, <2>1, <2>3, FirstIsMostUrgent DEF OrderOK, Waits
  <2> QED
    BY <1>1, <1>2, <1>5, <2>1, <2>2, <2>3, <2>4 DEF OrderOK, TakesUp
<1>6. CASE Finds(s)
  <2>1. pass'[s].chosen = {} /\ Current(s)' = {}
    BY <1>6 DEF Finds
  <2>2. ASSUME NEW r \in Found(s)', NEW x \in Runs, Waits(s, x, r)'
        PROVE  x \in Found(s)'
    <3>1. /\ Found(s)' = Leading(PendingRuns, pass[s].slots)
          /\ r \in Leading(PendingRuns, pass[s].slots)
      BY <1>6, <2>2 DEF Finds, Found
    <3>2. x \in PendingRuns /\ Before(x, r)
      BY <1>6, <2>2 DEF Finds, Waits, Before
    <3>3. pass[s].slots \in Nat /\ PendingRuns \in SUBSET Runs
      BY <1>0 DEF Passes, PendingRuns
    <3> QED
      BY <3>1, <3>2, <3>3, LeadingIsClosed
  <2>3. Found(s)' \in SUBSET Runs
    BY <1>0 DEF Found, Passes
  <2>4. pass'[s].waiting \subseteq Created'
    BY <1>6 DEF Finds, PendingRuns, Created
  <2> QED
    BY <2>1, <2>2, <2>3, <2>4 DEF OrderOK
<1>7. CASE Chooses(s)
  BY <1>7, ChoosingKeepsOrder
<1>8. CASE Writes(s)
  <2>1. /\ pc[s] = "write" /\ pc'[s] = "emit" /\ pass' = pass /\ job' = job
        /\ status' = [status EXCEPT ![job[s].run] = job[s].to]
    BY <1>8 DEF Writes, Write
  <2>2. Found(s)' = {} /\ Current(s)' \subseteq Current(s)
    BY <2>1 DEF Found, Current, TransitionPoints
  <2>3. ASSUME NEW x \in Current(s) \ Current(s)', NEW r \in Runs PROVE ~Waits(s, x, r)'
    <3>1. x = job[s].run /\ job[s].after = "dispatch"
      BY <2>1, <2>3 DEF Current, TransitionPoints
    <3>2. job[s].to = "scheduled"
      BY <2>1, <3>1 DEF PassOK, TransitionPoints
    <3>3. status'[x] = "scheduled"
      BY <1>2, <2>1, <3>1, <3>2 DEF IInv, TypeOK
    <3> QED
      BY <3>3 DEF Waits
  <2>4. ASSUME NEW r \in pass'[s].chosen, NEW x \in Runs, Waits(s, x, r)' PROVE x \in Promised(s)'
    <3>1. x \in pass[s].chosen \cup Current(s)
      BY <1>1, <1>2, <2>1, <2>4 DEF OrderOK, Promised
    <3> QED
      BY <1>2, <2>1, <2>3, <2>4, <3>1 DEF Promised
  <2> QED
    BY <1>1, <1>2, <2>1, <2>2, <2>4 DEF OrderOK
<1>9. CASE Aside(s)
  <2>1. /\ pass'[s] = pass[s] /\ Current(s)' = Current(s) /\ Found(s)' = Found(s)
        /\ Promised(s)' = Promised(s)
    BY <1>9 DEF Aside, Current, Found, Promised
  <2>2. Found(s) \in SUBSET Runs
    BY <1>0 DEF Found, Passes
  <2> QED
    BY <1>1, <1>2, <2>1, <2>2 DEF OrderOK
<1> QED
  BY <1>3, <1>4, <1>5, <1>6, <1>7, <1>8, <1>9, StepsOfAPass

\* In every reachable state each pass keeps its choices in order.
LEMMA PassesInvariance == Spec => []PassesOK
<1>1. Init => PassesOK
  <2> SUFFICES ASSUME Init, NEW s \in Schedulers PROVE PassOK(s) /\ OrderOK(s)
    BY DEF PassesOK
  <2>1. pc[s] = "idle" /\ pass[s] = NoPass
    BY DEF Init, Processes
  <2>2. NoPass.chosen = {} /\ NoPass.waiting = {} /\ \A w \in Workspaces : NoPass.counts[w] = 0
    BY DEF NoPass
  <2> QED
    BY <2>1, <2>2 DEF PassOK, OrderOK, Current, Found, TransitionPoints
<1>2. IInv /\ PassesOK /\ [Next]_vars => PassesOK'
  BY StepsOfAPass, StepsKeepOrder DEF PassesOK
<1> QED
  BY <1>1, <1>2, Invariance, PTL DEF Spec

\* A pass schedules a run only when no more urgent run of its workspace is left pending, of
\* those that were pending when it looked, with any number of schedulers, operators and new
\* runs in between: what waits before a run that is found is found and tried before it, and
\* is dropped only if the workspace is full, when the run is dropped too.
THEOREM UrgentGoesFirst == Spec => UrgentFirst
<1> DEFINE Ordered ==
             \A s \in Schedulers :
               (pc[s] = "write" /\ pc'[s] = "emit" /\ job[s].to = "scheduled") =>
                 \A x \in pass[s].waiting :
                   (/\ WorkspaceOf[x] = WorkspaceOf[job[s].run]
                    /\ Rank(Priority[x]) < Rank(Priority[job[s].run]))
                   => status[x] # "pending"
<1>1. IInv /\ PassesOK /\ [Next]_vars => [Ordered]_vars
  <2> SUFFICES ASSUME PassesOK, NEW s \in Schedulers, pc[s] = "write", job[s].to = "scheduled",
                      NEW x \in Runs
               PROVE  ~Waits(s, x, job[s].run)
    BY DEF Waits, PassesOK, OrderOK, Created
  <2>1. job[s].after = "dispatch"
    BY DEF PassesOK, PassOK, TransitionPoints
  <2>2. job[s].run \in Current(s)
    BY <2>1 DEF Current
  <2> QED
    BY <2>2 DEF PassesOK, OrderOK
<1> HIDE DEF Ordered
<1>2. Spec => [][Ordered]_vars
  BY <1>1, Invariance, PassesInvariance, PTL DEF Spec
<1> QED
  BY <1>2 DEF UrgentFirst, Ordered

-----------------------------------------------------------------------------
(* The caps                                                                *)

\* A set of runs has at least as many as its part.
LEMMA PartIsSmaller ==
  ASSUME NEW S \in SUBSET Runs, NEW T \in SUBSET S
  PROVE  Cardinality(T) <= Cardinality(S) /\ Cardinality(T) \in Nat /\ Cardinality(S) \in Nat
  BY RunsAssumption, FS_Subset, CountsAreNumbers

\* Two sets of runs have together at most what they count.
LEMMA UnionIsBounded ==
  ASSUME NEW S \in SUBSET Runs, NEW T \in SUBSET Runs
  PROVE  Cardinality(S \cup T) <= Cardinality(S) + Cardinality(T)
<1>1. IsFiniteSet(S) /\ IsFiniteSet(T)
  BY RunsAssumption, FS_Subset
<1>2. Cardinality(S \cup T) = Cardinality(S) + Cardinality(T) - Cardinality(S \cap T)
  BY <1>1, FS_Union
<1>3. /\ Cardinality(S) \in Nat /\ Cardinality(T) \in Nat
      /\ Cardinality(S \cap T) \in Nat /\ Cardinality(S \cup T) \in Nat
  BY CountsAreNumbers
<1> QED
  BY <1>2, <1>3

\* What CapsOK counts are sets of runs, and numbers.
LEMMA PassTypes ==
  ASSUME IInv, NEW s \in Schedulers
  PROVE  /\ Own \in SUBSET Runs /\ Promised(s) \in SUBSET Runs /\ Found(s) \in SUBSET Runs
         /\ pass[s].slots \in Nat /\ pass[s].counts \in [Workspaces -> Nat]
         /\ pass[s].chosen \in SUBSET Runs /\ pass[s].batch \in SUBSET Runs
         /\ GlobalCap \in Nat /\ WorkspaceCap \in Nat
<1>1. pass[s] \in Passes
  BY DEF IInv, TypeOK
<1>2. job[s].after = "dispatch" /\ pc[s] \in {"read", "write"} => job[s].run \in Runs
  BY DEF IInv, LocalsOK, ProcessOK, SchedulerOK, TransitionOK, TransitionPoints, Processes
<1>3. (\/ pc[s] \in {"preempt", "urgent"}
       \/ pc[s] \in TransitionPoints /\ job[s].after = "urgent") => pass[s].urgent \in Runs
  BY DEF IInv, LocalsOK, ProcessOK, SchedulerOK, Processes
<1> QED
  BY <1>1, <1>2, <1>3, BoundsAssumption
     DEF Passes, Own, ActiveRuns, Promised, Current, Found

\* An operator's update takes no run back from what it has not lifted.
LEMMA OperatorWriteLifts ==
  ASSUME IInv, NEW o \in Operators, Write(o)
  PROVE  Own' \subseteq Own
<1>1. job[o].run \in Runs
  BY DEF IInv, LocalsOK, ProcessOK, OperatorOK, TransitionOK, TransitionPoints, Processes, Write
<1>2. status \in [Runs -> Statuses \cup {"none"}]
  BY DEF IInv, TypeOK
<1> QED
  BY <1>1, <1>2 DEF Write, Own, ActiveRuns

\* A pass makes only the run active that it has taken up.
LEMMA PassWriteIsPromised ==
  ASSUME IInv, NEW s \in Schedulers, PassOK(s), Writes(s)
  PROVE  Own' \cup Promised(s)' \subseteq Own \cup Promised(s)
<1>1. job[s].run \in Runs
  BY DEF IInv, LocalsOK, ProcessOK, SchedulerOK, TransitionOK, TransitionPoints, Processes,
    Writes, Write
<1>2. status \in [Runs -> Statuses \cup {"none"}] /\ s \notin Operators
  BY ProcessesAssumption DEF IInv, TypeOK
<1>3. /\ pc[s] = "write" /\ pc'[s] = "emit" /\ pass' = pass /\ job' = job
      /\ status' = [status EXCEPT ![job[s].run] = job[s].to] /\ lifted' = lifted
  BY <1>2 DEF Writes, Write
<1>4. Promised(s)' \subseteq Promised(s)
  BY <1>3 DEF Promised, Current, TransitionPoints
<1>5. job[s].to \in Active => job[s].run \in Promised(s)
  BY <1>3 DEF PassOK, TransitionPoints, Active, Promised, Current
<1>6. Own' \subseteq Own \cup Promised(s)
  BY <1>1, <1>2, <1>3, <1>5 DEF Own, ActiveRuns
<1> QED
  BY <1>4, <1>6

\* A step after which a pass neither looks for runs nor chooses keeps the caps if it adds
\* nothing to what is active or about to be.
LEMMA FewerKeepCaps ==
  ASSUME IInv, IInv', NEW s \in Schedulers, CapsOK(s), pc'[s] \notin {"pending", "filter"},
         Own' \cup Promised(s)' \subseteq Own \cup Promised(s)
  PROVE  CapsOK(s)'
<1> DEFINE all == Own \cup Promised(s) \cup Found(s)
           mine == Own \cup Promised(s)
<1>1. all \in SUBSET Runs /\ mine \in SUBSET all
  BY PassTypes
<1>2. Found(s)' = {} /\ Own' \cup Promised(s)' \cup Found(s)' \in SUBSET mine
  BY DEF Found
<1> DEFINE next == Own' \cup Promised(s)' \cup Found(s)'
           extra == IF pc[s] = "pending" THEN pass[s].slots ELSE 0
<1>3. extra \in Nat /\ GlobalCap \in Nat
  BY PassTypes
<1>4. Cardinality(next) <= GlobalCap
  <2>1. next \in SUBSET all
    BY <1>1, <1>2
  <2>2. /\ Cardinality(next) <= Cardinality(all)
        /\ Cardinality(next) \in Nat /\ Cardinality(all) \in Nat
    BY <1>1, <2>1, PartIsSmaller
  <2>3. Cardinality(all) + extra <= GlobalCap
    BY DEF CapsOK
  <2> HIDE DEF all, next, extra
  <2> QED
    BY <1>3, <2>2, <2>3
<1>5. ASSUME NEW w \in Workspaces
      PROVE  Cardinality(In(Own' \cup Promised(s)', w)) <= WorkspaceCap
  <2>1. In(Own' \cup Promised(s)', w) \in SUBSET In(mine, w) /\ In(mine, w) \in SUBSET Runs
    BY <1>1 DEF In
  <2>2. Cardinality(In(mine, w)) <= WorkspaceCap
    BY DEF CapsOK
  <2>3. WorkspaceCap \in Nat
    BY BoundsAssumption
  <2> QED
    BY <2>1, <2>2, <2>3, PartIsSmaller
<1>6. Cardinality(next) \in Nat
  BY <1>1, <1>2, CountsAreNumbers
<1> HIDE DEF next
<1>7. Cardinality(next) + (IF pc'[s] = "pending" THEN pass'[s].slots ELSE 0) <= GlobalCap
  BY <1>4, <1>6
<1> QED
  BY <1>5, <1>7 DEF CapsOK, next

\* A pass that stands still keeps the caps if no more is active.
LEMMA StandingKeepsCaps ==
  ASSUME IInv, NEW s \in Schedulers, CapsOK(s), Aside(s), Own' \subseteq Own
  PROVE  CapsOK(s)'
<1>1. /\ Promised(s)' = Promised(s) /\ Found(s)' = Found(s)
      /\ pc'[s] = pc[s] /\ pass'[s] = pass[s]
  BY DEF Aside, Promised, Current, Found
<1>2. /\ Own \in SUBSET Runs /\ Promised(s) \in SUBSET Runs /\ Found(s) \in SUBSET Runs
      /\ pass[s].slots \in Nat /\ pass[s].counts \in [Workspaces -> Nat]
      /\ pass[s].chosen \in SUBSET Runs /\ GlobalCap \in Nat /\ WorkspaceCap \in Nat
  BY PassTypes
<1> DEFINE now == Own \cup Promised(s) \cup Found(s)
           next == Own' \cup Promised(s) \cup Found(s)
           extra == IF pc[s] = "pending" THEN pass[s].slots ELSE 0
<1>3. Cardinality(next) + extra <= GlobalCap
  <2>1. /\ Cardinality(next) <= Cardinality(now)
        /\ Cardinality(next) \in Nat /\ Cardinality(now) \in Nat
    BY <1>2, PartIsSmaller
  <2>2. Cardinality(now) + extra <= GlobalCap
    BY DEF CapsOK
  <2>3. extra \in Nat
    BY <1>2
  <2> HIDE DEF now, next, extra
  <2> QED
    BY <1>2, <2>1, <2>2, <2>3
<1>4. ASSUME NEW w \in Workspaces, NEW S \in SUBSET Runs, NEW n \in Nat,
             Cardinality(In(Own \cup S, w)) <= n
      PROVE  Cardinality(In(Own' \cup S, w)) <= n
  <2>1. In(Own' \cup S, w) \in SUBSET In(Own \cup S, w) /\ In(Own \cup S, w) \in SUBSET Runs
    BY <1>2 DEF In
  <2> QED
    BY <1>4, <2>1, PartIsSmaller
<1>5. \A w \in Workspaces : Cardinality(In(Own' \cup Promised(s), w)) <= WorkspaceCap
  BY <1>2, <1>4 DEF CapsOK
<1>6. ASSUME pc[s] = "filter", NEW w \in Workspaces, pass[s].counts[w] > 0
      PROVE  Cardinality(In(Own' \cup pass[s].chosen, w)) <= pass[s].counts[w]
  BY <1>2, <1>4, <1>6 DEF CapsOK
<1> QED
  BY <1>1, <1>3, <1>5, <1>6 DEF CapsOK

\* What is active stays within the cap of a workspace.
LEMMA OwnIsWithinCap ==
  ASSUME IInv, NEW s \in Schedulers, CapsOK(s), NEW w \in Workspaces
  PROVE  Cardinality(In(Own, w)) <= WorkspaceCap
<1> DEFINE mine == In(Own, w)
           both == In(Own \cup Promised(s), w)
<1>1. mine \in SUBSET both /\ both \in SUBSET Runs /\ WorkspaceCap \in Nat
  BY PassTypes DEF In
<1>2. Cardinality(both) <= WorkspaceCap
  BY DEF CapsOK
<1>3. /\ Cardinality(mine) <= Cardinality(both)
      /\ Cardinality(mine) \in Nat /\ Cardinality(both) \in Nat
  BY <1>1, PartIsSmaller
<1> HIDE DEF mine, both
<1>4. Cardinality(mine) <= WorkspaceCap
  BY <1>1, <1>2, <1>3
<1> QED
  BY <1>4 DEF mine

\* The count of the active runs leaves so many slots that they fill the global cap.
LEMMA CountingKeepsCaps ==
  ASSUME IInv, IInv', NEW s \in Schedulers, CapsOK(s), Counts(s)
  PROVE  CapsOK(s)'
<1>1. /\ Promised(s)' = {} /\ Found(s)' = {} /\ Own' = Own /\ pc'[s] = "pending"
      /\ Cardinality(ActiveRuns) + pass'[s].slots = GlobalCap
  BY DEF Counts, Promised, Found, Own, ActiveRuns
<1>2. Own \in SUBSET ActiveRuns /\ ActiveRuns \in SUBSET Runs
  BY DEF Own, ActiveRuns
<1>3. pass'[s].slots \in Nat
  BY DEF IInv, TypeOK, Passes
<1>4. Cardinality(Own) + pass'[s].slots <= GlobalCap
  BY <1>1, <1>2, <1>3, PartIsSmaller, BoundsAssumption
<1>5. \A w \in Workspaces : Cardinality(In(Own, w)) <= WorkspaceCap
  BY OwnIsWithinCap
<1>6. Own' \cup Promised(s)' \cup Found(s)' = Own /\ Own' \cup Promised(s)' = Own
  BY <1>1
<1> QED
  BY <1>1, <1>4, <1>5, <1>6 DEF CapsOK

\* What a pass finds fits into the slots.
LEMMA FindingKeepsCaps ==
  ASSUME IInv, IInv', NEW s \in Schedulers, CapsOK(s), Finds(s)
  PROVE  CapsOK(s)'
<1>1. /\ Promised(s)' = {} /\ Own' = Own /\ pc[s] = "pending"
      /\ pc'[s] \in {"dispatch", "filter"} /\ \A w \in Workspaces : pass'[s].counts[w] = 0
  BY DEF Finds, Promised, Own, ActiveRuns
<1> DEFINE all == Own \cup Promised(s) \cup Found(s)
<1>2. /\ Own \in SUBSET Runs /\ Promised(s) \in SUBSET Runs /\ Found(s) \in SUBSET Runs
      /\ pass[s].slots \in Nat /\ GlobalCap \in Nat /\ WorkspaceCap \in Nat
  BY PassTypes
<1>3. Found(s)' \in SUBSET Leading(PendingRuns, pass[s].slots)
  BY <1>1 DEF Found, Finds
<1>4. Leading(PendingRuns, pass[s].slots) \in SUBSET Runs
  BY DEF Leading, PendingRuns
<1>5. Cardinality(Found(s)') <= pass[s].slots
  <2>1. Cardinality(Leading(PendingRuns, pass[s].slots)) <= pass[s].slots
    BY <1>2, LeadingIsBounded DEF PendingRuns
  <2> QED
    BY <1>2, <1>3, <1>4, <2>1, PartIsSmaller
<1>6. Cardinality(Own \cup Found(s)') <= GlobalCap
  <2>1. Cardinality(Own \cup Found(s)') <= Cardinality(Own) + Cardinality(Found(s)')
    BY <1>2, <1>3, <1>4, UnionIsBounded
  <2>2. Cardinality(Own) <= Cardinality(all) /\ Cardinality(all) \in Nat
    BY <1>2, PartIsSmaller
  <2>3. Cardinality(all) + pass[s].slots <= GlobalCap
    BY <1>1 DEF CapsOK
  <2>4. /\ Cardinality(Own) \in Nat /\ Cardinality(Found(s)') \in Nat
        /\ Cardinality(Own \cup Found(s)') \in Nat
    BY <1>2, <1>3, <1>4, CountsAreNumbers
  <2> HIDE DEF all
  <2> QED
    BY <1>2, <1>5, <2>1, <2>2, <2>3, <2>4
<1>7. \A w \in Workspaces : Cardinality(In(Own, w)) <= WorkspaceCap
  BY OwnIsWithinCap
<1>8. Own' \cup Promised(s)' \cup Found(s)' = Own \cup Found(s)' /\ Own' \cup Promised(s)' = Own
  BY <1>1
<1>9. Cardinality(Own \cup Found(s)') \in Nat
  BY <1>2, <1>3, <1>4, CountsAreNumbers
<1> QED
  BY <1>1, <1>6, <1>7, <1>8, <1>9 DEF CapsOK

\* A run that fits is one more in its workspace, and the count says so.
LEMMA ChoosingKeepsCaps ==
  ASSUME IInv, IInv', NEW s \in Schedulers, PassOK(s), CapsOK(s), Chooses(s)
  PROVE  CapsOK(s)'
<1>1. /\ pc[s] = "filter" /\ Found(s) = pass[s].batch /\ Current(s) = {} /\ Current(s)' = {}
      /\ pc'[s] \in {"dispatch", "filter"} /\ Own' = Own
      /\ Promised(s) = pass[s].chosen /\ Promised(s)' = pass'[s].chosen
  BY DEF Chooses, Found, Current, Promised, TransitionPoints, Own, ActiveRuns
<1>2. /\ Own \in SUBSET Runs /\ pass[s].batch \in SUBSET Runs /\ pass[s].chosen \in SUBSET Runs
      /\ pass[s].counts \in [Workspaces -> Nat] /\ GlobalCap \in Nat /\ WorkspaceCap \in Nat
  BY PassTypes
<1>3. PICK r \in pass[s].batch :
        LET w == WorkspaceOf[r] IN
        /\ pass'[s].batch = pass[s].batch \ {r}
        /\ \A v \in Workspaces \ {w} : pass'[s].counts[v] = pass[s].counts[v]
        /\ \/ /\ CountOf(s, w) < WorkspaceCap
              /\ pass'[s].counts[w] = CountOf(s, w) + 1
              /\ pass'[s].chosen = pass[s].chosen \cup {r}
           \/ /\ CountOf(s, w) >= WorkspaceCap
              /\ pass'[s].counts[w] = CountOf(s, w)
              /\ pass'[s].chosen = pass[s].chosen
  BY DEF Chooses
<1> DEFINE w == WorkspaceOf[r]
           count == CountOf(s, w)
           here == In(Own \cup pass[s].chosen, w)
           next == In(Own \cup pass'[s].chosen, w)
<1>4. /\ w \in Workspaces /\ r \in Runs /\ pass[s].counts[w] \in Nat
      /\ Cardinality(ActiveIn(w)) \in Nat /\ ActiveIn(w) \in SUBSET Runs
  BY <1>2, CountsAreNumbers DEF ActiveIn, ActiveRuns, Workspaces
<1>5. here \in SUBSET Runs /\ Cardinality(here) \in Nat /\ IsFiniteSet(here) /\ count \in Nat
  <2>1. here \in SUBSET Runs
    BY <1>2 DEF In
  <2> QED
    BY <1>4, <2>1, CountsAreNumbers, RunsAssumption, FS_Subset DEF CountOf
<1>6. Cardinality(here) <= count
  <2>1. CASE pass[s].counts[w] = 0
    <3>1. In(pass[s].chosen, w) = {}
      BY <1>1, <1>4, <2>1 DEF PassOK
    <3>2. here \in SUBSET ActiveIn(w)
      BY <3>1 DEF In, Own, ActiveIn
    <3> QED
      BY <1>4, <2>1, <3>2, PartIsSmaller DEF CountOf
  <2>2. CASE pass[s].counts[w] # 0
    <3>1. pass[s].counts[w] > 0
      BY <1>4, <2>2
    <3> QED
      BY <1>1, <1>4, <2>2, <3>1 DEF CapsOK, CountOf
  <2> QED
    BY <2>1, <2>2
<1>7. Cardinality(Own \cup Promised(s)' \cup Found(s)') <= GlobalCap
  <2> DEFINE all == Own \cup Promised(s) \cup Found(s)
             after == Own \cup Promised(s)' \cup Found(s)'
  <2>1. after \in SUBSET all /\ all \in SUBSET Runs
    BY <1>1, <1>2, <1>3 DEF Found
  <2>2. Cardinality(after) <= Cardinality(all) /\ Cardinality(after) \in Nat
        /\ Cardinality(all) \in Nat
    BY <2>1, PartIsSmaller
  <2>3. Cardinality(all) <= GlobalCap
    <3>1. Cardinality(all) + 0 <= GlobalCap
      BY <1>1 DEF CapsOK
    <3> QED
      BY <2>2, <3>1
  <2> HIDE DEF all, after
  <2>4. Cardinality(after) <= GlobalCap
    BY <1>2, <2>2, <2>3
  <2> QED
    BY <2>4 DEF after
<1>8. Cardinality(next) <= pass'[s].counts[w] /\ Cardinality(next) <= WorkspaceCap
  <2>1. CASE /\ count < WorkspaceCap
             /\ pass'[s].counts[w] = count + 1
             /\ pass'[s].chosen = pass[s].chosen \cup {r}
    <3>1. next = here \cup {r}
      BY <1>4, <2>1 DEF In
    <3>2. Cardinality(next) <= Cardinality(here) + 1 /\ Cardinality(next) \in Nat
      <4>1. Cardinality(here \cup {r}) =
              IF r \in here THEN Cardinality(here) ELSE Cardinality(here) + 1
        BY <1>5, FS_AddElement
      <4> HIDE DEF here, next
      <4> QED
        BY <1>5, <3>1, <4>1
    <3> HIDE DEF here, next, count
    <3> QED
      BY <1>2, <1>5, <1>6, <2>1, <3>2
  <2>2. CASE /\ count >= WorkspaceCap
             /\ pass'[s].counts[w] = count
             /\ pass'[s].chosen = pass[s].chosen
    <3>1. next = here
      BY <2>2
    <3>2. Cardinality(here) <= WorkspaceCap
      BY <1>1, <1>4 DEF CapsOK
    <3> HIDE DEF here, next, count
    <3> QED
      BY <1>6, <2>2, <3>1, <3>2
  <2> QED
    BY <1>3, <2>1, <2>2
<1>9. ASSUME NEW v \in Workspaces \ {w}
      PROVE  /\ In(Own \cup pass'[s].chosen, v) = In(Own \cup pass[s].chosen, v)
             /\ pass'[s].counts[v] = pass[s].counts[v]
  BY <1>3, <1>9 DEF In
<1>10. ASSUME NEW v \in Workspaces
       PROVE  /\ Cardinality(In(Own \cup pass'[s].chosen, v)) <= WorkspaceCap
              /\ pass'[s].counts[v] > 0 =>
                   Cardinality(In(Own \cup pass'[s].chosen, v)) <= pass'[s].counts[v]
  <2>1. CASE v = w
    BY <1>8, <2>1
  <2>2. CASE v # w
    BY <1>1, <1>9, <2>2 DEF CapsOK
  <2> QED
    BY <2>1, <2>2
<1>11. Cardinality(Own \cup Promised(s)' \cup Found(s)') \in Nat
  <2>1. Own \cup Promised(s)' \cup Found(s)' \in SUBSET Runs
    BY <1>1, <1>2, <1>3 DEF Found
  <2> QED
    BY <2>1, CountsAreNumbers
<1>12. Cardinality(Own' \cup Promised(s)' \cup Found(s)')
         + (IF pc'[s] = "pending" THEN pass'[s].slots ELSE 0) <= GlobalCap
  BY <1>1, <1>7, <1>11
<1> QED
  BY <1>1, <1>10, <1>12 DEF CapsOK

\* Every step keeps the caps of the only pass.
LEMMA StepsKeepCaps ==
  ASSUME IInv, [Next]_vars, NEW s, Schedulers = {s}, PassOK(s), CapsOK(s)
  PROVE  CapsOK(s)'
<1>0. IInv' /\ s \in Schedulers
  BY NextInv
<1>1. CASE Empties(s) \/ Keeps(s) \/ TakesUp(s)
  <2>1. pc'[s] \notin {"pending", "filter"} /\ Own' = Own
    BY <1>1 DEF Empties, Keeps, TakesUp, Own, ActiveRuns
  <2>2. Promised(s)' \subseteq Promised(s)
    BY <1>1 DEF Empties, Keeps, TakesUp, Promised
  <2> QED
    BY <1>0, <2>1, <2>2, FewerKeepCaps
<1>2. CASE Counts(s)
  BY <1>0, <1>2, CountingKeepsCaps
<1>3. CASE Finds(s)
  BY <1>0, <1>3, FindingKeepsCaps
<1>4. CASE Chooses(s)
  BY <1>0, <1>4, ChoosingKeepsCaps
<1>5. CASE Writes(s)
  <2>1. pc'[s] \notin {"pending", "filter"}
    BY <1>5 DEF Writes
  <2> QED
    BY <1>0, <1>5, <2>1, PassWriteIsPromised, FewerKeepCaps
<1>6. CASE Aside(s) /\ UNCHANGED <<status, lifted>>
  <2>1. Own' \subseteq Own
    BY <1>6 DEF Own, ActiveRuns
  <2> QED
    BY <1>0, <1>6, <2>1, StandingKeepsCaps
<1>7. ASSUME Aside(s), NEW p \in Processes \ {s}, Write(p) PROVE CapsOK(s)'
  <2>1. p \in Operators
    BY DEF Processes
  <2> QED
    BY <1>0, <1>7, <2>1, OperatorWriteLifts, StandingKeepsCaps
<1>8. ASSUME Aside(s), NEW r \in Runs, Create(r) PROVE CapsOK(s)'
  <2>1. Own' \subseteq Own
    BY <1>8 DEF IInv, TypeOK, Create, Own, ActiveRuns, Active, history
  <2> QED
    BY <1>0, <1>8, <2>1, StandingKeepsCaps
<1> QED
  BY <1>0, <1>1, <1>2, <1>3, <1>4, <1>5, <1>6, <1>7, <1>8, StepsOfAPass

\* The passes of a single scheduler stay within both caps, however often operators move
\* runs between the counts and the updates: beyond the caps are only runs that an operator
\* made active.  With two schedulers this fails, because both count before either updates.
THEOREM CapsHold ==
  ASSUME NEW s, Schedulers = {s}
  PROVE  Spec => []WithinCaps
<1>1. Init => CapsOK(s)
  <2> SUFFICES ASSUME Init PROVE CapsOK(s)
    OBVIOUS
  <2>1. pc[s] = "idle" /\ pass[s] = NoPass
    BY DEF Init, Processes
  <2>2. Own = {}
    BY DEF Init, Own, ActiveRuns, Active
  <2>3. Promised(s) = {} /\ Found(s) = {}
    BY <2>1 DEF NoPass, Promised, Current, Found, TransitionPoints
  <2>4. Cardinality({}) = 0 /\ \A w : In({}, w) = {}
    BY FS_EmptySet DEF In
  <2> QED
    BY <2>1, <2>2, <2>3, <2>4, BoundsAssumption DEF CapsOK
<1>2. IInv /\ PassesOK /\ CapsOK(s) /\ [Next]_vars => CapsOK(s)'
  BY StepsKeepCaps DEF PassesOK
<1>3. IInv /\ CapsOK(s) => WithinCaps
  <2> SUFFICES ASSUME IInv, CapsOK(s) PROVE WithinCaps
    OBVIOUS
  <2> DEFINE all == Own \cup Promised(s) \cup Found(s)
             extra == IF pc[s] = "pending" THEN pass[s].slots ELSE 0
  <2>1. Cardinality(Own) <= GlobalCap
    <3>1. Own \in SUBSET all /\ all \in SUBSET Runs /\ extra \in Nat /\ GlobalCap \in Nat
      BY PassTypes
    <3>2. Cardinality(all) + extra <= GlobalCap
      BY DEF CapsOK
    <3>3. /\ Cardinality(Own) <= Cardinality(all)
          /\ Cardinality(Own) \in Nat /\ Cardinality(all) \in Nat
      BY <3>1, PartIsSmaller
    <3> HIDE DEF all, extra
    <3> QED
      BY <3>1, <3>2, <3>3
  <2>2. \A w \in Workspaces : Own \cap ActiveIn(w) = In(Own, w)
    BY DEF Own, ActiveIn, In
  <2> QED
    BY <2>1, <2>2, OwnIsWithinCap DEF WithinCaps, Own
<1> QED
  BY <1>1, <1>2, <1>3, Invariance, PassesInvariance, PTL DEF Spec
=============================================================================
