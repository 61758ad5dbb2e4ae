-------------------------- MODULE GatewayExecution --------------------------
(***************************************************************************)
(* POST /api/gateway/execute, await by await: authentication, the          *)
(* idempotency cache, scope, simulation, secure execution and cost         *)
(* attribution; and the bypass report, which quarantines the run whose     *)
(* capability is in use.                                                   *)
(*                                                                         *)
(* The callers are the threads of one agent; they share one capability of  *)
(* one run.  The externals are threads that share one API key and have no  *)
(* run.  An action stands for the pair of action class and parameters the  *)
(* idempotency key is made of.  A response is "done" (200), "failed" (502) *)
(* or "refused" (403 and 503 of scope and simulation); the other answers   *)
(* are not cached and leave no trace. The races of the run's own           *)
(* transitions are in RunOrchestrator; here each is one step.              *)
(*                                                                         *)
(* Definitions that no action uses are the mistakes the properties are     *)
(* tested against.                                                         *)
(***************************************************************************)
EXTENDS Naturals, FiniteSets

CONSTANTS
  Callers,
  Externals,
  Enforcers,    \* network enforcers and operators that quarantine the run
  Actions,
  MaxUses,      \* Capability.maxUses
  MaxRequests,  \* bound: calls of the endpoints
  MaxFaults     \* bound: failed statements

ASSUME GatewayAssumption ==
  /\ IsFiniteSet(Callers) /\ Callers # {}
  /\ Callers \cap Externals = {} /\ (Callers \cup Externals) \cap Enforcers = {}
  /\ {MaxUses, MaxRequests, MaxFaults} \subseteq Nat

Nothing == "nothing"
Responses == {"done", "failed", "refused"}

Agents == Callers \cup Externals
Processes == Agents \cup Enforcers

\* Whom the idempotency key names: the capability, or the API key.
Owner(p) == IF p \in Callers THEN "capability" ELSE "api_key"
Entries == {"capability", "api_key"} \X Actions

VARIABLES
  used,       \* Capability.usedCount
  lapsed,     \* the capability is revoked, or past its expiry
  status,     \* Run.status
  registered, \* the Agent row of the API key exists
  cache,      \* IdempotencyKey of an entry, Nothing once it has expired
  rows,       \* RunCost rows of the run
  spent,      \* Run.spentCents, in calls
  pc,
  action,     \* what a request is about
  response,   \* what it will answer
  requests,
  faults,
  effects,    \* history: executions that reached the outside
  late,       \* history: those of them after a lapse or a quarantine
  repeats     \* history: those of an entry since its success is in the cache

capability == <<used, lapsed>>
costs == <<rows, spent>>
history == <<effects, late, repeats>>
bounds == <<requests, faults>>
others == <<status, registered>>
vars == <<capability, others, cache, costs, pc, action, response, bounds, history>>

Init ==
  /\ used = 0
  /\ lapsed = FALSE
  /\ status \in {"scheduled", "running"}
  /\ registered = FALSE
  /\ cache = [e \in Entries |-> Nothing]
  /\ rows = 0
  /\ spent = 0
  /\ pc = [p \in Processes |-> "idle"]
  /\ action = [p \in Processes |-> Nothing]
  /\ response = [p \in Processes |-> Nothing]
  /\ requests = 0
  /\ faults = 0
  /\ effects = 0
  /\ late = 0
  /\ repeats = [e \in Entries |-> 0]

Entry(p) == <<Owner(p), action[p]>>

GoTo(p, point) == pc' = [pc EXCEPT ![p] = point]

\* The request is answered and its locals are gone.
Finish(p) ==
  /\ GoTo(p, "idle")
  /\ action' = [action EXCEPT ![p] = Nothing]
  /\ response' = [response EXCEPT ![p] = Nothing]

\* An await whose outcome is a point of the handler.
Proceed(p, point) == GoTo(p, point) /\ UNCHANGED <<action, response>>

\* An await that settles the response.
Settle(p, point, answer) ==
  /\ GoTo(p, point)
  /\ response' = [response EXCEPT ![p] = answer]
  /\ UNCHANGED action

\* What a step that only moves its request leaves alone.
Unmoved == UNCHANGED <<capability, others, cache, costs, bounds, history>>

Starts(p, point) ==
  /\ pc[p] = "idle"
  /\ requests < MaxRequests
  /\ requests' = requests + 1
  /\ GoTo(p, point)

-----------------------------------------------------------------------------
(* resolveGatewayAuth, with validateCapability; a valid API key is read and*)
(* nothing depends on it afterwards                                        *)

Call(p, a) ==
  /\ Starts(p, IF p \in Callers THEN "validate" ELSE "lookup")
  /\ action' = [action EXCEPT ![p] = a]
  /\ UNCHANGED <<capability, others, cache, costs, response, faults, history>>

RevocationIgnored == used < MaxUses

OneMore == ~lapsed /\ used <= MaxUses

Valid == ~lapsed /\ used < MaxUses

Validate(p) ==
  /\ pc[p] = "validate"
  /\ IF Valid THEN Proceed(p, "run") ELSE Finish(p)
  /\ Unmoved

CheckRun(p) ==
  /\ pc[p] = "run"
  /\ IF status \in {"running", "scheduled"} THEN Proceed(p, "use") ELSE Finish(p)
  /\ Unmoved

Incremented == used + 1

Use(p) ==
  /\ pc[p] = "use"
  /\ used' = Incremented
  /\ Proceed(p, "lookup")
  /\ UNCHANGED <<lapsed, others, cache, costs, bounds, history>>

-----------------------------------------------------------------------------
(* The handler                                                             *)

NeverCached(p) == FALSE

Cached(p) == cache[Entry(p)] # Nothing

\* A cached response is replayed.
LookUp(p) ==
  /\ pc[p] = "lookup"
  /\ IF Cached(p) THEN Finish(p) ELSE Proceed(p, "connect")
  /\ Unmoved

\* connection.findFirst: without an active connection the answer is 404; an
\* action that needs a workspace is none of an API key's.
Connect(p) ==
  /\ pc[p] = "connect"
  /\ \/ Proceed(p, IF p \in Callers THEN "scope" ELSE "agent")
     \/ Finish(p)
  /\ Unmoved

\* An API key acts as an agent of its own.  Of two requests that both miss it
\* the second one's create throws.
FindAgent(p) ==
  /\ pc[p] = "agent"
  /\ Proceed(p, IF registered THEN "policy" ELSE "register")
  /\ Unmoved

Register(p) ==
  /\ pc[p] = "register"
  /\ registered' = TRUE
  /\ IF registered THEN Finish(p) ELSE Proceed(p, "policy")
  /\ UNCHANGED <<capability, status, cache, costs, bounds, history>>

\* The tool call is recorded and the policy evaluated; a denial is not cached,
\* and a decision that asks for an approval passes.
JudgeExternal(p) ==
  /\ pc[p] = "policy"
  /\ Proceed(p, "scope") \/ Finish(p)
  /\ Unmoved

\* A refusal by the connection's boundaries is cached, one by the repository the
\* capability is scoped to is not.
CheckScope(p) ==
  /\ pc[p] = "scope"
  /\ \/ Proceed(p, "simulate")
     \/ Settle(p, "cache", "refused")
     \/ p \in Callers /\ Finish(p)
  /\ Unmoved

\* A simulation that fails, and one that throws, as it always does for an API
\* key: its events belong to no run, which the foreign key refuses.
Simulate(p) ==
  /\ pc[p] = "simulate"
  /\ \/ p \in Callers /\ Proceed(p, "prepare")
     \/ Settle(p, "cache", "refused")
  /\ Unmoved

\* executeSecureAction: credentials, command and network, and the event that
\* announces the execution.
Prepare(p) ==
  /\ pc[p] = "prepare"
  /\ Proceed(p, "execute") \/ Settle(p, "cost", "failed")
  /\ Unmoved

\* The container reaches the outside; it may do so and still exit with an error.
Reach(p) ==
  /\ effects' = effects + 1
  /\ late' = IF lapsed \/ status = "quarantined" THEN late + 1 ELSE late
  /\ repeats' = IF cache[Entry(p)] = "done"
                THEN [repeats EXCEPT ![Entry(p)] = @ + 1]
                ELSE repeats

Execute(p) ==
  /\ pc[p] = "execute"
  /\ \/ Settle(p, "cost", "done") /\ Reach(p)
     \/ Settle(p, "cost", "failed") /\ Reach(p)
     \/ Settle(p, "cost", "failed") /\ UNCHANGED history
  /\ UNCHANGED <<capability, others, cache, costs, bounds>>

\* recordCost: the row, then the running total.
ChargeRow(p) ==
  /\ pc[p] = "cost"
  /\ rows' = rows + 1
  /\ Proceed(p, "spend")
  /\ UNCHANGED <<capability, others, cache, spent, bounds, history>>

LastCallOnly == 1

Total == spent + 1

ChargeTotal(p) ==
  /\ pc[p] = "spend"
  /\ spent' = Total
  /\ Proceed(p, "cache")
  /\ UNCHANGED <<capability, others, cache, rows, bounds, history>>

\* cacheIdempotencyResult, an upsert whatever the row holds, and the answer.  A
\* row that gets its success now starts counting repetitions.
Cache(p) ==
  /\ pc[p] = "cache"
  /\ cache' = [cache EXCEPT ![Entry(p)] = response[p]]
  /\ repeats' = IF cache[Entry(p)] = "done" /\ response[p] = "done"
                THEN repeats
                ELSE [repeats EXCEPT ![Entry(p)] = 0]
  /\ Finish(p)
  /\ UNCHANGED <<capability, others, costs, bounds, effects, late>>

\* Its catch: the request answers as if the response had been cached.
CacheFails(p) ==
  /\ pc[p] = "cache"
  /\ faults < MaxFaults
  /\ faults' = faults + 1
  /\ Finish(p)
  /\ UNCHANGED <<capability, others, cache, costs, requests, history>>

\* A statement fails, or the process dies: no answer is cached.
Fault(p) ==
  /\ pc[p] # "idle"
  /\ faults < MaxFaults
  /\ faults' = faults + 1
  /\ Finish(p)
  /\ UNCHANGED <<capability, others, cache, costs, requests, history>>

-----------------------------------------------------------------------------
(* POST /api/gateway/bypass-report and POST /api/runs/:id/quarantine       *)

Report(p) ==
  /\ Starts(p, "quarantine")
  /\ UNCHANGED <<capability, others, cache, costs, action, response, faults, history>>

\* quarantineRun: the transition, which throws for the other statuses.  The
\* report's handler swallows that: it answers that the attempt is logged.
Quarantine(p) ==
  /\ pc[p] = "quarantine"
  /\ IF status \in {"running", "paused"}
     THEN status' = "quarantined" /\ Proceed(p, "revoke")
     ELSE Finish(p) /\ UNCHANGED status
  /\ UNCHANGED <<capability, registered, cache, costs, bounds, history>>

Revoke(p) ==
  /\ pc[p] = "revoke"
  /\ lapsed' = TRUE
  /\ Finish(p)
  /\ UNCHANGED <<used, others, cache, costs, bounds, history>>

-----------------------------------------------------------------------------
(* Around it: the run's own transitions, and time                          *)

Move(from, to) ==
  /\ status = from
  /\ status' = to
  /\ UNCHANGED <<capability, registered, cache, costs, pc, action, response, bounds, history>>

Begin == Move("scheduled", "running")
Pause == Move("running", "paused")
Resume == Move("paused", "running")

\* The capability's expiry.
Lapse ==
  /\ ~lapsed
  /\ lapsed' = TRUE
  /\ UNCHANGED <<used, others, cache, costs, pc, action, response, bounds, history>>

\* 24 hours after a success, 60 seconds after an error.
Expire(e) ==
  /\ cache[e] # Nothing
  /\ cache' = [cache EXCEPT ![e] = Nothing]
  /\ repeats' = [repeats EXCEPT ![e] = 0]
  /\ UNCHANGED <<capability, others, costs, pc, action, response, bounds, effects,
                 late>>

Step(p) ==
  \/ Validate(p) \/ CheckRun(p) \/ Use(p) \/ LookUp(p) \/ Connect(p)
  \/ FindAgent(p) \/ Register(p) \/ JudgeExternal(p)
  \/ CheckScope(p) \/ Simulate(p) \/ Prepare(p) \/ Execute(p)
  \/ ChargeRow(p) \/ ChargeTotal(p) \/ Cache(p) \/ CacheFails(p)
  \/ Quarantine(p) \/ Revoke(p) \/ Fault(p)

Next ==
  \/ \E p \in Agents, a \in Actions : Call(p, a)
  \/ \E p \in Enforcers : Report(p)
  \/ \E p \in Processes : Step(p)
  \/ Begin \/ Pause \/ Resume \/ Lapse
  \/ \E e \in Entries : Expire(e)

Spec == Init /\ [][Next]_vars

-----------------------------------------------------------------------------
(* Properties                                                              *)

At(points) == Cardinality({p \in Callers : pc[p] \in points})

\* The uses of a capability exceed its maximum by at most the requests that
\* validated it at the same time.
UsesBounded == used <= MaxUses + Cardinality(Callers) - 1

\* The running total of a run is the sum of its cost rows, but for the requests
\* between the two statements and those that failed there; and what reached the
\* outside has a cost row, with the same exceptions.
TotalsAgree ==
  /\ spent <= rows
  /\ rows <= spent + At({"spend"}) + faults
  /\ effects <= rows + At({"cost"}) + faults

\* Once a capability has lapsed, or its run is in quarantine, only requests that
\* were already past the validation reach the outside: at most one of each
\* caller.
RevocationDrains == late <= Cardinality(Callers)

\* While an action's success is in the cache, only requests that had looked it up
\* before repeat the action.
RepeatsNeedOverlap == \A e \in Entries : repeats[e] < Cardinality(Callers)
=============================================================================
