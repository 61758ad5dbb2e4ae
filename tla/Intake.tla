------------------------------- MODULE Intake -------------------------------
(***************************************************************************)
(* From a GitHub webhook to an operation, its agent and its first run:     *)
(* replay protection, deduplication, the agent router, and the operator    *)
(* who assigns an agent or approves the router's choice at the same time.  *)
(*                                                                         *)
(* A delivery has an id, is sent to the endpoint of a connection or to the *)
(* old global one, and is about a commit, which stands for all that        *)
(* deduplication compares.  GitHub, or its user, may send a delivery again *)
(* at any time.  The sensors' rules, the language model and the keyword    *)
(* scores choose freely. A disabled sensor and a wrong signature answer    *)
(* before anything is written.                                             *)
(*                                                                         *)
(* Definitions that no action uses are the mistakes the properties are     *)
(* tested against.                                                         *)
(***************************************************************************)
EXTENDS Naturals, FiniteSets

CONSTANTS
  Deliveries,
  Commits,
  Operations,        \* bound: operations that are created
  Agents,            \* instances
  Handlers,          \* bound: webhooks that are handled at once
  MaxIntakeRequests, \* bound: requests of operators
  MaxIntakeFaults    \* bound: failed statements and ends of the Gate

ASSUME BoundsAssumption == {MaxIntakeRequests, MaxIntakeFaults} \subseteq Nat

Nothing == "nothing"
ASSUME NothingAssumption == Nothing \notin Deliveries \cup Commits \cup Operations \cup Agents

\* What the router may answer.
Plans ==
  [agent : Agents, status : {"auto_routed", "needs_approval", "pending"}]
    \cup {[agent |-> Nothing, status |-> "pending"]}

Unrouted == [agent |-> Nothing, status |-> "pending"]

VARIABLES
  subject,   \* the commit of a delivery
  endpoint,
  recorded,  \* WebhookDelivery rows
  commit,    \* Operation: its commit, Nothing before it is created
  inWindow,  \* operations whose createdAt is within the deduplication window
  agent,     \* Operation.instanceId
  routing,   \* Operation.routingStatus
  runsOf,    \* runs that an intake created for an operation
  approving, \* approve-routing has read the operation
  at,        \* where a handler stands
  delivery,  \* what it handles
  made,      \* the operation it has created
  plan,      \* the router's answer
  choice,    \* the agents the router chose from, {} when there was no choice
  intakeRequests,
  intakeFaults,
  fate,      \* history: what became of a delivery besides an operation
  raced,     \* history: commits two handlers deduplicated at once
  crossed    \* history: operations the router wrote while their routing was being approved

hooks == <<subject, endpoint>>
operations == <<commit, inWindow>>
assignment == <<agent, routing, approving>>
handler == <<at, delivery, made, plan, choice>>
bounds == <<intakeRequests, intakeFaults>>
intakeVars ==
  <<hooks, recorded, operations, assignment, runsOf, handler, bounds, fate, raced, crossed>>

IntakeInit ==
  /\ subject \in [Deliveries -> Commits]
  /\ endpoint \in [Deliveries -> {"connection", "global"}]
  /\ recorded = {}
  /\ commit = [o \in Operations |-> Nothing]
  /\ inWindow = {}
  /\ agent = [o \in Operations |-> Nothing]
  /\ routing = [o \in Operations |-> "pending"]
  /\ runsOf = [o \in Operations |-> 0]
  /\ approving = {}
  /\ at = [h \in Handlers |-> "idle"]
  /\ delivery = [h \in Handlers |-> Nothing]
  /\ made = [h \in Handlers |-> Nothing]
  /\ plan = [h \in Handlers |-> Unrouted]
  /\ choice = [h \in Handlers |-> {}]
  /\ intakeRequests = 0
  /\ intakeFaults = 0
  /\ fate = [d \in Deliveries |-> "none"]
  /\ raced = {}
  /\ crossed = {}

IntakeFault == intakeFaults < MaxIntakeFaults /\ intakeFaults' = intakeFaults + 1

Proceed(h, point) ==
  at' = [at EXCEPT ![h] = point] /\ UNCHANGED <<delivery, made, plan, choice>>

Leave(h) ==
  /\ at' = [at EXCEPT ![h] = "idle"]
  /\ delivery' = [delivery EXCEPT ![h] = Nothing]
  /\ made' = [made EXCEPT ![h] = Nothing]
  /\ plan' = [plan EXCEPT ![h] = Unrouted]
  /\ choice' = [choice EXCEPT ![h] = {}]

Present == {o \in Operations : commit[o] # Nothing}

-----------------------------------------------------------------------------
(* The webhook up to the operation                                         *)

Deliver(h, d) ==
  /\ at[h] = "idle"
  /\ at' = [at EXCEPT ![h] = "record"]
  /\ delivery' = [delivery EXCEPT ![h] = d]
  /\ UNCHANGED <<hooks, recorded, operations, assignment, runsOf, made, plan, choice,
                 bounds, fate, raced, crossed>>

Kept(d) == recorded \cup {d}

\* The row is inserted, or it is there and the delivery is a replay.  What follows up to the
\* deduplication is synchronous: rules, sensors and escalation.
Record(h) ==
  LET d == delivery[h] IN
  /\ at[h] = "record"
  /\ recorded' = Kept(d)
  /\ \/ d \in recorded /\ Leave(h) /\ UNCHANGED fate
     \/ d \notin recorded /\ Proceed(h, "dedupe") /\ UNCHANGED fate
     \/ d \notin recorded /\ Leave(h) /\ fate' = [fate EXCEPT ![d] = "ignored"]
  /\ UNCHANGED <<hooks, operations, assignment, runsOf, bounds, raced, crossed>>

SameRepository(k) == \E o \in Present : o \in inWindow

AnyDelivery(k) == FALSE

IsDuplicate(k) == \E o \in Present : commit[o] = k /\ o \in inWindow

Dedupe(h) ==
  LET k == subject[delivery[h]] IN
  /\ at[h] = "dedupe"
  /\ IF IsDuplicate(k) THEN Leave(h) ELSE Proceed(h, "create")
  /\ raced' = IF \E g \in Handlers : at[g] = "create" /\ subject[delivery[g]] = k
              THEN raced \cup {k} ELSE raced
  /\ UNCHANGED <<hooks, recorded, operations, assignment, runsOf, bounds, fate, crossed>>

Create(h) ==
  /\ at[h] = "create"
  /\ \E o \in Operations \ Present :
       /\ commit' = [commit EXCEPT ![o] = subject[delivery[h]]]
       /\ inWindow' = inWindow \cup {o}
       /\ made' = [made EXCEPT ![h] = o]
  /\ at' = [at EXCEPT ![h] = "announce"]
  /\ UNCHANGED <<hooks, recorded, assignment, runsOf, delivery, plan, choice, bounds, fate,
                 raced, crossed>>

\* operation.created is stored and the operation read back.
Announce(h) ==
  /\ at[h] = "announce"
  /\ Proceed(h, IF endpoint[delivery[h]] = "global" THEN "run" ELSE "survey")
  /\ UNCHANGED <<hooks, recorded, operations, assignment, runsOf, bounds, fate, raced,
                 crossed>>

\* A statement fails and the webhook is answered with 500, or the Gate ends.  The delivery
\* stays recorded.
Abort(h) ==
  /\ at[h] # "idle"
  /\ IntakeFault
  /\ fate' = [fate EXCEPT ![delivery[h]] = IF delivery[h] \in recorded THEN "failed" ELSE @]
  /\ Leave(h)
  /\ UNCHANGED <<hooks, recorded, operations, assignment, runsOf, intakeRequests, raced, crossed>>

-----------------------------------------------------------------------------
(* routeOperation and applyRouting                                         *)

\* Of the running instances: none, the only one, or what the language model and else the
\* keywords say.
Choices(running) ==
  CASE running = {} -> {Unrouted}
    [] Cardinality(running) = 1 -> [agent : running, status : {"needs_approval"}]
    [] OTHER -> {p \in Plans : p.agent \in running \cup {Nothing}}

\* What fallbackRouting says of the agents of a survey: none of them below a score of 0.3.
Fallbacks(agents) ==
  {p \in Plans : p.agent # Nothing => p.agent \in agents /\ p.status # "pending"}

\* Any instances may be running when the router looks, and others when it writes.
Survey(h) ==
  /\ at[h] = "survey"
  /\ \E running \in SUBSET Agents :
       /\ \E p \in Choices(running) : plan' = [plan EXCEPT ![h] = p]
       /\ choice' = [choice EXCEPT ![h] = IF Cardinality(running) > 1 THEN running ELSE {}]
  /\ at' = [at EXCEPT ![h] = "apply"]
  /\ UNCHANGED <<hooks, recorded, operations, assignment, runsOf, delivery, made,
                 bounds, fate, raced, crossed>>

Stored(status) == IF status = "needs_approval" THEN "pending" ELSE status

\* The operation takes the plan, whatever an operator has assigned since.
Apply(h) ==
  LET o == made[h] IN
  /\ at[h] = "apply"
  /\ agent' = [agent EXCEPT ![o] = plan[h].agent]
  /\ routing' = [routing EXCEPT ![o] = Stored(plan[h].status)]
  /\ crossed' = IF o \in approving THEN crossed \cup {o} ELSE crossed
  /\ Proceed(h, "publish")
  /\ UNCHANGED <<hooks, recorded, operations, approving, runsOf, bounds, fate, raced>>

\* operation.routed is stored; a run follows a confident choice unless the connection's
\* configuration says otherwise.
Publish(h) ==
  /\ at[h] = "publish"
  /\ \/ plan[h].status = "auto_routed" /\ Proceed(h, "run")
     \/ Leave(h)
  /\ UNCHANGED <<hooks, recorded, operations, assignment, runsOf, bounds, fate, raced, crossed>>

\* The update or the event fails: with a choice of agents the fallback answers and is applied
\* in its turn (and a failure of that ends the routing); else the webhook ends without a run.
Falter(h) ==
  /\ at[h] \in {"apply", "publish"}
  /\ IntakeFault
  /\ \/ /\ choice[h] # {}
        /\ \E p \in Fallbacks(choice[h]) : plan' = [plan EXCEPT ![h] = p]
        /\ choice' = [choice EXCEPT ![h] = {}]
        /\ at' = [at EXCEPT ![h] = "apply"]
        /\ UNCHANGED <<delivery, made>>
     \/ choice[h] = {} /\ Leave(h)
  /\ UNCHANGED <<hooks, recorded, operations, assignment, runsOf, intakeRequests, fate, raced,
                 crossed>>

CreateRun(h) ==
  /\ at[h] = "run"
  /\ runsOf' = [runsOf EXCEPT ![made[h]] = @ + 1]
  /\ Leave(h)
  /\ UNCHANGED <<hooks, recorded, operations, assignment, bounds, fate, raced, crossed>>

-----------------------------------------------------------------------------
(* The operator                                                            *)

\* POST /api/operations/:id/route
Route(o, a) ==
  /\ o \in Present
  /\ intakeRequests < MaxIntakeRequests
  /\ intakeRequests' = intakeRequests + 1
  /\ agent' = [agent EXCEPT ![o] = a]
  /\ routing' = [routing EXCEPT ![o] = "manual"]
  /\ UNCHANGED <<hooks, recorded, operations, approving, runsOf, handler, intakeFaults, fate,
                 raced, crossed>>

Anything(o) == TRUE

Suggested(o) == agent[o] # Nothing

\* POST /api/operations/:id/approve-routing: the check, and later the update.
ApproveRouting(o) ==
  /\ o \in Present \ approving
  /\ intakeRequests < MaxIntakeRequests
  /\ intakeRequests' = intakeRequests + 1
  /\ Suggested(o)
  /\ approving' = approving \cup {o}
  /\ UNCHANGED <<hooks, recorded, operations, agent, routing, runsOf, handler, intakeFaults, fate,
                 raced, crossed>>

Approved(o) ==
  /\ o \in approving
  /\ approving' = approving \ {o}
  /\ routing' = [routing EXCEPT ![o] = "approved"]
  /\ UNCHANGED <<hooks, recorded, operations, agent, runsOf, handler, bounds, fate, raced,
                 crossed>>

\* Five minutes have passed since the operation was created.
Elapse(o) ==
  /\ o \in inWindow
  /\ inWindow' = inWindow \ {o}
  /\ UNCHANGED <<hooks, recorded, commit, assignment, runsOf, handler, bounds, fate,
                 raced, crossed>>

IntakeNext ==
  \/ \E h \in Handlers, d \in Deliveries : Deliver(h, d)
  \/ \E h \in Handlers :
       \/ Record(h) \/ Dedupe(h) \/ Create(h) \/ Announce(h) \/ Abort(h)
       \/ Survey(h) \/ Apply(h) \/ Publish(h) \/ Falter(h) \/ CreateRun(h)
  \/ \E o \in Operations : ApproveRouting(o) \/ Approved(o) \/ Elapse(o)
  \/ \E o \in Operations, a \in Agents : Route(o, a)

IntakeSpec == IntakeInit /\ [][IntakeNext]_intakeVars

-----------------------------------------------------------------------------
(* Properties                                                              *)

\* Every variable has its type, and a handler past the creation has its operation.
TypeOK ==
  /\ subject \in [Deliveries -> Commits]
  /\ endpoint \in [Deliveries -> {"connection", "global"}]
  /\ recorded \subseteq Deliveries
  /\ commit \in [Operations -> Commits \cup {Nothing}]
  /\ inWindow \subseteq Present /\ approving \subseteq Present /\ crossed \subseteq Present
  /\ agent \in [Operations -> Agents \cup {Nothing}]
  /\ routing \in [Operations -> {"pending", "auto_routed", "manual", "approved"}]
  /\ runsOf \in [Operations -> 0..1]
  /\ at \in [Handlers -> {"idle", "record", "dedupe", "create", "announce", "survey", "apply",
                            "publish", "run"}]
  /\ delivery \in [Handlers -> Deliveries \cup {Nothing}]
  /\ made \in [Handlers -> Operations \cup {Nothing}]
  /\ plan \in [Handlers -> Plans]
  /\ choice \in [Handlers -> SUBSET Agents]
  /\ intakeRequests \in 0..MaxIntakeRequests /\ intakeFaults \in 0..MaxIntakeFaults
  /\ fate \in [Deliveries -> {"none", "ignored", "failed"}]
  /\ raced \subseteq Commits

\* Two operations for one commit within the window of the deduplication come from two
\* deliveries of which each looked before the other had created its operation.
DuplicatesNeedOverlap ==
  \A o, p \in inWindow : commit[o] = commit[p] => o = p \/ commit[o] \in raced

\* A delivery that is recorded, and will therefore be refused when it is sent again, is being
\* handled, or has led to an operation for its commit, unless the rules ignored it or its
\* handling failed: the last is the event that is lost.
RecordedIsHandled ==
  \A d \in recorded :
    \/ \E h \in Handlers : delivery[h] = d
    \/ \E o \in Present : commit[o] = subject[d]
    \/ fate[d] # "none"

\* An operation whose routing is approved has an agent, unless the router wrote the operation
\* between the check and the update of approve-routing.
ApprovedHasAgent ==
  \A o \in Operations : routing[o] = "approved" /\ agent[o] = Nothing => o \in crossed
=============================================================================
