# WooblayAI: specifications

TLA+ models of the parts of WooblayAI that decide, act and keep state, the TLC
configurations that check them on small instances, and TLAPS proofs of what holds for every
size. Paths are relative to the repository's root; file names without a directory are under
`apps/gate/src/`.

## 1. The system

WooblayAI puts a *Gate* between AI agents and what they do. An agent's tool host asks the
Gate before each call; policy allows it, denies it, or holds it for a reviewer; each decision
becomes a signed receipt in a hash chain. A second path runs *operations*: a webhook or an
operator creates one, a router assigns an agent, runs attempt it, an orchestrator schedules the
runs, and a run acts on external services only through a gateway that takes capability tokens.
Beside them the Gate makes containers: instances of agents with an MCP proxy, and workspaces of
runs, which get secrets from a vault. The Gate is one Node process over PostgreSQL (Prisma):
handlers interleave at each `await`, and only a statement, or an explicit transaction at its
isolation level, is atomic.

| Component | State | Operations | Model |
|---|---|---|---|
| Tool-call decision, `routes/tool.ts` | Agent, ToolCall rows | `POST /api/tool/execute` | ApprovalGate |
| Approvals, `services/approval.ts`, `routes/approvals.ts` | Approval.status | create, approve, deny | ApprovalGate |
| Receipt ledger, `engine/receipt.ts` | Receipt rows, a hash chain | `createReceipt`, a serializable transaction | ApprovalGate, DecisionLedger |
| Execution reports; tool host, `apps/toolhost` | Execution rows; one client per call | report; ask, poll, run | ApprovalGate |
| Policy engine, `engine/policy.ts`, `routes/policies.ts` | PolicyRule rows | evaluate; create, update, delete, presets | PolicyTable |
| OpenClaw adapter, `packages/adapters/openclaw` | a hook's map of calls | tool:start, gated tools, report | OpenClaw |
| MCP proxy, `apps/mcp-proxy` | registry, clients, deferred calls, all in memory | sessions, calls, `check_approval`, reload | McpProxy |
| Sensors and router, `engine/sensor.ts`, `engine/router.ts`, `routes/sensors.ts`, `routes/operations.ts` | WebhookDelivery, Operation rows | two webhooks, dedupe, route, assign, approve | Intake |
| Run orchestrator, `engine/orchestrator.ts`, `routes/runs.ts` | Run.status, timeoutAt | create, transition, pause, resume, kill, quarantine, schedule | RunOrchestrator, RunRecords |
| Run timeline, `engine/run-events.ts`; case files, `routes/case-file.ts` | RunEvent rows | `emitRunEvent`; export and verify | RunRecords |
| Gateway, `routes/gateway.ts`; capabilities, `engine/capability.ts` | IdempotencyKey rows; usedCount, revokedAt | execute, bypass report; validate | GatewayExecution |
| Secure execution, simulation; cost attribution | containers; RunCost rows, Run.spentCents | `executeSecureAction`, `simulateAction`, `recordCost` | GatewayExecution |
| Proposals, evidence, verification, `routes/proposals.ts`, `engine/evidence.ts`, `engine/verify.ts` | Proposal, EvidenceBundle, Verification rows | propose, decide, replay, rerun, read back | Proposals |
| Instances, `routes/instances.ts` | Instance rows, a directory, two containers, a timer | create, start, restart, stop, delete, update, MCP servers | Instances |
| Connections' secrets, `routes/connections.ts`, `engine/secure-exec.ts` | Connection.secrets, status | replace, add, remove, revoke, delete, resolve | Vault |
| Workspace runner, `services/workspace-runner.ts` | Workspace rows, containers, a Docker network | create, stop | Workspaces |
| Event bus, `events/bus.ts` | EventLog rows, live listeners | `persistEvent`, SSE | ApprovalGate, persistence only |
| Gate client, crypto, authentication, users, API keys and coupons, mission control, receipt sync, UI, landing page, CLI | | | not modelled (section 8) |

How they interact: the tool host, the adapter and the proxy talk to the Gate by HTTP request and
poll; approvals, ledger and event log share tables; the orchestrator and the gateway meet in
Run.status and Capability.revokedAt, which one writes and the other reads; a webhook ends in
`createRun`; an edit of MCP servers reaches the proxy as a rewritten file and a recreated
container; a workspace takes the secrets of whatever connections are active at that moment.

What is hard in it: the Gate reads a row, awaits, and writes without a condition in most handlers,
so overlapping requests overwrite each other; statements of one handler fail one by one with
effects of the earlier ones in place; a serialization abort is not retried; docker commands and
side effects happen between two statements; jobs, timers and deferred calls live in memory and
nothing recovers them after a crash; deadlines belong to clients. `PROJECT.json` lists these
hazards line by line, with the properties that are about each.

What makes the components correct:

* *Decisions*: no call is performed without permission; the ledger is one chain with at most one
  receipt a call; whoever was told a decision was told what is recorded; a decision was in force
  at some moment of its evaluation.
* *Deferred calls*: performed when approved, once, with the tool they were made for.
* *Intake*: an event is not counted twice and not lost; a routing that is approved has an agent.
* *Orchestrator and records*: caps, priority order among the runs a pass has read, the transition
  table, a stop stops; attempts and timelines are numbered.
* *Gateway*: a bounded use per capability, repetition only where the cache could not help, money
  accounted for, revocation that takes effect.
* *Proposals*: the announced verdict is the stored one, and nothing stays pending.
* *Instances, workspaces, secrets*: the row says what the containers do, somebody owns each
  transient state unless the Gate ended or a write failed, each container can still be stopped, a
  secret goes only where its mode says.

## 2. Modules

| Module | Content |
|---|---|
| `DecisionLedger` | abstract: what the Gate promises about a call, in atomic steps |
| `ApprovalGate` | the decision protocol, await by await; refines `DecisionLedger` |
| `PolicyTable` | policy rules, their edits, their evaluation in two reads |
| `OpenClaw` | a tool call of an OpenClaw agent; extends `PolicyTable` |
| `McpProxy` | sessions, deferred calls and reloads of the MCP proxy |
| `Intake` | from a webhook to an operation, its agent and its run |
| `RunOrchestrator` | `transitionRun` and everything built on it |
| `RunRecords` | `createRun`, `detectLoop`, `emitRunEvent`, the export of a timeline |
| `GatewayExecution` | `POST /api/gateway/execute` and the bypass report |
| `Proposals` | decisions, evidence and verification of proposals |
| `Instances` | row, directory and containers of one instance |
| `Vault` | the secrets of connections, and who takes them |
| `Workspaces` | containers of runs and their network; extends `Vault` |
| `IntakeInvariant`, `WorkspacesInvariant` | the inductive invariants of `Intake` and of `Workspaces` |
| `OperationsProofs` | theorems about `RunRecords` and about `Intake` |
| `ContainersProofs` | theorems about `Instances` and about `Workspaces` with `Vault` |
| other `*Proofs` | inductive invariants and theorems of the module they are named for |
| `MC*` | constants, symmetry and instances for TLC |

Conventions. One process per request or background job; `pc` (in some modules `at`) is the await
at which it stands, and what it holds in locals across awaits are variables. An action is what
happens between two awaits. Variables marked *history* are written by the model only: they say
which overlap, failure or crash a property excuses. Some definitions are used by no
specification (`RawVerdict`, `ByAge`, `NeverCached`, ...): they are the mistakes the properties are
tested against. Each property of a run is known to fail when the definition that `PROJECT.json`
pairs it with is replaced by such a mistake.

### ApprovalGate, DecisionLedger

`subject`, `verdict` and `snapshot` are a handler's locals; the other variables are tables, the
client's state (`agent`) and `resolutions`, the history of what `resolveApproval` has written.

| Actions | Code |
|---|---|
| `Ask`, `HearReply`, `Poll`, `PollDeadline`, `Perform`, `Report`, `AgentLeaves` | `apps/toolhost/src/tools/exec.ts`, `gate/approval-waiter.ts` |
| `LookUpAgent` ... `AnnounceApproval` | `routes/tool.ts:58-304` in order |
| `StartDecision`, `Resolve`, `AnnounceResolution` | `routes/approvals.ts`, `services/approval.ts` |
| `ReadHead`, `InsertReceipt`, `CommitReceipt`, `AbortReceipt`, `CommitUnacknowledged` | `engine/receipt.ts:38-104` |
| `FaultAt`, `Crash` | any statement rejects; the process dies |

A receipt's hash is its position in the ledger, so `prev = i - 1` says what `chainPrev` says.
Receipts are ordered by commit; the code orders them by `createdAt`, which has milliseconds (a
hazard without a property). Serializable isolation is "no receipt committed since the snapshot",
which is what PostgreSQL guarantees of two transactions that read the head and insert. Policy and
classification are the choice of a decision. `EnforceRunFk` restricts a simulation to the one
outcome that an enforced foreign key leaves it; the runs use the wider choice. `DecisionLedger` has
three variables: the log, the permitted and the performed calls. It does not promise that a denial
is final, because the code does not keep that.

### PolicyTable, OpenClaw

A rule matches a set of kinds of call. `Create`, `Rank` and `Insert` are the three awaits of
`POST /api/policies` (duplicate check, highest priority, insert). A preset is an array transaction at
PostgreSQL's default, Read Committed: `ApplyPreset` is the start of its `deleteMany`, which fixes
the rows it will delete, and `Replace` the commit, which leaves rows committed in between.
`ReadOwn` and `ReadGlobal` are the two reads of `evaluatePolicy`. `OpenClaw` adds the hook
(`ToolStart`, `HookAnswered`), the plugin's tools (`AskAgain`, `PluginAnswered`, `Poll`,
`RunTool`) and `ReportResult`. A lost request, a refused simulation and a failed statement are the
reply "error", on which both hook and plugin refuse.

### McpProxy

`Call`, `Decide`, `Upstream`, `Check` and `Secure` are a message of an agent from `server.ts:228`
to its answer; `CheckApproval` and `Resolve` the tool `check_approval`; `Sighup`, `Fetch`,
`Close`, `Clear`, `Connect`, `List`, `Settled` a reload; `Open`, `Disconnect`, `Die`, `Configure`,
`Review` are what happens around it. A client is named by the reload that made it, so a stale one
can be told from the current one. A server has one tool.

### Intake

`Deliver`, `Record`, `Dedupe`, `Create`, `Announce` are a webhook up to its operation, `Survey`,
`Apply`, `Publish`, `Falter` the router with its fallback, `CreateRun` the automatic run, `Route`,
`ApproveRouting`, `Approved` the operator. What the rules and the language model say is a choice.
A commit stands for all that deduplication compares.

### RunOrchestrator

A process is an operator, whose requests are commands on a run, or a scheduler, whose requests are
passes. `job` holds the locals of `transitionRun`, `pass` those of a scheduling pass. `Read`,
`Write` and `Emit` are the three awaits of `transitionRun`; `Emit` stands for `emitRunEvent` and
`persistEvent` together, because nothing here reads what they write. A crash is the `Fault` of
every request in flight. With `MaxFaults = 1` the runs cover one failing request, so two requests
that die together are not covered. `Create` makes a run pending between any two steps of the
others, in the order of `createdAt`, as `POST /api/runs` and the webhooks do; how its row is
numbered is RunRecords. `waiting` is history: the runs that were pending when the pass read them.

### RunRecords

The runs of one operation, named by their attempt, since the run id is a hash of operation and
attempt. Clients of `POST /api/runs` pass loop detection, webhooks do not. `emitRunEvent` is a
transaction of two statements at PostgreSQL's default, Read Committed; `Reporters` stand for its
callers besides `createRun`. `Age` moves a run out of the five-minute window. `Exported` and
`TimelineOrdered` are the export of a case file and the check of `scripts/verify-case-file.ts`, as
operators on a state.

### GatewayExecution

`Callers` are threads of an agent that share a capability, `Externals` threads that share an API
key. `Validate`, `CheckRun` and `Use` are the awaits of `validateCapability`; `FindAgent`,
`Register` and `JudgeExternal` what an API key goes through instead; then the handler in order.
`Execute` has three outcomes: success, failure, and failure of a container that reached the
outside. `Report`, `Quarantine` and `Revoke` are the bypass report; `Begin`, `Pause`, `Resume` the
run's own transitions, one step each, because their races are in RunOrchestrator; `Lapse` is the
expiry of the capability, `Expire` the end of a cached response. Answers that are not cached and
change no row are the request's end.

### Proposals

`Propose`, `Insert`, `Decide`, `Settle`, `Announce`, `Overwrite` are a proposal; `Replay`, `Link`,
`BeginReplay`, `Complete`, `Tell`, `Fail`, `Manual`, `Rerun` its evidence; `Verify`, `Observe`,
`Prove` the read-back of an executed action. Nothing in the code ties the three together, and
nothing does here.

### Instances

A docker command is one step, because the Gate waits for it with its event loop stopped
(`execSync`), but for those of stop. `Create` and `Provision` are the creation, `Start` to `Mark`,
`ComposeStep`, `Poll`, `Report` a start and its background job; `Restart` and `Stop` read the row,
and `MarkRestart` and `MarkStop` update it. Each update of the status may reject, carried out or
not (`Rejects`): in a handler the request is answered 500, and in a background job the report of
an error is dropped by its `.catch(() => {})`. The file system may throw in `Provision` and
`WriteDir`. `Change` edits the MCP servers and `Fire`, `Find`, `Refresh` are the debounced
refresh; `Crash` ends the Gate and containers stay; `Poll` may find that a container has ended.

### Vault, Workspaces

`ReadList` and `WriteList` are the two awaits of adding and of removing one secret, `Replace`,
`RevokeConnection` and `DeleteConnection` are single updates. `AgentSecrets` is what a workspace
gets, `StartExecution` and `ResolveNext` what an execution gets, connection by connection. In
`Workspaces`, `at` is the place of the request that makes a workspace and `stopper` one that stops
it. A docker command may fail, or be given up after it has taken effect.

## 3. Runs

All runs finish without an error.

| Run | Instance | Shows |
|---|---|---|
| `approval_safety` | 2 calls of one agent, 2 decision requests, faults, 1 crash | types, chain, permission, announcements, replies, and that ApprovalGate implements DecisionLedger |
| `approval_progress` | 2 calls, 1 decision request, faults, 1 crash | every request is answered, no client hangs |
| `orchestrator_safety` | 4 runs of 2 workspaces and none (a P0 run), created at any time, caps 2 and 1, 2 operators, 1 scheduler, 3 commands, 1 fault | caps, quarantine, transition table, priority order of the runs a pass has read |
| `orchestrator_progress` | 4 runs of 2 workspaces and none, caps 2 and 1, 1 operator, 2 commands, 1 fault | while no late run is paused, late runs are stopped, and pending runs that the free slots reach are served |
| `records_safety` | 2 clients, a webhook, a reporter; 3 requests, 2 reports, 1 fault | attempts, loop detection, timelines, the verifier's check of an export |
| `gateway_safety` | 2 callers, 2 external threads, 1 enforcer, an action, maximum 2 uses, 4 requests, 2 faults | uses, costs, revocation and quarantine, repetition |
| `mcp_safety` | 1 server, 1 session, 1 call, 2 messages at once, 2 reloads after the start, 1 edit, 1 fault | permission, single performance, agreement after reloads |
| `intake_safety` | 2 deliveries, 2 at once, 2 agents, 2 requests of operators, 1 fault | duplicates, lost events, overwritten assignments |
| `instances_safety` | 2 servers, 2 jobs at once, 4 commands, 2 edits, 1 failed docker command, statement or write, or crash | transient states are owned but for four named failures, quiet rows are true, the proxy is current |
| `proposals_safety` | 2 proposals, 2 bundles, 2 verifications, 2 at once, 5 requests, 1 fault | verdicts, nothing left pending |
| `openclaw_safety` | 1 call asking twice, 2 editors, 3 edits, 2 presets | decisions in force, ties of priorities by creations and presets, nothing runs unasked |
| `workspaces_safety` | 2 workspaces, 1 run and 1 id that is none, 2 connections, 2 editors, 1 execution, 1 fault | containers, the shared network, secrets |

Why the bounds are enough. Every race in the code is between two requests over one row, so two of
each kind of actor meet it; a third actor is there where a race needs a witness (the scheduler,
the webhook, the reporter, a stop). Two calls of one agent race to register it and to extend the
chain. The orchestrator has four runs: with fewer, one of its two caps could not be exceeded while
the other is kept. In the safety run two of them compete for one workspace, the more urgent one
created later, and a P0 run preempts. In the progress run, while a run of a workspace is active,
the next pending one of this full workspace keeps the one free slot from a third, whose workspace
has room; this is how head-of-line starvation shows (section 6). Operators run, kill and
quarantine in the safety run and pause in the other; that one schedules a run by hand, as a pass
does, is in the model and under the theorems, and in no run. Three creation requests are one more
than the threshold plus its overshoot; four gateway requests are one more than the maximum plus
its overshoot. One deferred call is enough for two checks of it to overlap; two servers let the
proxy have a wrong set and not only none; two workspaces race for the network and for a run. Two
presets, or a preset and a creation, are enough to tie. Faults are bounded to keep histories
short: a run has one or two, at any of the places where its module lets something fail, and
ApprovalGate's `DbFaults` is not bounded at all. Those places are the ones named with each module,
not every statement of the code: a failing read that ends its handler without an effect is the end
of that handler, and is mostly left out. `CHECK_DEADLOCK FALSE` is set where requests are finite
and the system comes to rest; RunOrchestrator always has a pass to start, and is checked for
deadlock.

Excuses. Where the code does not keep a promise under overlap or failure, the property says so
instead of leaving the case out of the model: `raced` and `late` (two creations or presets read
the same state), `crossed`, `tangled`, `replaced` and `early` (two requests wrote one row or met
one network), `joined` (two checks of one approval), `crowded` (two reloads, two transactions of
`emitRunEvent`), `amiss`, `faulty` and `fate` (a fault, a crash or what it left behind),
`Overlooked` (a pending run that the free slots do not reach) and `waiting` (a run that a pass
could not know of). What is excused is a result in itself, listed in section 6.

## 4. Fairness

Only the two progress runs use it. Weak fairness of each handler's step: an `await` on Prisma, on
a container or on HTTP settles, because all of them have timeouts, and Node then resumes the
handler. In RunOrchestrator also of the start of a pass: nothing in the Gate calls
`POST /api/runs/schedule`, so the liveness properties there hold for a deployment that calls it again
and again. No fairness is assumed for agents that might ask, reviewers that might decide,
operators, the creation of runs, faults, crashes, or the passing of a deadline of a run. Even so a
pending run is only promised service if the free slots reach it in the order of the list: more
urgent runs of a full workspace may keep it out for as long as they wait themselves. The client's
deadline is part of its step: `waitForApproval` loops until it. For what hangs after a crash
elsewhere there is no liveness to claim: nothing in the code takes up a provisioning instance or a
pending bundle, so `TransientIsOwned` and `NothingIsLeftPending` say who is at work instead, and
which failures leave nobody.

## 5. Proofs

Every safety property that a run checks is also proved, for every value of the constants that the
assumptions allow: any sets of calls, runs, processes, servers, rules, workspaces, and any number of
requests, faults and crashes.

| Module of theorems | Safety properties proved | Assumptions |
|---|---|---|
| `ApprovalGateProofs` | `TypeOK`, `LedgerChained`, `PerformedWasPermitted`, `LedgerIsAnnounced`, `ReplyIsRecorded`, `LoneDecisionAgrees`; the refinement `ImplementsLedger` | `ActorsAssumption`, `SwitchesAssumption` |
| `RunOrchestratorProofs` | `TypeOK`, `QuarantineDisarms`, `WithinCaps`; the action properties `LegalUnlessOvertaken`, `UrgentFirst` | `RunsAssumption`, `ProcessesAssumption`, `BoundsAssumption`; for `WithinCaps` also a single scheduler |
| `OperationsProofs` | `AttemptsAreContiguous`, `LoopIsBounded`, `TimelineHasNoGaps`, `CaseFileIsOrdered` | `RecordsAssumption` |
| the same, of `Intake` | `DuplicatesNeedOverlap`, `RecordedIsHandled`, `ApprovedHasAgent` | `BoundsAssumption`, `NothingAssumption` |
| `GatewayExecutionProofs` | `Types`, `UsesBounded`, `TotalsAgree`, `RevocationDrains`, `RepeatsNeedOverlap` | `GatewayAssumption` |
| `ContainersProofs` | `TypeOK`, `TransientIsOwned`, `QuietStatusIsTrue`, `ProxyIsCurrent` | `BoundsAssumption` |
| the same, of `Workspaces` | `ContainersAreReachable`, `ErrorHasCause`; the action property `SecretsGoWhereDeclared` | `VaultAssumption`, `WorkspacesAssumption` |
| `OpenClawProofs` | `Types`, `PerformedPassedTwice`, and of `PolicyTable` `DecisionWasInForce`, `TiesNeedOverlap` | `TableAssumption` |
| `McpProxyProofs` | `CallTypes`, `PerformedIsPermitted`, `RepeatsNeedOverlap`, `QuietProxyIsConsistent` | `ProxyAssumption`, `NothingAssumption` |
| `ProposalsProofs` | `NothingIsLeftPending`, `LoneVerdictStands` | `BoundsAssumption`, `NothingAssumption` |

What the assumptions ask of the code: sets of actors of different kinds are disjoint; runs, creators
and callers are finitely many, because the properties count them; bounds and caps are numbers; a
preset of policy rules has no two rows of one priority (`db/seed-policies.ts:15-108` has none);
what stands for null (`Nothing`, `Nobody`, `Unknown`) is not one of the ids.

`OperationsProofs` and `ContainersProofs` each extend two components that share no name, which is
why the specifications of `Intake` and `Workspaces` are called `IntakeSpec` and `WorkspacesSpec`;
each theorem is about one of the two.

Types apart, no safety property but `TransientIsOwned` and `NothingIsLeftPending` is inductive,
and those two are so with their types only. What each proof adds:

*ApprovalGate.* `LedgerChained` alone is not inductive: a commit appends a receipt for a call that
must have none, which the code checked at an earlier await. `SnapshotsOK` carries that over: a
transaction whose snapshot is still current at commit saw no receipt of its call, because the
ledger has not grown since. `PerformedWasPermitted` needs `ClearancesOK` (what a client's
clearance and an EXECUTE answer rest on), and that needs `ApprovalsOK`: a call with an approval
left its execute request on the path that writes no receipt, so policy never recorded it.
`PointsOK` and `VerdictsOK` say where each kind of request can stand and what its locals hold
there; `GuardedOK` keeps the one path that writes a receipt in a catch apart. Three more
invariants stand on that one, each with a step lemma of its own: `EventsOK` (a request that is
about to commit has already persisted what the property wants in the log), `AnswersOK` (nobody has
an answer before the handler returned, so an answer is given by a step that has the verdict and
the ledger before it), and `LoneOK` (of a call with a single decision request, the approval, the
receipt and what that request has yet to write agree). The refinement maps a commit to
`RecordPolicy` or `RecordHuman`, which needs that the call has no receipt and that the verdict of
a decision request has been written to the approval; a resolution that approves to `Permit`, which
needs that policy has not recorded the call; a run of the command to `Perform`, whose permission
is in `ClearancesOK`; every other step leaves the three abstract variables alone (`PromiseStep`).

*RunOrchestrator.* `IInv` says process by process what the locals hold at each place. A process
reaches the write of `transitionRun` only with a status it read and a target that RUN_TRANSITIONS
allows from it, so an illegal change means that the status was replaced after that read. The caps
and the order follow a pass by its choices: `Promised` is what it has chosen or taken up and not
written, `Found` what it may still choose, and `waiting` what was pending when it looked. Every
step of a pass empties, keeps, takes up, counts, finds, chooses or writes (`StepsOfAPass`), and
every other step leaves it alone and at most updates a run. `OrderOK` (whatever waits before a
chosen run is chosen too, whatever waits before a run that is found is found or its workspace is
full) speaks of those in `waiting` only, so that a run created later does not disturb it; it is
kept because no status becomes pending again and `Leading`, which models `take: n`, leaves out
nothing that is before something it takes. `CapsOK` (what is active, promised and found, together
with the slots counted and not yet filled, fits) needs `LeadingIsBounded`, by the pigeonhole
principle on how many are ahead of each run. With two schedulers `WithinCaps` is false, since both
count before either updates; this is a hypothesis of `CapsHold`, not an assumption of the module.

*Intake.* `CreatorIsAlone` carries over what `Dedupe` saw: a handler about to create an operation
for a commit has none within the window and no rival, unless two have raced; only so does creation
keep `DuplicatesNeedOverlap`. `HandlersHold` says that the operation a handler has created is its
own and has no run yet, so that what one handler's `CreateRun` or router writes is not about
another's. `RecordedIsPursued` is `RecordedIsHandled` before the outcome: the delivery has its
operation, a handler that will create one or will find the commit's, or a reason.
`ApprovingHasAgent` is what the check of approve-routing read, which holds until its update unless
the router wrote in between.

*Workspaces and Vault.* `Sound` gives for each place of `createWorkspace` what is then true of
row, container, network and run (`Way`), and for a failed one its `Cause`; unless a fault touched
the workspace it is kept by its own steps (`Success`, `Failure`) and by the others', because a run
names only the workspace whose request emitted it (`EmittedHasRun`, `UnknownBeforeOver`), and the
network has a maker (`NetworkHasMaker`). A stop holds what it found of its run's workspace, until
it removes the container. `AnswersAreTrue` relates the list of secrets that the editors were told
to the stored one, through the edits under way: one that nothing has overtaken holds the current
list. From it follows that what enters a workspace or an execution has the mode that was told.

*RunRecords.* `RowsOK`: rows are an initial interval of attempts and a creator's attempt is at
most one past it, so that the primary key absorbs a race. `TimelinesOK`: the numbers used are an
initial interval, and nobody has read a last number beyond them. `LoopOK` adds to the recent runs
of clients the clients who passed `detectLoop` and have not inserted yet. `OrderOK`: without
overlap one transaction at most is open for a run, what it has read is current, and the events
have the numbers 1, 2, 3 in the order of their commits; then `UpTo` an event are those with
smaller numbers, and the export lists them so.

*GatewayExecution.* Each property needs an invariant that weighs a counter against the callers on
their way to raise it: `UsesInv` the uses and who has been validated, `MoneyInv` totals, rows and
effects and who stands between their statements, `DrainInv` the late effects and who is `Inside`
(past the check that the cut would fail), `RepeatInv` the repetitions of a cached success and who
has looked it up and not performed it (`Ahead`). A lemma on counting says how such a number moves
when one caller does.

*Instances.* `TransientIsOwned` is kept because only `Report`, which settles the status, a
rejected update, a throw and a crash take a worker away from it. `StatusInv` (unless excused,
`Settled`): one command at a time, with what the status and the containers are at its place.
`ProxyInv` (unless excused, `Tended`): a refresh runs alone, and what workers have read and what
is written and loaded are the servers (`Tidy`), or a refresh is due.

*OpenClaw and PolicyTable.* `Passed` says what a call has been answered at its place. `InView`:
what the table decides now is among what a running evaluation has seen, and an evaluation between
its two reads has seen what the global rules decide for as long as the table changed at most once.
`Ranked`: the priority of a creation that was not overtaken is above all of its scope, and a
preset that was not overtaken has found every row of its scope, so that none stays beside its own.

*McpProxy, Proposals.* `Decided` says what a handler's place tells of the verdict, which is never
replaced once it permits. `Once`: the right to perform a call is in the handler that was allowed
it or in the session that defers it. While reloads have not overlapped, one runs at a time
(`Alone`), every client in the map is open or about to be closed (`Known`), and what it has passed
is done (`Progress`). A bundle or verification has one worker until it has an outcome; a proposal
that nobody else decides has one announced verdict, the stored one, or a handler about to announce
it.

Each invariant was checked by TLC before it was proved, and each has lemmas with one step per action
or kind of step that can disturb it.

Only model-checked is liveness, `EveryRequestAnswered`, `ClientNeverHangs`, `LateRunIsStopped` and
`PendingIsServed`: fairness and ENABLED are beyond the prover. So the refinement that is proved is
of the ledger's safety, which is all that `DecisionLedger` promises.

## 6. Results worth knowing

What holds is as useful as what does not: the serializable transaction keeps the chain sound
without any retry; a single decision request cannot make approval and receipt differ; the attempt
race is absorbed by the primary key; a timeline has no gap although it has doubles; a revoked
capability or a quarantine lets at most one more effect through per caller in flight; a deferred
MCP call is performed once unless it is checked twice at the same time.

Where the code and its documentation disagree, or a promise has a hole:

* *Decisions.* Nothing reads `ttlSeconds` (README.md:57: "if no one approves, it's denied").
  Approve and deny that overlap leave a decision in force without its receipt (README.md:49). With
  the hook installed a gated tool that needs approval never gets to ask for it: the hook throws
  for PENDING_APPROVAL (`hooks/handler.ts:152`) although its comment says that it does not block.
  Its `catch` covers the command too, so one that ran and failed is reported as a Gate that could
  not be reached.
* *Policies.* Two rules created at once get one priority. Two presets applied at once both stay,
  and so does a rule created while one is applied, with equal priorities
  (`routes/policies.ts:194`, though its comment at 180 says that a preset deletes all existing
  rules). The policy of a call is that of the most recently updated running instance, not of the
  caller's (`routes/tool.ts:131`). An instance's first own rule and a change of the global ones,
  in between the two reads, make a decision that was never in force.
* *Runs.* Kill revokes no capability, and a scheduling pass can overwrite its status
  (docs/EXECUTION-ENGINE.md:350). A late paused run makes every pass throw (README.md:95). A pass
  takes as many pending runs as there are free slots before it looks at their workspaces
  (`orchestrator.ts:143-174`), so runs of a full workspace keep out a run that could start; and a
  more urgent run created during a pass waits for the next. Sequence numbers are not allocated
  atomically at Read Committed (`run-events.ts:5`), and a case file with a double fails its
  verifier. No receipt carries a run's id, so a case file has no receipts and its chain is valid
  vacuously; the verifier asks of the proposals a policy snapshot that the export leaves out, so
  no run with a proposal passes it.
* *Gateway.* A late error replaces a cached success (LITEPAPER.md:298). A bypass report of a run
  that is scheduled quarantines nothing, answers that it was logged, and leaves the capability
  usable (`gateway.ts:526`). Only DENY stops an API-key call, but its simulation reports to a run
  that does not exist, so every such call ends in a cached 503. For the same reason
  `POST /api/tool/structured-execute` performs nothing but MCP calls.
* *MCP proxy.* A reload while the Gate does not answer drops all tools. Deferred calls die with
  their session. Overlapping reloads leave clients open that nobody closes.
* *Intake.* A delivery whose handling failed is refused when it is sent again. The router
  overwrites an assignment made while the model was thinking.
* *Proposals.* Nothing ties approval, evidence and execution. A failed event after `completed`
  turns a bundle `failed`. The working directory is removed before the environment is captured, so
  a bundle is called reproducible without a manifest. A rerun whose operation has no repository
  leaves a bundle pending for ever.
* *Instances.* A refresh without servers starts the agent of a stopped instance; the last proxy is
  left running; a start's late report overtakes a stop. A crash leaves provisioning for ever, and
  so do a report of an error whose update rejects, since the rejection is swallowed
  (`instances.ts:867`), and an exception while a new instance is written (`instances.ts:534`).
  Secrets added to an instance are never read (README.md:89).
* *Workspaces and secrets.* A workspace whose creation fails after its start keeps a container
  that cannot be stopped by its id; a run's second workspace makes the first unreachable; two
  first creations race for the network; a stop that fails in docker says stopped. Edits of secrets
  that overlap lose one. Secret leases are used by nothing (README.md:98).

## 7. Plan

1. The lemmas on counting that several modules of theorems state for themselves, in one place.
2. GatewayExecution composed with the awaits of RunOrchestrator's transitions.
3. A clock for `createdAt`, to tell the order of receipts from the order of their commits.
4. The event stream's replay and subscription; an operation's status beside the runs created for it.

## 8. Not modelled

Signatures, hashes, encryption, credentials (identity of content stands for them); risk
classification, AI analysis and routing scores (choices); docker, SSH and GitHub calls (outcomes);
authentication, organization filters and rate limits (stateless filters). Users and coupons, API
keys, stored flags, repository configuration, receipt sync: single row updates without a protocol.
Statistics, insights, mission control, audit reports and the rest of a case file: reads. The
structured execution of actions other than MCP calls ends in the refused simulation above. The
user interface, landing page and CLI are a third of the repository's lines, present what the API
answers and keep no state the Gate depends on. An operation's status and dismissal, operations
made by hand, and an instance's skills, files and environment are left out as single updates.
`checkBudget` is read by no path that executes.
