---------------------------- MODULE ApprovalGate ----------------------------
(***************************************************************************)
(* The decision protocol of the Gate: POST /api/tool/execute, the approve  *)
(* and deny handlers of an approval, the hash-chained receipts they write, *)
(* and the agent-side client that asks, polls and performs the call.       *)
(*                                                                         *)
(* Every HTTP request is a process of its own: an execute request is named *)
(* by the tool call it creates, a decision request by a member of Deciders.*)
(* A handler is cut at each await, where any other handler may run; between*)
(* two awaits Node runs it alone.  A receipt's content hash is represented *)
(* by its position in the ledger, so chainPrev is the position of the      *)
(* receipt that findFirst(orderBy createdAt desc) returned, 0 for none.    *)
(*                                                                         *)
(* Definitions that no action uses are the mistakes the properties are     *)
(* tested against.                                                         *)
(***************************************************************************)
EXTENDS Naturals, Sequences

CONSTANTS
  Calls,        \* tool calls, one execute request each
  Deciders,     \* requests to approve or deny
  Agents,       \* agent public keys
  AgentOf,      \* the agent that makes a call
  NoCall,       \* the subject of a decision request that holds no approval
  DbFaults,     \* whether a statement may fail for reasons outside the Gate
  EnforceRunFk, \* whether RunEvent.runId is enforced to name a Run
  MaxCrashes    \* bound: crashes of the Gate process

ASSUME ActorsAssumption ==
  /\ Calls \cap Deciders = {}
  /\ NoCall \notin Calls
  /\ AgentOf \in [Calls -> Agents]

ASSUME SwitchesAssumption ==
  /\ DbFaults \in BOOLEAN
  /\ EnforceRunFk \in BOOLEAN
  /\ MaxCrashes \in Nat

VARIABLES
  \* the database
  registered,   \* agents with a row
  toolCalls,    \* calls with a ToolCall row
  approval,     \* Approval.status of a call, "NONE" while there is no row
  ledger,       \* the Receipt table in creation order
  eventLog,     \* the EventLog table, as the set of what was persisted
  executions,   \* calls with an Execution row
  \* the requests in flight in the Gate process
  pc,           \* the await at which a request's handler stands
  subject,      \* the call a request is about
  verdict,      \* the decision its receipt will carry
  snapshot,     \* ledger length its serializable transaction has read
  guarded,      \* calls whose createReceipt runs inside the simulation's try
  reply,        \* what the caller was answered
  crashes,
  \* the agent's side
  agent,        \* where the client of a call stands
  \* history
  resolutions   \* <<call, status>> pairs that resolveApproval has written

database == <<registered, toolCalls, approval, ledger, eventLog, executions>>
vars == <<registered, toolCalls, approval, ledger, eventLog, executions,
          pc, subject, verdict, snapshot, guarded, reply, crashes,
          agent, resolutions>>

Requests == Calls \cup Deciders
ByPolicy == {"ALLOW", "DENY"}
ByHuman == {"APPROVED", "DENIED"}
Verdicts == ByPolicy \cup ByHuman

ExecutePoints ==
  {"lookup", "register", "record", "evaluate", "simulate", "hold", "announceHold"}
DecidePoints == {"resolve", "announceResolved"}
ReceiptPoints == {"receipt", "insert", "commit"}
InFlight == ExecutePoints \cup DecidePoints \cup ReceiptPoints

HasReceipt(c) == \E i \in 1..Len(ledger) : ledger[i].call = c
Holds(c, v) == \E i \in 1..Len(ledger) : ledger[i].call = c /\ ledger[i].verdict = v

Init ==
  /\ registered = {}
  /\ toolCalls = {}
  /\ approval = [c \in Calls |-> "NONE"]
  /\ ledger = <<>>
  /\ eventLog = {}
  /\ executions = {}
  /\ pc = [r \in Requests |-> "idle"]
  /\ subject = [r \in Requests |-> IF r \in Calls THEN r ELSE NoCall]
  /\ verdict = [r \in Requests |-> "NONE"]
  /\ snapshot = [r \in Requests |-> 0]
  /\ guarded = {}
  /\ reply = [r \in Requests |-> "NONE"]
  /\ crashes = 0
  /\ agent = [c \in Calls |-> "idle"]
  /\ resolutions = {}

-----------------------------------------------------------------------------
(* How a handler moves between its awaits, answers and fails.              *)

GoTo(r, point) == pc' = [pc EXCEPT ![r] = point]

\* The handler returns; what it held in its locals is gone.
Answer(r, body) ==
  /\ pc' = [pc EXCEPT ![r] = "answered"]
  /\ reply' = [reply EXCEPT ![r] = body]
  /\ verdict' = [verdict EXCEPT ![r] = "NONE"]
  /\ snapshot' = [snapshot EXCEPT ![r] = 0]

RawVerdict(v) == v

ReplyFor(v) == IF v \in {"ALLOW", "APPROVED"} THEN "EXECUTE" ELSE "DENY"

RetryForever(r) ==
  GoTo(r, "receipt") /\ UNCHANGED <<reply, guarded, verdict, snapshot>>

\* An exception reaches the handler's catch and the caller gets a 500.  Only
\* the receipt of a failed simulation is written inside the simulation's own
\* try: its catch writes the DENY receipt once more.
Throw(r) ==
  IF r \in guarded
  THEN /\ GoTo(r, "receipt")
       /\ guarded' = guarded \ {r}
       /\ UNCHANGED <<reply, verdict, snapshot>>
  ELSE Answer(r, "ERROR") /\ UNCHANGED guarded

\* A statement that changes nothing but the handler's position failed.
Fail(r) ==
  /\ DbFaults
  /\ Throw(r)
  /\ UNCHANGED <<database, subject, crashes, agent, resolutions>>

-----------------------------------------------------------------------------
(* POST /api/tool/execute                                                  *)

\* The agent's client sends the request of a new tool call.
Ask(c) ==
  /\ agent[c] = "idle"
  /\ agent' = [agent EXCEPT ![c] = "asking"]
  /\ GoTo(c, "lookup")
  /\ UNCHANGED <<database, subject, verdict, snapshot, guarded, reply, crashes,
                 resolutions>>

\* agent.findUnique: an unknown agent is registered next.
LookUpAgent(c) ==
  /\ pc[c] = "lookup"
  /\ GoTo(c, IF AgentOf[c] \in registered THEN "record" ELSE "register")
  /\ UNCHANGED <<database, subject, verdict, snapshot, guarded, reply, crashes,
                 agent, resolutions>>

\* agent.create: pubkey is unique, so the second of two concurrent first
\* requests of an agent throws.
RegisterAgent(c) ==
  /\ pc[c] = "register"
  /\ IF AgentOf[c] \in registered
     THEN Throw(c) /\ UNCHANGED registered
     ELSE /\ registered' = registered \cup {AgentOf[c]}
          /\ GoTo(c, "record")
          /\ UNCHANGED <<reply, guarded, verdict, snapshot>>
  /\ UNCHANGED <<toolCalls, approval, ledger, eventLog, executions, subject,
                 crashes, agent, resolutions>>

RecordToolCall(c) ==
  /\ pc[c] = "record"
  /\ toolCalls' = toolCalls \cup {c}
  /\ GoTo(c, "evaluate")
  /\ UNCHANGED <<registered, approval, ledger, eventLog, executions, subject,
                 verdict, snapshot, guarded, reply, crashes, agent, resolutions>>

\* evaluatePolicy on the rules of the moment: any decision.  An ALLOW whose
\* risk tier reaches the organization's threshold is simulated first.
EvaluatePolicy(c) ==
  /\ pc[c] = "evaluate"
  /\ \/ /\ GoTo(c, "hold")
        /\ UNCHANGED verdict
     \/ /\ GoTo(c, "receipt")
        /\ verdict' = [verdict EXCEPT ![c] = "DENY"]
     \/ /\ \E point \in {"receipt", "simulate"} : GoTo(c, point)
        /\ verdict' = [verdict EXCEPT ![c] = "ALLOW"]
  /\ UNCHANGED <<database, subject, snapshot, guarded, reply, crashes, agent,
                 resolutions>>

\* simulateLocalAction.  Its first statement stores a RunEvent for the run id
\* gate-<toolCallId>, which names no Run: where the foreign key is enforced the
\* simulation can only throw.
SimulationOutcomes ==
  IF EnforceRunFk THEN {"threw"} ELSE {"passed", "failed", "threw"}

Simulate(c) ==
  /\ pc[c] = "simulate"
  /\ \E outcome \in SimulationOutcomes :
       /\ verdict' = [verdict EXCEPT ![c] =
                        IF outcome = "passed" THEN "ALLOW" ELSE "DENY"]
       /\ guarded' = IF outcome = "failed" THEN guarded \cup {c} ELSE guarded
  /\ GoTo(c, "receipt")
  /\ UNCHANGED <<database, subject, snapshot, reply, crashes, agent, resolutions>>

\* createApproval: the row first, then its event, then the answer.
CreateApproval(c) ==
  /\ pc[c] = "hold"
  /\ approval' = [approval EXCEPT ![c] = "PENDING"]
  /\ GoTo(c, "announceHold")
  /\ UNCHANGED <<registered, toolCalls, ledger, eventLog, executions, subject,
                 verdict, snapshot, guarded, reply, crashes, agent, resolutions>>

AnnounceApproval(c) ==
  /\ pc[c] = "announceHold"
  /\ eventLog' = eventLog \cup {<<"approval.created", c, "PENDING">>}
  /\ Answer(c, "PENDING_APPROVAL")
  /\ UNCHANGED <<registered, toolCalls, approval, ledger, executions, subject,
                 guarded, crashes, agent, resolutions>>

-----------------------------------------------------------------------------
(* POST /api/approvals/:id/approve and /deny                               *)

\* The 409 check of both handlers, on the status they have just read.
MayDecide(c) == approval[c] = "PENDING"

\* A reviewer's request arrives for an existing approval and reads it.
StartDecision(d, c, v) ==
  /\ pc[d] = "idle"
  /\ approval[c] # "NONE"
  /\ IF MayDecide(c)
     THEN /\ GoTo(d, "resolve")
          /\ subject' = [subject EXCEPT ![d] = c]
          /\ verdict' = [verdict EXCEPT ![d] = v]
          /\ UNCHANGED <<reply, snapshot>>
     ELSE Answer(d, "CONFLICT") /\ UNCHANGED subject
  /\ UNCHANGED <<database, guarded, crashes, agent, resolutions>>

\* resolveApproval: an unconditional update, whatever the status is by now.
Resolve(d) ==
  /\ pc[d] = "resolve"
  /\ approval' = [approval EXCEPT ![subject[d]] = verdict[d]]
  /\ resolutions' = resolutions \cup {<<subject[d], verdict[d]>>}
  /\ GoTo(d, "announceResolved")
  /\ UNCHANGED <<registered, toolCalls, ledger, eventLog, executions, subject,
                 verdict, snapshot, guarded, reply, crashes, agent>>

SkipResolvedEvent(d) == eventLog

ResolvedEvent(d) ==
  eventLog \cup {<<"approval.resolved", subject[d], verdict[d]>>}

AnnounceResolution(d) ==
  /\ pc[d] = "announceResolved"
  /\ eventLog' = ResolvedEvent(d)
  /\ GoTo(d, "receipt")
  /\ UNCHANGED <<registered, toolCalls, approval, ledger, executions, subject,
                 verdict, snapshot, guarded, reply, crashes, agent, resolutions>>

-----------------------------------------------------------------------------
(* createReceipt: a serializable transaction                               *)

\* The head of the chain is read; with it the transaction takes its snapshot.
ReadHead(r) ==
  /\ pc[r] = "receipt"
  /\ snapshot' = [snapshot EXCEPT ![r] = Len(ledger)]
  /\ GoTo(r, "insert")
  /\ UNCHANGED <<database, subject, verdict, guarded, reply, crashes, agent,
                 resolutions>>

\* receipt.create fails on a call that has a receipt (toolCallId is unique).
\* Otherwise receipt.created is persisted on another connection: it is there
\* whether or not the transaction commits.
InsertReceipt(r) ==
  /\ pc[r] = "insert"
  /\ IF HasReceipt(subject[r])
     THEN Throw(r) /\ UNCHANGED eventLog
     ELSE /\ eventLog' = eventLog
                \cup {<<"receipt.created", subject[r], verdict[r]>>}
          /\ GoTo(r, "commit")
          /\ UNCHANGED <<reply, guarded, verdict, snapshot>>
  /\ UNCHANGED <<registered, toolCalls, approval, ledger, executions, subject,
                 crashes, agent, resolutions>>

AlwaysApproved(r) ==
  [call |-> subject[r], prev |-> snapshot[r],
   verdict |-> IF r \in Deciders THEN "APPROVED" ELSE verdict[r]]

ReceiptOf(r) ==
  [call |-> subject[r], verdict |-> verdict[r], prev |-> snapshot[r]]

ReadCommitted(r) == snapshot[r] \in Nat

\* Serializable isolation: no receipt has been committed since the snapshot.
Serializable(r) == snapshot[r] = Len(ledger)

CommitReceipt(r) ==
  /\ pc[r] = "commit"
  /\ Serializable(r)
  /\ ledger' = Append(ledger, ReceiptOf(r))
  /\ Answer(r, ReplyFor(verdict[r]))
  /\ UNCHANGED <<registered, toolCalls, approval, eventLog, executions, subject,
                 guarded, crashes, agent, resolutions>>

\* The commit took place and its acknowledgement was lost.
CommitUnacknowledged(r) ==
  /\ DbFaults
  /\ pc[r] = "commit"
  /\ Serializable(r)
  /\ ledger' = Append(ledger, ReceiptOf(r))
  /\ Throw(r)
  /\ UNCHANGED <<registered, toolCalls, approval, eventLog, executions, subject,
                 crashes, agent, resolutions>>

AnswerAnyway(r) ==
  /\ pc[r] = "commit"
  /\ ~Serializable(r)
  /\ Answer(r, ReplyFor(verdict[r]))
  /\ UNCHANGED <<database, subject, guarded, crashes, agent, resolutions>>

\* The database refuses the commit; nothing retries the transaction.
AbortReceipt(r) ==
  /\ pc[r] = "commit"
  /\ ~Serializable(r)
  /\ Throw(r)
  /\ UNCHANGED <<database, subject, crashes, agent, resolutions>>

\* Any statement of a handler may fail for the database's own reasons; what
\* fails inside the simulation is its outcome "threw".
FaultAt(r) ==
  /\ pc[r] \in InFlight \ {"simulate"}
  /\ Fail(r)

\* The Gate process dies: every request in flight is lost, its transaction
\* rolled back and its caller's connection reset.
Crash ==
  /\ crashes < MaxCrashes
  /\ crashes' = crashes + 1
  /\ pc' = [r \in Requests |-> IF pc[r] \in InFlight THEN "answered" ELSE pc[r]]
  /\ reply' = [r \in Requests |-> IF pc[r] \in InFlight THEN "ERROR" ELSE reply[r]]
  /\ verdict' = [r \in Requests |-> "NONE"]
  /\ snapshot' = [r \in Requests |-> 0]
  /\ guarded' = {}
  /\ UNCHANGED <<database, subject, agent, resolutions>>

-----------------------------------------------------------------------------
(* The agent's client                                                      *)

HearReply(c) ==
  /\ agent[c] = "asking"
  /\ pc[c] = "answered"
  /\ agent' = [agent EXCEPT ![c] =
                 CASE reply[c] = "EXECUTE" -> "cleared"
                   [] reply[c] = "PENDING_APPROVAL" -> "polling"
                   [] OTHER -> "stopped"]
  /\ UNCHANGED <<database, pc, subject, verdict, snapshot, guarded, reply,
                 crashes, resolutions>>

AnyResolution(status) == status \in ByHuman

\* The resolved status on which the client goes ahead.
GoAhead(status) == status = "APPROVED"

\* One poll of waitForApproval; a PENDING answer changes nothing.
Poll(c) ==
  /\ agent[c] = "polling"
  /\ approval[c] \in ByHuman
  /\ agent' = [agent EXCEPT ![c] =
                 IF GoAhead(approval[c]) THEN "cleared" ELSE "stopped"]
  /\ UNCHANGED <<database, pc, subject, verdict, snapshot, guarded, reply,
                 crashes, resolutions>>

PollForever(c) == agent[c] = "polling" /\ FALSE

\* waitForApproval's deadline passes and it throws.
PollDeadline(c) ==
  /\ agent[c] = "polling"
  /\ agent' = [agent EXCEPT ![c] = "stopped"]
  /\ UNCHANGED <<database, pc, subject, verdict, snapshot, guarded, reply,
                 crashes, resolutions>>

\* The command runs: the side effect of the call.
Perform(c) ==
  /\ agent[c] = "cleared"
  /\ agent' = [agent EXCEPT ![c] = "performed"]
  /\ UNCHANGED <<database, pc, subject, verdict, snapshot, guarded, reply,
                 crashes, resolutions>>

\* reportExecution by the client; a failure is logged and forgotten.
Report(c) ==
  /\ agent[c] = "performed"
  /\ agent' = [agent EXCEPT ![c] = "finished"]
  /\ \/ executions' = executions \cup {c}
     \/ DbFaults /\ UNCHANGED executions
  /\ UNCHANGED <<registered, toolCalls, approval, ledger, eventLog, pc, subject,
                 verdict, snapshot, guarded, reply, crashes, resolutions>>

\* The agent's process goes away, or the framework abandons the call.
AgentLeaves(c) ==
  /\ agent[c] \in {"asking", "polling", "cleared", "performed"}
  /\ agent' = [agent EXCEPT ![c] =
                 IF agent[c] = "performed" THEN "finished" ELSE "stopped"]
  /\ UNCHANGED <<database, pc, subject, verdict, snapshot, guarded, reply,
                 crashes, resolutions>>

-----------------------------------------------------------------------------
ExecuteStep(c) ==
  \/ LookUpAgent(c) \/ RegisterAgent(c) \/ RecordToolCall(c)
  \/ EvaluatePolicy(c) \/ Simulate(c)
  \/ CreateApproval(c) \/ AnnounceApproval(c)

DecideStep(d) == Resolve(d) \/ AnnounceResolution(d)

ReceiptStep(r) ==
  \/ ReadHead(r) \/ InsertReceipt(r)
  \/ CommitReceipt(r) \/ CommitUnacknowledged(r) \/ AbortReceipt(r)

\* What a client does on its own: hear, poll, give up at the deadline.
ClientStep(c) ==
  \/ HearReply(c) \/ Poll(c) \/ PollDeadline(c) \/ Perform(c) \/ Report(c)

Next ==
  \/ \E c \in Calls : Ask(c) \/ ExecuteStep(c) \/ ClientStep(c) \/ AgentLeaves(c)
  \/ \E d \in Deciders : DecideStep(d)
  \/ \E d \in Deciders, c \in Calls, v \in ByHuman : StartDecision(d, c, v)
  \/ \E r \in Requests : ReceiptStep(r) \/ FaultAt(r)
  \/ Crash

\* Node resumes every handler whose await settled, and every statement
\* settles: it returns, throws or times out.  A client runs its own loop.
\* Nothing makes an agent ask, a reviewer decide, or anybody crash.
Fairness ==
  /\ \A c \in Calls : WF_vars(ExecuteStep(c)) /\ WF_vars(ClientStep(c))
  /\ \A d \in Deciders : WF_vars(DecideStep(d))
  /\ \A r \in Requests : WF_vars(ReceiptStep(r))

Spec == Init /\ [][Next]_vars /\ Fairness

-----------------------------------------------------------------------------
(* Properties                                                              *)

Points == {"idle", "answered"} \cup InFlight
Replies == {"NONE", "EXECUTE", "DENY", "PENDING_APPROVAL", "CONFLICT", "ERROR"}
ClientStates ==
  {"idle", "asking", "polling", "cleared", "performed", "finished", "stopped"}
Receipts == [call : Calls, verdict : Verdicts, prev : Nat]

\* Every variable has its type: rows of the tables, points of the handlers.
TypeOK ==
  /\ registered \subseteq Agents
  /\ toolCalls \subseteq Calls
  /\ approval \in [Calls -> {"NONE", "PENDING"} \cup ByHuman]
  /\ ledger \in Seq(Receipts)
  /\ executions \subseteq Calls
  /\ pc \in [Requests -> Points]
  /\ subject \in [Requests -> Calls \cup {NoCall}]
  /\ verdict \in [Requests -> Verdicts \cup {"NONE"}]
  /\ snapshot \in [Requests -> Nat]
  /\ guarded \subseteq Calls
  /\ reply \in [Requests -> Replies]
  /\ crashes \in Nat
  /\ agent \in [Calls -> ClientStates]
  /\ resolutions \subseteq Calls \X ByHuman

\* The receipts form one chain, each linked to the one created just before it,
\* and no call has two, however createReceipt transactions overlap.
LedgerChained ==
  /\ \A i \in 1..Len(ledger) : ledger[i].prev = i - 1
  /\ \A i, j \in 1..Len(ledger) : ledger[i].call = ledger[j].call => i = j

Performed == {c \in Calls : agent[c] \in {"performed", "finished"}}

\* A call's side effect is caused only if the ledger allows the call or a
\* reviewer's APPROVED was written to its approval, and never after policy
\* denied it.
PerformedWasPermitted ==
  \A c \in Performed :
    /\ Holds(c, "ALLOW") \/ <<c, "APPROVED">> \in resolutions
    /\ ~Holds(c, "DENY")

\* The event log is never behind the ledger: a receipt's receipt.created event
\* is there, and so is the approval.resolved event of the human decision that
\* the receipt records.
LedgerIsAnnounced ==
  \A i \in 1..Len(ledger) :
    LET e == ledger[i]
    IN  /\ <<"receipt.created", e.call, e.verdict>> \in eventLog
        /\ e.verdict \in ByHuman =>
             <<"approval.resolved", e.call, e.verdict>> \in eventLog

\* Whoever was told EXECUTE or DENY was told what the ledger records.
ReplyIsRecorded ==
  \A r \in Requests :
    reply[r] \in {"EXECUTE", "DENY"} =>
      \E i \in 1..Len(ledger) :
        /\ ledger[i].call = subject[r]
        /\ ReplyFor(ledger[i].verdict) = reply[r]

\* With a single decision request past the 409 check, the receipt and the
\* approval say the same.
LoneDecisionAgrees ==
  \A c \in Calls :
    (\A d, e \in Deciders : subject[d] = c /\ subject[e] = c => d = e) =>
      \A i \in 1..Len(ledger) :
        (ledger[i].call = c /\ ledger[i].verdict \in ByHuman) =>
          approval[c] = ledger[i].verdict

Promise == INSTANCE DecisionLedger WITH
  log <- [i \in 1..Len(ledger) |->
            [call |-> ledger[i].call, verdict |-> ledger[i].verdict]],
  permitted <- {c \in Calls :
                  Holds(c, "ALLOW") \/ <<c, "APPROVED">> \in resolutions},
  performed <- Performed

\* The protocol implements the ledger of atomic decisions: interleaved handlers,
\* aborted transactions and crashes show up as nothing but its steps.
ImplementsLedger == Promise!Spec

\* Every request that reached the Gate is answered, with a 500 if need be.
EveryRequestAnswered ==
  \A r \in Requests : pc[r] # "idle" ~> pc[r] = "answered"

\* No client waits forever, even if no reviewer ever decides.
ClientNeverHangs ==
  \A c \in Calls :
    agent[c] \in {"asking", "polling"} ~> agent[c] \notin {"asking", "polling"}
=============================================================================
