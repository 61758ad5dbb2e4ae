------------------------- MODULE ApprovalGateProofs -------------------------
(***************************************************************************)
(* Proofs about the decision protocol for any number of calls, decision    *)
(* requests, faults and crashes.  The inductive invariant IInv adds to the *)
(* types where each kind of request can stand, what its locals hold there, *)
(* and how the approvals, the writes made to them and the ledger relate.   *)
(***************************************************************************)
EXTENDS ApprovalGate, SequenceTheorems, TLAPS

\* Where a request can stand, and the call it is about there.
PointsOK ==
  /\ \A c \in Calls :
       /\ subject[c] = c
       /\ pc[c] \notin DecidePoints
       /\ agent[c] = "idle" => pc[c] = "idle"
  /\ \A d \in Deciders :
       /\ pc[d] \notin ExecutePoints
       /\ pc[d] \in InFlight => subject[d] \in Calls
       /\ subject[d] \in Calls => approval[subject[d]] # "NONE"

\* The decision a request is about to record.
VerdictsOK ==
  /\ \A c \in Calls : pc[c] \in ReceiptPoints => verdict[c] \in ByPolicy
  /\ \A d \in Deciders :
       /\ pc[d] \in InFlight => verdict[d] \in ByHuman
       /\ pc[d] \in ReceiptPoints \cup {"announceResolved"} =>
            <<subject[d], verdict[d]>> \in resolutions

\* A snapshot is never ahead of the ledger, and one that is still current at
\* commit shows no receipt of the call.
SnapshotsOK ==
  \A r \in Requests :
    /\ snapshot[r] <= Len(ledger)
    /\ (pc[r] = "commit" /\ snapshot[r] = Len(ledger)) => ~HasReceipt(subject[r])

\* A call that has an approval was left by its execute request on the way
\* to no receipt, and only such a call is ever resolved.
ApprovalsOK ==
  \A c \in Calls :
    /\ approval[c] # "NONE" =>
         /\ pc[c] \in {"announceHold", "answered"}
         /\ ~Holds(c, "ALLOW") /\ ~Holds(c, "DENY")
    /\ approval[c] \in ByHuman => <<c, approval[c]>> \in resolutions
    /\ \A v \in ByHuman : <<c, v>> \in resolutions => approval[c] # "NONE"
    /\ pc[c] \in {"idle"} \cup (ExecutePoints \ {"announceHold"}) =>
         /\ approval[c] = "NONE"
         /\ ~Holds(c, "ALLOW") /\ ~Holds(c, "DENY")

\* What an EXECUTE answer and a cleared client rest on.
ClearancesOK ==
  \A c \in Calls :
    /\ reply[c] = "EXECUTE" => Holds(c, "ALLOW")
    /\ agent[c] \in {"cleared", "performed", "finished"} =>
         Holds(c, "ALLOW") \/ <<c, "APPROVED">> \in resolutions

\* Only the receipt of a simulated call is written inside its try.
GuardedOK == \A c \in guarded : pc[c] \in ReceiptPoints \cup {"answered"}

IInv ==
  /\ TypeOK
  /\ PointsOK
  /\ GuardedOK
  /\ VerdictsOK
  /\ SnapshotsOK
  /\ LedgerChained
  /\ ApprovalsOK
  /\ ClearancesOK

-----------------------------------------------------------------------------
(* Types                                                                   *)

\* The initial state is well-typed.
LEMMA TypeInit == Init => TypeOK
  BY ActorsAssumption DEF Init, TypeOK, Requests, Points, Replies, ClientStates

\* Throwing moves one request, and leaves the locals of all well-typed.
LEMMA ThrowTypes ==
  ASSUME TypeOK, NEW r \in Requests, Throw(r)
  PROVE  /\ pc' \in [Requests -> Points]
         /\ verdict' \in [Requests -> Verdicts \cup {"NONE"}]
         /\ snapshot' \in [Requests -> Nat]
         /\ guarded' \subseteq Calls
         /\ reply' \in [Requests -> Replies]
  <1> USE DEF TypeOK, Points, InFlight, ReceiptPoints, Replies
  <1>1. CASE r \in guarded
    <2>1. /\ pc' = [pc EXCEPT ![r] = "receipt"]
          /\ guarded' = guarded \ {r}
          /\ UNCHANGED <<reply, verdict, snapshot>>
      BY <1>1 DEF Throw, GoTo
    <2> QED
      BY <2>1
  <1>2. CASE r \notin guarded
    <2>1. /\ pc' = [pc EXCEPT ![r] = "answered"]
          /\ reply' = [reply EXCEPT ![r] = "ERROR"]
          /\ verdict' = [verdict EXCEPT ![r] = "NONE"]
          /\ snapshot' = [snapshot EXCEPT ![r] = 0]
          /\ UNCHANGED guarded
      BY <1>2 DEF Throw, Answer
    <2> QED
      BY <2>1
  <1> QED
    BY <1>1, <1>2

\* A request that writes a receipt writes one of its own call and decision.
LEMMA WritesAReceipt ==
  ASSUME IInv, NEW r \in Requests, pc[r] \in ReceiptPoints
  PROVE  ReceiptOf(r) \in Receipts
  <1> USE DEF InFlight, ReceiptPoints
  <1>1. snapshot[r] \in Nat
    BY DEF IInv, TypeOK
  <1>2. CASE r \in Calls
    <2>1. subject[r] \in Calls /\ verdict[r] \in ByPolicy
      BY <1>2 DEF IInv, PointsOK, VerdictsOK
    <2> QED
      BY <1>1, <2>1 DEF ReceiptOf, Receipts, Verdicts
  <1>3. CASE r \in Deciders
    <2>1. subject[r] \in Calls /\ verdict[r] \in ByHuman
      BY <1>3 DEF IInv, PointsOK, VerdictsOK
    <2> QED
      BY <1>1, <2>1 DEF ReceiptOf, Receipts, Verdicts
  <1> QED
    BY <1>2, <1>3 DEF Requests

\* Every step of the handlers and the clients keeps the types.
LEMMA TypeStep == IInv /\ [Next]_vars => TypeOK'
  <1> SUFFICES ASSUME IInv, [Next]_vars PROVE TypeOK'
    OBVIOUS
  <1> USE DEF TypeOK, database, GoTo, Requests, Points, InFlight,
              ExecutePoints, DecidePoints, ReceiptPoints, Verdicts, ByPolicy,
              ByHuman, Replies, ClientStates
  <1>0. TypeOK /\ PointsOK /\ VerdictsOK
    BY DEF IInv
  <1>1. ASSUME NEW c \in Calls, Ask(c) PROVE TypeOK'
    BY <1>0, <1>1 DEF Ask
  <1>2. ASSUME NEW c \in Calls, LookUpAgent(c) PROVE TypeOK'
    BY <1>0, <1>2 DEF LookUpAgent
  <1>3. ASSUME NEW c \in Calls, RegisterAgent(c) PROVE TypeOK'
    <2>1. CASE AgentOf[c] \in registered
      <3>1. Throw(c) /\ UNCHANGED registered
        BY <1>3, <2>1 DEF RegisterAgent
      <3>2. UNCHANGED <<toolCalls, approval, ledger, executions, subject, crashes,
                        agent, resolutions>>
        BY <1>3 DEF RegisterAgent
      <3> QED
        BY <1>0, <3>1, <3>2, ThrowTypes
    <2>2. CASE AgentOf[c] \notin registered
      <3>1. /\ pc' = [pc EXCEPT ![c] = "record"]
            /\ registered' = registered \cup {AgentOf[c]}
            /\ UNCHANGED <<reply, guarded, verdict, snapshot>>
        BY <1>3, <2>2 DEF RegisterAgent
      <3>2. UNCHANGED <<toolCalls, approval, ledger, executions, subject, crashes,
                        agent, resolutions>>
        BY <1>3 DEF RegisterAgent
      <3> QED
        BY <1>0, <3>1, <3>2, ActorsAssumption
    <2> QED
      BY <2>1, <2>2
  <1>4. ASSUME NEW c \in Calls, RecordToolCall(c) PROVE TypeOK'
    BY <1>0, <1>4 DEF RecordToolCall
  <1>5. ASSUME NEW c \in Calls, EvaluatePolicy(c) PROVE TypeOK'
    <2>1. UNCHANGED <<registered, toolCalls, approval, ledger, executions, subject,
                      snapshot, guarded, reply, crashes, agent, resolutions>>
      BY <1>5 DEF EvaluatePolicy
    <2>2. PICK point \in {"hold", "receipt", "simulate"} :
            pc' = [pc EXCEPT ![c] = point]
      BY <1>5 DEF EvaluatePolicy
    <2>3. pc' \in [Requests -> Points]
      BY <1>0, <2>2
    <2>4. CASE UNCHANGED verdict
      BY <1>0, <2>1, <2>3, <2>4
    <2>5. CASE verdict' = [verdict EXCEPT ![c] = "DENY"]
      BY <1>0, <2>1, <2>3, <2>5
    <2>6. CASE verdict' = [verdict EXCEPT ![c] = "ALLOW"]
      BY <1>0, <2>1, <2>3, <2>6
    <2> QED
      BY <1>5, <2>4, <2>5, <2>6 DEF EvaluatePolicy
  <1>6. ASSUME NEW c \in Calls, Simulate(c) PROVE TypeOK'
    BY <1>0, <1>6 DEF Simulate
  <1>7. ASSUME NEW c \in Calls, CreateApproval(c) PROVE TypeOK'
    BY <1>0, <1>7 DEF CreateApproval
  <1>8. ASSUME NEW c \in Calls, AnnounceApproval(c) PROVE TypeOK'
    BY <1>0, <1>8 DEF AnnounceApproval, Answer
  <1>9. ASSUME NEW c \in Calls, HearReply(c) PROVE TypeOK'
    BY <1>0, <1>9 DEF HearReply
  <1>10. ASSUME NEW c \in Calls, Poll(c) PROVE TypeOK'
    BY <1>0, <1>10 DEF Poll, GoAhead
  <1>11. ASSUME NEW c \in Calls, PollDeadline(c) PROVE TypeOK'
    BY <1>0, <1>11 DEF PollDeadline
  <1>12. ASSUME NEW c \in Calls, Perform(c) PROVE TypeOK'
    BY <1>0, <1>12 DEF Perform
  <1>13. ASSUME NEW c \in Calls, Report(c) PROVE TypeOK'
    BY <1>0, <1>13 DEF Report
  <1>14. ASSUME NEW c \in Calls, AgentLeaves(c) PROVE TypeOK'
    BY <1>0, <1>14 DEF AgentLeaves
  <1>15. ASSUME NEW d \in Deciders, Resolve(d) PROVE TypeOK'
    <2>1. subject[d] \in Calls /\ verdict[d] \in ByHuman
      BY <1>0, <1>15 DEF Resolve, PointsOK, VerdictsOK
    <2> QED
      BY <1>0, <1>15, <2>1 DEF Resolve
  <1>16. ASSUME NEW d \in Deciders, AnnounceResolution(d) PROVE TypeOK'
    BY <1>0, <1>16 DEF AnnounceResolution, ResolvedEvent
  <1>17. ASSUME NEW r \in Requests, ReadHead(r) PROVE TypeOK'
    BY <1>0, <1>17 DEF ReadHead
  <1>18. ASSUME NEW r \in Requests, InsertReceipt(r) PROVE TypeOK'
    <2>1. UNCHANGED <<registered, toolCalls, approval, ledger, executions, subject,
                      crashes, agent, resolutions>>
      BY <1>18 DEF InsertReceipt
    <2>2. CASE HasReceipt(subject[r])
      <3>1. Throw(r)
        BY <1>18, <2>2 DEF InsertReceipt
      <3> QED
        BY <1>0, <2>1, <3>1, ThrowTypes
    <2>3. CASE ~HasReceipt(subject[r])
      <3>1. /\ pc' = [pc EXCEPT ![r] = "commit"]
            /\ UNCHANGED <<reply, guarded, verdict, snapshot>>
        BY <1>18, <2>3 DEF InsertReceipt
      <3> QED
        BY <1>0, <2>1, <3>1
    <2> QED
      BY <2>2, <2>3
  <1>19. ASSUME NEW r \in Requests, CommitReceipt(r) PROVE TypeOK'
    <2>1. ReceiptOf(r) \in Receipts
      BY <1>19, WritesAReceipt DEF CommitReceipt
    <2>2. ledger' \in Seq(Receipts)
      BY <1>0, <1>19, <2>1, AppendProperties DEF CommitReceipt
    <2>3. ReplyFor(verdict[r]) \in Replies
      BY DEF ReplyFor
    <2> QED
      BY <1>0, <1>19, <2>2, <2>3 DEF CommitReceipt, Answer
  <1>20. ASSUME NEW r \in Requests, CommitUnacknowledged(r) PROVE TypeOK'
    <2>1. ReceiptOf(r) \in Receipts
      BY <1>20, WritesAReceipt DEF CommitUnacknowledged
    <2>2. ledger' \in Seq(Receipts)
      BY <1>0, <1>20, <2>1, AppendProperties DEF CommitUnacknowledged
    <2>3. /\ Throw(r)
          /\ UNCHANGED <<registered, toolCalls, approval, executions, subject,
                         crashes, agent, resolutions>>
      BY <1>20 DEF CommitUnacknowledged
    <2> QED
      BY <1>0, <2>2, <2>3, ThrowTypes
  <1>21. ASSUME NEW r \in Requests, AbortReceipt(r) PROVE TypeOK'
    <2>1. /\ Throw(r)
          /\ UNCHANGED <<registered, toolCalls, approval, ledger, executions,
                         subject, crashes, agent, resolutions>>
      BY <1>21 DEF AbortReceipt
    <2> QED
      BY <1>0, <2>1, ThrowTypes
  <1>22. ASSUME NEW r \in Requests, FaultAt(r) PROVE TypeOK'
    <2>1. /\ Throw(r)
          /\ UNCHANGED <<registered, toolCalls, approval, ledger, executions,
                         subject, crashes, agent, resolutions>>
      BY <1>22 DEF FaultAt, Fail
    <2> QED
      BY <1>0, <2>1, ThrowTypes
  <1>23. ASSUME NEW d \in Deciders, NEW c \in Calls, NEW v \in ByHuman,
               StartDecision(d, c, v)
        PROVE TypeOK'
    <2>1. UNCHANGED <<registered, toolCalls, approval, ledger, executions, guarded,
                      crashes, agent, resolutions>>
      BY <1>23 DEF StartDecision
    <2>2. CASE MayDecide(c)
      BY <1>0, <1>23, <2>1, <2>2 DEF StartDecision
    <2>3. CASE ~MayDecide(c)
      <3>1. /\ pc' = [pc EXCEPT ![d] = "answered"]
            /\ reply' = [reply EXCEPT ![d] = "CONFLICT"]
            /\ verdict' = [verdict EXCEPT ![d] = "NONE"]
            /\ snapshot' = [snapshot EXCEPT ![d] = 0]
            /\ UNCHANGED subject
        BY <1>23, <2>3 DEF StartDecision, Answer
      <3> QED
        BY <1>0, <2>1, <3>1
    <2> QED
      BY <2>2, <2>3
  <1>24. CASE Crash
    BY <1>0, <1>24 DEF Crash
  <1>25. CASE UNCHANGED vars
    BY <1>0, <1>25 DEF vars
  <1> QED
    BY <1>1, <1>2, <1>3, <1>4, <1>5, <1>6, <1>7, <1>8, <1>9, <1>10, <1>11,
       <1>12, <1>13, <1>14, <1>15, <1>16, <1>17, <1>18, <1>19, <1>20, <1>21,
       <1>22, <1>23, <1>24, <1>25
    DEF Next, ExecuteStep, DecideStep, ReceiptStep, ClientStep

-----------------------------------------------------------------------------
(* What a step does to the ledger                                          *)

\* What the ledger holds is untouched by a step that leaves it alone.
LEMMA HoldsSame ==
  ASSUME UNCHANGED ledger
  PROVE  /\ \A c, v : Holds(c, v)' <=> Holds(c, v)
         /\ \A c : HasReceipt(c)' <=> HasReceipt(c)
  BY DEF Holds, HasReceipt

\* One more receipt makes the ledger hold that receipt and nothing else.
LEMMA HoldsAppend ==
  ASSUME ledger \in Seq(Receipts), NEW e \in Receipts, ledger' = Append(ledger, e)
  PROVE  /\ \A c, v : Holds(c, v)' <=>
                        Holds(c, v) \/ (e.call = c /\ e.verdict = v)
         /\ \A c : HasReceipt(c)' <=> HasReceipt(c) \/ e.call = c
         /\ Len(ledger') = Len(ledger) + 1
  <1>1. /\ Len(ledger') = Len(ledger) + 1
        /\ \A i \in 1..Len(ledger) : ledger'[i] = ledger[i]
        /\ ledger'[Len(ledger) + 1] = e
        /\ Len(ledger) \in Nat
    BY AppendProperties, LenProperties
  <1>2. ASSUME NEW i PROVE i \in 1..Len(ledger') <=>
                             i \in 1..Len(ledger) \/ i = Len(ledger) + 1
    BY <1>1
  <1> QED
    BY <1>1, <1>2 DEF Holds, HasReceipt

-----------------------------------------------------------------------------
(* The rest of the invariant, one lemma for each group of actions          *)

\* The execute handler up to its receipt or its hold: the ledger is not touched.
LEMMA ExecuteKeeps ==
  ASSUME IInv, TypeOK', NEW c \in Calls, UNCHANGED ledger,
         \/ Ask(c) \/ LookUpAgent(c) \/ RecordToolCall(c) \/ EvaluatePolicy(c)
         \/ Simulate(c) \/ CreateApproval(c) \/ AnnounceApproval(c)
  PROVE  IInv'
  <1> USE DEF TypeOK, database, GoTo, Answer, Requests, InFlight,
              ExecutePoints, DecidePoints, ReceiptPoints, ByPolicy, ByHuman
  <1>0. TypeOK /\ PointsOK /\ GuardedOK /\ VerdictsOK /\ SnapshotsOK /\ LedgerChained
        /\ ApprovalsOK /\ ClearancesOK
    BY DEF IInv
  <1>h. /\ \A x, v : Holds(x, v)' <=> Holds(x, v)
        /\ \A x : HasReceipt(x)' <=> HasReceipt(x)
    BY HoldsSame
  <1>i. LedgerChained'
    BY <1>0 DEF LedgerChained
  <1>1. CASE Ask(c)
    <2>1. PointsOK' /\ GuardedOK'
      BY <1>0, <1>1, ActorsAssumption DEF Ask, PointsOK, GuardedOK
    <2>2. VerdictsOK' /\ SnapshotsOK'
      BY <1>0, <1>1, <1>h, ActorsAssumption DEF Ask, VerdictsOK, SnapshotsOK
    <2>3. ApprovalsOK' /\ ClearancesOK'
      BY <1>0, <1>1, <1>h, ActorsAssumption DEF Ask, ApprovalsOK, ClearancesOK, PointsOK
    <2> QED
      BY <1>i, <2>1, <2>2, <2>3 DEF IInv
  <1>2. CASE LookUpAgent(c)
    <2>1. PointsOK' /\ GuardedOK'
      BY <1>0, <1>2, ActorsAssumption DEF LookUpAgent, PointsOK, GuardedOK
    <2>2. VerdictsOK' /\ SnapshotsOK'
      BY <1>0, <1>2, <1>h, ActorsAssumption DEF LookUpAgent, VerdictsOK, SnapshotsOK
    <2>3. ApprovalsOK' /\ ClearancesOK'
      BY <1>0, <1>2, <1>h, ActorsAssumption DEF LookUpAgent, ApprovalsOK, ClearancesOK, PointsOK
    <2> QED
      BY <1>i, <2>1, <2>2, <2>3 DEF IInv
  <1>3. CASE RecordToolCall(c)
    <2>1. PointsOK' /\ GuardedOK'
      BY <1>0, <1>3, ActorsAssumption DEF RecordToolCall, PointsOK, GuardedOK
    <2>2. VerdictsOK' /\ SnapshotsOK'
      BY <1>0, <1>3, <1>h, ActorsAssumption DEF RecordToolCall, VerdictsOK, SnapshotsOK
    <2>3. ApprovalsOK' /\ ClearancesOK'
      BY <1>0, <1>3, <1>h, ActorsAssumption DEF RecordToolCall, ApprovalsOK, ClearancesOK, PointsOK
    <2> QED
      BY <1>i, <2>1, <2>2, <2>3 DEF IInv
  <1>4. CASE EvaluatePolicy(c)
    <2>0. /\ pc[c] = "evaluate"
          /\ UNCHANGED <<approval, subject, snapshot, guarded, reply, agent,
                         resolutions>>
      BY <1>4 DEF EvaluatePolicy
    <2>1. PICK point \in {"hold", "receipt", "simulate"}, v \in ByPolicy :
            /\ pc' = [pc EXCEPT ![c] = point]
            /\ verdict' = IF point = "hold" THEN verdict
                                            ELSE [verdict EXCEPT ![c] = v]
      BY <1>4 DEF EvaluatePolicy
    <2>2. PointsOK' /\ GuardedOK'
      BY <1>0, <2>0, <2>1, ActorsAssumption DEF PointsOK, GuardedOK
    <2>3. VerdictsOK' /\ SnapshotsOK'
      BY <1>0, <2>0, <2>1, <1>h, ActorsAssumption DEF VerdictsOK, SnapshotsOK
    <2>4. ApprovalsOK' /\ ClearancesOK'
      BY <1>0, <2>0, <2>1, <1>h DEF ApprovalsOK, ClearancesOK
    <2> QED
      BY <1>i, <2>2, <2>3, <2>4 DEF IInv
  <1>5. CASE Simulate(c)
    <2>1. PointsOK' /\ GuardedOK'
      BY <1>0, <1>5, ActorsAssumption DEF Simulate, PointsOK, GuardedOK
    <2>2. VerdictsOK' /\ SnapshotsOK'
      BY <1>0, <1>5, <1>h, ActorsAssumption DEF Simulate, VerdictsOK, SnapshotsOK
    <2>3. ApprovalsOK' /\ ClearancesOK'
      BY <1>0, <1>5, <1>h, ActorsAssumption DEF Simulate, ApprovalsOK, ClearancesOK, PointsOK
    <2> QED
      BY <1>i, <2>1, <2>2, <2>3 DEF IInv
  <1>6. CASE CreateApproval(c)
    <2>1. PointsOK' /\ GuardedOK'
      BY <1>0, <1>6, ActorsAssumption DEF CreateApproval, PointsOK, GuardedOK
    <2>2. VerdictsOK' /\ SnapshotsOK'
      BY <1>0, <1>6, <1>h, ActorsAssumption DEF CreateApproval, VerdictsOK, SnapshotsOK
    <2>3. ApprovalsOK' /\ ClearancesOK'
      BY <1>0, <1>6, <1>h, ActorsAssumption DEF CreateApproval, ApprovalsOK, ClearancesOK, PointsOK
    <2> QED
      BY <1>i, <2>1, <2>2, <2>3 DEF IInv
  <1>7. CASE AnnounceApproval(c)
    <2>1. PointsOK' /\ GuardedOK'
      BY <1>0, <1>7, ActorsAssumption DEF AnnounceApproval, PointsOK, GuardedOK
    <2>2. VerdictsOK' /\ SnapshotsOK'
      BY <1>0, <1>7, <1>h, ActorsAssumption DEF AnnounceApproval, VerdictsOK, SnapshotsOK
    <2>3. ApprovalsOK' /\ ClearancesOK'
      BY <1>0, <1>7, <1>h, ActorsAssumption
         DEF AnnounceApproval, ApprovalsOK, ClearancesOK, PointsOK
    <2> QED
      BY <1>i, <2>1, <2>2, <2>3 DEF IInv
  <1> QED
    BY <1>1, <1>2, <1>3, <1>4, <1>5, <1>6, <1>7

\* A handler that throws: it answers 500, or goes back to write a receipt.
LEMMA ThrowKeeps ==
  ASSUME IInv, TypeOK', NEW r \in Requests, pc[r] \in InFlight, Throw(r),
         UNCHANGED <<approval, ledger, subject, agent, resolutions>>
  PROVE  IInv'
  <1> USE DEF TypeOK, database, GoTo, Answer, Requests, InFlight,
              ExecutePoints, DecidePoints, ReceiptPoints, ByPolicy, ByHuman
  <1>0. TypeOK /\ PointsOK /\ GuardedOK /\ VerdictsOK /\ SnapshotsOK /\ LedgerChained
        /\ ApprovalsOK /\ ClearancesOK
    BY DEF IInv
  <1>h. /\ \A x, v : Holds(x, v)' <=> Holds(x, v)
        /\ \A x : HasReceipt(x)' <=> HasReceipt(x)
    BY HoldsSame
  <1>i. LedgerChained'
    BY <1>0 DEF LedgerChained
  <1>1. CASE r \in guarded
    <2>1. /\ pc' = [pc EXCEPT ![r] = "receipt"]
          /\ guarded' = guarded \ {r}
          /\ UNCHANGED <<reply, verdict, snapshot>>
          /\ r \in Calls /\ pc[r] \in ReceiptPoints
      BY <1>0, <1>1 DEF Throw, GuardedOK
    <2>a. PointsOK' /\ GuardedOK'
      BY <1>0, <2>1, ActorsAssumption DEF PointsOK, GuardedOK
    <2>b. VerdictsOK' /\ SnapshotsOK'
      BY <1>0, <2>1, <1>h, ActorsAssumption DEF VerdictsOK, SnapshotsOK
    <2>c. ApprovalsOK' /\ ClearancesOK'
      BY <1>0, <2>1, <1>h, ActorsAssumption DEF ApprovalsOK, ClearancesOK, PointsOK
    <2> QED
      BY <1>i, <2>a, <2>b, <2>c DEF IInv
  <1>2. CASE r \notin guarded
    <2>1. /\ pc' = [pc EXCEPT ![r] = "answered"]
          /\ reply' = [reply EXCEPT ![r] = "ERROR"]
          /\ verdict' = [verdict EXCEPT ![r] = "NONE"]
          /\ snapshot' = [snapshot EXCEPT ![r] = 0]
          /\ UNCHANGED guarded
      BY <1>2 DEF Throw
    <2>a. PointsOK' /\ GuardedOK'
      BY <1>0, <2>1, ActorsAssumption DEF PointsOK, GuardedOK
    <2>b. VerdictsOK' /\ SnapshotsOK'
      BY <1>0, <2>1, <1>h, ActorsAssumption DEF VerdictsOK, SnapshotsOK
    <2>c. ApprovalsOK' /\ ClearancesOK'
      BY <1>0, <2>1, <1>h, ActorsAssumption DEF ApprovalsOK, ClearancesOK, PointsOK
    <2> QED
      BY <1>i, <2>a, <2>b, <2>c DEF IInv
  <1> QED
    BY <1>1, <1>2

\* Registration of the agent, which may throw.
LEMMA RegisterKeeps ==
  ASSUME IInv, TypeOK', NEW c \in Calls, RegisterAgent(c)
  PROVE  IInv'
  <1> USE DEF TypeOK, database, GoTo, Answer, Requests, InFlight,
              ExecutePoints, DecidePoints, ReceiptPoints, ByPolicy, ByHuman
  <1>0. TypeOK /\ PointsOK /\ GuardedOK /\ VerdictsOK /\ SnapshotsOK /\ LedgerChained
        /\ ApprovalsOK /\ ClearancesOK
    BY DEF IInv
  <1>1. pc[c] = "register" /\ UNCHANGED <<approval, ledger, subject, agent, resolutions>>
    BY DEF RegisterAgent
  <1>h. /\ \A x, v : Holds(x, v)' <=> Holds(x, v)
        /\ \A x : HasReceipt(x)' <=> HasReceipt(x)
    BY <1>1, HoldsSame
  <1>i. LedgerChained'
    BY <1>0, <1>1 DEF LedgerChained
  <1>2. CASE AgentOf[c] \in registered
    BY <1>1, <1>2, ThrowKeeps DEF RegisterAgent
  <1>3. CASE AgentOf[c] \notin registered
    <2>1. pc' = [pc EXCEPT ![c] = "record"] /\ UNCHANGED <<reply, guarded, verdict, snapshot>>
      BY <1>3 DEF RegisterAgent
    <2>a. PointsOK' /\ GuardedOK'
      BY <1>0, <1>1, <2>1, ActorsAssumption DEF PointsOK, GuardedOK
    <2>b. VerdictsOK' /\ SnapshotsOK'
      BY <1>0, <1>1, <2>1, <1>h, ActorsAssumption DEF VerdictsOK, SnapshotsOK
    <2>c. ApprovalsOK' /\ ClearancesOK'
      BY <1>0, <1>1, <2>1, <1>h, ActorsAssumption DEF ApprovalsOK, ClearancesOK, PointsOK
    <2> QED
      BY <1>i, <2>a, <2>b, <2>c DEF IInv
  <1> QED
    BY <1>2, <1>3

\* The statements of a decision request up to its receipt.
LEMMA DecideKeeps ==
  ASSUME IInv, TypeOK', NEW d \in Deciders,
         \/ Resolve(d) \/ AnnounceResolution(d)
         \/ \E c \in Calls, v \in ByHuman : StartDecision(d, c, v)
  PROVE  IInv'
  <1> USE DEF TypeOK, database, GoTo, Answer, Requests, InFlight,
              ExecutePoints, DecidePoints, ReceiptPoints, ByPolicy, ByHuman
  <1>0. TypeOK /\ PointsOK /\ GuardedOK /\ VerdictsOK /\ SnapshotsOK /\ LedgerChained
        /\ ApprovalsOK /\ ClearancesOK
    BY DEF IInv
  <1>u. UNCHANGED <<ledger, guarded, agent>>
    BY DEF Resolve, AnnounceResolution, StartDecision
  <1>h. /\ \A x, v : Holds(x, v)' <=> Holds(x, v)
        /\ \A x : HasReceipt(x)' <=> HasReceipt(x)
    BY <1>u, HoldsSame
  <1>i. LedgerChained'
    BY <1>0, <1>u DEF LedgerChained
  <1>1. CASE Resolve(d)
    <2>1. subject[d] \in Calls /\ verdict[d] \in ByHuman /\ approval[subject[d]] # "NONE"
      BY <1>0, <1>1 DEF Resolve, PointsOK, VerdictsOK
    <2>a. PointsOK' /\ GuardedOK'
      BY <1>0, <1>1, <2>1, ActorsAssumption DEF Resolve, PointsOK, GuardedOK
    <2>b. VerdictsOK' /\ SnapshotsOK'
      BY <1>0, <1>1, <2>1, <1>h, ActorsAssumption DEF Resolve, VerdictsOK, SnapshotsOK
    <2>2. /\ pc' = [pc EXCEPT ![d] = "announceResolved"]
          /\ approval' = [approval EXCEPT ![subject[d]] = verdict[d]]
          /\ resolutions' = resolutions \cup {<<subject[d], verdict[d]>>}
          /\ UNCHANGED <<reply, agent>>
      BY <1>1 DEF Resolve
    <2>3. ASSUME NEW c \in Calls PROVE pc'[c] = pc[c]
      BY <1>0, <2>2, ActorsAssumption
    <2>4. ASSUME NEW c \in Calls, NEW v \in ByHuman
          PROVE  <<c, v>> \in resolutions' <=>
                   <<c, v>> \in resolutions \/ (c = subject[d] /\ v = verdict[d])
      BY <2>2
    <2>5. ASSUME NEW c \in Calls
          PROVE  approval'[c] = IF c = subject[d] THEN verdict[d] ELSE approval[c]
      BY <1>0, <2>1, <2>2
    <2>6. ASSUME NEW c \in Calls
          PROVE  /\ approval'[c] # "NONE" <=> approval[c] # "NONE"
                 /\ approval'[c] \in ByHuman => <<c, approval'[c]>> \in resolutions'
                 /\ \A v \in ByHuman : <<c, v>> \in resolutions' => approval[c] # "NONE"
      <3>1. CASE c = subject[d]
        <4>1. approval'[c] = verdict[d]
          BY <2>5, <3>1
        <4>2. <<c, verdict[d]>> \in resolutions'
          BY <2>2, <3>1
        <4> QED
          BY <2>1, <3>1, <4>1, <4>2
      <3>2. CASE c # subject[d]
        <4>1. approval'[c] = approval[c]
          BY <2>5, <3>2
        <4>2. \A v \in ByHuman : <<c, v>> \in resolutions' <=> <<c, v>> \in resolutions
          BY <2>4, <3>2
        <4> QED
          BY <1>0, <4>1, <4>2 DEF ApprovalsOK
      <3> QED
        BY <3>1, <3>2
    <2>8. ApprovalsOK'
      BY <1>0, <1>h, <2>3, <2>6 DEF ApprovalsOK
    <2>7. ClearancesOK'
      BY <1>0, <1>h, <2>2, <2>4 DEF ClearancesOK
    <2>c. ApprovalsOK' /\ ClearancesOK'
      BY <2>7, <2>8
    <2> QED
      BY <1>i, <2>a, <2>b, <2>c DEF IInv
  <1>2. CASE AnnounceResolution(d)
    <2>a. PointsOK' /\ GuardedOK'
      BY <1>0, <1>2, ActorsAssumption DEF AnnounceResolution, PointsOK, GuardedOK
    <2>b. VerdictsOK' /\ SnapshotsOK'
      BY <1>0, <1>2, <1>h, ActorsAssumption DEF AnnounceResolution, VerdictsOK, SnapshotsOK
    <2>c. ApprovalsOK' /\ ClearancesOK'
      BY <1>0, <1>2, <1>h, ActorsAssumption
         DEF AnnounceResolution, ApprovalsOK, ClearancesOK, PointsOK
    <2> QED
      BY <1>i, <2>a, <2>b, <2>c DEF IInv
  <1>3. ASSUME NEW c \in Calls, NEW v \in ByHuman, StartDecision(d, c, v)
        PROVE  IInv'
    <2>1. pc[d] = "idle" /\ approval[c] # "NONE" /\ UNCHANGED <<approval, resolutions>>
      BY <1>3 DEF StartDecision
    <2>2. CASE MayDecide(c)
      <3>1. /\ pc' = [pc EXCEPT ![d] = "resolve"]
            /\ subject' = [subject EXCEPT ![d] = c]
            /\ verdict' = [verdict EXCEPT ![d] = v]
            /\ UNCHANGED <<reply, snapshot>>
        BY <1>3, <2>2 DEF StartDecision
      <3>a. PointsOK' /\ GuardedOK'
        BY <1>0, <1>u, <2>1, <3>1, ActorsAssumption DEF PointsOK, GuardedOK
      <3>b. VerdictsOK' /\ SnapshotsOK'
        BY <1>0, <1>u, <2>1, <3>1, <1>h, ActorsAssumption DEF VerdictsOK, SnapshotsOK
      <3>c. ApprovalsOK' /\ ClearancesOK'
        BY <1>0, <1>u, <2>1, <3>1, <1>h, ActorsAssumption DEF ApprovalsOK, ClearancesOK, PointsOK
      <3> QED
        BY <1>i, <3>a, <3>b, <3>c DEF IInv
    <2>3. CASE ~MayDecide(c)
      <3>1. /\ pc' = [pc EXCEPT ![d] = "answered"]
            /\ reply' = [reply EXCEPT ![d] = "CONFLICT"]
            /\ verdict' = [verdict EXCEPT ![d] = "NONE"]
            /\ snapshot' = [snapshot EXCEPT ![d] = 0]
            /\ UNCHANGED subject
        BY <1>3, <2>3 DEF StartDecision
      <3>a. PointsOK' /\ GuardedOK'
        BY <1>0, <1>u, <2>1, <3>1, ActorsAssumption DEF PointsOK, GuardedOK
      <3>b. VerdictsOK' /\ SnapshotsOK'
        BY <1>0, <1>u, <2>1, <3>1, <1>h, ActorsAssumption DEF VerdictsOK, SnapshotsOK
      <3>c. ApprovalsOK' /\ ClearancesOK'
        BY <1>0, <1>u, <2>1, <3>1, <1>h, ActorsAssumption DEF ApprovalsOK, ClearancesOK, PointsOK
      <3> QED
        BY <1>i, <3>a, <3>b, <3>c DEF IInv
    <2> QED
      BY <2>2, <2>3
  <1> QED
    BY <1>1, <1>2, <1>3

\* The statements of createReceipt.  A commit adds the receipt of a request
\* whose snapshot is current, so the call had none, and ends every other
\* transaction's chance to commit.
LEMMA CommitKeeps ==
  ASSUME IInv, TypeOK', NEW r \in Requests, pc[r] = "commit", Serializable(r),
         ledger' = Append(ledger, ReceiptOf(r)),
         UNCHANGED <<approval, subject, agent, resolutions>>,
         \/ Answer(r, ReplyFor(verdict[r])) /\ UNCHANGED guarded
         \/ Throw(r)
  PROVE  IInv'
  <1> USE DEF TypeOK, database, GoTo, Answer, Requests, InFlight,
              ExecutePoints, DecidePoints, ReceiptPoints, ByPolicy, ByHuman
  <1>0. TypeOK /\ PointsOK /\ GuardedOK /\ VerdictsOK /\ SnapshotsOK /\ LedgerChained
        /\ ApprovalsOK /\ ClearancesOK
    BY DEF IInv
  <1>1. /\ ReceiptOf(r) \in Receipts
        /\ snapshot[r] = Len(ledger) /\ Len(ledger) \in Nat
        /\ ~HasReceipt(subject[r]) /\ subject[r] \in Calls
    <2>1. subject[r] \in Calls
      BY <1>0 DEF PointsOK
    <2> QED
      BY <1>0, <2>1, WritesAReceipt, LenProperties DEF Serializable, SnapshotsOK
  <1>h. /\ \A x, v : Holds(x, v)' <=>
                       Holds(x, v) \/ (subject[r] = x /\ verdict[r] = v)
        /\ \A x : HasReceipt(x)' <=> HasReceipt(x) \/ subject[r] = x
        /\ Len(ledger') = Len(ledger) + 1
    BY <1>0, <1>1, HoldsAppend, Zenon DEF ReceiptOf
  <1>i. LedgerChained'
    <2>1. /\ \A i \in 1..Len(ledger) : ledger'[i] = ledger[i]
          /\ ledger'[Len(ledger) + 1] = ReceiptOf(r)
      BY <1>0, <1>1, AppendProperties
    <2>2. ASSUME NEW i \in 1..Len(ledger) PROVE ledger[i].call # subject[r]
      BY <1>1 DEF HasReceipt
    <2>3. ReceiptOf(r).call = subject[r] /\ ReceiptOf(r).prev = Len(ledger)
      BY <1>1 DEF ReceiptOf
    <2> QED
      BY <1>0, <1>1, <1>h, <2>1, <2>2, <2>3 DEF LedgerChained
  <1>m. /\ pc'[r] \in {"answered", "receipt"}
        /\ \A q \in Requests : q # r => /\ pc'[q] = pc[q]
                                        /\ verdict'[q] = verdict[q]
                                        /\ reply'[q] = reply[q]
                                        /\ snapshot'[q] = snapshot[q]
        /\ snapshot'[r] \in {0, snapshot[r]}
        /\ \/ reply'[r] \in {ReplyFor(verdict[r]), "ERROR"}
           \/ reply'[r] = reply[r]
        /\ pc'[r] = "receipt" => r \in guarded /\ verdict'[r] = verdict[r]
        /\ guarded' \subseteq guarded
    <2>1. CASE Answer(r, ReplyFor(verdict[r])) /\ UNCHANGED guarded
      BY <1>0, <2>1
    <2>2. CASE Throw(r) /\ r \in guarded
      BY <1>0, <2>2 DEF Throw
    <2>3. CASE Throw(r) /\ r \notin guarded
      BY <1>0, <2>3 DEF Throw
    <2> QED
      BY <2>1, <2>2, <2>3
  <1>2. PointsOK' /\ GuardedOK'
    <2>1. ASSUME NEW c \in Calls
          PROVE  pc'[c] \notin DecidePoints /\ (agent[c] = "idle" => pc'[c] = "idle")
      BY <1>0, <1>m, <2>1 DEF PointsOK
    <2>2. ASSUME NEW d \in Deciders
          PROVE  pc'[d] \notin ExecutePoints /\ (pc'[d] \in InFlight => subject[d] \in Calls)
      BY <1>0, <1>1, <1>m, <2>2 DEF PointsOK
    <2>3. GuardedOK'
      BY <1>0, <1>m DEF GuardedOK
    <2> QED
      BY <1>0, <2>1, <2>2, <2>3 DEF PointsOK
  <1>3. VerdictsOK'
    <2>1. ASSUME NEW q \in Requests, pc'[q] \in InFlight
          PROVE  /\ pc[q] \in InFlight /\ verdict'[q] = verdict[q]
                 /\ pc'[q] \in ReceiptPoints \cup {"announceResolved"} =>
                      pc[q] \in ReceiptPoints \cup {"announceResolved"}
                 /\ pc'[q] \in ReceiptPoints => pc[q] \in ReceiptPoints
      BY <1>m, <2>1
    <2> QED
      BY <1>0, <2>1 DEF VerdictsOK
  <1>4. SnapshotsOK'
    <2>1. ASSUME NEW q \in Requests
          PROVE  snapshot'[q] <= Len(ledger) /\ snapshot'[q] \in Nat
      BY <1>0, <1>1, <1>m DEF SnapshotsOK
    <2>2. ASSUME NEW q \in Requests
          PROVE  /\ snapshot'[q] <= Len(ledger')
                 /\ snapshot'[q] # Len(ledger')
      BY <1>1, <1>h, <2>1
    <2> QED
      BY <2>2 DEF SnapshotsOK
  <1>5. ApprovalsOK'
    <2>1. ASSUME NEW c \in Calls, c = subject[r], verdict[r] \in ByPolicy
          PROVE  c = r
      BY <1>0, <2>1 DEF PointsOK, VerdictsOK
    <2>2. ASSUME NEW c \in Calls, NEW v \in ByPolicy,
                 \/ approval[c] # "NONE"
                 \/ pc[c] \in {"idle"} \cup (ExecutePoints \ {"announceHold"})
          PROVE  ~Holds(c, v)' /\ ~Holds(c, v)
      <3>1. ~Holds(c, v)
        BY <1>0, <2>2 DEF ApprovalsOK
      <3>2. ~(subject[r] = c /\ verdict[r] = v)
        BY <1>0, <2>1, <2>2 DEF ApprovalsOK
      <3> QED
        BY <1>h, <3>1, <3>2
    <2>3. ASSUME NEW c \in Calls
          PROVE  \/ pc'[c] = pc[c]
                 \/ pc'[c] \in {"answered", "receipt"} /\ c = r
      BY <1>m
    <2>4. approval[r] = "NONE" \/ r \notin Calls
      BY <1>0 DEF ApprovalsOK
    <2>5. ASSUME NEW c \in Calls, approval[c] # "NONE"
          PROVE  /\ pc'[c] \in {"announceHold", "answered"}
                 /\ ~Holds(c, "ALLOW")' /\ ~Holds(c, "DENY")'
      <3>1. ~Holds(c, "ALLOW")' /\ ~Holds(c, "DENY")'
        BY <2>2, <2>5
      <3> QED
        BY <1>0, <2>3, <2>4, <2>5, <3>1 DEF ApprovalsOK
    <2>6. ASSUME NEW c \in Calls,
                 pc'[c] \in {"idle"} \cup (ExecutePoints \ {"announceHold"})
          PROVE  /\ approval[c] = "NONE"
                 /\ ~Holds(c, "ALLOW")' /\ ~Holds(c, "DENY")'
      <3>1. pc'[c] = pc[c]
        BY <2>3, <2>6
      <3>2. ~Holds(c, "ALLOW")' /\ ~Holds(c, "DENY")'
        BY <2>2, <2>6, <3>1
      <3> QED
        BY <1>0, <2>6, <3>1, <3>2 DEF ApprovalsOK
    <2>7. UNCHANGED <<approval, resolutions>>
      OBVIOUS
    <2> QED
      BY <1>0, <2>5, <2>6, <2>7 DEF ApprovalsOK
  <1>6. ClearancesOK'
    <2>1. ASSUME NEW c \in Calls, reply'[c] = "EXECUTE"
          PROVE  Holds(c, "ALLOW")'
      <3>1. CASE reply[c] = "EXECUTE"
        BY <1>0, <1>h, <3>1 DEF ClearancesOK
      <3>2. CASE reply[c] # "EXECUTE"
        <4>1. c = r /\ ReplyFor(verdict[r]) = "EXECUTE"
          BY <1>m, <2>1, <3>2
        <4>2. verdict[r] = "ALLOW" /\ subject[r] = c
          BY <1>0, <4>1 DEF ReplyFor, VerdictsOK, PointsOK
        <4> QED
          BY <1>h, <4>2
      <3> QED
        BY <3>1, <3>2
    <2>2. ASSUME NEW c \in Calls, agent'[c] \in {"cleared", "performed", "finished"}
          PROVE  Holds(c, "ALLOW")' \/ <<c, "APPROVED">> \in resolutions'
      <3>1. Holds(c, "ALLOW") \/ <<c, "APPROVED">> \in resolutions
        BY <1>0, <2>2 DEF ClearancesOK
      <3> QED
        BY <1>h, <3>1
    <2> QED
      BY <2>1, <2>2 DEF ClearancesOK
  <1> QED
    BY <1>i, <1>2, <1>3, <1>4, <1>5, <1>6 DEF IInv

\* createReceipt from the read of the chain's head to its end.
LEMMA ReceiptKeeps ==
  ASSUME IInv, TypeOK', NEW r \in Requests, ReceiptStep(r)
  PROVE  IInv'
  <1> USE DEF TypeOK, database, GoTo, Answer, Requests, InFlight,
              ExecutePoints, DecidePoints, ReceiptPoints, ByPolicy, ByHuman
  <1>0. TypeOK /\ PointsOK /\ GuardedOK /\ VerdictsOK /\ SnapshotsOK /\ LedgerChained
        /\ ApprovalsOK /\ ClearancesOK
    BY DEF IInv
  <1>1. CASE ReadHead(r)
    <2>1. /\ pc[r] = "receipt"
          /\ pc' = [pc EXCEPT ![r] = "insert"]
          /\ snapshot' = [snapshot EXCEPT ![r] = Len(ledger)]
          /\ UNCHANGED <<approval, ledger, subject, agent, resolutions, verdict,
                         guarded, reply>>
      BY <1>1 DEF ReadHead
    <2>h. /\ \A x, v : Holds(x, v)' <=> Holds(x, v)
          /\ \A x : HasReceipt(x)' <=> HasReceipt(x)
      BY <2>1, HoldsSame
    <2>i. LedgerChained'
      BY <1>0, <2>1 DEF LedgerChained
    <2>l. Len(ledger) \in Nat
      BY <1>0, LenProperties
    <2>a. PointsOK' /\ GuardedOK'
      BY <1>0, <2>1, <2>l, ActorsAssumption DEF PointsOK, GuardedOK
    <2>b. VerdictsOK' /\ SnapshotsOK'
      BY <1>0, <2>1, <2>l, <2>h, ActorsAssumption DEF VerdictsOK, SnapshotsOK
    <2>c. ApprovalsOK' /\ ClearancesOK'
      BY <1>0, <2>1, <2>l, <2>h, ActorsAssumption DEF ApprovalsOK, ClearancesOK, PointsOK
    <2> QED
      BY <2>i, <2>a, <2>b, <2>c DEF IInv
  <1>2. CASE InsertReceipt(r)
    <2>1. pc[r] = "insert" /\ UNCHANGED <<approval, ledger, subject, agent, resolutions>>
      BY <1>2 DEF InsertReceipt
    <2>2. CASE HasReceipt(subject[r])
      BY <1>2, <2>1, <2>2, ThrowKeeps DEF InsertReceipt
    <2>3. CASE ~HasReceipt(subject[r])
      <3>1. pc' = [pc EXCEPT ![r] = "commit"] /\ UNCHANGED <<reply, guarded, verdict, snapshot>>
        BY <1>2, <2>3 DEF InsertReceipt
      <3>h. /\ \A x, v : Holds(x, v)' <=> Holds(x, v)
            /\ \A x : HasReceipt(x)' <=> HasReceipt(x)
        BY <2>1, HoldsSame
      <3>i. LedgerChained'
        BY <1>0, <2>1 DEF LedgerChained
      <3>a. PointsOK' /\ GuardedOK'
        BY <1>0, <2>1, <2>3, <3>1, ActorsAssumption DEF PointsOK, GuardedOK
      <3>b. VerdictsOK' /\ SnapshotsOK'
        BY <1>0, <2>1, <2>3, <3>1, <3>h, ActorsAssumption DEF VerdictsOK, SnapshotsOK
      <3>c. ApprovalsOK' /\ ClearancesOK'
        BY <1>0, <2>1, <2>3, <3>1, <3>h, ActorsAssumption DEF ApprovalsOK, ClearancesOK, PointsOK
      <3> QED
        BY <3>i, <3>a, <3>b, <3>c DEF IInv
    <2> QED
      BY <2>2, <2>3
  <1>3. CASE CommitReceipt(r)
    BY <1>3, CommitKeeps DEF CommitReceipt
  <1>4. CASE CommitUnacknowledged(r)
    BY <1>4, CommitKeeps DEF CommitUnacknowledged
  <1>5. CASE AbortReceipt(r)
    BY <1>5, ThrowKeeps DEF AbortReceipt
  <1> QED
    BY <1>1, <1>2, <1>3, <1>4, <1>5 DEF ReceiptStep

\* A client's step touches only the client: it is cleared by an EXECUTE answer
\* or by a poll that reads APPROVED.
LEMMA ClientKeeps ==
  ASSUME IInv, TypeOK', NEW c \in Calls, ClientStep(c) \/ AgentLeaves(c)
  PROVE  IInv'
  <1> USE DEF TypeOK, database, GoTo, Answer, Requests, InFlight,
              ExecutePoints, DecidePoints, ReceiptPoints, ByPolicy, ByHuman
  <1>0. TypeOK /\ PointsOK /\ GuardedOK /\ VerdictsOK /\ SnapshotsOK /\ LedgerChained
        /\ ApprovalsOK /\ ClearancesOK
    BY DEF IInv
  <1>u. UNCHANGED <<approval, ledger, pc, subject, verdict, snapshot, guarded, reply,
                    resolutions>>
    BY DEF ClientStep, HearReply, Poll, PollDeadline, Perform, Report, AgentLeaves
  <1>h. /\ \A x, v : Holds(x, v)' <=> Holds(x, v)
        /\ \A x : HasReceipt(x)' <=> HasReceipt(x)
    BY <1>u, HoldsSame
  <1>i. LedgerChained'
    BY <1>0, <1>u DEF LedgerChained
  <1>1. PICK s \in ClientStates :
          /\ agent' = [agent EXCEPT ![c] = s]
          /\ agent[c] # "idle" /\ s # "idle"
          /\ s \in {"cleared", "performed", "finished"} =>
               \/ agent[c] \in {"cleared", "performed", "finished"}
               \/ reply[c] = "EXECUTE"
               \/ approval[c] = "APPROVED"
    <2> USE DEF ClientStates
    <2>1. CASE HearReply(c)
      <3>1. CASE reply[c] = "EXECUTE"
        BY <2>1, <3>1 DEF HearReply
      <3>2. CASE reply[c] = "PENDING_APPROVAL"
        BY <2>1, <3>2 DEF HearReply
      <3>3. CASE reply[c] \notin {"EXECUTE", "PENDING_APPROVAL"}
        BY <2>1, <3>3 DEF HearReply
      <3> QED
        BY <3>1, <3>2, <3>3
    <2>2. CASE Poll(c)
      BY <2>2 DEF Poll, GoAhead
    <2>3. CASE PollDeadline(c)
      BY <2>3 DEF PollDeadline
    <2>4. CASE Perform(c)
      BY <2>4 DEF Perform
    <2>5. CASE Report(c)
      BY <2>5 DEF Report
    <2>6. CASE AgentLeaves(c)
      BY <2>6 DEF AgentLeaves
    <2> QED
      BY <2>1, <2>2, <2>3, <2>4, <2>5, <2>6 DEF ClientStep
  <1>a. PointsOK' /\ GuardedOK'
    BY <1>0, <1>u, <1>1, ActorsAssumption DEF PointsOK, GuardedOK
  <1>b. VerdictsOK' /\ SnapshotsOK'
    BY <1>0, <1>u, <1>1, <1>h, ActorsAssumption DEF VerdictsOK, SnapshotsOK
  <1>2. ApprovalsOK'
    BY <1>0, <1>u, <1>h DEF ApprovalsOK
  <1>3. ASSUME NEW x \in Calls, agent'[x] \in {"cleared", "performed", "finished"}
        PROVE  Holds(x, "ALLOW") \/ <<x, "APPROVED">> \in resolutions
    <2>1. CASE x = c
      BY <1>0, <1>1, <1>3, <2>1 DEF ClearancesOK, ApprovalsOK
    <2>2. CASE x # c
      BY <1>0, <1>1, <1>3, <2>2 DEF ClearancesOK
    <2> QED
      BY <2>1, <2>2
  <1>4. ClearancesOK'
    BY <1>0, <1>u, <1>h, <1>3 DEF ClearancesOK
  <1>c. ApprovalsOK' /\ ClearancesOK'
    BY <1>2, <1>4
  <1> QED
    BY <1>i, <1>a, <1>b, <1>c DEF IInv

\* A crash answers every request in flight with nothing but an error.
LEMMA CrashKeeps ==
  ASSUME IInv, TypeOK', Crash
  PROVE  IInv'
  <1> USE DEF TypeOK, database, GoTo, Answer, Requests, InFlight,
              ExecutePoints, DecidePoints, ReceiptPoints, ByPolicy, ByHuman
  <1>0. TypeOK /\ PointsOK /\ GuardedOK /\ VerdictsOK /\ SnapshotsOK /\ LedgerChained
        /\ ApprovalsOK /\ ClearancesOK
    BY DEF IInv
  <1>u. UNCHANGED <<approval, ledger, subject, agent, resolutions>>
    BY DEF Crash
  <1>h. /\ \A x, v : Holds(x, v)' <=> Holds(x, v)
        /\ \A x : HasReceipt(x)' <=> HasReceipt(x)
    BY <1>u, HoldsSame
  <1>i. LedgerChained'
    BY <1>0, <1>u DEF LedgerChained
  <1>1. ASSUME NEW r \in Requests
        PROVE  /\ \/ pc'[r] = "answered" /\ reply'[r] = "ERROR" /\ pc[r] \in InFlight
                  \/ /\ pc'[r] = pc[r] /\ reply'[r] = reply[r]
                     /\ pc[r] \notin InFlight
               /\ snapshot'[r] = 0
    BY DEF Crash
  <1>2. guarded' = {} /\ Len(ledger) \in Nat
    BY <1>0, LenProperties DEF Crash
  <1>a. PointsOK' /\ GuardedOK'
    BY <1>0, <1>u, <1>1, <1>2, ActorsAssumption DEF PointsOK, GuardedOK
  <1>b. VerdictsOK' /\ SnapshotsOK'
    <2>1. ASSUME NEW r \in Requests PROVE pc'[r] \notin InFlight /\ snapshot'[r] = 0
      BY <1>1
    <2>2. VerdictsOK'
      BY <2>1 DEF VerdictsOK
    <2>3. SnapshotsOK'
      BY <1>2, <1>u, <2>1 DEF SnapshotsOK
    <2> QED
      BY <2>2, <2>3
  <1>3. ApprovalsOK'
    <2>1. ASSUME NEW c \in Calls
          PROVE  /\ pc'[c] = pc[c] \/ pc'[c] = "answered"
      BY <1>1
    <2> QED
      BY <1>0, <1>u, <1>h, <2>1 DEF ApprovalsOK
  <1>4. ClearancesOK'
    <2>1. ASSUME NEW c \in Calls, reply'[c] = "EXECUTE"
          PROVE  reply[c] = "EXECUTE"
      BY <1>1, <2>1
    <2>2. \A c \in Calls : Holds(c, "ALLOW")' <=> Holds(c, "ALLOW")
      BY <1>h
    <2> QED
      BY <1>0, <1>u, <2>1, <2>2 DEF ClearancesOK
  <1>c. ApprovalsOK' /\ ClearancesOK'
    BY <1>3, <1>4
  <1> QED
    BY <1>i, <1>a, <1>b, <1>c DEF IInv

-----------------------------------------------------------------------------
(* The theorems                                                            *)

\* The initial state satisfies the invariant: nobody has asked anything yet.
LEMMA InvInit == Init => IInv
  <1> SUFFICES ASSUME Init PROVE IInv
    OBVIOUS
  <1>1. TypeOK
    BY TypeInit
  <1>2. ledger = <<>> /\ Len(ledger) = 0 /\ \A c, v : ~Holds(c, v)
    BY DEF Init, Holds
  <1>3. /\ \A r \in Requests : pc[r] = "idle" /\ snapshot[r] = 0
        /\ \A c \in Calls : subject[c] = c
        /\ \A d \in Deciders : subject[d] \notin Calls
        /\ guarded = {}
    BY ActorsAssumption DEF Init, Requests
  <1>5. PointsOK /\ GuardedOK
    BY <1>3 DEF PointsOK, GuardedOK, Requests, InFlight, ExecutePoints, DecidePoints,
      ReceiptPoints
  <1>6. VerdictsOK
    BY <1>3 DEF VerdictsOK, Requests, InFlight, ExecutePoints, DecidePoints, ReceiptPoints
  <1>7. SnapshotsOK
    <2>1. \A r \in Requests : snapshot[r] <= Len(ledger) /\ pc[r] # "commit"
      BY <1>2, <1>3
    <2> QED
      BY <2>1 DEF SnapshotsOK
  <1>4. LedgerChained /\ ApprovalsOK /\ ClearancesOK
    BY <1>2 DEF Init, LedgerChained, ApprovalsOK, ClearancesOK, Requests, ByHuman
  <1> QED
    BY <1>1, <1>4, <1>5, <1>6, <1>7 DEF IInv

\* Every step preserves the invariant.
LEMMA InvStep == IInv /\ [Next]_vars => IInv'
  <1> SUFFICES ASSUME IInv, [Next]_vars PROVE IInv'
    OBVIOUS
  <1>t. TypeOK'
    BY TypeStep
  <1>1. ASSUME NEW c \in Calls, Ask(c) \/ ExecuteStep(c) PROVE IInv'
    <2>1. CASE RegisterAgent(c)
      BY <1>t, <2>1, RegisterKeeps
    <2>2. CASE ~RegisterAgent(c)
      <3>1. UNCHANGED ledger
        BY <1>1, <2>2 DEF ExecuteStep, Ask, LookUpAgent, RecordToolCall,
          EvaluatePolicy, Simulate, CreateApproval, AnnounceApproval, database
      <3> QED
        BY <1>t, <1>1, <2>2, <3>1, ExecuteKeeps DEF ExecuteStep
    <2> QED
      BY <2>1, <2>2
  <1>2. ASSUME NEW c \in Calls, ClientStep(c) \/ AgentLeaves(c) PROVE IInv'
    BY <1>t, <1>2, ClientKeeps
  <1>3. ASSUME NEW d \in Deciders,
               \/ DecideStep(d)
               \/ \E c \in Calls, v \in ByHuman : StartDecision(d, c, v)
        PROVE  IInv'
    BY <1>t, <1>3, DecideKeeps DEF DecideStep
  <1>4. ASSUME NEW r \in Requests, ReceiptStep(r) PROVE IInv'
    BY <1>t, <1>4, ReceiptKeeps
  <1>5. ASSUME NEW r \in Requests, FaultAt(r) PROVE IInv'
    BY <1>t, <1>5, ThrowKeeps DEF FaultAt, Fail, database
  <1>6. CASE Crash
    BY <1>t, <1>6, CrashKeeps
  <1>7. CASE UNCHANGED vars
    <2>1. /\ \A x, v : Holds(x, v)' <=> Holds(x, v)
          /\ \A x : HasReceipt(x)' <=> HasReceipt(x)
      BY <1>7, HoldsSame DEF vars
    <2> QED
      BY <1>t, <1>7, <2>1 DEF vars, IInv, PointsOK, GuardedOK, VerdictsOK, SnapshotsOK,
        LedgerChained, ApprovalsOK, ClearancesOK
  <1> QED
    BY <1>1, <1>2, <1>3, <1>4, <1>5, <1>6, <1>7 DEF Next

\* The invariant holds in every reachable state.
THEOREM Invariance == Spec => []IInv
  <1>1. Init => IInv
    BY InvInit
  <1>2. IInv /\ [Next]_vars => IInv'
    BY InvStep
  <1> QED
    BY <1>1, <1>2, PTL DEF Spec

\* The tables, the handlers' locals and the clients keep their types, whatever
\* the interleaving, the faults and the crashes.
THEOREM TypeCorrect == Spec => []TypeOK
  <1>1. IInv => TypeOK
    BY DEF IInv
  <1> QED
    BY <1>1, Invariance, PTL

\* The receipts form a single chain with at most one receipt for a call, for
\* any number of concurrent createReceipt transactions: what the serializable
\* isolation level and the unique toolCallId are for.
THEOREM ReceiptsFormAChain == Spec => []LedgerChained
  <1>1. IInv => LedgerChained
    BY DEF IInv
  <1> QED
    BY <1>1, Invariance, PTL

\* A client causes a side effect only for a call that policy allowed in the
\* ledger or a reviewer approved, and never for one that policy denied.
THEOREM OnlyPermittedCallsArePerformed == Spec => []PerformedWasPermitted
  <1>1. IInv => PerformedWasPermitted
    <2> SUFFICES ASSUME IInv, NEW c \in Calls, agent[c] \in {"performed", "finished"}
                 PROVE  /\ Holds(c, "ALLOW") \/ <<c, "APPROVED">> \in resolutions
                        /\ ~Holds(c, "DENY")
      BY DEF PerformedWasPermitted, Performed
    <2>1. Holds(c, "ALLOW") \/ <<c, "APPROVED">> \in resolutions
      BY DEF IInv, ClearancesOK
    <2>2. CASE Holds(c, "ALLOW")
      BY <2>2 DEF IInv, LedgerChained, Holds
    <2>3. CASE <<c, "APPROVED">> \in resolutions
      BY <2>3 DEF IInv, ApprovalsOK, ByHuman
    <2> QED
      BY <2>1, <2>2, <2>3
  <1> QED
    BY <1>1, Invariance, PTL

-----------------------------------------------------------------------------
(* The kinds of steps, seen from the event log, the answers and a lone     *)
(* decision                                                                *)

\* The client moves, or nobody.
Still ==
  UNCHANGED <<ledger, eventLog, approval, resolutions, pc, subject, verdict, reply>>

\* Nothing changes for the requests other than r.
OthersStay(r) ==
  \A q \in Requests : q # r =>
    /\ pc'[q] = pc[q] /\ subject'[q] = subject[q]
    /\ verdict'[q] = verdict[q] /\ reply'[q] = reply[q]

\* The answer of a step that writes no receipt.
NoVerdictAnswered(r) ==
  \/ reply'[r] = reply[r]
  \/ pc'[r] = "answered" /\ reply'[r] \notin {"EXECUTE", "DENY"}

\* A request moves on, without a receipt and without a human decision.
Aside(r) ==
  /\ OthersStay(r)
  /\ UNCHANGED <<ledger, subject, resolutions>>
  /\ eventLog \subseteq eventLog'
  /\ pc[r] # "answered" /\ pc'[r] # "commit"
  /\ r \in Deciders => pc'[r] = "answered"
  /\ NoVerdictAnswered(r)
  /\ \A c \in Calls : approval'[c] = approval[c] \/ (c = r /\ approval[c] = "NONE")

\* A reviewer's request passes the 409 check.
Began(d, c, v) ==
  /\ OthersStay(d)
  /\ pc[d] = "idle" /\ pc' = [pc EXCEPT ![d] = "resolve"]
  /\ subject' = [subject EXCEPT ![d] = c]
  /\ verdict' = [verdict EXCEPT ![d] = v]
  /\ approval[c] # "NONE"
  /\ UNCHANGED <<ledger, eventLog, approval, resolutions, reply>>

\* createReceipt comes nearer to its commit.
Advance(r) ==
  /\ pc[r] \in {"receipt", "insert"}
  /\ pc' = [pc EXCEPT ![r] = IF pc[r] = "receipt" THEN "insert" ELSE "commit"]
  /\ pc[r] = "insert" => <<"receipt.created", subject[r], verdict[r]>> \in eventLog'
  /\ eventLog \subseteq eventLog'
  /\ UNCHANGED <<ledger, approval, resolutions, subject, verdict, reply>>

\* A receipt is written, whatever becomes of the acknowledgement.
Wrote(r) ==
  /\ OthersStay(r)
  /\ pc[r] = "commit" /\ Serializable(r)
  /\ ledger' = Append(ledger, ReceiptOf(r))
  /\ UNCHANGED <<eventLog, approval, resolutions, subject>>
  /\ pc'[r] # "commit"
  /\ r \in Deciders => pc'[r] = "answered"
  /\ NoVerdictAnswered(r) \/ (pc'[r] = "answered" /\ reply'[r] = ReplyFor(verdict[r]))

\* Nobody has an answer before the handler returned.
AnswersOK == \A r \in Requests : pc[r] # "answered" => reply[r] = "NONE"

\* What throwing does, to the request and to the others.
LEMMA ThrowIsAside ==
  ASSUME IInv, NEW r \in Requests, Throw(r)
  PROVE  /\ \A q \in Requests : q # r =>
              pc'[q] = pc[q] /\ verdict'[q] = verdict[q] /\ reply'[q] = reply[q]
         /\ pc'[r] \in {"receipt", "answered"}
         /\ r \in Deciders => pc'[r] = "answered"
         /\ NoVerdictAnswered(r)
  <1>1. TypeOK /\ Deciders \cap guarded = {}
    BY ActorsAssumption DEF IInv, TypeOK
  <1>2. CASE r \in guarded
    BY <1>1, <1>2 DEF Throw, TypeOK, GoTo, NoVerdictAnswered
  <1>3. CASE r \notin guarded
    BY <1>1, <1>3 DEF Throw, TypeOK, Answer, NoVerdictAnswered
  <1> QED
    BY <1>2, <1>3

\* Every step is of one of these kinds.
LEMMA StepKinds ==
  ASSUME IInv, [Next]_vars
  PROVE  \/ Still
         \/ Crash
         \/ \E r \in Requests : Aside(r) \/ Advance(r) \/ Wrote(r)
         \/ \E d \in Deciders : Resolve(d) \/ AnnounceResolution(d)
         \/ \E d \in Deciders, c \in Calls, v \in ByHuman : Began(d, c, v)
  <1>a. TypeOK /\ ApprovalsOK
    BY DEF IInv
  <1>b. Calls \subseteq Requests /\ Deciders \subseteq Requests /\ Calls \cap Deciders = {}
    BY ActorsAssumption DEF Requests
  <1>c. ASSUME NEW r \in Requests, Throw(r), pc[r] # "answered",
               UNCHANGED <<ledger, subject, resolutions, approval, eventLog>>
        PROVE  Aside(r)
    BY <1>c, ThrowIsAside DEF Aside, OthersStay
  <1>d. ASSUME NEW c \in Calls, NEW point, point \notin {"commit", "answered"}, GoTo(c, point),
               pc[c] # "answered", UNCHANGED <<ledger, subject, resolutions, reply>>,
               eventLog \subseteq eventLog', \A q \in Requests : q # c => verdict'[q] = verdict[q],
               \A x \in Calls : approval'[x] = approval[x] \/ (x = c /\ approval[x] = "NONE")
        PROVE  Aside(c)
    BY <1>a, <1>b, <1>d DEF TypeOK, GoTo, Aside, OthersStay, NoVerdictAnswered
  <1>1. ASSUME NEW c \in Calls, Ask(c) PROVE Aside(c)
    <2>1. pc[c] # "answered"
      BY <1>1 DEF Ask, IInv, PointsOK
    <2> QED
      BY <1>1, <1>b, <1>d, <2>1 DEF Ask, database
  <1>2. ASSUME NEW c \in Calls, LookUpAgent(c) PROVE Aside(c)
    BY <1>2, <1>b, <1>d DEF LookUpAgent, database
  <1>3. ASSUME NEW c \in Calls, RegisterAgent(c) PROVE Aside(c)
    <2>1. CASE AgentOf[c] \in registered
      BY <1>3, <1>b, <1>c, <2>1 DEF RegisterAgent
    <2>2. CASE AgentOf[c] \notin registered
      BY <1>3, <1>b, <1>d, <2>2 DEF RegisterAgent
    <2> QED
      BY <2>1, <2>2
  <1>4. ASSUME NEW c \in Calls, RecordToolCall(c) PROVE Aside(c)
    BY <1>4, <1>b, <1>d DEF RecordToolCall
  <1>5. ASSUME NEW c \in Calls, EvaluatePolicy(c) PROVE Aside(c)
    <2>1. PICK point \in {"hold", "receipt", "simulate"} : GoTo(c, point)
      BY <1>5 DEF EvaluatePolicy
    <2>2. \A q \in Requests : q # c => verdict'[q] = verdict[q]
      BY <1>a, <1>5 DEF EvaluatePolicy, TypeOK
    <2> QED
      BY <1>5, <1>b, <1>d, <2>1, <2>2 DEF EvaluatePolicy, database
  <1>6. ASSUME NEW c \in Calls, Simulate(c) PROVE Aside(c)
    <2>1. \A q \in Requests : q # c => verdict'[q] = verdict[q]
      BY <1>a, <1>6 DEF Simulate, TypeOK
    <2> QED
      BY <1>6, <1>b, <1>d, <2>1 DEF Simulate, database
  <1>7. ASSUME NEW c \in Calls, CreateApproval(c) PROVE Aside(c)
    <2>1. approval[c] = "NONE"
      BY <1>a, <1>7 DEF CreateApproval, ApprovalsOK, ExecutePoints
    <2>2. \A x \in Calls : approval'[x] = approval[x] \/ (x = c /\ approval[x] = "NONE")
      BY <1>a, <1>7, <2>1 DEF CreateApproval, TypeOK
    <2> QED
      BY <1>7, <1>b, <1>d, <2>2 DEF CreateApproval
  <1>8. ASSUME NEW c \in Calls, AnnounceApproval(c) PROVE Aside(c)
    BY <1>a, <1>b, <1>8
    DEF AnnounceApproval, Answer, TypeOK, Aside, OthersStay, NoVerdictAnswered
  <1>9. ASSUME NEW c \in Calls, ClientStep(c) \/ AgentLeaves(c) PROVE Still
    BY <1>9 DEF ClientStep, HearReply, Poll, PollDeadline, Perform, Report, AgentLeaves,
      Still, database
  <1>10. ASSUME NEW d \in Deciders, NEW c \in Calls, NEW v \in ByHuman, StartDecision(d, c, v)
         PROVE  Aside(d) \/ Began(d, c, v)
    <2>1. CASE MayDecide(c)
      BY <1>a, <1>b, <1>10, <2>1 DEF StartDecision, GoTo, TypeOK, Began, OthersStay, database
    <2>2. CASE ~MayDecide(c)
      BY <1>a, <1>b, <1>10, <2>2
      DEF StartDecision, Answer, TypeOK, Aside, OthersStay, NoVerdictAnswered, database
    <2> QED
      BY <2>1, <2>2
  <1>11. ASSUME NEW r \in Requests, ReadHead(r) PROVE Advance(r)
    BY <1>11 DEF ReadHead, GoTo, Advance, database
  <1>12. ASSUME NEW r \in Requests, InsertReceipt(r) PROVE Aside(r) \/ Advance(r)
    <2>1. CASE HasReceipt(subject[r])
      BY <1>12, <1>c, <2>1 DEF InsertReceipt
    <2>2. CASE ~HasReceipt(subject[r])
      BY <1>12, <2>2 DEF InsertReceipt, GoTo, Advance
    <2> QED
      BY <2>1, <2>2
  <1>13. ASSUME NEW r \in Requests, CommitReceipt(r) PROVE Wrote(r)
    BY <1>a, <1>13 DEF CommitReceipt, Answer, TypeOK, Wrote, OthersStay, NoVerdictAnswered
  <1>14. ASSUME NEW r \in Requests, CommitUnacknowledged(r) PROVE Wrote(r)
    BY <1>14, ThrowIsAside DEF CommitUnacknowledged, Wrote, OthersStay
  <1>15. ASSUME NEW r \in Requests, AbortReceipt(r) PROVE Aside(r)
    BY <1>15, <1>c DEF AbortReceipt, database
  <1>16. ASSUME NEW r \in Requests, FaultAt(r) PROVE Aside(r)
    BY <1>16, <1>c
    DEF FaultAt, Fail, database, InFlight, ExecutePoints, DecidePoints, ReceiptPoints
  <1>17. CASE UNCHANGED vars
    BY <1>17 DEF vars, Still
  <1> QED
    BY <1>b, <1>1, <1>2, <1>3, <1>4, <1>5, <1>6, <1>7, <1>8, <1>9, <1>10, <1>11, <1>12, <1>13,
       <1>14, <1>15, <1>16, <1>17
    DEF Next, ExecuteStep, DecideStep, ReceiptStep

-----------------------------------------------------------------------------
(* The event log, the answers and a lone decision                          *)

\* The events of what createReceipt is about to commit are in the log already.
EventsOK ==
  /\ \A r \in Requests :
       pc[r] = "commit" => <<"receipt.created", subject[r], verdict[r]>> \in eventLog
  /\ \A d \in Deciders :
       pc[d] \in ReceiptPoints => <<"approval.resolved", subject[d], verdict[d]>> \in eventLog
  /\ LedgerIsAnnounced

\* A call with a single decision request, or none.
Lone(c) == \A d, e \in Deciders : subject[d] = c /\ subject[e] = c => d = e

\* What is recorded about a call, or about to be, is what its approval says.
Agreed(c) ==
  /\ \A v \in ByHuman : Holds(c, v) => approval[c] = v
  /\ \A d \in Deciders : subject[d] = c =>
       /\ pc[d] = "resolve" => \A v \in ByHuman : ~Holds(c, v)
       /\ pc[d] \in {"announceResolved"} \cup ReceiptPoints => approval[c] = verdict[d]

\* A human receipt has its decision request; the only decision request of a call
\* writes the receipt after the approval, and both say the same.
LoneOK ==
  /\ \A d \in Deciders : pc[d] = "idle" => subject[d] = NoCall
  /\ \A c \in Calls, v \in ByHuman : Holds(c, v) => \E d \in Deciders : subject[d] = c
  /\ \A c \in Calls : Lone(c) => Agreed(c)

\* A receipt more in the ledger, seen from its last position.
LEMMA LedgerGrows ==
  ASSUME IInv, NEW r \in Requests, Wrote(r)
  PROVE  /\ Len(ledger') = Len(ledger) + 1 /\ Len(ledger) \in Nat
         /\ \A i \in 1..Len(ledger) : ledger'[i] = ledger[i]
         /\ ledger'[Len(ledger) + 1] = ReceiptOf(r)
         /\ \A c, v : Holds(c, v)' <=> Holds(c, v) \/ (subject[r] = c /\ verdict[r] = v)
  <1>1. ledger \in Seq(Receipts) /\ ReceiptOf(r) \in Receipts
    BY WritesAReceipt DEF IInv, TypeOK, Wrote, ReceiptPoints
  <1>2. ledger' = Append(ledger, ReceiptOf(r))
    BY DEF Wrote
  <1>3. ReceiptOf(r).call = subject[r] /\ ReceiptOf(r).verdict = verdict[r]
    BY DEF ReceiptOf
  <1> QED
    BY <1>1, <1>2, <1>3, AppendProperties, LenProperties, HoldsAppend

\* The event log is ahead of the ledger in every step: a receipt's event is stored
\* before the receipt is committed, and what is stored stays.
LEMMA EventsStep == IInv /\ EventsOK /\ [Next]_vars => EventsOK'
  <1> SUFFICES ASSUME IInv, EventsOK, [Next]_vars PROVE EventsOK'
    OBVIOUS
  <1> USE DEF ReceiptPoints
  <1>a. TypeOK
    BY DEF IInv
  <1>b. ASSUME UNCHANGED ledger, eventLog \subseteq eventLog' PROVE LedgerIsAnnounced'
    BY <1>b DEF EventsOK, LedgerIsAnnounced
  <1>1. CASE Still
    BY <1>1, <1>b DEF Still, EventsOK
  <1>2. CASE Crash
    <2>1. UNCHANGED <<ledger, eventLog>> /\ \A r \in Requests : pc'[r] \notin ReceiptPoints
      BY <1>2 DEF Crash, database, InFlight
    <2> QED
      BY <1>b, <2>1 DEF EventsOK, Requests
  <1>3. ASSUME NEW r \in Requests, Aside(r) PROVE EventsOK'
    BY <1>3, <1>b DEF Aside, OthersStay, EventsOK, Requests
  <1>4. ASSUME NEW r \in Requests, Advance(r) PROVE EventsOK'
    BY <1>a, <1>4, <1>b DEF Advance, EventsOK, Requests, TypeOK
  <1>5. ASSUME NEW r \in Requests, Wrote(r) PROVE EventsOK'
    <2>1. /\ <<"receipt.created", subject[r], verdict[r]>> \in eventLog
          /\ verdict[r] \in ByHuman => <<"approval.resolved", subject[r], verdict[r]>> \in eventLog
      <3>1. r \in Calls => verdict[r] \notin ByHuman
        BY <1>5 DEF Wrote, IInv, VerdictsOK, ByPolicy, ByHuman
      <3> QED
        BY <1>5, <3>1 DEF Wrote, EventsOK, Requests
    <2>2. LedgerIsAnnounced'
      <3>1. SUFFICES ASSUME NEW i \in 1..Len(ledger')
                     PROVE  /\ <<"receipt.created", ledger'[i].call, ledger'[i].verdict>>
                                 \in eventLog
                            /\ ledger'[i].verdict \in ByHuman =>
                                 <<"approval.resolved", ledger'[i].call, ledger'[i].verdict>>
                                   \in eventLog
        BY <1>5 DEF LedgerIsAnnounced, Wrote
      <3>2. CASE i \in 1..Len(ledger)
        BY <1>5, <3>2, LedgerGrows DEF EventsOK, LedgerIsAnnounced
      <3>3. CASE i = Len(ledger) + 1
        <4>1. ledger'[i] = ReceiptOf(r)
          BY <1>5, <3>3, LedgerGrows
        <4> QED
          BY <2>1, <4>1 DEF ReceiptOf
      <3> QED
        BY <1>5, <3>2, <3>3, LedgerGrows
    <2> QED
      BY <1>5, <2>2 DEF Wrote, OthersStay, EventsOK, Requests
  <1>6. ASSUME NEW d \in Deciders, Resolve(d) PROVE EventsOK'
    BY <1>a, <1>6, <1>b DEF Resolve, GoTo, EventsOK, Requests, TypeOK
  <1>7. ASSUME NEW d \in Deciders, AnnounceResolution(d) PROVE EventsOK'
    BY <1>a, <1>7, <1>b
    DEF AnnounceResolution, ResolvedEvent, GoTo, EventsOK, Requests, TypeOK
  <1>8. ASSUME NEW d \in Deciders, NEW c \in Calls, NEW v \in ByHuman, Began(d, c, v)
        PROVE  EventsOK'
    BY <1>a, <1>8, <1>b DEF Began, OthersStay, EventsOK, Requests, TypeOK
  <1> QED
    BY <1>1, <1>2, <1>3, <1>4, <1>5, <1>6, <1>7, <1>8, StepKinds

\* Only the commit of a receipt is answered with a verdict, and with its own.
LEMMA AnswersStep ==
  IInv /\ AnswersOK /\ ReplyIsRecorded /\ [Next]_vars => AnswersOK' /\ ReplyIsRecorded'
  <1> SUFFICES ASSUME IInv, AnswersOK, ReplyIsRecorded, [Next]_vars
               PROVE  AnswersOK' /\ ReplyIsRecorded'
    OBVIOUS
  <1>a. TypeOK
    BY DEF IInv
  <1>b. Calls \subseteq Requests /\ Deciders \subseteq Requests
    BY DEF Requests
  <1>1. CASE Still
    BY <1>1 DEF Still, AnswersOK, ReplyIsRecorded
  <1>2. CASE Crash
    <2>1. UNCHANGED <<ledger, subject>>
      BY <1>2 DEF Crash, database
    <2>2. \A r \in Requests : \/ pc'[r] = "answered" /\ reply'[r] = "ERROR"
                              \/ pc'[r] = pc[r] /\ reply'[r] = reply[r]
      BY <1>2 DEF Crash
    <2> QED
      BY <2>1, <2>2 DEF AnswersOK, ReplyIsRecorded
  <1>3. ASSUME NEW r \in Requests, Aside(r) PROVE AnswersOK' /\ ReplyIsRecorded'
    <2>1. \A q \in Requests : reply'[q] \in {"EXECUTE", "DENY"} => reply'[q] = reply[q]
      BY <1>3 DEF Aside, OthersStay, NoVerdictAnswered
    <2>2. ReplyIsRecorded'
      BY <1>3, <2>1 DEF Aside, ReplyIsRecorded
    <2> QED
      BY <1>3, <2>2 DEF Aside, OthersStay, NoVerdictAnswered, AnswersOK
  <1>4. ASSUME NEW r \in Requests, Advance(r) PROVE AnswersOK' /\ ReplyIsRecorded'
    BY <1>a, <1>4 DEF Advance, AnswersOK, ReplyIsRecorded, TypeOK
  <1>5. ASSUME NEW r \in Requests, Wrote(r) PROVE AnswersOK' /\ ReplyIsRecorded'
    <2>1. AnswersOK'
      BY <1>5 DEF Wrote, OthersStay, NoVerdictAnswered, AnswersOK
    <2>2. ASSUME NEW q \in Requests, reply'[q] \in {"EXECUTE", "DENY"}
          PROVE  \E i \in 1..Len(ledger') :
                   ledger'[i].call = subject'[q] /\ ReplyFor(ledger'[i].verdict) = reply'[q]
      <3>1. subject'[q] = subject[q]
        BY <1>5 DEF Wrote
      <3>2. CASE reply'[q] = reply[q]
        <4>1. PICK i \in 1..Len(ledger) :
                ledger[i].call = subject[q] /\ ReplyFor(ledger[i].verdict) = reply[q]
          BY <2>2, <3>2 DEF ReplyIsRecorded
        <4>2. i \in 1..Len(ledger') /\ ledger'[i] = ledger[i]
          BY <1>5, LedgerGrows
        <4> QED
          BY <3>1, <3>2, <4>1, <4>2
      <3>3. CASE reply'[q] # reply[q]
        <4>1. q = r /\ reply'[q] = ReplyFor(verdict[r])
          BY <1>5, <2>2, <3>3 DEF Wrote, OthersStay, NoVerdictAnswered
        <4>2. ReceiptOf(r).call = subject[r] /\ ReceiptOf(r).verdict = verdict[r]
          BY DEF ReceiptOf
        <4>3. Len(ledger) + 1 \in 1..Len(ledger') /\ ledger'[Len(ledger) + 1] = ReceiptOf(r)
          BY <1>5, LedgerGrows
        <4> QED
          BY <3>1, <4>1, <4>2, <4>3
      <3> QED
        BY <3>2, <3>3
    <2> QED
      BY <2>1, <2>2 DEF ReplyIsRecorded
  <1>6. ASSUME NEW d \in Deciders, Resolve(d) \/ AnnounceResolution(d)
        PROVE  AnswersOK' /\ ReplyIsRecorded'
    BY <1>a, <1>b, <1>6
    DEF Resolve, AnnounceResolution, GoTo, AnswersOK, ReplyIsRecorded, TypeOK
  <1>7. ASSUME NEW d \in Deciders, NEW c \in Calls, NEW v \in ByHuman, Began(d, c, v)
        PROVE  AnswersOK' /\ ReplyIsRecorded'
    <2>1. reply[d] = "NONE" /\ reply' = reply /\ ledger' = ledger
      BY <1>b, <1>7 DEF Began, AnswersOK
    <2>2. ReplyIsRecorded'
      BY <1>7, <2>1 DEF Began, OthersStay, ReplyIsRecorded
    <2> QED
      BY <1>a, <1>7, <2>1, <2>2 DEF Began, AnswersOK, TypeOK
  <1> QED
    BY <1>1, <1>2, <1>3, <1>4, <1>5, <1>6, <1>7, StepKinds

\* A lone decision writes the approval before its receipt, and nobody writes the
\* approval afterwards.
LEMMA LoneStep == IInv /\ LoneOK /\ [Next]_vars => LoneOK'
  <1> SUFFICES ASSUME IInv, LoneOK, [Next]_vars PROVE LoneOK'
    OBVIOUS
  <1> USE DEF ReceiptPoints
  <1>a. TypeOK /\ PointsOK
    BY DEF IInv
  <1>b. /\ Calls \subseteq Requests /\ Deciders \subseteq Requests
        /\ Calls \cap Deciders = {} /\ NoCall \notin Calls
    BY ActorsAssumption DEF Requests
  <1>1. CASE Still
    <2>1. \A c \in Calls, v \in ByHuman : Holds(c, v)' <=> Holds(c, v)
      BY <1>1, HoldsSame DEF Still
    <2> QED
      BY <1>1, <2>1 DEF Still, LoneOK, Lone, Agreed
  <1>2. CASE Crash
    <2>1. UNCHANGED <<ledger, subject, approval>>
      BY <1>2 DEF Crash, database
    <2>2. \A c \in Calls, v \in ByHuman : Holds(c, v)' <=> Holds(c, v)
      BY <2>1, HoldsSame
    <2>3. \A d \in Deciders : /\ pc'[d] \notin InFlight
                              /\ pc'[d] = "idle" => pc[d] = "idle"
      BY <1>2, <1>b DEF Crash, InFlight, ExecutePoints, DecidePoints
    <2>4. ASSUME NEW c \in Calls, Lone(c)' PROVE Agreed(c)'
      <3>1. Lone(c)
        BY <2>1, <2>4 DEF Lone
      <3> QED
        BY <2>1, <2>2, <2>3, <3>1 DEF LoneOK, Agreed, InFlight, DecidePoints
    <2>5. (\A d \in Deciders : pc[d] = "idle" => subject[d] = NoCall)'
      BY <2>1, <2>3 DEF LoneOK
    <2>6. (\A c \in Calls, v \in ByHuman : Holds(c, v) => \E d \in Deciders : subject[d] = c)'
      BY <2>1, <2>2 DEF LoneOK
    <2>7. (\A c \in Calls : Lone(c) => Agreed(c))'
      BY <2>4
    <2> QED
      BY <2>5, <2>6, <2>7 DEF LoneOK
  <1>3. ASSUME NEW r \in Requests, Aside(r) PROVE LoneOK'
    <2>1. \A c \in Calls, v \in ByHuman : Holds(c, v)' <=> Holds(c, v)
      BY <1>3, HoldsSame DEF Aside
    <2>2. \A d \in Deciders : /\ subject'[d] = subject[d]
                              /\ pc'[d] = "answered" \/ (pc'[d] = pc[d] /\ verdict'[d] = verdict[d])
      BY <1>3, <1>b DEF Aside, OthersStay
    <2>3. ASSUME NEW c \in Calls, NEW d \in Deciders, subject[d] = c
          PROVE  approval'[c] = approval[c]
      BY <1>a, <1>3, <2>3 DEF PointsOK, Aside
    <2>4. ASSUME NEW c \in Calls, Lone(c)' PROVE Agreed(c)'
      <3>1. Lone(c)
        BY <2>2, <2>4 DEF Lone
      <3> QED
        BY <2>1, <2>2, <2>3, <3>1 DEF LoneOK, Agreed
    <2> QED
      BY <2>1, <2>2, <2>4 DEF LoneOK
  <1>4. ASSUME NEW r \in Requests, Advance(r) PROVE LoneOK'
    <2>1. \A c \in Calls, v \in ByHuman : Holds(c, v)' <=> Holds(c, v)
      BY <1>4, HoldsSame DEF Advance
    <2>2. UNCHANGED <<approval, subject, verdict>>
      BY <1>4 DEF Advance
    <2>3. \A d \in Deciders : \/ pc'[d] = pc[d]
                              \/ pc[d] \in ReceiptPoints /\ pc'[d] \in ReceiptPoints
      BY <1>a, <1>b, <1>4 DEF Advance, TypeOK
    <2>4. ASSUME NEW c \in Calls, Lone(c)' PROVE Agreed(c)'
      <3>1. Lone(c)
        BY <2>2, <2>4 DEF Lone
      <3> QED
        BY <2>1, <2>2, <2>3, <3>1 DEF LoneOK, Agreed
    <2> QED
      BY <2>1, <2>2, <2>3, <2>4 DEF LoneOK
  <1>5. ASSUME NEW r \in Requests, Wrote(r) PROVE LoneOK'
    <2>1. \A c \in Calls, v \in ByHuman :
            Holds(c, v)' <=> Holds(c, v) \/ (subject[r] = c /\ verdict[r] = v)
      BY <1>5, LedgerGrows
    <2>2. UNCHANGED <<approval, subject>>
      BY <1>5 DEF Wrote
    <2>3. \A d \in Deciders : /\ d = r => pc'[d] = "answered" /\ pc[d] = "commit"
                              /\ d # r => pc'[d] = pc[d] /\ verdict'[d] = verdict[d]
      BY <1>b, <1>5 DEF Wrote, OthersStay
    <2>4. verdict[r] \in ByHuman => r \in Deciders
      BY <1>5 DEF Wrote, IInv, VerdictsOK, ByPolicy, ByHuman, Requests
    <2>5. ASSUME NEW c \in Calls, Lone(c)' PROVE Agreed(c)'
      <3>1. Lone(c)
        BY <2>2, <2>5 DEF Lone
      <3>2. Agreed(c)
        BY <3>1 DEF LoneOK
      <3>3. ASSUME NEW v \in ByHuman, Holds(c, v)' PROVE approval[c] = v
        BY <2>1, <2>3, <2>4, <3>2, <3>3 DEF Agreed
      <3>4. ASSUME NEW d \in Deciders, subject[d] = c, pc'[d] = "resolve", NEW v \in ByHuman
            PROVE  ~Holds(c, v)'
        <4>1. d # r /\ pc[d] = "resolve"
          BY <2>3, <3>4
        <4>2. ~(subject[r] = c /\ verdict[r] = v)
          BY <2>4, <3>1, <3>4, <4>1 DEF Lone
        <4> QED
          BY <2>1, <3>2, <3>4, <4>1, <4>2 DEF Agreed
      <3> QED
        BY <2>2, <2>3, <3>2, <3>3, <3>4 DEF Agreed
    <2>6. ASSUME NEW c \in Calls, NEW v \in ByHuman, Holds(c, v)'
          PROVE  \E d \in Deciders : subject[d] = c
      BY <2>1, <2>4, <2>6 DEF LoneOK
    <2> QED
      BY <2>2, <2>3, <2>5, <2>6 DEF LoneOK
  <1>6. ASSUME NEW d \in Deciders, Resolve(d) PROVE LoneOK'
    <2>1. \A c \in Calls, v \in ByHuman : Holds(c, v)' <=> Holds(c, v)
      BY <1>6, HoldsSame DEF Resolve
    <2>2. /\ UNCHANGED <<subject, verdict>> /\ pc[d] = "resolve" /\ subject[d] \in Calls
          /\ pc' = [pc EXCEPT ![d] = "announceResolved"]
          /\ approval' = [approval EXCEPT ![subject[d]] = verdict[d]]
      BY <1>a, <1>6 DEF Resolve, GoTo, PointsOK, InFlight, DecidePoints
    <2>3. ASSUME NEW c \in Calls, Lone(c)' PROVE Agreed(c)'
      <3>1. Lone(c) /\ Agreed(c)
        BY <2>2, <2>3 DEF Lone, LoneOK
      <3>2. CASE c = subject[d]
        <4>1. approval'[c] = verdict[d] /\ \A e \in Deciders : subject[e] = c => e = d
          BY <1>a, <2>2, <3>1, <3>2 DEF TypeOK, Lone
        <4> QED
          BY <1>a, <1>b, <2>1, <2>2, <3>1, <3>2, <4>1 DEF Agreed, TypeOK
      <3>3. CASE c # subject[d]
        BY <1>a, <2>1, <2>2, <3>1, <3>3 DEF Agreed, TypeOK
      <3> QED
        BY <3>2, <3>3
    <2>4. \A e \in Deciders : pc'[e] = "idle" => pc[e] = "idle"
      BY <1>a, <1>b, <2>2 DEF TypeOK
    <2> QED
      BY <2>1, <2>2, <2>3, <2>4 DEF LoneOK
  <1>7. ASSUME NEW d \in Deciders, AnnounceResolution(d) PROVE LoneOK'
    <2>1. \A c \in Calls, v \in ByHuman : Holds(c, v)' <=> Holds(c, v)
      BY <1>7, HoldsSame DEF AnnounceResolution
    <2>2. /\ UNCHANGED <<subject, verdict, approval>> /\ pc[d] = "announceResolved"
          /\ pc' = [pc EXCEPT ![d] = "receipt"]
      BY <1>7 DEF AnnounceResolution, GoTo
    <2>3. \A e \in Deciders : /\ e # d => pc'[e] = pc[e]
                              /\ e = d => pc'[e] = "receipt"
      BY <1>a, <1>b, <2>2 DEF TypeOK
    <2>4. ASSUME NEW c \in Calls, Lone(c)' PROVE Agreed(c)'
      <3>1. Lone(c) /\ Agreed(c)
        BY <2>2, <2>4 DEF Lone, LoneOK
      <3> QED
        BY <2>1, <2>2, <2>3, <3>1 DEF Agreed
    <2> QED
      BY <2>1, <2>2, <2>3, <2>4 DEF LoneOK
  <1>8. ASSUME NEW d \in Deciders, NEW c \in Calls, NEW v \in ByHuman, Began(d, c, v)
        PROVE  LoneOK'
    <2>1. \A x \in Calls, w \in ByHuman : Holds(x, w)' <=> Holds(x, w)
      BY <1>8, HoldsSame DEF Began
    <2>2. /\ approval' = approval /\ subject[d] = NoCall
          /\ subject'[d] = c /\ pc'[d] = "resolve"
          /\ \A e \in Deciders : e # d => /\ subject'[e] = subject[e]
                                          /\ pc'[e] = pc[e] /\ verdict'[e] = verdict[e]
      BY <1>a, <1>b, <1>8 DEF Began, OthersStay, TypeOK, LoneOK
    <2>3. ASSUME NEW x \in Calls, NEW e \in Deciders, subject[e] = x
          PROVE  e # d /\ subject'[e] = x
      BY <1>b, <2>2, <2>3
    <2>4. ASSUME NEW x \in Calls, Lone(x)' PROVE Agreed(x)'
      <3>1. CASE x = c
        <4>1. \A e \in Deciders : subject'[e] = x => e = d
          BY <2>2, <2>4, <3>1 DEF Lone
        <4>2. \A w \in ByHuman : ~Holds(x, w)
          BY <2>3, <4>1 DEF LoneOK
        <4> QED
          BY <2>1, <2>2, <4>1, <4>2 DEF Agreed
      <3>2. CASE x # c
        <4>1. \A e \in Deciders : subject'[e] = x => e # d /\ subject[e] = x
          BY <2>2, <3>2
        <4>2. Lone(x)
          BY <2>3, <2>4 DEF Lone
        <4>3. Agreed(x)
          BY <4>2 DEF LoneOK
        <4> QED
          BY <2>1, <2>2, <4>1, <4>3 DEF Agreed
      <3> QED
        BY <3>1, <3>2
    <2>5. ASSUME NEW x \in Calls, NEW w \in ByHuman, Holds(x, w)'
          PROVE  \E e \in Deciders : subject'[e] = x
      BY <2>1, <2>3, <2>5 DEF LoneOK
    <2>6. \A e \in Deciders : pc'[e] = "idle" => subject'[e] = NoCall
      BY <2>2 DEF LoneOK
    <2> QED
      BY <2>4, <2>5, <2>6 DEF LoneOK
  <1> QED
    BY <1>1, <1>2, <1>3, <1>4, <1>5, <1>6, <1>7, <1>8, StepKinds

\* The event log is never behind the ledger: whoever reads a receipt finds the
\* receipt.created event and, of a human decision, the approval.resolved event.
THEOREM LedgerStaysAnnounced == Spec => []LedgerIsAnnounced
  <1>1. Init => EventsOK
    <2> SUFFICES ASSUME Init PROVE EventsOK
      OBVIOUS
    <2>1. Len(ledger) = 0
      BY DEF Init
    <2> QED
      BY <2>1 DEF Init, EventsOK, LedgerIsAnnounced, Requests, ReceiptPoints
  <1>2. EventsOK => LedgerIsAnnounced
    BY DEF EventsOK
  <1> QED
    BY <1>1, <1>2, EventsStep, Invariance, PTL DEF Spec

\* Whoever was answered EXECUTE or DENY was told what the ledger records, through
\* failed statements, aborted transactions, lost acknowledgements and crashes.
THEOREM RepliesAreRecorded == Spec => []ReplyIsRecorded
  <1>1. Init => AnswersOK /\ ReplyIsRecorded
    BY DEF Init, AnswersOK, ReplyIsRecorded
  <1> QED
    BY <1>1, AnswersStep, Invariance, PTL DEF Spec

\* Where no two decision requests passed the 409 check for the same approval, the
\* receipt and the approval say the same.
THEOREM LoneDecisionsAgree == Spec => []LoneDecisionAgrees
  <1>1. Init => LoneOK
    <2> SUFFICES ASSUME Init PROVE LoneOK
      OBVIOUS
    <2>1. \A c, v : ~Holds(c, v)
      BY DEF Init, Holds
    <2>2. \A d \in Deciders : subject[d] = NoCall /\ pc[d] = "idle"
      BY ActorsAssumption DEF Init, Requests
    <2> QED
      BY <2>1, <2>2, ActorsAssumption DEF LoneOK, Agreed
  <1>2. LoneOK => LoneDecisionAgrees
    BY DEF LoneOK, Lone, Agreed, Holds, LoneDecisionAgrees
  <1> QED
    BY <1>1, <1>2, LoneStep, Invariance, PTL DEF Spec

-----------------------------------------------------------------------------
(* The protocol implements the ledger of atomic decisions                  *)

\* The state of module DecisionLedger, as the refinement mapping has it.
Log == [i \in 1..Len(ledger) |-> [call |-> ledger[i].call, verdict |-> ledger[i].verdict]]
Permitted == {c \in Calls : Holds(c, "ALLOW") \/ <<c, "APPROVED">> \in resolutions}

\* A receipt more in the ledger is an entry more in the log.
LEMMA LogAppend ==
  ASSUME ledger \in Seq(Receipts), NEW e \in Receipts, ledger' = Append(ledger, e)
  PROVE  Log' = Append(Log, [call |-> e.call, verdict |-> e.verdict])
  <1> DEFINE Entries == [call : Calls, verdict : Verdicts]
             x == [call |-> e.call, verdict |-> e.verdict]
             n == Len(ledger)
  <1>1. n \in Nat /\ \A i \in 1..n : ledger[i] \in Receipts
    BY LenProperties
  <1>2. Log \in [1..n -> Entries] /\ x \in Entries
    BY <1>1 DEF Log, Receipts
  <1> HIDE DEF Entries, x, n
  <1>3. Log \in Seq(Entries)
    BY <1>1, <1>2, SeqDef
  <1>4. Len(Log) = n
    BY <1>1, <1>2, <1>3, LenProperties
  <1>5. /\ Len(Append(Log, x)) = n + 1
        /\ \A i \in 1..n : Append(Log, x)[i] = Log[i]
        /\ Append(Log, x)[n + 1] = x
        /\ Append(Log, x) \in [1..(n + 1) -> Entries]
    <2>1. Append(Log, x) \in Seq(Entries) /\ Len(Append(Log, x)) = n + 1
      BY <1>2, <1>3, <1>4, AppendProperties
    <2>2. Append(Log, x) \in [1..(n + 1) -> Entries]
      BY <2>1, LenProperties
    <2> QED
      BY <1>2, <1>3, <1>4, <2>1, <2>2, AppendProperties
  <1>6. /\ Len(ledger') = n + 1
        /\ \A i \in 1..n : ledger'[i] = ledger[i]
        /\ ledger'[n + 1] = e
    BY AppendProperties DEF n
  <1>7. Log' = [i \in 1..(n + 1) |->
                  [call |-> ledger'[i].call, verdict |-> ledger'[i].verdict]]
    BY <1>6 DEF Log
  <1>8. ASSUME NEW i \in 1..(n + 1)
        PROVE  [call |-> ledger'[i].call, verdict |-> ledger'[i].verdict] = Append(Log, x)[i]
    <2>1. CASE i \in 1..n
      BY <1>5, <1>6, <2>1 DEF Log, n
    <2>2. CASE i = n + 1
      BY <1>5, <1>6, <2>2 DEF x
    <2>3. i \in 1..n \/ i = n + 1
      BY <1>1
    <2> QED
      BY <2>1, <2>2, <2>3
  <1>9. Log' = Append(Log, x)
    BY <1>5, <1>7, <1>8
  <1> QED
    BY <1>9 DEF x

\* The initial state is the initial state of the promise.
LEMMA PromiseInit == Init => Promise!Init
  <1> SUFFICES ASSUME Init PROVE Promise!Init
    OBVIOUS
  <1>1. Len(ledger) = 0 /\ Log = <<>>
    BY DEF Init, Log
  <1>2. Permitted = {} /\ Performed = {}
    BY <1>1 DEF Init, Permitted, Performed, Holds
  <1> QED
    BY <1>1, <1>2 DEF Promise!Init, Log, Permitted

\* The promise's view of the log, in terms of the ledger.
LEMMA LogHolds ==
  ASSUME ledger \in Seq(Receipts), NEW c
  PROVE  /\ Promise!Recorded(c) <=> HasReceipt(c)
         /\ Promise!RecordedByPolicy(c) <=> \E v \in ByPolicy : Holds(c, v)
  <1>1. Len(ledger) \in Nat
    BY LenProperties
  <1> DEFINE Rows == [call : Calls, verdict : Verdicts]
  <1>2. Len(Log) = Len(ledger)
    <2>1. \A i \in 1..Len(ledger) : ledger[i] \in Receipts
      BY LenProperties
    <2>2. Log \in [1..Len(ledger) -> Rows]
      BY <2>1 DEF Log, Receipts
    <2> HIDE DEF Rows
    <2>3. Log \in Seq(Rows)
      BY <1>1, <2>2, SeqDef
    <2> QED
      BY <1>1, <2>2, <2>3, LenProperties
  <1>3. Promise!Entries(c) = {i \in 1..Len(ledger) : ledger[i].call = c}
    <2>1. Promise!Entries(c) = {i \in 1..Len(Log) : Log[i].call = c}
      BY DEF Promise!Entries, Log
    <2>2. \A i \in 1..Len(ledger) : Log[i].call = ledger[i].call
      BY DEF Log
    <2> QED
      BY <1>2, <2>1, <2>2
  <1>4. Promise!Recorded(c) <=> HasReceipt(c)
    BY <1>3 DEF Promise!Recorded, HasReceipt
  <1>5. Promise!RecordedByPolicy(c) <=> \E v \in ByPolicy : Holds(c, v)
    <2>1. Promise!RecordedByPolicy(c) <=>
            \E i \in Promise!Entries(c) : Log[i].verdict \in ByPolicy
      BY DEF Promise!RecordedByPolicy, Promise!ByPolicy, Log, ByPolicy
    <2>2. \A i \in 1..Len(ledger) : Log[i].verdict = ledger[i].verdict
      BY DEF Log
    <2> QED
      BY <1>3, <2>1, <2>2 DEF Holds
  <1> QED
    BY <1>4, <1>5

\* Nothing but the run of a command adds to the calls that were performed.
LEMMA PerformedSteps ==
  ASSUME IInv, [Next]_vars
  PROVE  \/ Performed' = Performed
         \/ \E c \in Calls : Perform(c)
  <1>a. agent \in [Calls -> ClientStates]
    BY DEF IInv, TypeOK
  <1>1. ASSUME UNCHANGED agent PROVE Performed' = Performed
    BY <1>1 DEF Performed
  <1>2. ASSUME NEW c \in Calls, NEW state, agent' = [agent EXCEPT ![c] = state],
               state \in {"performed", "finished"} <=> agent[c] \in {"performed", "finished"}
        PROVE  Performed' = Performed
    BY <1>a, <1>2 DEF Performed
  <1>3. ASSUME NEW c \in Calls, Ask(c) PROVE Performed' = Performed
    BY <1>2, <1>3 DEF Ask
  <1>4. ASSUME NEW c \in Calls, ClientStep(c) \/ AgentLeaves(c), ~Perform(c)
        PROVE  Performed' = Performed
    <2>1. CASE HearReply(c)
      <3>1. PICK state \in {"cleared", "polling", "stopped"} : agent' = [agent EXCEPT ![c] = state]
        <4>1. CASE reply[c] = "EXECUTE"
          BY <2>1, <4>1 DEF HearReply
        <4>2. CASE reply[c] = "PENDING_APPROVAL"
          BY <2>1, <4>2 DEF HearReply
        <4>3. CASE reply[c] \notin {"EXECUTE", "PENDING_APPROVAL"}
          BY <2>1, <4>3 DEF HearReply
        <4> QED
          BY <4>1, <4>2, <4>3
      <3> QED
        BY <1>2, <2>1, <3>1 DEF HearReply
    <2>2. CASE Poll(c)
      BY <1>2, <2>2 DEF Poll
    <2>3. CASE PollDeadline(c)
      BY <1>2, <2>3 DEF PollDeadline
    <2>4. CASE Report(c)
      BY <1>2, <2>4 DEF Report
    <2>5. CASE AgentLeaves(c)
      BY <1>2, <2>5 DEF AgentLeaves
    <2> QED
      BY <1>4, <2>1, <2>2, <2>3, <2>4, <2>5 DEF ClientStep
  <1>5. ASSUME NEW c \in Calls, ExecuteStep(c) PROVE Performed' = Performed
    BY <1>1, <1>5 DEF ExecuteStep, LookUpAgent, RegisterAgent, RecordToolCall, EvaluatePolicy,
      Simulate, CreateApproval, AnnounceApproval
  <1>6. ASSUME NEW d \in Deciders, DecideStep(d) PROVE Performed' = Performed
    BY <1>1, <1>6 DEF DecideStep, Resolve, AnnounceResolution
  <1>7. ASSUME NEW d \in Deciders, NEW c \in Calls, NEW v \in ByHuman, StartDecision(d, c, v)
        PROVE  Performed' = Performed
    BY <1>1, <1>7 DEF StartDecision
  <1>8. ASSUME NEW r \in Requests, ReceiptStep(r) \/ FaultAt(r) PROVE Performed' = Performed
    BY <1>1, <1>8 DEF ReceiptStep, ReadHead, InsertReceipt, CommitReceipt,
      CommitUnacknowledged, AbortReceipt, FaultAt, Fail
  <1>9. CASE Crash
    BY <1>1, <1>9 DEF Crash
  <1>10. CASE UNCHANGED vars
    BY <1>1, <1>10 DEF vars
  <1> QED
    BY <1>3, <1>4, <1>5, <1>6, <1>7, <1>8, <1>9, <1>10 DEF Next

\* Every step is a step of the promise or leaves it as it is: a commit records, the
\* write of an APPROVED permits, the run of the command performs.
LEMMA PromiseStep == IInv /\ [Next]_vars => [Promise!Next]_(Promise!vars)
  <1> SUFFICES ASSUME IInv, [Next]_vars PROVE Promise!Next \/ UNCHANGED Promise!vars
    OBVIOUS
  <1>a. TypeOK
    BY DEF IInv
  <1>b. ASSUME UNCHANGED <<ledger, resolutions>>
        PROVE  UNCHANGED <<Log, Permitted>>
    <2>1. \A c \in Calls : Holds(c, "ALLOW")' <=> Holds(c, "ALLOW")
      BY <1>b, HoldsSame
    <2> QED
      BY <1>b, <2>1 DEF Log, Permitted
  <1>1. ASSUME NEW c \in Calls, Perform(c) PROVE Promise!Perform(c)
    <2>1. UNCHANGED <<Log, Permitted>>
      BY <1>1, <1>b DEF Perform, database
    <2>2. c \in Permitted
      BY <1>1 DEF Perform, IInv, ClearancesOK, Permitted
    <2>3. Performed' = Performed \cup {c}
      BY <1>a, <1>1 DEF Perform, Performed, TypeOK
    <2> QED
      BY <2>1, <2>2, <2>3 DEF Promise!Perform, Log, Permitted
  <1>2. ASSUME Performed' = Performed, UNCHANGED <<ledger, resolutions>>
        PROVE  UNCHANGED Promise!vars
    BY <1>2, <1>b DEF Promise!vars, Log, Permitted
  <1>3. ASSUME NEW d \in Deciders, Resolve(d), Performed' = Performed
        PROVE  Promise!Next \/ UNCHANGED Promise!vars
    <2>1. PICK c \in Calls, v \in ByHuman : subject[d] = c /\ verdict[d] = v
      BY <1>3 DEF Resolve, IInv, PointsOK, VerdictsOK, InFlight, DecidePoints
    <2>2. ledger' = ledger /\ resolutions' = resolutions \cup {<<c, v>>}
      BY <1>3, <2>1 DEF Resolve
    <2>3. Log' = Log /\ \A x \in Calls : Holds(x, "ALLOW")' <=> Holds(x, "ALLOW")
      BY <2>2, HoldsSame DEF Log
    <2>4. CASE v = "APPROVED"
      <3>1. Permitted' = Permitted \cup {c}
        BY <2>2, <2>3, <2>4 DEF Permitted
      <3>2. ~Promise!RecordedByPolicy(c)
        <4>1. approval[c] # "NONE"
          BY <1>3, <2>1 DEF IInv, PointsOK
        <4>2. \A w \in ByPolicy : ~Holds(c, w)
          BY <4>1 DEF IInv, ApprovalsOK, ByPolicy
        <4> QED
          BY <1>a, <4>2, LogHolds DEF TypeOK
      <3>3. Promise!Permit(c)
        BY <1>3, <2>3, <3>1, <3>2 DEF Promise!Permit, Log, Permitted
      <3> QED
        BY <3>3 DEF Promise!Next
    <2>5. CASE v # "APPROVED"
      <3>1. Permitted' = Permitted
        BY <2>2, <2>3, <2>5 DEF Permitted
      <3> QED
        BY <1>3, <2>3, <3>1 DEF Promise!vars, Log, Permitted
    <2> QED
      BY <2>4, <2>5
  <1>4. ASSUME NEW r \in Requests, Wrote(r), Performed' = Performed
        PROVE  Promise!Next
    <2>1. /\ ledger \in Seq(Receipts) /\ ReceiptOf(r) \in Receipts
          /\ ledger' = Append(ledger, ReceiptOf(r))
      BY <1>4, WritesAReceipt DEF IInv, TypeOK, Wrote, ReceiptPoints
    <2>2. PICK c \in Calls, v \in Verdicts :
            /\ subject[r] = c /\ verdict[r] = v
            /\ ReceiptOf(r).call = c /\ ReceiptOf(r).verdict = v
      BY <2>1 DEF ReceiptOf, Receipts
    <2> DEFINE entry == [call |-> c, verdict |-> v]
    <2>3. Log' = Append(Log, entry)
      BY <2>1, <2>2, LogAppend
    <2>4. ~Promise!Recorded(c)
      <3>1. ~HasReceipt(c)
        BY <1>4, <2>2 DEF Wrote, Serializable, IInv, SnapshotsOK, HasReceipt
      <3> QED
        BY <2>1, <3>1, LogHolds
    <2>5. \A x \in Calls : Holds(x, "ALLOW")' <=> Holds(x, "ALLOW") \/ (c = x /\ v = "ALLOW")
      BY <1>4, <2>2, LedgerGrows
    <2>6. resolutions' = resolutions
      BY <1>4 DEF Wrote
    <2>7. CASE r \in Calls
      <3>1. v \in ByPolicy /\ c = r
        BY <1>4, <2>2, <2>7 DEF Wrote, IInv, VerdictsOK, PointsOK, ReceiptPoints
      <3>2. c \notin Permitted
        <4>1. approval[c] = "NONE"
          BY <1>4, <2>7, <3>1 DEF Wrote, IInv, ApprovalsOK
        <4>2. <<c, "APPROVED">> \notin resolutions
          BY <2>2, <4>1 DEF IInv, ApprovalsOK, ByHuman
        <4>3. ~Holds(c, "ALLOW")
          BY <1>4, <2>2 DEF Wrote, Serializable, IInv, SnapshotsOK, HasReceipt, Holds
        <4> QED
          BY <4>2, <4>3 DEF Permitted
      <3>3. Permitted' = IF v = "ALLOW" THEN Permitted \cup {c} ELSE Permitted
        BY <2>2, <2>5, <2>6 DEF Permitted
      <3>4. Promise!RecordPolicy(c, v)
        BY <1>4, <2>3, <2>4, <3>2, <3>3 DEF Promise!RecordPolicy, Log, Permitted
      <3> QED
        BY <2>2, <3>1, <3>4 DEF Promise!Next, Promise!ByPolicy, ByPolicy
    <2>8. CASE r \in Deciders
      <3>1. v \in ByHuman /\ <<c, v>> \in resolutions
        BY <1>4, <2>2, <2>8 DEF Wrote, IInv, VerdictsOK, InFlight, ReceiptPoints
      <3>2. v = "APPROVED" => c \in Permitted
        BY <2>2, <3>1 DEF Permitted
      <3>3. Permitted' = Permitted
        BY <2>2, <2>5, <2>6, <3>1 DEF Permitted, ByHuman
      <3>4. Promise!RecordHuman(c, v)
        BY <1>4, <2>3, <2>4, <3>2, <3>3 DEF Promise!RecordHuman, Log, Permitted
      <3> QED
        BY <2>2, <3>1, <3>4 DEF Promise!Next, Promise!ByHuman, ByHuman
    <2> QED
      BY <2>7, <2>8 DEF Requests
  <1>5. CASE \E c \in Calls : Perform(c)
    BY <1>1, <1>5 DEF Promise!Next
  <1>6. CASE Performed' = Performed
    <2>1. \/ UNCHANGED <<ledger, resolutions>>
          \/ \E d \in Deciders : Resolve(d)
          \/ \E r \in Requests : Wrote(r)
      BY StepKinds DEF Still, Crash, Aside, Advance, AnnounceResolution, Began, database
    <2> QED
      BY <1>2, <1>3, <1>4, <1>6, <2>1
  <1> QED
    BY <1>5, <1>6, PerformedSteps

\* The interleaved handlers, with their aborts, faults and crashes, implement the
\* ledger whose decisions are single steps.
THEOREM LedgerIsImplemented == Spec => ImplementsLedger
  BY PromiseInit, PromiseStep, Invariance, PTL DEF Spec, ImplementsLedger, Promise!Spec

=============================================================================
