----------------------------- MODULE RunRecords -----------------------------
(***************************************************************************)
(* The records of the runs of one operation: createRun with the loop       *)
(* detection in front of it, and emitRunEvent, which numbers the events of *)
(* a run's timeline; and the check of the timeline in an exported case file*)
(*                                                                         *)
(* A creator is a client of POST /api/runs or a webhook, which creates     *)
(* runs without loop detection; a reporter is any other caller of          *)
(* emitRunEvent. Each sends one request after the other.  Every await is a *)
(* step of its own. A run's id is a hash of its operation and attempt:     *)
(* here it is the attempt.                                                 *)
(*                                                                         *)
(* Definitions that no action uses are the mistakes the properties are     *)
(* tested against.                                                         *)
(***************************************************************************)
EXTENDS Naturals, FiniteSets, Sequences

CONSTANTS
  Clients,      \* clients of POST /api/runs
  Webhooks,     \* webhook handlers that create runs
  Reporters,    \* transitions, gateway calls, ... that report on a run
  Threshold,    \* LOOP_DETECTION_THRESHOLD
  MaxRequests,  \* bound: requests to create a run
  MaxReports,   \* bound: events beside those of the creations
  MaxFaults     \* bound: failed statements

Creators == Clients \cup Webhooks
Processes == Creators \cup Reporters

ASSUME RecordsAssumption ==
  /\ IsFiniteSet(Creators) /\ Clients # {}
  /\ Clients \cap Webhooks = {} /\ Creators \cap Reporters = {}
  /\ {Threshold, MaxRequests, MaxReports, MaxFaults} \subseteq Nat

VARIABLES
  runs,      \* attempts with a Run row
  recent,    \* those of them created in the last LOOP_DETECTION_WINDOW_MS
  operation, \* Operation.status
  timeline,  \* RunEvent rows of an attempt, [seq, type], in commit order
  pc,
  attempt,   \* the run a request is about
  last,      \* the sequence number its transaction has read
  requests,
  reports,
  faults,
  byClient,  \* history: runs created through POST /api/runs
  crowded    \* history: runs with two transactions of emitRunEvent at once

\* The history variables.
history == <<byClient, crowded>>

vars == <<runs, recent, operation, timeline, pc, attempt, last, requests,
          reports, faults, history>>

\* The bounds' counters.
counts == <<requests, reports, faults>>

Attempts == 1..MaxRequests

Init ==
  /\ runs = {}
  /\ recent = {}
  /\ operation = "open"
  /\ timeline = [a \in Attempts |-> <<>>]
  /\ pc = [p \in Processes |-> "idle"]
  /\ attempt = [p \in Processes |-> 0]
  /\ last = [p \in Processes |-> 0]
  /\ requests = 0
  /\ reports = 0
  /\ faults = 0
  /\ byClient = {}
  /\ crowded = {}

GoTo(p, point) == pc' = [pc EXCEPT ![p] = point]

\* The request is over and its locals are gone.
Finish(p) ==
  /\ GoTo(p, "idle")
  /\ attempt' = [attempt EXCEPT ![p] = 0]
  /\ last' = [last EXCEPT ![p] = 0]

-----------------------------------------------------------------------------
(* POST /api/runs and the webhooks: createRun                              *)

Request(p) ==
  /\ pc[p] = "idle"
  /\ requests < MaxRequests
  /\ requests' = requests + 1
  /\ GoTo(p, IF p \in Clients THEN "loop" ELSE "count")
  /\ UNCHANGED <<runs, recent, operation, timeline, attempt, last, reports,
                 faults, history>>

OnePastThreshold == Cardinality(recent) > Threshold

\* detectLoop.
LoopDetected == Cardinality(recent) >= Threshold

\* With a loop detected the answer is 429.
CheckLoop(p) ==
  /\ pc[p] = "loop"
  /\ IF LoopDetected
     THEN Finish(p)
     ELSE GoTo(p, "count") /\ UNCHANGED <<attempt, last>>
  /\ UNCHANGED <<runs, recent, operation, timeline, counts, history>>

RequestNumber == requests

NextAttempt == Cardinality(runs) + 1

CountRuns(p) ==
  /\ pc[p] = "count"
  /\ attempt' = [attempt EXCEPT ![p] = NextAttempt]
  /\ GoTo(p, "create")
  /\ UNCHANGED <<runs, recent, operation, timeline, last, counts, history>>

\* run.create: the id is the primary key, so of two requests that counted the
\* same runs the second throws.
CreateRow(p) ==
  /\ pc[p] = "create"
  /\ IF attempt[p] \in runs
     THEN Finish(p) /\ UNCHANGED <<runs, recent, byClient>>
     ELSE /\ runs' = runs \cup {attempt[p]}
          /\ recent' = recent \cup {attempt[p]}
          /\ byClient' = IF p \in Clients THEN byClient \cup {attempt[p]} ELSE byClient
          /\ GoTo(p, "read")
          /\ UNCHANGED <<attempt, last>>
  /\ UNCHANGED <<operation, timeline, counts, crowded>>

\* operation.update, after run.created has been persisted; then the answer.
MarkOperation(p) ==
  /\ pc[p] = "mark"
  /\ operation' = "in_progress"
  /\ Finish(p)
  /\ UNCHANGED <<runs, recent, timeline, counts, history>>

\* A run leaves the window of the loop detection.
Age(a) ==
  /\ a \in recent
  /\ recent' = recent \ {a}
  /\ UNCHANGED <<runs, operation, timeline, pc, attempt, last, counts, history>>

-----------------------------------------------------------------------------
(* emitRunEvent: a transaction at the database's default isolation level,  *)
(* Read Committed                                                          *)

Report(p, a) ==
  /\ pc[p] = "idle"
  /\ a \in runs
  /\ reports < MaxReports
  /\ reports' = reports + 1
  /\ attempt' = [attempt EXCEPT ![p] = a]
  /\ GoTo(p, "read")
  /\ UNCHANGED <<runs, recent, operation, timeline, last, requests, faults,
                 history>>

Numbers(a) == {timeline[a][i].seq : i \in DOMAIN timeline[a]}

HowMany(a) == Len(timeline[a])

\* runEvent.findFirst(orderBy sequenceNum desc), 0 for none.
LastNumber(a) ==
  IF timeline[a] = <<>> THEN 0
  ELSE CHOOSE n \in Numbers(a) : \A k \in Numbers(a) : k <= n

ReadLast(p) ==
  /\ pc[p] = "read"
  /\ last' = [last EXCEPT ![p] = LastNumber(attempt[p])]
  /\ GoTo(p, "append")
  /\ crowded' = IF \E q \in Processes : pc[q] = "append" /\ attempt[q] = attempt[p]
                THEN crowded \cup {attempt[p]}
                ELSE crowded
  /\ UNCHANGED <<runs, recent, operation, timeline, attempt, counts, byClient>>

DefaultOnly(p) == IF last[p] = 0 THEN 1 ELSE last[p]

NextNumber(p) == last[p] + 1

AppendEvent(p) ==
  /\ pc[p] = "append"
  /\ timeline' = [timeline EXCEPT ![attempt[p]] =
                    Append(@, [seq |-> NextNumber(p),
                               type |-> IF p \in Creators THEN "created"
                                                          ELSE "reported"])]
  /\ IF p \in Creators
     THEN GoTo(p, "mark") /\ UNCHANGED <<attempt, last>>
     ELSE Finish(p)
  /\ UNCHANGED <<runs, recent, operation, counts, history>>

\* A statement fails: the request answers 500, or the webhook logs it.
Fault(p) ==
  /\ faults < MaxFaults
  /\ pc[p] # "idle"
  /\ faults' = faults + 1
  /\ Finish(p)
  /\ UNCHANGED <<runs, recent, operation, timeline, requests, reports, history>>

-----------------------------------------------------------------------------
(* GET /api/case-files/:runId and scripts/verify-case-file.ts              *)

\* An event, and those that "order by sequenceNum" lists before it.
UpTo(a, i) ==
  {j \in DOMAIN timeline[a] :
     \/ timeline[a][j].seq < timeline[a][i].seq
     \/ timeline[a][j].seq = timeline[a][i].seq /\ j <= i}

\* The numbers of a run's timeline as the export lists them.
Exported(a) ==
  [k \in DOMAIN timeline[a] |->
     timeline[a][CHOOSE i \in DOMAIN timeline[a] : Cardinality(UpTo(a, i)) = k].seq]

\* The verifier's check of the timeline.
TimelineOrdered(file) == \A i \in 2..Len(file) : file[i - 1] < file[i]

-----------------------------------------------------------------------------
CreateStep(p) == CheckLoop(p) \/ CountRuns(p) \/ CreateRow(p) \/ MarkOperation(p)
EmitStep(p) == ReadLast(p) \/ AppendEvent(p)

Next ==
  \/ \E p \in Creators : Request(p) \/ CreateStep(p)
  \/ \E p \in Reporters, a \in Attempts : Report(p, a)
  \/ \E p \in Processes : EmitStep(p) \/ Fault(p)
  \/ \E a \in Attempts : Age(a)

Spec == Init /\ [][Next]_vars

-----------------------------------------------------------------------------
(* Properties                                                              *)

\* The attempts of an operation are numbered 1, 2, 3 without a gap, however many
\* requests count the same runs: the second of two equal attempts is refused.
AttemptsAreContiguous == runs = 1..Cardinality(runs)

\* Loop detection lets the recent runs of POST /api/runs exceed the threshold by
\* at most the requests that passed it at the same time.
LoopIsBounded ==
  Cardinality(recent \cap byClient) <= Threshold + Cardinality(Clients) - 1

\* The numbers of a timeline have no gap, even where transactions that overlap
\* have given the same number twice.
TimelineHasNoGaps == \A a \in Attempts : Numbers(a) = 1..LastNumber(a)

\* The timeline in a run's case file passes the verifier whenever it is exported,
\* unless two transactions of emitRunEvent have overlapped for the run.
CaseFileIsOrdered ==
  \A a \in Attempts : TimelineOrdered(Exported(a)) \/ a \in crowded
=============================================================================
