-------------------------- MODULE OperationsProofs --------------------------
(***************************************************************************)
(* Theorems about operations: the records of an operation's runs           *)
(* (RunRecords), for any number of creators and reporters, any threshold,  *)
(* and any bounds on requests, reports and faults; and the intake that     *)
(* makes operations of webhooks and gives them agents (Intake), for any    *)
(* deliveries, commits, agents and handlers.                               *)
(*                                                                         *)
(* The two share no variable; the theorems about each are of its own       *)
(* specification, first those of RunRecords, then those of Intake.         *)
(***************************************************************************)
EXTENDS RunRecords, IntakeInvariant, FiniteSetTheorems, SequenceTheorems, TLAPS

Events == [seq : Nat, type : {"created", "reported"}]

\* Where a process of each kind can stand.
Types ==
  /\ pc \in [Processes -> {"idle", "loop", "count", "create", "read", "append", "mark"}]
  /\ attempt \in [Processes -> Nat]
  /\ last \in [Processes -> Nat]
  /\ timeline \in [Attempts -> Seq(Events)]
  /\ \A p \in Reporters : pc[p] \in {"idle", "read", "append"}

Creating == {p \in Creators : pc[p] \in {"loop", "count", "create"}}

\* A process that creates a row counted no more than there are now; afterwards
\* it is about a row that exists.
AttemptOK(p) ==
  /\ pc[p] = "create" => attempt[p] \in 1..(Cardinality(runs) + 1)
  /\ pc[p] \in {"read", "append", "mark"} => attempt[p] \in runs

\* The rows: numbered without a gap, with room for those that are being created.
RowsOK ==
  /\ IsFiniteSet(runs)
  /\ runs = 1..Cardinality(runs)
  /\ Cardinality(runs) + Cardinality(Creating) <= requests
  /\ requests \in 0..MaxRequests
  /\ recent \subseteq runs
  /\ \A p \in Processes : AttemptOK(p)

\* A transaction of emitRunEvent that has read the last number of an attempt.
Appending(p, a) == pc[p] = "append" /\ attempt[p] = a

\* The timelines: numbered without a gap, and nobody has read more than there is.
TimelinesOK ==
  /\ \A a \in Attempts : LastNumber(a) \in Nat /\ Numbers(a) = 1..LastNumber(a)
  /\ \A p \in Processes, a \in Attempts : Appending(p, a) => last[p] <= LastNumber(a)

\* Where emitRunEvent has never overlapped: the events have the numbers 1, 2, 3 in
\* commit order, one transaction at most is open, and what it has read is current.
OrderOK ==
  \A a \in Attempts \ crowded :
    /\ \A i \in 1..Len(timeline[a]) : timeline[a][i].seq = i
    /\ \A p \in Processes : Appending(p, a) =>
         /\ last[p] = Len(timeline[a])
         /\ \A q \in Processes : Appending(q, a) => q = p

\* The clients that have passed the loop detection and not created their run.
Passed == {p \in Clients : pc[p] \in {"count", "create"}}

\* The recent runs of POST /api/runs and the requests that may become one.
LoopOK ==
  /\ byClient \subseteq runs
  /\ Cardinality(recent \cap byClient) + Cardinality(Passed)
       <= Threshold + Cardinality(Clients) - 1

IInv == Types /\ RowsOK /\ TimelinesOK /\ OrderOK /\ LoopOK

-----------------------------------------------------------------------------
(* Lemmas about the model's operators                                      *)

\* The last number of a timeline whose numbers have no gap.
LEMMA LastOfInterval ==
  ASSUME NEW s \in Seq(Events), NEW n \in Nat, {s[i].seq : i \in DOMAIN s} = 1..n
  PROVE  n = IF s = <<>> THEN 0
             ELSE CHOOSE m \in {s[i].seq : i \in DOMAIN s} :
                    \A k \in {s[i].seq : i \in DOMAIN s} : k <= m
  <1> DEFINE numbers == {s[i].seq : i \in DOMAIN s}
  <1>1. CASE s = <<>>
    <2>1. numbers = {}
      BY <1>1
    <2> QED
      BY <1>1, <2>1
  <1>2. CASE s # <<>>
    <2>1. 1 \in DOMAIN s
      BY <1>2, LenProperties, EmptySeq
    <2>2. numbers # {}
      BY <2>1
    <2>3. numbers = 1..n
      OBVIOUS
    <2> HIDE DEF numbers
    <2>4. n \in numbers /\ \A k \in numbers : k <= n
      BY <2>2, <2>3
    <2>5. \A m \in numbers : (\A k \in numbers : k <= m) => m = n
      BY <2>3, <2>4
    <2>6. (CHOOSE m \in numbers : \A k \in numbers : k <= m) = n
      BY <2>4, <2>5
    <2> QED
      BY <1>2, <2>6 DEF numbers
  <1> QED
    BY <1>1, <1>2

\* An event appended to a timeline adds its number and keeps the others.
LEMMA NumbersAppend ==
  ASSUME NEW a \in Attempts, timeline \in [Attempts -> Seq(Events)], NEW e \in Events,
         timeline'[a] = Append(timeline[a], e)
  PROVE  /\ Numbers(a)' = Numbers(a) \cup {e.seq}
         /\ Len(timeline'[a]) = Len(timeline[a]) + 1
         /\ Len(timeline[a]) \in Nat
         /\ \A i \in 1..Len(timeline[a]) : timeline'[a][i] = timeline[a][i]
         /\ timeline'[a][Len(timeline[a]) + 1] = e
  <1> DEFINE s == timeline[a]
             t == timeline'[a]
  <1>1. s \in Seq(Events) /\ t = Append(s, e)
    OBVIOUS
  <1>2. /\ t \in Seq(Events)
        /\ Len(t) = Len(s) + 1
        /\ \A i \in 1..Len(s) : t[i] = s[i]
        /\ t[Len(s) + 1] = e
        /\ Len(s) \in Nat
        /\ DOMAIN s = 1..Len(s) /\ DOMAIN t = 1..Len(t)
    BY <1>1, AppendProperties, LenProperties
  <1>3. {t[i].seq : i \in DOMAIN t} = {s[i].seq : i \in DOMAIN s} \cup {e.seq}
    <2> HIDE DEF s, t
    <2>1. DOMAIN t = DOMAIN s \cup {Len(s) + 1}
      BY <1>2
    <2>2. ASSUME NEW i \in DOMAIN t PROVE t[i].seq \in {s[j].seq : j \in DOMAIN s} \cup {e.seq}
      <3>1. CASE i \in DOMAIN s
        <4>1. t[i] = s[i]
          BY <1>2, <3>1
        <4> QED
          BY <3>1, <4>1
      <3>2. CASE i = Len(s) + 1
        BY <1>2, <3>2
      <3> QED
        BY <2>1, <3>1, <3>2
    <2>3. ASSUME NEW i \in DOMAIN s PROVE s[i].seq \in {t[j].seq : j \in DOMAIN t}
      <3>1. i \in DOMAIN t /\ t[i] = s[i]
        BY <1>2, <2>1
      <3> QED
        BY <3>1
    <2>4. e.seq \in {t[j].seq : j \in DOMAIN t}
      BY <1>2, <2>1
    <2> QED
      BY <2>2, <2>3, <2>4
  <1> QED
    BY <1>2, <1>3 DEF Numbers

\* Two sets of creators that differ in one of them at most.
LEMMA Counting ==
  ASSUME NEW S \in SUBSET Creators, NEW T \in SUBSET Creators, NEW p, S \ {p} = T \ {p}
  PROVE  /\ Cardinality(S) \in Nat /\ Cardinality(T) \in Nat
         /\ (p \in T => p \in S) => Cardinality(T) <= Cardinality(S)
         /\ p \in S \ T => Cardinality(T) = Cardinality(S) - 1
         /\ p \in T \ S => Cardinality(T) = Cardinality(S) + 1
  <1> USE RecordsAssumption, FS_CardinalityType
  <1>1. IsFiniteSet(S) /\ IsFiniteSet(T)
    BY FS_Subset
  <1>2. ASSUME p \in T => p \in S PROVE Cardinality(T) <= Cardinality(S)
    <2>1. T \in SUBSET S
      BY <1>2
    <2> QED
      BY <1>1, <2>1, FS_Subset
  <1>3. ASSUME p \in S \ T PROVE Cardinality(T) = Cardinality(S) - 1
    <2>1. T = S \ {p}
      BY <1>3
    <2> QED
      BY <1>1, <1>3, <2>1, FS_RemoveElement
  <1>4. ASSUME p \in T \ S PROVE Cardinality(T) = Cardinality(S) + 1
    <2>1. T = S \cup {p}
      BY <1>4
    <2> QED
      BY <1>1, <1>4, <2>1, FS_AddElement
  <1> QED
    BY <1>1, <1>2, <1>3, <1>4

\* Under the invariant every run is one of the attempts, and the counts are numbers.
LEMMA RunsAreAttempts ==
  ASSUME RowsOK
  PROVE  /\ Cardinality(runs) \in Nat /\ Cardinality(Creating) \in Nat
         /\ Cardinality(runs) <= MaxRequests /\ runs \subseteq Attempts
         /\ \A p \in Processes : pc[p] \in {"read", "append", "mark"} => attempt[p] \in Attempts
  <1>1. Cardinality(runs) \in Nat
    BY FS_CardinalityType DEF RowsOK
  <1>2. Cardinality(Creating) \in Nat
    BY Counting DEF Creating
  <1>3. requests \in Nat /\ requests <= MaxRequests /\ MaxRequests \in Nat
    BY RecordsAssumption DEF RowsOK
  <1>4. Cardinality(runs) <= MaxRequests
    BY <1>1, <1>2, <1>3 DEF RowsOK
  <1>5. runs \subseteq Attempts
    <2>1. runs = 1..Cardinality(runs)
      BY DEF RowsOK
    <2> HIDE DEF RowsOK
    <2> QED
      BY <1>1, <1>3, <1>4, <2>1 DEF Attempts
  <1> QED
    BY <1>1, <1>2, <1>4, <1>5 DEF RowsOK, AttemptOK

-----------------------------------------------------------------------------
(* The invariant                                                           *)

\* Nothing is there yet.
LEMMA InvInit == Init => IInv
  <1> SUFFICES ASSUME Init PROVE IInv
    OBVIOUS
  <1>1. Types
    BY DEF Init, Types, Processes
  <1>2. Creating = {} /\ IsFiniteSet(runs) /\ Cardinality(runs) = 0 /\ Cardinality(Creating) = 0
    BY FS_EmptySet DEF Init, Creating, Processes
  <1>3. RowsOK
    BY <1>2, RecordsAssumption DEF Init, RowsOK, AttemptOK, Processes
  <1>4. ASSUME NEW a \in Attempts PROVE LastNumber(a) = 0 /\ Numbers(a) = 1..LastNumber(a)
    <2>1. timeline[a] = <<>>
      BY DEF Init
    <2>2. LastNumber(a) = 0 /\ Numbers(a) = {}
      BY <2>1 DEF LastNumber, Numbers
    <2> QED
      BY <2>2
  <1>5. \A p \in Processes : pc[p] # "append"
    BY DEF Init
  <1>6. TimelinesOK
    BY <1>4, <1>5 DEF TimelinesOK, Appending
  <1>7. OrderOK
    <2>1. \A a \in Attempts : Len(timeline[a]) = 0
      BY DEF Init
    <2> QED
      BY <1>5, <2>1 DEF OrderOK, Appending
  <1>8. LoopOK
    <2>1. recent \cap byClient = {} /\ Passed = {} /\ byClient = {}
      BY DEF Init, Passed, Processes, Creators
    <2>2. Cardinality({}) = 0
      BY FS_EmptySet
    <2>3. IsFiniteSet(Clients) /\ Clients # {}
      BY RecordsAssumption, FS_Subset DEF Creators
    <2>4. Cardinality(Clients) \in Nat /\ Cardinality(Clients) # 0
      BY <2>3, FS_CardinalityType, FS_EmptySet
    <2> QED
      BY <2>1, <2>2, <2>4, RecordsAssumption DEF LoopOK
  <1> QED
    BY <1>1, <1>3, <1>6, <1>7, <1>8 DEF IInv

\* Every step keeps the types, and a reporter out of the creators' steps.
LEMMA StepTypes == IInv /\ [Next]_vars => Types'
  <1> SUFFICES ASSUME IInv, [Next]_vars PROVE Types'
    OBVIOUS
  <1>a. /\ \A a \in Attempts : LastNumber(a) \in Nat
        /\ \A p \in Processes : pc[p] \in {"read", "append", "mark"} => attempt[p] \in Attempts
        /\ Cardinality(runs) \in Nat
    BY RunsAreAttempts DEF IInv, TimelinesOK
  <1>b. /\ \A p \in Creators : p \in Processes /\ p \notin Reporters
        /\ \A p \in Reporters : p \in Processes /\ p \notin Creators
    BY RecordsAssumption DEF Processes
  <1>c. Types
    BY DEF IInv
  <1>d. ASSUME NEW p \in Processes, Finish(p), timeline' \in [Attempts -> Seq(Events)]
        PROVE  Types'
    BY <1>b, <1>c, <1>d DEF Types, Finish, GoTo
  <1> USE <1>b, <1>c DEF Types, GoTo
  <1>1. ASSUME NEW p \in Creators, Request(p) PROVE Types'
    BY <1>1 DEF Request
  <1>2. ASSUME NEW p \in Creators, CheckLoop(p) PROVE Types'
    <2>1. CASE LoopDetected
      BY <1>2, <1>d, <2>1 DEF CheckLoop
    <2>2. CASE ~LoopDetected
      BY <1>2, <2>2 DEF CheckLoop
    <2> QED
      BY <2>1, <2>2
  <1>3. ASSUME NEW p \in Creators, CountRuns(p) PROVE Types'
    BY <1>a, <1>3 DEF CountRuns, NextAttempt
  <1>4. ASSUME NEW p \in Creators, CreateRow(p) PROVE Types'
    <2>1. CASE attempt[p] \in runs
      BY <1>4, <1>d, <2>1 DEF CreateRow
    <2>2. CASE attempt[p] \notin runs
      BY <1>4, <2>2 DEF CreateRow
    <2> QED
      BY <2>1, <2>2
  <1>5. ASSUME NEW p \in Creators, MarkOperation(p) PROVE Types'
    BY <1>5, <1>d DEF MarkOperation
  <1>6. ASSUME NEW p \in Reporters, NEW a \in Attempts, Report(p, a) PROVE Types'
    BY <1>6 DEF Report, Attempts
  <1>7. ASSUME NEW p \in Processes, ReadLast(p) PROVE Types'
    <2>1. LastNumber(attempt[p]) \in Nat
      BY <1>a, <1>7 DEF ReadLast
    <2> QED
      BY <1>7, <2>1 DEF ReadLast
  <1>8. ASSUME NEW p \in Processes, AppendEvent(p) PROVE Types'
    <2>1. [seq |-> NextNumber(p),
           type |-> IF p \in Creators THEN "created" ELSE "reported"] \in Events
      BY DEF NextNumber, Events
    <2>2. timeline' \in [Attempts -> Seq(Events)]
      BY <1>8, <2>1, AppendProperties DEF AppendEvent
    <2>3. CASE p \in Creators
      BY <1>8, <2>2, <2>3 DEF AppendEvent
    <2>4. CASE p \notin Creators
      BY <1>8, <1>d, <2>2, <2>4 DEF AppendEvent
    <2> QED
      BY <2>3, <2>4
  <1>9. ASSUME NEW p \in Processes, Fault(p) PROVE Types'
    BY <1>9, <1>d DEF Fault
  <1>10. ASSUME NEW a \in Attempts, Age(a) PROVE Types'
    BY <1>10 DEF Age
  <1>11. CASE UNCHANGED vars
    BY <1>11 DEF vars
  <1> QED
    BY <1>1, <1>2, <1>3, <1>4, <1>5, <1>6, <1>7, <1>8, <1>9, <1>10, <1>11
    DEF Next, CreateStep, EmitStep

\* A step that creates no row and takes no new request.
LEMMA RowsKept ==
  ASSUME RowsOK, runs' = runs, requests' = requests, recent' \subseteq runs,
         Creating' \subseteq Creating, \A p \in Processes : AttemptOK(p)'
  PROVE  RowsOK'
  <1>1. Cardinality(Creating') <= Cardinality(Creating)
    <2>1. IsFiniteSet(Creating)
      BY RecordsAssumption, FS_Subset DEF Creating
    <2> QED
      BY <2>1, FS_Subset
  <1>2. Cardinality(Creating') \in Nat /\ Cardinality(Creating) \in Nat
    <2>1. Creating \in SUBSET Creators /\ Creating' \in SUBSET Creators
      BY DEF Creating
    <2> HIDE DEF Creating
    <2> QED
      BY <2>1, Counting
  <1>3. Cardinality(runs) \in Nat
    BY FS_CardinalityType DEF RowsOK
  <1>4. Cardinality(Creating)' = Cardinality(Creating')
    OBVIOUS
  <1>5. Cardinality(runs') + Cardinality(Creating)' <= requests'
    BY <1>1, <1>2, <1>3, <1>4, RecordsAssumption DEF RowsOK
  <1> QED
    BY <1>5 DEF RowsOK

\* Every step keeps the rows in order.
LEMMA StepRows == IInv /\ [Next]_vars => RowsOK'
  <1> SUFFICES ASSUME IInv, [Next]_vars PROVE RowsOK'
    OBVIOUS
  <1>a. Types /\ RowsOK /\ Creating \in SUBSET Creators /\ Creating' \in SUBSET Creators
    BY DEF IInv, Creating
  <1>b. /\ \A p \in Creators : p \in Processes /\ p \notin Reporters
        /\ \A p \in Reporters : p \in Processes /\ p \notin Creators
    BY RecordsAssumption DEF Processes
  <1>c. /\ Cardinality(runs) \in Nat /\ Cardinality(Creating) \in Nat
        /\ requests \in Nat /\ recent \subseteq runs
        /\ Cardinality(runs) + Cardinality(Creating) <= requests
        /\ IsFiniteSet(runs) /\ runs = 1..Cardinality(runs)
        /\ \A p \in Processes : AttemptOK(p)
    BY <1>a, RunsAreAttempts DEF RowsOK
  <1>d. ASSUME NEW p \in Processes, Finish(p), runs' = runs, requests' = requests,
               recent' \subseteq recent
        PROVE  RowsOK'
    <2>1. Creating' \subseteq Creating
      BY <1>a, <1>b, <1>d DEF Types, Finish, GoTo, Creating
    <2>2. \A q \in Processes : AttemptOK(q)'
      BY <1>a, <1>c, <1>d DEF Types, Finish, GoTo, AttemptOK
    <2> QED
      BY <1>a, <1>c, <1>d, <2>1, <2>2, RowsKept
  <1>1. ASSUME NEW p \in Creators, Request(p) PROVE RowsOK'
    <2>1. Creating \ {p} = Creating' \ {p} /\ p \in Creating' \ Creating
      BY <1>a, <1>b, <1>1 DEF Types, Creating, Request, GoTo
    <2>2. Cardinality(Creating') = Cardinality(Creating) + 1
      <3> HIDE DEF Creating
      <3> QED
        BY <1>a, <2>1, Counting
    <2>3. Cardinality(Creating)' = Cardinality(Creating) + 1
      BY <2>2
    <2>4. \A q \in Processes : AttemptOK(q)'
      BY <1>a, <1>b, <1>c, <1>1 DEF Types, AttemptOK, Request, GoTo
    <2>5. requests' \in 0..MaxRequests
      BY <1>c, <1>1, RecordsAssumption DEF Request
    <2> QED
      BY <1>c, <1>1, <2>3, <2>4, <2>5 DEF RowsOK, Request
  <1>2. ASSUME NEW p \in Creators, CheckLoop(p) PROVE RowsOK'
    <2>1. CASE LoopDetected
      BY <1>b, <1>2, <1>d, <2>1 DEF CheckLoop, counts
    <2>2. CASE ~LoopDetected
      <3>1. Creating' \subseteq Creating
        BY <1>a, <1>b, <1>2, <2>2 DEF Types, Creating, CheckLoop, GoTo
      <3>2. \A q \in Processes : AttemptOK(q)'
        BY <1>a, <1>b, <1>c, <1>2, <2>2 DEF Types, AttemptOK, CheckLoop, GoTo
      <3> QED
        BY <1>a, <1>c, <1>2, <3>1, <3>2, RowsKept DEF CheckLoop, counts
    <2> QED
      BY <2>1, <2>2
  <1>3. ASSUME NEW p \in Creators, CountRuns(p) PROVE RowsOK'
    <2>1. Creating' \subseteq Creating
      BY <1>a, <1>b, <1>3 DEF Types, Creating, CountRuns, GoTo
    <2>2. \A q \in Processes : AttemptOK(q)'
      BY <1>a, <1>b, <1>c, <1>3 DEF Types, AttemptOK, CountRuns, GoTo, NextAttempt
    <2> QED
      BY <1>a, <1>c, <1>3, <2>1, <2>2, RowsKept DEF CountRuns, counts
  <1>4. ASSUME NEW p \in Creators, CreateRow(p) PROVE RowsOK'
    <2>1. CASE attempt[p] \in runs
      BY <1>b, <1>4, <1>d, <2>1 DEF CreateRow, counts
    <2>2. CASE attempt[p] \notin runs
      <3>1. attempt[p] = Cardinality(runs) + 1
        BY <1>b, <1>c, <1>4, <2>2 DEF AttemptOK, CreateRow
      <3>2. runs' = runs \cup {attempt[p]} /\ recent' = recent \cup {attempt[p]}
        BY <1>4, <2>2 DEF CreateRow
      <3>3. IsFiniteSet(runs') /\ Cardinality(runs') = Cardinality(runs) + 1
        BY <1>c, <2>2, <3>2, FS_AddElement
      <3>4. runs' = 1..(Cardinality(runs) + 1)
        BY <1>c, <3>1, <3>2
      <3>5. Creating \ {p} = Creating' \ {p} /\ p \in Creating \ Creating'
        BY <1>a, <1>b, <1>4, <2>2 DEF Types, Creating, CreateRow, GoTo
      <3>6. Cardinality(Creating') = Cardinality(Creating) - 1
        <4> HIDE DEF Creating
        <4> QED
          BY <1>a, <3>5, Counting
      <3>7. Cardinality(Creating)' = Cardinality(Creating) - 1
        BY <3>6
      <3>8. \A q \in Processes : AttemptOK(q)'
        <4>1. UNCHANGED attempt /\ GoTo(p, "read")
          BY <1>4, <2>2 DEF CreateRow
        <4>2. AttemptOK(p)'
          BY <1>a, <1>b, <3>2, <4>1 DEF Types, AttemptOK, GoTo
        <4>3. ASSUME NEW q \in Processes, q # p PROVE AttemptOK(q)'
          <5>1. pc'[q] = pc[q] /\ attempt'[q] = attempt[q] /\ AttemptOK(q)
            BY <1>a, <1>c, <4>1, <4>3 DEF Types, GoTo
          <5>2. Cardinality(runs)' = Cardinality(runs) + 1
            BY <3>3
          <5> QED
            BY <1>c, <3>2, <5>1, <5>2 DEF AttemptOK
        <4> QED
          BY <4>2, <4>3
      <3>9. requests' \in 0..MaxRequests /\ requests' = requests
        BY <1>a, <1>4 DEF CreateRow, counts, RowsOK
      <3>10. recent' \subseteq runs'
        BY <1>c, <3>2
      <3> QED
        BY <1>c, <3>3, <3>4, <3>7, <3>8, <3>9, <3>10 DEF RowsOK
    <2> QED
      BY <2>1, <2>2
  <1>5. ASSUME NEW p \in Creators, MarkOperation(p) PROVE RowsOK'
    BY <1>b, <1>5, <1>d DEF MarkOperation, counts
  <1>6. ASSUME NEW p \in Reporters, NEW a \in Attempts, Report(p, a) PROVE RowsOK'
    <2>1. Creating' \subseteq Creating
      BY <1>a, <1>b, <1>6 DEF Types, Creating, Report, GoTo
    <2>2. \A q \in Processes : AttemptOK(q)'
      BY <1>a, <1>b, <1>c, <1>6 DEF Types, AttemptOK, Report, GoTo
    <2> QED
      BY <1>a, <1>c, <1>6, <2>1, <2>2, RowsKept DEF Report
  <1>7. ASSUME NEW p \in Processes, ReadLast(p) PROVE RowsOK'
    <2>1. Creating' \subseteq Creating
      BY <1>a, <1>b, <1>7 DEF Types, Creating, ReadLast, GoTo
    <2>2. \A q \in Processes : AttemptOK(q)'
      BY <1>a, <1>b, <1>c, <1>7 DEF Types, AttemptOK, ReadLast, GoTo
    <2> QED
      BY <1>a, <1>c, <1>7, <2>1, <2>2, RowsKept DEF ReadLast, counts
  <1>8. ASSUME NEW p \in Processes, AppendEvent(p) PROVE RowsOK'
    <2>1. CASE p \in Creators
      <3>1. Creating' \subseteq Creating
        BY <1>a, <1>b, <1>8, <2>1 DEF Types, Creating, AppendEvent, GoTo
      <3>2. \A q \in Processes : AttemptOK(q)'
        BY <1>a, <1>b, <1>c, <1>8, <2>1 DEF Types, AttemptOK, AppendEvent, GoTo
      <3> QED
        BY <1>a, <1>c, <1>8, <3>1, <3>2, RowsKept DEF AppendEvent, counts
    <2>2. CASE p \notin Creators
      BY <1>8, <1>d, <2>2 DEF AppendEvent, counts
    <2> QED
      BY <2>1, <2>2
  <1>9. ASSUME NEW p \in Processes, Fault(p) PROVE RowsOK'
    BY <1>9, <1>d DEF Fault
  <1>10. ASSUME NEW a \in Attempts, Age(a) PROVE RowsOK'
    <2>1. Creating' = Creating /\ recent' \subseteq runs
      BY <1>c, <1>10 DEF Creating, Age
    <2>2. \A q \in Processes : AttemptOK(q)'
      BY <1>c, <1>10 DEF AttemptOK, Age
    <2> QED
      BY <1>a, <1>10, <2>1, <2>2, RowsKept DEF Age, counts
  <1>11. CASE UNCHANGED vars
    BY <1>a, <1>11 DEF vars, RowsOK, AttemptOK, Creating
  <1> QED
    BY <1>1, <1>2, <1>3, <1>4, <1>5, <1>6, <1>7, <1>8, <1>9, <1>10, <1>11
    DEF Next, CreateStep, EmitStep

\* What the steps do to the timelines and to the transactions of emitRunEvent:
\* nothing but end transactions, or read the last number, or append an event.
LEMMA TimelineSteps ==
  ASSUME IInv, [Next]_vars
  PROVE  \/ /\ UNCHANGED <<timeline, crowded>>
            /\ \A p \in Processes, a \in Attempts :
                 Appending(p, a)' => Appending(p, a) /\ last'[p] = last[p]
         \/ \E p \in Processes : ReadLast(p)
         \/ \E p \in Processes : AppendEvent(p)
  <1> DEFINE Quiet ==
        /\ UNCHANGED <<timeline, crowded>>
        /\ \A p \in Processes, a \in Attempts :
             Appending(p, a)' => Appending(p, a) /\ last'[p] = last[p]
  <1>a. Types
    BY DEF IInv
  <1>b. Creators \subseteq Processes /\ Reporters \subseteq Processes
    BY DEF Processes
  <1>c. ASSUME NEW p \in Processes, NEW point, point # "append", GoTo(p, point),
               \A q \in Processes : q # p => attempt'[q] = attempt[q] /\ last'[q] = last[q],
               UNCHANGED <<timeline, crowded>>
        PROVE  Quiet
    BY <1>a, <1>c DEF Types, GoTo, Appending
  <1>d. ASSUME NEW p \in Processes, Finish(p), UNCHANGED <<timeline, crowded>>
        PROVE  Quiet
    <2>1. GoTo(p, "idle")
      BY <1>d DEF Finish
    <2>2. \A q \in Processes : q # p => attempt'[q] = attempt[q] /\ last'[q] = last[q]
      BY <1>a, <1>d DEF Finish, Types
    <2> QED
      BY <1>c, <1>d, <2>1, <2>2
  <1> HIDE DEF Quiet
  <1>1. ASSUME NEW p \in Creators, Request(p) PROVE Quiet
    <2>1. GoTo(p, "loop") \/ GoTo(p, "count")
      BY <1>1 DEF Request
    <2> QED
      BY <1>b, <1>c, <1>1, <2>1 DEF Request, history
  <1>2. ASSUME NEW p \in Creators, CheckLoop(p) PROVE Quiet
    BY <1>b, <1>c, <1>d, <1>2 DEF CheckLoop, history
  <1>3. ASSUME NEW p \in Creators, CountRuns(p) PROVE Quiet
    <2>1. GoTo(p, "create") /\ UNCHANGED <<timeline, crowded, last>>
      BY <1>3 DEF CountRuns, history
    <2>2. \A q \in Processes : q # p => attempt'[q] = attempt[q]
      BY <1>a, <1>3 DEF CountRuns, Types
    <2> QED
      BY <1>b, <1>c, <2>1, <2>2
  <1>4. ASSUME NEW p \in Creators, CreateRow(p) PROVE Quiet
    BY <1>b, <1>c, <1>d, <1>4 DEF CreateRow
  <1>5. ASSUME NEW p \in Creators, MarkOperation(p) PROVE Quiet
    BY <1>b, <1>d, <1>5 DEF MarkOperation, history
  <1>6. ASSUME NEW p \in Reporters, NEW a \in Attempts, Report(p, a) PROVE Quiet
    <2>1. GoTo(p, "read") /\ UNCHANGED <<timeline, crowded, last>>
      BY <1>6 DEF Report, history
    <2>2. \A q \in Processes : q # p => attempt'[q] = attempt[q]
      BY <1>a, <1>6 DEF Report, Types
    <2> QED
      BY <1>b, <1>c, <2>1, <2>2
  <1>7. ASSUME NEW p \in Processes, Fault(p) PROVE Quiet
    BY <1>d, <1>7 DEF Fault, history
  <1>8. ASSUME NEW a \in Attempts, Age(a) PROVE Quiet
    BY <1>8 DEF Age, history, Quiet, Appending
  <1>9. CASE UNCHANGED vars
    BY <1>9 DEF vars, history, Quiet, Appending
  <1> QED
    BY <1>1, <1>2, <1>3, <1>4, <1>5, <1>6, <1>7, <1>8, <1>9
    DEF Next, CreateStep, EmitStep, Quiet

\* What an appended event does: it gets the number after the one that was read.
LEMMA AppendStep ==
  ASSUME IInv, NEW p \in Processes, AppendEvent(p)
  PROVE  \E a \in Attempts :
           LET e == [seq |-> last[p] + 1,
                     type |-> IF p \in Creators THEN "created" ELSE "reported"]
           IN  /\ Appending(p, a) /\ e \in Events
               /\ timeline'[a] = Append(timeline[a], e)
               /\ \A b \in Attempts : b # a => timeline'[b] = timeline[b]
               /\ \A q \in Processes, b \in Attempts :
                    Appending(q, b)' => q # p /\ Appending(q, b) /\ last'[q] = last[q]
               /\ crowded' = crowded
  <1>a. Types
    BY DEF IInv
  <1>1. PICK a \in Attempts : a = attempt[p]
    BY RunsAreAttempts DEF IInv, AppendEvent
  <1>2. Appending(p, a)
    BY <1>1 DEF AppendEvent, Appending
  <1> DEFINE e == [seq |-> last[p] + 1,
                   type |-> IF p \in Creators THEN "created" ELSE "reported"]
  <1>3. e \in Events
    BY <1>a DEF Types, Events
  <1>4. timeline' = [timeline EXCEPT ![a] = Append(@, e)]
    BY <1>1 DEF AppendEvent, NextNumber
  <1> HIDE DEF e
  <1>5. /\ timeline'[a] = Append(timeline[a], e)
        /\ \A b \in Attempts : b # a => timeline'[b] = timeline[b]
    BY <1>a, <1>4 DEF Types
  <1>6. GoTo(p, "mark") \/ GoTo(p, "idle")
    BY DEF AppendEvent, Finish
  <1>7. \A q \in Processes : q # p => attempt'[q] = attempt[q] /\ last'[q] = last[q]
    BY <1>a DEF AppendEvent, Finish, Types
  <1>8. \A q \in Processes, b \in Attempts :
          Appending(q, b)' => q # p /\ Appending(q, b) /\ last'[q] = last[q]
    BY <1>a, <1>6, <1>7 DEF GoTo, Types, Appending
  <1>9. crowded' = crowded
    BY DEF AppendEvent, history
  <1> QED
    BY <1>2, <1>3, <1>5, <1>8, <1>9 DEF e

\* What a read of the last number does.
LEMMA ReadStep ==
  ASSUME IInv, NEW p \in Processes, ReadLast(p)
  PROVE  \E a \in Attempts :
           /\ timeline' = timeline /\ last'[p] = LastNumber(a)
           /\ \A b \in Attempts : ~Appending(p, b) /\ (Appending(p, b)' <=> b = a)
           /\ \A q \in Processes, b \in Attempts :
                q # p => /\ Appending(q, b)' <=> Appending(q, b)
                         /\ last'[q] = last[q]
           /\ crowded \subseteq crowded'
           /\ a \notin crowded' => \A q \in Processes : ~Appending(q, a)
  <1>a. Types
    BY DEF IInv
  <1>1. PICK a \in Attempts : a = attempt[p]
    BY RunsAreAttempts DEF IInv, ReadLast
  <1>2. timeline' = timeline /\ last'[p] = LastNumber(a)
    BY <1>a, <1>1 DEF ReadLast, Types
  <1>3. \A b \in Attempts : ~Appending(p, b) /\ (Appending(p, b)' <=> b = a)
    BY <1>a, <1>1 DEF ReadLast, Types, GoTo, Appending
  <1>4. \A q \in Processes, b \in Attempts :
          q # p => (Appending(q, b)' <=> Appending(q, b)) /\ last'[q] = last[q]
    BY <1>a, <1>1 DEF ReadLast, Types, GoTo, Appending
  <1>5. /\ crowded \subseteq crowded'
        /\ a \notin crowded' => \A q \in Processes : ~Appending(q, a)
    BY <1>1 DEF ReadLast, Appending
  <1> QED
    BY <1>2, <1>3, <1>4, <1>5

\* Every step keeps the timelines without a gap: a transaction that read an old
\* number repeats one, and one that read the last continues.
LEMMA StepTimelines == IInv /\ [Next]_vars => TimelinesOK'
  <1> SUFFICES ASSUME IInv, [Next]_vars PROVE TimelinesOK'
    OBVIOUS
  <1>a. Types /\ TimelinesOK
    BY DEF IInv
  <1>1. ASSUME UNCHANGED timeline,
               \A q \in Processes, a \in Attempts :
                 Appending(q, a)' => last'[q] <= LastNumber(a)
        PROVE  TimelinesOK'
    <2>1. ASSUME NEW a \in Attempts
          PROVE  LastNumber(a)' = LastNumber(a) /\ Numbers(a)' = Numbers(a)
      BY <1>1 DEF LastNumber, Numbers
    <2> QED
      BY <1>a, <1>1, <2>1 DEF TimelinesOK
  <1>2. CASE /\ UNCHANGED <<timeline, crowded>>
             /\ \A p \in Processes, a \in Attempts :
                  Appending(p, a)' => Appending(p, a) /\ last'[p] = last[p]
    <2>1. \A q \in Processes, a \in Attempts : Appending(q, a)' => last'[q] <= LastNumber(a)
      BY <1>a, <1>2 DEF TimelinesOK
    <2> QED
      BY <1>1, <1>2, <2>1
  <1>3. ASSUME NEW p \in Processes, ReadLast(p) PROVE TimelinesOK'
    <2>1. PICK a \in Attempts :
            /\ timeline' = timeline /\ last'[p] = LastNumber(a)
            /\ \A b \in Attempts : ~Appending(p, b) /\ (Appending(p, b)' <=> b = a)
            /\ \A q \in Processes, b \in Attempts :
                 q # p => /\ Appending(q, b)' <=> Appending(q, b)
                          /\ last'[q] = last[q]
      BY <1>3, ReadStep
    <2>2. \A b \in Attempts : LastNumber(b) \in Nat
      BY <1>a DEF TimelinesOK
    <2>3. \A q \in Processes, b \in Attempts : Appending(q, b)' => last'[q] <= LastNumber(b)
      BY <1>a, <2>1, <2>2 DEF TimelinesOK
    <2> QED
      BY <1>1, <2>1, <2>3
  <1>4. ASSUME NEW p \in Processes, AppendEvent(p) PROVE TimelinesOK'
    <2> DEFINE e == [seq |-> last[p] + 1,
                     type |-> IF p \in Creators THEN "created" ELSE "reported"]
    <2>1. PICK a \in Attempts :
            /\ Appending(p, a) /\ e \in Events
            /\ timeline'[a] = Append(timeline[a], e)
            /\ \A b \in Attempts : b # a => timeline'[b] = timeline[b]
            /\ \A q \in Processes, b \in Attempts :
                 Appending(q, b)' => q # p /\ Appending(q, b) /\ last'[q] = last[q]
      BY <1>4, AppendStep
    <2>2. last[p] \in Nat /\ e.seq = last[p] + 1 /\ last[p] <= LastNumber(a)
      BY <1>a, <2>1 DEF Types, TimelinesOK
    <2> HIDE DEF e
    <2>3. Numbers(a)' = 1..LastNumber(a) \cup {last[p] + 1} /\ LastNumber(a) \in Nat
      <3>1. timeline \in [Attempts -> Seq(Events)]
        BY <1>a DEF Types
      <3>2. Numbers(a)' = Numbers(a) \cup {e.seq}
        BY <2>1, <3>1, NumbersAppend
      <3>3. Numbers(a) = 1..LastNumber(a) /\ LastNumber(a) \in Nat
        BY <1>a DEF TimelinesOK
      <3> QED
        BY <2>2, <3>2, <3>3
    <2>4. PICK n \in Nat : n >= LastNumber(a) /\ Numbers(a)' = 1..n
      <3>1. CASE last[p] + 1 <= LastNumber(a)
        <4>1. Numbers(a)' = 1..LastNumber(a)
          BY <2>2, <2>3, <3>1
        <4> QED
          BY <2>3, <4>1
      <3>2. CASE last[p] = LastNumber(a)
        <4>1. Numbers(a)' = 1..(LastNumber(a) + 1)
          BY <2>2, <2>3, <3>2
        <4> QED
          BY <2>3, <4>1
      <3> QED
        BY <2>2, <2>3, <3>1, <3>2
    <2>5. LastNumber(a)' = n
      <3>1. timeline'[a] \in Seq(Events)
        BY StepTypes DEF Types
      <3>2. {timeline'[a][i].seq : i \in DOMAIN timeline'[a]} = 1..n
        BY <2>4 DEF Numbers
      <3> QED
        BY <3>1, <3>2, LastOfInterval DEF LastNumber, Numbers
    <2>6. ASSUME NEW b \in Attempts
          PROVE  /\ LastNumber(b)' \in Nat /\ LastNumber(b) \in Nat
                 /\ LastNumber(b)' >= LastNumber(b)
                 /\ Numbers(b)' = 1..LastNumber(b)'
      <3>1. CASE b = a
        BY <2>3, <2>4, <2>5, <3>1
      <3>2. CASE b # a
        <4>1. timeline'[b] = timeline[b]
          BY <2>1, <3>2
        <4>2. Numbers(b)' = Numbers(b) /\ LastNumber(b)' = LastNumber(b)
          BY <4>1 DEF Numbers, LastNumber
        <4>3. Numbers(b) = 1..LastNumber(b) /\ LastNumber(b) \in Nat
          BY <1>a DEF TimelinesOK
        <4> QED
          BY <4>2, <4>3
      <3> QED
        BY <3>1, <3>2
    <2>7. \A q \in Processes, b \in Attempts : Appending(q, b)' => last'[q] <= LastNumber(b)'
      <3>1. SUFFICES ASSUME NEW q \in Processes, NEW b \in Attempts, Appending(q, b)'
                     PROVE  last'[q] <= LastNumber(b)'
        OBVIOUS
      <3>2. last'[q] = last[q] /\ last[q] <= LastNumber(b) /\ last[q] \in Nat
        BY <1>a, <2>1, <3>1 DEF Types, TimelinesOK
      <3> QED
        BY <2>6, <3>2
    <2> QED
      BY <2>6, <2>7 DEF TimelinesOK
  <1> QED
    BY <1>2, <1>3, <1>4, TimelineSteps

\* Every step keeps the events in order where emitRunEvent has not overlapped.
LEMMA StepOrder == IInv /\ [Next]_vars => OrderOK'
  <1> SUFFICES ASSUME IInv, [Next]_vars PROVE OrderOK'
    OBVIOUS
  <1>a. Types /\ OrderOK
    BY DEF IInv
  <1>1. CASE /\ UNCHANGED <<timeline, crowded>>
             /\ \A p \in Processes, a \in Attempts :
                  Appending(p, a)' => Appending(p, a) /\ last'[p] = last[p]
    BY <1>a, <1>1 DEF OrderOK
  <1>2. ASSUME NEW p \in Processes, ReadLast(p) PROVE OrderOK'
    <2>1. PICK a \in Attempts :
            /\ timeline' = timeline /\ last'[p] = LastNumber(a)
            /\ \A b \in Attempts : ~Appending(p, b) /\ (Appending(p, b)' <=> b = a)
            /\ \A q \in Processes, b \in Attempts :
                 q # p => /\ Appending(q, b)' <=> Appending(q, b)
                          /\ last'[q] = last[q]
            /\ crowded \subseteq crowded'
            /\ a \notin crowded' => \A q \in Processes : ~Appending(q, a)
      BY <1>2, ReadStep
    <2>2. ASSUME NEW b \in Attempts \ crowded'
          PROVE  /\ \A i \in 1..Len(timeline'[b]) : timeline'[b][i].seq = i
                 /\ \A q \in Processes : Appending(q, b)' =>
                      /\ last'[q] = Len(timeline'[b])
                      /\ \A r \in Processes : Appending(r, b)' => r = q
      <3>1. /\ \A i \in 1..Len(timeline[b]) : timeline[b][i].seq = i
            /\ \A q \in Processes : Appending(q, b) =>
                 /\ last[q] = Len(timeline[b])
                 /\ \A r \in Processes : Appending(r, b) => r = q
        BY <1>a, <2>1 DEF OrderOK
      <3>2. CASE b # a
        BY <2>1, <3>1, <3>2
      <3>3. CASE b = a
        <4>1. \A r \in Processes : Appending(r, b)' => r = p
          BY <2>1, <3>3
        <4>2. timeline[b] \in Seq(Events) /\ Len(timeline[b]) \in Nat
          BY <1>a DEF Types
        <4>3. Len(timeline[b]) = LastNumber(b)
          <5>1. {timeline[b][i].seq : i \in DOMAIN timeline[b]} = 1..Len(timeline[b])
            BY <3>1, <4>2
          <5> QED
            BY <4>2, <5>1, LastOfInterval DEF LastNumber, Numbers
        <4> QED
          BY <2>1, <3>1, <3>3, <4>1, <4>3
      <3> QED
        BY <3>2, <3>3
    <2> QED
      BY <2>2 DEF OrderOK
  <1>3. ASSUME NEW p \in Processes, AppendEvent(p) PROVE OrderOK'
    <2> DEFINE e == [seq |-> last[p] + 1,
                     type |-> IF p \in Creators THEN "created" ELSE "reported"]
    <2>1. PICK a \in Attempts :
            /\ Appending(p, a) /\ e \in Events
            /\ timeline'[a] = Append(timeline[a], e)
            /\ \A b \in Attempts : b # a => timeline'[b] = timeline[b]
            /\ \A q \in Processes, b \in Attempts :
                 Appending(q, b)' => q # p /\ Appending(q, b) /\ last'[q] = last[q]
            /\ crowded' = crowded
      BY <1>3, AppendStep
    <2>2. e.seq = last[p] + 1
      OBVIOUS
    <2> HIDE DEF e
    <2>3. ASSUME NEW b \in Attempts \ crowded'
          PROVE  /\ \A i \in 1..Len(timeline'[b]) : timeline'[b][i].seq = i
                 /\ \A q \in Processes : Appending(q, b)' =>
                      /\ last'[q] = Len(timeline'[b])
                      /\ \A r \in Processes : Appending(r, b)' => r = q
      <3>1. /\ \A i \in 1..Len(timeline[b]) : timeline[b][i].seq = i
            /\ \A q \in Processes : Appending(q, b) =>
                 /\ last[q] = Len(timeline[b])
                 /\ \A r \in Processes : Appending(r, b) => r = q
        BY <1>a, <2>1 DEF OrderOK
      <3>2. CASE b # a
        BY <2>1, <3>1, <3>2
      <3>3. CASE b = a
        <4>1. \A q \in Processes : ~Appending(q, b)'
          BY <2>1, <3>1, <3>3
        <4>2. /\ Len(timeline'[a]) = Len(timeline[a]) + 1
              /\ Len(timeline[a]) \in Nat
              /\ \A i \in 1..Len(timeline[a]) : timeline'[a][i] = timeline[a][i]
              /\ timeline'[a][Len(timeline[a]) + 1] = e
          BY <1>a, <2>1, NumbersAppend DEF Types
        <4>3. \A i \in 1..Len(timeline'[b]) : i \in 1..Len(timeline[b]) \/ i = Len(timeline[b]) + 1
          BY <3>3, <4>2
        <4>4. last[p] = Len(timeline[b])
          BY <2>1, <3>1, <3>3
        <4> QED
          BY <2>2, <3>1, <3>3, <4>1, <4>2, <4>3, <4>4
      <3> QED
        BY <3>2, <3>3
    <2> QED
      BY <2>3 DEF OrderOK
  <1> QED
    BY <1>1, <1>2, <1>3, TimelineSteps

\* A step after which no request more has passed the loop detection, and no run
\* more of POST /api/runs is recent.
LEMMA LoopKept ==
  ASSUME RowsOK, LoopOK, byClient' \subseteq runs',
         recent' \cap byClient' \subseteq recent \cap byClient, Passed' \subseteq Passed
  PROVE  LoopOK'
  <1>1. IsFiniteSet(recent \cap byClient) /\ IsFiniteSet(Passed)
    <2>1. IsFiniteSet(runs) /\ recent \cap byClient \subseteq runs
      BY DEF RowsOK
    <2>2. IsFiniteSet(Creators) /\ Passed \subseteq Creators
      BY RecordsAssumption DEF Passed, Creators
    <2> QED
      BY <2>1, <2>2, FS_Subset
  <1> DEFINE few == Cardinality(recent \cap byClient)
             few1 == Cardinality(recent' \cap byClient')
  <1>2. few1 <= few /\ few1 \in Nat /\ few \in Nat
    BY <1>1, FS_Subset, FS_CardinalityType
  <1>3. /\ Cardinality(Passed') <= Cardinality(Passed)
        /\ Cardinality(Passed') \in Nat /\ Cardinality(Passed) \in Nat
    <2> HIDE DEF Passed
    <2> QED
      BY <1>1, FS_Subset, FS_CardinalityType
  <1>4. IsFiniteSet(Clients)
    BY RecordsAssumption, FS_Subset DEF Creators
  <1>5. Cardinality(Clients) \in Nat /\ Threshold \in Nat
    BY <1>4, FS_CardinalityType, RecordsAssumption
  <1>6. Cardinality(recent \cap byClient)' = few1 /\ Cardinality(Passed)' = Cardinality(Passed')
    OBVIOUS
  <1> HIDE DEF few1
  <1>7. Cardinality(recent \cap byClient)' + Cardinality(Passed)'
          <= Threshold + Cardinality(Clients) - 1
    BY <1>2, <1>3, <1>5, <1>6 DEF LoopOK
  <1> QED
    BY <1>7 DEF LoopOK

\* Every step keeps the bound of the loop detection: a request that passes it saw
\* fewer recent runs than the threshold, and every other client may have passed.
LEMMA StepLoop == IInv /\ [Next]_vars => LoopOK'
  <1> SUFFICES ASSUME IInv, [Next]_vars PROVE LoopOK'
    OBVIOUS
  <1>a. Types /\ RowsOK /\ LoopOK /\ recent \subseteq runs /\ byClient \subseteq runs
    BY DEF IInv, RowsOK, LoopOK
  <1>b. /\ \A p \in Clients : p \in Creators /\ p \in Processes
        /\ \A p \in Creators : p \in Processes
        /\ \A p \in Reporters : p \in Processes /\ p \notin Clients
        /\ Passed \in SUBSET Creators /\ Passed' \in SUBSET Creators
    BY RecordsAssumption DEF Processes, Creators, Passed
  <1>c. ASSUME NEW p \in Processes, NEW point, point \notin {"count", "create"}, GoTo(p, point),
               UNCHANGED <<runs, recent, byClient>>
        PROVE  LoopOK'
    <2>1. Passed' \subseteq Passed
      BY <1>a, <1>b, <1>c DEF Types, GoTo, Passed
    <2> QED
      BY <1>a, <1>c, <2>1, LoopKept
  <1>1. ASSUME NEW p \in Creators, Request(p) PROVE LoopOK'
    <2>1. Passed' \subseteq Passed
      BY <1>a, <1>b, <1>1 DEF Types, GoTo, Passed, Request
    <2> QED
      BY <1>a, <1>1, <2>1, LoopKept DEF Request, history
  <1>2. ASSUME NEW p \in Creators, CheckLoop(p) PROVE LoopOK'
    <2>1. CASE LoopDetected
      BY <1>b, <1>c, <1>2, <2>1 DEF CheckLoop, Finish, history
    <2>2. CASE ~LoopDetected
      <3>1. UNCHANGED <<runs, recent, byClient>>
        BY <1>2 DEF CheckLoop, history
      <3>2. IsFiniteSet(recent) /\ IsFiniteSet(Clients)
        BY <1>a, RecordsAssumption, FS_Subset DEF RowsOK, Creators
      <3>3. /\ Cardinality(recent) \in Nat /\ Cardinality(recent) < Threshold
            /\ Cardinality(Clients) \in Nat
        BY <2>2, <3>2, FS_CardinalityType, RecordsAssumption DEF LoopDetected
      <3>4. /\ Cardinality(recent \cap byClient) <= Cardinality(recent)
            /\ Cardinality(recent \cap byClient) \in Nat
        <4>1. recent \cap byClient \in SUBSET recent
          OBVIOUS
        <4> QED
          BY <3>2, <4>1, FS_Subset, FS_CardinalityType
      <3>5. Cardinality(Passed') <= Cardinality(Clients) /\ Cardinality(Passed') \in Nat
        <4>1. Passed' \subseteq Clients
          BY DEF Passed
        <4> HIDE DEF Passed
        <4> QED
          BY <3>2, <4>1, FS_Subset, FS_CardinalityType
      <3>6. /\ Cardinality(recent \cap byClient)' = Cardinality(recent \cap byClient)
            /\ Cardinality(Passed)' = Cardinality(Passed')
        BY <3>1
      <3>7. Cardinality(recent \cap byClient)' + Cardinality(Passed)'
              <= Threshold + Cardinality(Clients) - 1
        BY <3>3, <3>4, <3>5, <3>6, RecordsAssumption
      <3> QED
        BY <1>a, <3>1, <3>7 DEF LoopOK
    <2> QED
      BY <2>1, <2>2
  <1>3. ASSUME NEW p \in Creators, CountRuns(p) PROVE LoopOK'
    <2>1. Passed' \subseteq Passed
      BY <1>a, <1>b, <1>3 DEF Types, GoTo, Passed, CountRuns
    <2> QED
      BY <1>a, <1>3, <2>1, LoopKept DEF CountRuns, history
  <1>4. ASSUME NEW p \in Creators, CreateRow(p) PROVE LoopOK'
    <2>1. CASE attempt[p] \in runs
      BY <1>b, <1>c, <1>4, <2>1 DEF CreateRow, Finish
    <2>2. CASE attempt[p] \notin runs /\ p \notin Clients
      <3>1. /\ recent' = recent \cup {attempt[p]} /\ byClient' = byClient
            /\ runs' = runs \cup {attempt[p]} /\ GoTo(p, "read")
        BY <1>4, <2>2 DEF CreateRow
      <3>2. Passed' \subseteq Passed
        BY <1>a, <1>b, <3>1 DEF Types, GoTo, Passed
      <3> QED
        BY <1>a, <2>2, <3>1, <3>2, LoopKept
    <2>3. CASE attempt[p] \notin runs /\ p \in Clients
      <3>1. /\ recent' = recent \cup {attempt[p]} /\ byClient' = byClient \cup {attempt[p]}
            /\ runs' = runs \cup {attempt[p]} /\ GoTo(p, "read") /\ pc[p] = "create"
        BY <1>4, <2>3 DEF CreateRow
      <3>2. Passed \ {p} = Passed' \ {p} /\ p \in Passed \ Passed'
        BY <1>a, <1>b, <2>3, <3>1 DEF Types, GoTo, Passed
      <3>3. /\ Cardinality(Passed') = Cardinality(Passed) - 1
            /\ Cardinality(Passed') \in Nat /\ Cardinality(Passed) \in Nat
        <4> HIDE DEF Passed
        <4> QED
          BY <1>b, <3>2, Counting
      <3> DEFINE before == recent \cap byClient
                 after == recent' \cap byClient'
      <3>4. after = before \cup {attempt[p]} /\ attempt[p] \notin before
        BY <1>a, <2>3, <3>1
      <3>5. IsFiniteSet(before)
        BY <1>a, FS_Subset DEF RowsOK
      <3> HIDE DEF before, after
      <3>6. Cardinality(after) = Cardinality(before) + 1 /\ Cardinality(before) \in Nat
        BY <3>4, <3>5, FS_AddElement, FS_CardinalityType
      <3>7. /\ Cardinality(recent \cap byClient)' = Cardinality(recent \cap byClient) + 1
            /\ Cardinality(recent \cap byClient) \in Nat
            /\ Cardinality(Passed)' = Cardinality(Passed')
        BY <3>6 DEF before, after
      <3>8. /\ Cardinality(recent \cap byClient)' + Cardinality(Passed)'
                  = Cardinality(recent \cap byClient) + Cardinality(Passed)
        BY <3>3, <3>7
      <3>9. byClient' \subseteq runs'
        BY <1>a, <3>1
      <3> QED
        BY <1>a, <3>8, <3>9 DEF LoopOK
    <2> QED
      BY <2>1, <2>2, <2>3
  <1>5. ASSUME NEW p \in Creators, MarkOperation(p) PROVE LoopOK'
    BY <1>b, <1>c, <1>5 DEF MarkOperation, Finish, history
  <1>6. ASSUME NEW p \in Reporters, NEW a \in Attempts, Report(p, a) PROVE LoopOK'
    BY <1>b, <1>c, <1>6 DEF Report, history
  <1>7. ASSUME NEW p \in Processes, ReadLast(p) PROVE LoopOK'
    BY <1>b, <1>c, <1>7 DEF ReadLast
  <1>8. ASSUME NEW p \in Processes, AppendEvent(p) PROVE LoopOK'
    BY <1>b, <1>c, <1>8 DEF AppendEvent, Finish, history
  <1>9. ASSUME NEW p \in Processes, Fault(p) PROVE LoopOK'
    BY <1>b, <1>c, <1>9 DEF Fault, Finish, history
  <1>10. ASSUME NEW a \in Attempts, Age(a) PROVE LoopOK'
    <2>1. Passed' \subseteq Passed
      BY <1>10 DEF Age, Passed
    <2> QED
      BY <1>a, <1>10, <2>1, LoopKept DEF Age, history
  <1>11. CASE UNCHANGED vars
    <2>1. Passed' \subseteq Passed
      BY <1>11 DEF vars, Passed
    <2> QED
      BY <1>a, <1>11, <2>1, LoopKept DEF vars, history
  <1> QED
    BY <1>1, <1>2, <1>3, <1>4, <1>5, <1>6, <1>7, <1>8, <1>9, <1>10, <1>11
    DEF Next, CreateStep, EmitStep

\* Every step keeps the invariant.
LEMMA InvStep == IInv /\ [Next]_vars => IInv'
  BY StepTypes, StepRows, StepTimelines, StepOrder, StepLoop DEF IInv

\* The invariant holds in every reachable state: types, rows, timelines, their order and
\* what loop detection has let pass.
THEOREM Invariant == Spec => []IInv
  BY InvInit, InvStep, PTL DEF Spec

-----------------------------------------------------------------------------
(* The properties                                                          *)

\* createRun numbers the attempts of an operation without a gap, however many
\* requests count the same runs.
THEOREM AttemptsHaveNoGap == Spec => []AttemptsAreContiguous
  <1>1. IInv => AttemptsAreContiguous
    BY DEF IInv, RowsOK, AttemptsAreContiguous
  <1> QED
    BY <1>1, Invariant, PTL

\* detectLoop lets POST /api/runs exceed its threshold by the other clients at most,
\* whatever the webhooks create and however old runs leave the window.
THEOREM LoopsAreBounded == Spec => []LoopIsBounded
  <1>1. IInv => LoopIsBounded
    <2> SUFFICES ASSUME IInv PROVE LoopIsBounded
      OBVIOUS
    <2>1. RowsOK /\ LoopOK
      BY DEF IInv
    <2>2. Cardinality(Passed) \in Nat
      <3>1. Passed \in SUBSET Creators
        BY DEF Passed, Creators
      <3> HIDE DEF Passed
      <3> QED
        BY <3>1, Counting
    <2>3. IsFiniteSet(recent \cap byClient) /\ IsFiniteSet(Clients)
      BY <2>1, FS_Subset, RecordsAssumption DEF RowsOK, Creators
    <2>4. Cardinality(recent \cap byClient) \in Nat /\ Cardinality(Clients) \in Nat
      BY <2>3, FS_CardinalityType
    <2> QED
      BY <2>1, <2>2, <2>4, RecordsAssumption DEF LoopOK, LoopIsBounded
  <1> QED
    BY <1>1, Invariant, PTL

\* emitRunEvent gives no number that does not follow one already given, even where
\* its transactions overlap and give the same number twice.
THEOREM TimelinesHaveNoGap == Spec => []TimelineHasNoGaps
  <1>1. IInv => TimelineHasNoGaps
    BY DEF IInv, TimelinesOK, TimelineHasNoGaps
  <1> QED
    BY <1>1, Invariant, PTL

\* A timeline that is numbered 1, 2, 3 in commit order is exported as it is.
LEMMA ExportedInOrder ==
  ASSUME NEW a \in Attempts, timeline[a] \in Seq(Events),
         \A i \in 1..Len(timeline[a]) : timeline[a][i].seq = i
  PROVE  TimelineOrdered(Exported(a))
  <1> DEFINE n == Len(timeline[a])
  <1>1. n \in Nat /\ DOMAIN timeline[a] = 1..n
    BY LenProperties
  <1> HIDE DEF n
  <1>2. \A i \in 1..n : timeline[a][i].seq = i
    BY DEF n
  <1>3. ASSUME NEW i \in 1..n PROVE Cardinality(UpTo(a, i)) = i
    <2>1. UpTo(a, i) = {j \in 1..n : j < i \/ (j = i /\ j <= i)}
      BY <1>1, <1>2 DEF UpTo
    <2>2. UpTo(a, i) = 1..i
      BY <1>1, <2>1
    <2> QED
      BY <1>1, <2>2, FS_Interval
  <1>4. ASSUME NEW k \in 1..n PROVE Exported(a)[k] = k
    <2>1. \A i \in 1..n : Cardinality(UpTo(a, i)) = k <=> i = k
      BY <1>3
    <2>2. (CHOOSE i \in 1..n : Cardinality(UpTo(a, i)) = k) = k
      BY <2>1
    <2>3. Exported(a)[k] = timeline[a][CHOOSE i \in 1..n : Cardinality(UpTo(a, i)) = k].seq
      BY <1>1 DEF Exported
    <2> QED
      BY <1>2, <2>2, <2>3
  <1>5. Len(Exported(a)) = n
    <2>1. DOMAIN Exported(a) = 1..n
      BY <1>1 DEF Exported
    <2>2. Exported(a) \in [1..n -> Nat]
      BY <1>1, <1>4, <2>1 DEF Exported
    <2>3. Exported(a) \in Seq(Nat)
      BY <1>1, <2>2, SeqDef
    <2>4. DOMAIN Exported(a) = 1..Len(Exported(a)) /\ Len(Exported(a)) \in Nat
      BY <2>3, LenProperties
    <2> QED
      BY <1>1, <2>1, <2>4
  <1> QED
    BY <1>1, <1>4, <1>5 DEF TimelineOrdered

\* The case file of a run passes the verifier's check of its timeline, unless two
\* transactions of emitRunEvent have overlapped for the run.
THEOREM CaseFilesAreOrdered == Spec => []CaseFileIsOrdered
  <1>1. IInv => CaseFileIsOrdered
    <2> SUFFICES ASSUME IInv, NEW a \in Attempts, a \notin crowded
                 PROVE  TimelineOrdered(Exported(a))
      BY DEF CaseFileIsOrdered
    <2> QED
      BY ExportedInOrder DEF IInv, Types, OrderOK
  <1> QED
    BY <1>1, Invariant, PTL

-----------------------------------------------------------------------------
(* Intake                                                                  *)

\* The invariant holds when nothing has been delivered.
LEMMA IntakeStarts ==
  ASSUME IntakeInit
  PROVE  Correct
<1>1. TypeOK
  BY BoundsAssumption DEF IntakeInit, TypeOK, Present, Plans, Unrouted
<1>2. HandlersHold /\ AbsentHasNoRun /\ CreatorIsAlone
  BY DEF IntakeInit, HandlersHold, AbsentHasNoRun, CreatorIsAlone, Before, After, Held
<1>3. DuplicatesNeedOverlap /\ RecordedIsPursued /\ ApprovingHasAgent /\ ApprovedHasAgent
  BY DEF IntakeInit, DuplicatesNeedOverlap, RecordedIsPursued, ApprovingHasAgent,
         ApprovedHasAgent
<1> QED
  BY <1>1, <1>2, <1>3 DEF Correct

\* An operation that is created stays.
LEMMA PresentGrows ==
  ASSUME TypeOK, [IntakeNext]_intakeVars
  PROVE  Present \subseteq Present'
<1>1. ASSUME NEW h \in Handlers, Create(h) PROVE Present \subseteq Present'
  <2>1. PICK o \in Operations \ Present : commit' = [commit EXCEPT ![o] = subject[delivery[h]]]
    BY <1>1 DEF Create
  <2> QED
    BY <2>1 DEF Present, TypeOK
<1>2. ASSUME UNCHANGED commit PROVE Present \subseteq Present'
  BY <1>2 DEF Present
<1> QED
  BY <1>1, <1>2
     DEF IntakeNext, intakeVars, operations, Deliver, Record, Dedupe, Announce, Abort, Survey,
         Apply, Publish, Falter, CreateRun, ApproveRouting, Approved, Elapse, Route

\* A handler that ends leaves its variables well typed.
LEMMA FinishTypes ==
  ASSUME NEW h \in Handlers, TypeOK, Leave(h)
  PROVE  /\ at' \in [Handlers -> {"idle", "record", "dedupe", "create", "announce", "survey",
                                  "apply", "publish", "run"}]
         /\ delivery' \in [Handlers -> Deliveries \cup {Nothing}]
         /\ made' \in [Handlers -> Operations \cup {Nothing}]
         /\ plan' \in [Handlers -> Plans]
         /\ choice' \in [Handlers -> SUBSET Agents]
<1>1. Unrouted \in Plans
  BY DEF Unrouted, Plans
<1> QED
  BY <1>1 DEF TypeOK, Leave

\* Every step of Intake keeps its types; that an operation gets one run at most, and that the
\* router writes only operations that there are, is what is known of the handlers.
LEMMA IntakeTypeStep ==
  ASSUME TypeOK, HandlersHold, [IntakeNext]_intakeVars
  PROVE  TypeOK'
<1>1. MaxIntakeRequests \in Nat /\ MaxIntakeFaults \in Nat
  BY BoundsAssumption
<1>2. ASSUME NEW h \in Handlers, NEW d \in Deliveries, Deliver(h, d) PROVE TypeOK'
  BY <1>2 DEF TypeOK, Deliver, Present, hooks, operations, assignment, bounds
<1>3. ASSUME NEW h \in Handlers, Record(h) PROVE TypeOK'
  <2>1. delivery[h] \in Deliveries
    BY <1>3 DEF Record, HandlersHold
  <2>2. CASE Leave(h)
    BY <1>3, <2>1, <2>2, FinishTypes
       DEF TypeOK, Record, Kept, Present, hooks, operations, assignment, bounds
  <2>3. CASE Proceed(h, "dedupe") /\ UNCHANGED fate
    BY <1>3, <2>1, <2>3
       DEF TypeOK, Record, Kept, Proceed, Present, hooks, operations, assignment, bounds
  <2> QED
    BY <1>3, <2>2, <2>3 DEF Record
<1>4. ASSUME NEW h \in Handlers, Dedupe(h) PROVE TypeOK'
  <2>1. raced' \subseteq Commits
    BY <1>4 DEF Dedupe, HandlersHold, TypeOK
  <2>2. CASE Leave(h)
    BY <1>4, <2>1, <2>2, FinishTypes
       DEF TypeOK, Dedupe, Present, hooks, operations, assignment, bounds
  <2>3. CASE Proceed(h, "create")
    BY <1>4, <2>1, <2>3
       DEF TypeOK, Dedupe, Proceed, Present, hooks, operations, assignment, bounds
  <2> QED
    BY <1>4, <2>2, <2>3 DEF Dedupe
<1>5. ASSUME NEW h \in Handlers, Create(h) PROVE TypeOK'
  <2>1. PICK o \in Operations \ Present :
          /\ commit' = [commit EXCEPT ![o] = subject[delivery[h]]]
          /\ inWindow' = inWindow \cup {o}
          /\ made' = [made EXCEPT ![h] = o]
    BY <1>5 DEF Create
  <2>2. subject[delivery[h]] \in Commits
    BY <1>5 DEF Create, HandlersHold, TypeOK
  <2>3. Present' = Present \cup {o}
    BY <2>1, <2>2, NothingAssumption DEF Present, TypeOK
  <2>4. at' = [at EXCEPT ![h] = "announce"]
    BY <1>5 DEF Create
  <2> QED
    BY <1>5, <2>1, <2>2, <2>3, <2>4 DEF TypeOK, Create, hooks, assignment, bounds
<1>6. ASSUME NEW h \in Handlers, Announce(h) PROVE TypeOK'
  BY <1>6 DEF TypeOK, Announce, Proceed, Present, hooks, operations, assignment, bounds
<1>7. ASSUME NEW h \in Handlers, Abort(h) PROVE TypeOK'
  <2>1. intakeFaults' \in 0 .. MaxIntakeFaults
    BY <1>1, <1>7 DEF Abort, IntakeFault, TypeOK
  <2>2. fate' \in [Deliveries -> {"none", "ignored", "failed"}]
    BY <1>7 DEF Abort, HandlersHold, TypeOK
  <2>3. Leave(h)
    BY <1>7 DEF Abort
  <2> QED
    BY <1>7, <2>1, <2>2, <2>3, FinishTypes
       DEF TypeOK, Abort, Present, hooks, operations, assignment
<1>8. ASSUME NEW h \in Handlers, Survey(h) PROVE TypeOK'
  <2>1. PICK running \in SUBSET Agents :
          /\ \E p \in Choices(running) : plan' = [plan EXCEPT ![h] = p]
          /\ \E rivals \in {running, {}} : choice' = [choice EXCEPT ![h] = rivals]
    BY <1>8 DEF Survey
  <2>2. Choices(running) \subseteq Plans
    BY DEF Choices, Plans, Unrouted
  <2>3. plan' \in [Handlers -> Plans] /\ choice' \in [Handlers -> SUBSET Agents]
    BY <2>1, <2>2 DEF TypeOK
  <2> QED
    BY <1>8, <2>3 DEF TypeOK, Survey, Present, hooks, operations, assignment, bounds
<1>9. ASSUME NEW h \in Handlers, Apply(h) PROVE TypeOK'
  <2>1. made[h] \in Present /\ plan[h] \in Plans
    BY <1>9 DEF Apply, HandlersHold, Held, After, TypeOK
  <2>2. plan[h].agent \in Agents \cup {Nothing}
    BY <2>1 DEF Plans
  <2>3. agent' \in [Operations -> Agents \cup {Nothing}]
    BY <1>9, <2>2 DEF Apply, TypeOK
  <2>4. Stored(plan[h].status) \in {"pending", "auto_routed"}
    BY <2>1 DEF Stored, Plans
  <2>5. routing' \in [Operations -> {"pending", "auto_routed", "manual", "approved"}]
    BY <1>9, <2>4 DEF Apply, TypeOK
  <2>6. crossed' \subseteq Present
    BY <1>9, <2>1 DEF Apply, TypeOK
  <2> QED
    BY <1>9, <2>5, <2>6, <2>3 DEF TypeOK, Apply, Proceed, Present, hooks, operations, bounds
<1>10. ASSUME NEW h \in Handlers, Publish(h) PROVE TypeOK'
  <2>1. CASE Leave(h)
    BY <1>10, <2>1, FinishTypes
       DEF TypeOK, Publish, Present, hooks, operations, assignment, bounds
  <2>2. CASE Proceed(h, "run")
    BY <1>10, <2>2 DEF TypeOK, Publish, Proceed, Present, hooks, operations, assignment, bounds
  <2> QED
    BY <1>10, <2>1, <2>2 DEF Publish
<1>11. ASSUME NEW h \in Handlers, Falter(h) PROVE TypeOK'
  <2>1. intakeFaults' \in 0 .. MaxIntakeFaults
    BY <1>1, <1>11 DEF Falter, IntakeFault, TypeOK
  <2>2. CASE Leave(h)
    BY <1>11, <2>1, <2>2, FinishTypes DEF TypeOK, Falter, Present, hooks, operations, assignment
  <2>3. CASE /\ \E p \in Fallbacks(choice[h]) : plan' = [plan EXCEPT ![h] = p]
             /\ choice' = [choice EXCEPT ![h] = {}]
             /\ at' = [at EXCEPT ![h] = "apply"]
             /\ UNCHANGED <<delivery, made>>
    <3>1. plan' \in [Handlers -> Plans]
      BY <2>3 DEF Fallbacks, TypeOK
    <3> QED
      BY <1>11, <2>1, <2>3, <3>1 DEF TypeOK, Falter, Present, hooks, operations, assignment
  <2> QED
    BY <1>11, <2>2, <2>3 DEF Falter
<1>12. ASSUME NEW h \in Handlers, CreateRun(h) PROVE TypeOK'
  <2>1. made[h] \in Operations /\ runsOf[made[h]] = 0
    BY <1>12 DEF CreateRun, HandlersHold, Held, After, Present
  <2>2. runsOf' \in [Operations -> 0 .. 1]
    BY <1>12, <2>1 DEF CreateRun, TypeOK
  <2>3. Leave(h)
    BY <1>12 DEF CreateRun
  <2> QED
    BY <1>12, <2>2, <2>3, FinishTypes
       DEF TypeOK, CreateRun, Present, hooks, operations, assignment, bounds
<1>13. ASSUME NEW o \in Operations, ApproveRouting(o) PROVE TypeOK'
  BY <1>1, <1>13 DEF TypeOK, ApproveRouting, Present, hooks, operations, handler
<1>14. ASSUME NEW o \in Operations, Approved(o) PROVE TypeOK'
  BY <1>14 DEF TypeOK, Approved, Present, hooks, operations, handler, bounds
<1>15. ASSUME NEW o \in Operations, Elapse(o) PROVE TypeOK'
  BY <1>15 DEF TypeOK, Elapse, Present, hooks, assignment, handler, bounds
<1>16. ASSUME NEW o \in Operations, NEW a \in Agents, Route(o, a) PROVE TypeOK'
  BY <1>1, <1>16 DEF TypeOK, Route, Present, hooks, operations, handler
<1>17. ASSUME UNCHANGED intakeVars PROVE TypeOK'
  BY <1>17 DEF TypeOK, intakeVars, Present, hooks, operations, assignment, handler, bounds
<1> QED
  BY <1>2, <1>3, <1>4, <1>5, <1>6, <1>7, <1>8, <1>9, <1>10, <1>11, <1>12, <1>13, <1>14, <1>15,
     <1>16, <1>17 DEF IntakeNext

\* A handler that ends leaves the others as they are.
LEMMA HandlerEnds ==
  ASSUME NEW h \in Handlers, TypeOK, HandlersHold, Leave(h),
         recorded \subseteq recorded', UNCHANGED <<hooks, commit>>,
         \A o \in Operations : runsOf'[o] # runsOf[o] => Held(h) /\ made[h] = o
  PROVE  HandlersHold'
<1>1. at'[h] = "idle"
  BY DEF Leave, TypeOK
<1>2. ASSUME NEW g \in Handlers, g # h
      PROVE  /\ at'[g] = at[g] /\ delivery'[g] = delivery[g]
             /\ made'[g] = made[g]
  BY <1>2 DEF Leave, TypeOK
<1>3. Present' = Present
  BY DEF Present
<1> QED
  BY <1>1, <1>2, <1>3 DEF HandlersHold, Held, Before, After, hooks, Present

\* Every step keeps what is known of the handlers at their points.
LEMMA HandlersStep ==
  ASSUME TypeOK, HandlersHold, AbsentHasNoRun, [IntakeNext]_intakeVars
  PROVE  HandlersHold'
<1>1. ASSUME UNCHANGED <<hooks, recorded, commit>>,
             UNCHANGED <<at, delivery, made, runsOf>>
      PROVE  HandlersHold'
  BY <1>1 DEF HandlersHold, Held, Present, hooks
<1>2. ASSUME NEW h \in Handlers, NEW d \in Deliveries, Deliver(h, d) PROVE HandlersHold'
  <2>1. at'[h] = "record" /\ delivery'[h] = d
    BY <1>2 DEF Deliver, TypeOK
  <2>2. ASSUME NEW g \in Handlers, g # h PROVE at'[g] = at[g] /\ delivery'[g] = delivery[g]
    BY <1>2, <2>2 DEF Deliver, TypeOK
  <2> QED
    BY <1>2, <2>1, <2>2
       DEF Deliver, HandlersHold, Held, Before, After, Present, hooks, operations
<1>3. ASSUME NEW h \in Handlers, Record(h) PROVE HandlersHold'
  <2>1. CASE Leave(h)
    BY <1>3, <2>1, HandlerEnds DEF Record, Kept, operations
  <2>2. CASE Proceed(h, "dedupe")
    BY <1>3, <2>2
       DEF Record, Kept, Proceed, HandlersHold, Held, Before, After, Present, TypeOK, hooks,
           operations
  <2> QED
    BY <1>3, <2>1, <2>2 DEF Record
<1>4. ASSUME NEW h \in Handlers, Dedupe(h) PROVE HandlersHold'
  <2>1. CASE Leave(h)
    BY <1>4, <2>1, HandlerEnds DEF Dedupe, operations
  <2>2. CASE Proceed(h, "create")
    BY <1>4, <2>2
       DEF Dedupe, Proceed, HandlersHold, Held, Before, After, Present, TypeOK, hooks,
           operations
  <2> QED
    BY <1>4, <2>1, <2>2 DEF Dedupe
<1>5. ASSUME NEW h \in Handlers, Create(h) PROVE HandlersHold'
  <2>1. PICK o \in Operations \ Present :
          /\ commit' = [commit EXCEPT ![o] = subject[delivery[h]]]
          /\ made' = [made EXCEPT ![h] = o]
    BY <1>5 DEF Create
  <2>2. delivery[h] \in Deliveries /\ delivery[h] \in recorded
    BY <1>5 DEF Create, HandlersHold, Before
  <2>3. o \in Present' /\ commit'[o] = subject[delivery[h]] /\ runsOf[o] = 0
    BY <2>1, <2>2, NothingAssumption DEF AbsentHasNoRun, Present, TypeOK
  <2>4. at'[h] = "announce" /\ made'[h] = o /\ delivery' = delivery
    BY <1>5, <2>1 DEF Create, TypeOK
  <2>5. ASSUME NEW g \in Handlers, g # h PROVE at'[g] = at[g] /\ made'[g] = made[g]
    BY <1>5, <2>1, <2>5 DEF Create, TypeOK
  <2>6. ASSUME NEW g \in Handlers, g # h, Held(g)
        PROVE  /\ made[g] \in Present' /\ made[g] # o
               /\ commit'[made[g]] = commit[made[g]]
    BY <2>1, <2>6 DEF HandlersHold, Present, TypeOK
  <2>7. UNCHANGED <<hooks, recorded, runsOf>>
    BY <1>5 DEF Create
  <2>8. ASSUME NEW g \in Handlers, g # h PROVE Held(g)' = Held(g)
    BY <2>5, <2>8 DEF Held
  <2>9. ASSUME NEW g \in Handlers
        PROVE  /\ at'[g] # "idle" => delivery'[g] \in Deliveries
               /\ at'[g] \in (Before \cup After) \ {"record"} =>
                    delivery'[g] \in recorded'
    BY <2>2, <2>4, <2>5, <2>7 DEF HandlersHold
  <2>10. ASSUME NEW g \in Handlers, Held(g)'
         PROVE  /\ made'[g] \in Present'
                /\ commit'[made'[g]] = subject'[delivery'[g]]
                /\ runsOf'[made'[g]] = 0
    BY <2>3, <2>4, <2>5, <2>6, <2>7, <2>8, <2>10 DEF HandlersHold, hooks
  <2>11. ASSUME NEW g \in Handlers, NEW f \in Handlers, Held(g)', Held(f)',
                made'[f] = made'[g]
         PROVE  f = g
    BY <2>4, <2>5, <2>6, <2>8, <2>11 DEF HandlersHold
  <2> QED
    BY <2>9, <2>10, <2>11 DEF HandlersHold
<1>6. ASSUME NEW h \in Handlers, NEW point \in After,
             at[h] \in After, at' = [at EXCEPT ![h] = point],
             UNCHANGED <<hooks, recorded, commit, delivery, made, runsOf>>
      PROVE  HandlersHold'
  <2>1. ASSUME NEW g \in Handlers PROVE Held(g)' = Held(g) /\ (at'[g] = "idle" <=> at[g] = "idle")
    BY <1>6 DEF Held, After, TypeOK
  <2>2. ASSUME NEW g \in Handlers, at'[g] \in (Before \cup After) \ {"record"}
        PROVE  at[g] \in (Before \cup After) \ {"record"}
    BY <1>6, <2>2 DEF Before, After, TypeOK
  <2> QED
    BY <1>6, <2>1, <2>2 DEF HandlersHold, Present, hooks
<1>7. ASSUME NEW h \in Handlers, Announce(h) PROVE HandlersHold'
  BY <1>6, <1>7 DEF Announce, Proceed, After, operations
<1>8. ASSUME NEW h \in Handlers, Abort(h) PROVE HandlersHold'
  BY <1>8, HandlerEnds DEF Abort, operations
<1>9. ASSUME NEW h \in Handlers, Survey(h) PROVE HandlersHold'
  BY <1>6, <1>9 DEF Survey, After, operations
<1>10. ASSUME NEW h \in Handlers, Apply(h) PROVE HandlersHold'
  BY <1>6, <1>10 DEF Apply, Proceed, After, operations
<1>11. ASSUME NEW h \in Handlers, Publish(h) PROVE HandlersHold'
  <2>1. CASE Leave(h)
    BY <1>11, <2>1, HandlerEnds DEF Publish, operations
  <2>2. CASE Proceed(h, "run")
    BY <1>6, <1>11, <2>2 DEF Publish, Proceed, After, operations
  <2> QED
    BY <1>11, <2>1, <2>2 DEF Publish
<1>12. ASSUME NEW h \in Handlers, Falter(h) PROVE HandlersHold'
  <2>1. CASE Leave(h)
    BY <1>12, <2>1, HandlerEnds DEF Falter, operations
  <2>2. CASE at' = [at EXCEPT ![h] = "apply"] /\ UNCHANGED <<delivery, made>>
    BY <1>6, <1>12, <2>2 DEF Falter, After, operations
  <2> QED
    BY <1>12, <2>1, <2>2 DEF Falter
<1>13. ASSUME NEW h \in Handlers, CreateRun(h) PROVE HandlersHold'
  <2>1. Held(h)
    BY <1>13 DEF CreateRun, Held, After
  <2>2. \A o \in Operations : runsOf'[o] # runsOf[o] => made[h] = o
    BY <1>13 DEF CreateRun, TypeOK
  <2> QED
    BY <1>13, <2>1, <2>2, HandlerEnds DEF CreateRun, operations
<1>14. ASSUME NEW o \in Operations, ApproveRouting(o) \/ Approved(o) \/ Elapse(o)
       PROVE  HandlersHold'
  BY <1>1, <1>14 DEF ApproveRouting, Approved, Elapse, operations, handler
<1>15. ASSUME NEW o \in Operations, NEW a \in Agents, Route(o, a) PROVE HandlersHold'
  BY <1>1, <1>15 DEF Route, operations, handler
<1>16. ASSUME UNCHANGED intakeVars PROVE HandlersHold'
  BY <1>1, <1>16 DEF intakeVars, operations, handler
<1> QED
  BY <1>2, <1>3, <1>4, <1>5, <1>7, <1>8, <1>9, <1>10, <1>11, <1>12, <1>13, <1>14, <1>15, <1>16
     DEF IntakeNext

\* Only operations that are created get a run.
LEMMA AbsentStep ==
  ASSUME TypeOK, HandlersHold, AbsentHasNoRun, [IntakeNext]_intakeVars
  PROVE  AbsentHasNoRun'
<1>1. Present \subseteq Present'
  BY PresentGrows
<1>2. ASSUME NEW h \in Handlers, CreateRun(h) PROVE AbsentHasNoRun'
  <2>1. made[h] \in Present
    BY <1>2 DEF CreateRun, HandlersHold, Held, After
  <2>2. \A o \in Operations \ Present : runsOf'[o] = runsOf[o]
    BY <1>2, <2>1 DEF CreateRun, TypeOK
  <2> QED
    BY <1>1, <2>2 DEF AbsentHasNoRun
<1>3. ASSUME UNCHANGED runsOf PROVE AbsentHasNoRun'
  BY <1>1, <1>3 DEF AbsentHasNoRun
<1> QED
  BY <1>2, <1>3
     DEF IntakeNext, intakeVars, Deliver, Record, Dedupe, Create, Announce, Abort, Survey,
         Apply, Publish, Falter, ApproveRouting, Approved, Elapse, Route

\* Every step keeps that a handler about to create is alone with its commit, and what this is
\* for: two operations of one commit within the window come from a race.
LEMMA DuplicatesStep ==
  ASSUME TypeOK, HandlersHold, CreatorIsAlone, DuplicatesNeedOverlap,
         [IntakeNext]_intakeVars
  PROVE  CreatorIsAlone' /\ DuplicatesNeedOverlap'
<1>1. ASSUME UNCHANGED <<hooks, commit>>,
             inWindow' \subseteq inWindow, raced \subseteq raced',
             \A h \in Handlers :
               at'[h] = "create" => at[h] = "create" /\ delivery'[h] = delivery[h]
      PROVE  CreatorIsAlone' /\ DuplicatesNeedOverlap'
  <2>1. Present' = Present
    BY <1>1 DEF Present
  <2>2. CreatorIsAlone'
    BY <1>1, <2>1 DEF CreatorIsAlone, IsDuplicate, hooks
  <2>3. DuplicatesNeedOverlap'
    BY <1>1 DEF DuplicatesNeedOverlap
  <2> QED
    BY <2>2, <2>3
<1>2. ASSUME NEW h \in Handlers, Leave(h)
      PROVE  \A g \in Handlers :
               at'[g] = "create" => at[g] = "create" /\ delivery'[g] = delivery[g]
  BY <1>2 DEF Leave, TypeOK
<1>3. ASSUME NEW h \in Handlers, NEW point, point # "create",
             at' = [at EXCEPT ![h] = point],
             \A g \in Handlers : g # h => delivery'[g] = delivery[g]
      PROVE  \A g \in Handlers :
               at'[g] = "create" => at[g] = "create" /\ delivery'[g] = delivery[g]
  BY <1>3 DEF TypeOK
<1>4. ASSUME NEW h \in Handlers, NEW d \in Deliveries, Deliver(h, d)
      PROVE  CreatorIsAlone' /\ DuplicatesNeedOverlap'
  BY <1>1, <1>3, <1>4 DEF Deliver, operations, TypeOK
<1>5. ASSUME NEW h \in Handlers, Record(h) PROVE CreatorIsAlone' /\ DuplicatesNeedOverlap'
  BY <1>1, <1>2, <1>3, <1>5 DEF Record, Proceed, operations
<1>6. ASSUME NEW h \in Handlers, Dedupe(h) PROVE CreatorIsAlone' /\ DuplicatesNeedOverlap'
  <2> DEFINE k == subject[delivery[h]]
  <2>1. raced \subseteq raced' /\ UNCHANGED <<hooks, commit, inWindow>>
    BY <1>6 DEF Dedupe, operations
  <2>2. CASE Leave(h)
    BY <1>1, <1>2, <2>1, <2>2
  <2>3. CASE ~IsDuplicate(k) /\ Proceed(h, "create")
    <3>1. at' = [at EXCEPT ![h] = "create"] /\ delivery' = delivery
      BY <2>3 DEF Proceed
    <3>2. raced' = IF \E g \in Handlers : at[g] = "create" /\ subject[delivery[g]] = k
                   THEN raced \cup {k} ELSE raced
      BY <1>6 DEF Dedupe
    <3>3. Present' = Present
      BY <2>1 DEF Present
    <3>4. DuplicatesNeedOverlap'
      BY <2>1 DEF DuplicatesNeedOverlap
    <3>5. \A x : IsDuplicate(x)' = IsDuplicate(x)
      BY <2>1, <3>3 DEF IsDuplicate
    <3>6. ASSUME NEW g \in Handlers, at'[g] = "create", subject[delivery[g]] \notin raced'
          PROVE  /\ ~IsDuplicate(subject[delivery[g]])
                 /\ \A f \in Handlers :
                      at'[f] = "create" /\ subject[delivery[f]] = subject[delivery[g]] =>
                        f = g
      <4>1. CASE g = h
        BY <2>3, <3>1, <3>2, <3>6, <4>1 DEF TypeOK
      <4>2. CASE g # h
        BY <2>1, <3>1, <3>2, <3>6, <4>2 DEF CreatorIsAlone, TypeOK
      <4> QED
        BY <4>1, <4>2
    <3>7. CreatorIsAlone'
      BY <2>1, <3>1, <3>3, <3>6 DEF CreatorIsAlone, IsDuplicate, hooks
    <3> QED
      BY <3>4, <3>7
  <2> QED
    BY <1>6, <2>2, <2>3 DEF Dedupe
<1>7. ASSUME NEW h \in Handlers, Create(h) PROVE CreatorIsAlone' /\ DuplicatesNeedOverlap'
  <2> DEFINE k == subject[delivery[h]]
  <2>1. PICK o \in Operations \ Present :
          commit' = [commit EXCEPT ![o] = k] /\ inWindow' = inWindow \cup {o}
    BY <1>7 DEF Create
  <2>2. /\ UNCHANGED <<subject, delivery, raced>> /\ at[h] = "create"
        /\ at' = [at EXCEPT ![h] = "announce"]
    BY <1>7 DEF Create, hooks
  <2>3. k \in Commits
    BY <1>7 DEF Create, HandlersHold, TypeOK
  <2>4. /\ Present' = Present \cup {o} /\ commit'[o] = k
        /\ \A p \in Present : p # o /\ commit'[p] = commit[p]
    BY <2>1, <2>3, NothingAssumption DEF Present, TypeOK
  <2>5. inWindow \subseteq Present
    BY DEF TypeOK
  <2>6. DuplicatesNeedOverlap'
    <3>1. ASSUME NEW p \in inWindow, commit[p] = k PROVE k \in raced
      BY <2>2, <2>5, <3>1 DEF CreatorIsAlone, IsDuplicate
    <3>2. ASSUME NEW p \in inWindow', NEW q \in inWindow', commit'[p] = commit'[q], p # q
          PROVE  commit'[p] \in raced'
      BY <2>1, <2>2, <2>4, <2>5, <3>1, <3>2 DEF DuplicatesNeedOverlap
    <3> QED
      BY <3>2 DEF DuplicatesNeedOverlap
  <2>7. ASSUME NEW g \in Handlers, at'[g] = "create", subject[delivery[g]] \notin raced
        PROVE  /\ g # h /\ at[g] = "create" /\ subject[delivery[g]] # k
               /\ ~IsDuplicate(subject[delivery[g]])
    BY <2>2, <2>7 DEF CreatorIsAlone, TypeOK
  <2>8. ASSUME NEW x, x # k, ~IsDuplicate(x) PROVE ~IsDuplicate(x)'
    BY <2>1, <2>4, <2>5, <2>8 DEF IsDuplicate
  <2>9. CreatorIsAlone'
    BY <2>2, <2>7, <2>8 DEF CreatorIsAlone, TypeOK
  <2> QED
    BY <2>6, <2>9
<1>8. ASSUME NEW h \in Handlers,
             Announce(h) \/ Abort(h) \/ Survey(h) \/ Apply(h) \/ Publish(h) \/ Falter(h)
               \/ CreateRun(h)
      PROVE  CreatorIsAlone' /\ DuplicatesNeedOverlap'
  BY <1>1, <1>2, <1>3, <1>8
     DEF Announce, Abort, Survey, Apply, Publish, Falter, CreateRun, Proceed, operations
<1>9. ASSUME NEW o \in Operations, ApproveRouting(o) \/ Approved(o) \/ Elapse(o)
      PROVE  CreatorIsAlone' /\ DuplicatesNeedOverlap'
  BY <1>1, <1>9 DEF ApproveRouting, Approved, Elapse, operations, handler
<1>10. ASSUME NEW o \in Operations, NEW a \in Agents, Route(o, a)
       PROVE  CreatorIsAlone' /\ DuplicatesNeedOverlap'
  BY <1>1, <1>10 DEF Route, operations, handler
<1>11. ASSUME UNCHANGED intakeVars PROVE CreatorIsAlone' /\ DuplicatesNeedOverlap'
  BY <1>1, <1>11 DEF intakeVars, operations, handler
<1> QED
  BY <1>4, <1>5, <1>6, <1>7, <1>8, <1>9, <1>10, <1>11 DEF IntakeNext

\* Every step keeps that a recorded delivery is pursued, has led to an operation, or has a
\* fate: a replay ends without taking the handler away that is pursuing.
LEMMA PursuedStep ==
  ASSUME TypeOK, HandlersHold, RecordedIsPursued, [IntakeNext]_intakeVars
  PROVE  RecordedIsPursued'
<1>1. /\ subject' = subject
      /\ \A o \in Present : o \in Present' /\ commit'[o] = commit[o]
  <2>1. ASSUME NEW h \in Handlers, Create(h)
        PROVE  \A o \in Present : o \in Present' /\ commit'[o] = commit[o]
    <3>1. PICK o \in Operations \ Present : commit' = [commit EXCEPT ![o] = subject[delivery[h]]]
      BY <2>1 DEF Create
    <3> QED
      BY <3>1 DEF Present, TypeOK
  <2>2. ASSUME UNCHANGED commit
        PROVE  \A o \in Present : o \in Present' /\ commit'[o] = commit[o]
    BY <2>2 DEF Present
  <2> QED
    BY <2>1, <2>2
       DEF IntakeNext, intakeVars, hooks, operations, Deliver, Record, Dedupe, Create, Announce,
           Abort, Survey, Apply, Publish, Falter, CreateRun, ApproveRouting, Approved, Elapse,
           Route
<1> DEFINE Pursuing(g, d) == delivery[g] = d /\ at[g] \notin {"idle", "record"}
           Traced(d) == (\E o \in Present : commit[o] = subject[d]) \/ fate[d] # "none"
<1>2. ASSUME recorded' = recorded,
             \A d \in Deliveries : fate[d] # "none" => fate'[d] # "none",
             \A g \in Handlers, d \in recorded :
               Pursuing(g, d) => Pursuing(g, d)' \/ Traced(d) \/ Traced(d)'
      PROVE  RecordedIsPursued'
  <2>1. \A d \in recorded : Traced(d) => Traced(d)'
    BY <1>1, <1>2 DEF TypeOK
  <2> QED
    BY <1>2, <2>1 DEF RecordedIsPursued
<1>3. ASSUME NEW h \in Handlers, Held(h) PROVE Traced(delivery[h])
  BY <1>3 DEF HandlersHold
<1>4. ASSUME NEW h \in Handlers, NEW d \in Deliveries, Deliver(h, d) PROVE RecordedIsPursued'
  BY <1>2, <1>4 DEF Deliver, TypeOK
<1>5. ASSUME NEW h \in Handlers, Record(h) PROVE RecordedIsPursued'
  <2>1. /\ at[h] = "record" /\ delivery[h] \in Deliveries
        /\ recorded' = recorded \cup {delivery[h]}
    BY <1>5 DEF Record, Kept, HandlersHold
  <2>2. CASE delivery[h] \in recorded /\ Leave(h) /\ UNCHANGED fate
    BY <1>2, <2>1, <2>2 DEF Leave, TypeOK
  <2>3. CASE Proceed(h, "dedupe") /\ UNCHANGED fate
    BY <1>1, <2>1, <2>3 DEF Proceed, RecordedIsPursued, TypeOK
  <2>4. CASE Leave(h) /\ fate' = [fate EXCEPT ![delivery[h]] = "ignored"]
    BY <1>1, <2>1, <2>4 DEF Leave, RecordedIsPursued, TypeOK
  <2> QED
    BY <1>5, <2>2, <2>3, <2>4 DEF Record
<1>6. ASSUME NEW h \in Handlers, Dedupe(h) PROVE RecordedIsPursued'
  <2>1. CASE IsDuplicate(subject[delivery[h]]) /\ Leave(h)
    <3>1. Traced(delivery[h])
      BY <2>1 DEF IsDuplicate
    <3> QED
      BY <1>2, <1>6, <2>1, <3>1 DEF Dedupe, Leave, TypeOK
  <2>2. CASE Proceed(h, "create")
    BY <1>2, <1>6, <2>2 DEF Dedupe, Proceed, TypeOK
  <2> QED
    BY <1>6, <2>1, <2>2 DEF Dedupe
<1>7. ASSUME NEW h \in Handlers, Create(h) PROVE RecordedIsPursued'
  BY <1>2, <1>7 DEF Create, TypeOK
<1>8. ASSUME NEW h \in Handlers, Abort(h) PROVE RecordedIsPursued'
  <2>1. \A d \in recorded : delivery[h] = d => fate'[d] # "none"
    BY <1>8 DEF Abort, TypeOK
  <2>2. \A d \in Deliveries : fate[d] # "none" => fate'[d] # "none"
    BY <1>8 DEF Abort, TypeOK
  <2> QED
    BY <1>2, <1>8, <2>1, <2>2 DEF Abort, Leave, TypeOK
<1>9. ASSUME NEW h \in Handlers, Held(h), UNCHANGED <<recorded, fate>>,
             \A g \in Handlers : g # h => at'[g] = at[g] /\ delivery'[g] = delivery[g]
      PROVE  RecordedIsPursued'
  BY <1>2, <1>3, <1>9
<1>10. ASSUME NEW h \in Handlers,
              \/ Announce(h) \/ Survey(h) \/ Apply(h)
              \/ Publish(h) \/ Falter(h) \/ CreateRun(h)
       PROVE  RecordedIsPursued'
  BY <1>9, <1>10
     DEF Announce, Survey, Apply, Publish, Falter, CreateRun, Proceed, Leave, Held, After,
         TypeOK
<1>11. ASSUME NEW o \in Operations, ApproveRouting(o) \/ Approved(o) \/ Elapse(o)
       PROVE  RecordedIsPursued'
  BY <1>2, <1>11 DEF ApproveRouting, Approved, Elapse, handler
<1>12. ASSUME NEW o \in Operations, NEW a \in Agents, Route(o, a) PROVE RecordedIsPursued'
  BY <1>2, <1>12 DEF Route, handler
<1>13. ASSUME UNCHANGED intakeVars PROVE RecordedIsPursued'
  BY <1>2, <1>13 DEF intakeVars, handler
<1> QED
  BY <1>4, <1>5, <1>6, <1>7, <1>8, <1>10, <1>11, <1>12, <1>13 DEF IntakeNext

\* Every step keeps that an operation being approved, or approved, has an agent, unless the
\* router crossed it.
LEMMA ApprovalStep ==
  ASSUME TypeOK, HandlersHold, ApprovingHasAgent, ApprovedHasAgent,
         [IntakeNext]_intakeVars
  PROVE  ApprovingHasAgent' /\ ApprovedHasAgent'
<1>1. ASSUME NEW h \in Handlers, Apply(h) PROVE ApprovingHasAgent' /\ ApprovedHasAgent'
  <2>1. made[h] \in Operations /\ plan[h] \in Plans
    BY <1>1 DEF Apply, HandlersHold, Held, After, Present, TypeOK
  <2>2. Stored(plan[h].status) # "approved"
    BY <2>1 DEF Stored, Plans
  <2> QED
    BY <1>1, <2>1, <2>2 DEF Apply, ApprovingHasAgent, ApprovedHasAgent, Present, TypeOK
<1>2. ASSUME NEW o \in Operations, NEW a \in Agents, Route(o, a)
      PROVE  ApprovingHasAgent' /\ ApprovedHasAgent'
  <2>1. a # Nothing
    BY NothingAssumption
  <2> QED
    BY <1>2, <2>1 DEF Route, ApprovingHasAgent, ApprovedHasAgent, Present, TypeOK
<1>3. ASSUME NEW o \in Operations, ApproveRouting(o)
      PROVE  ApprovingHasAgent' /\ ApprovedHasAgent'
  BY <1>3 DEF ApproveRouting, Suggested, ApprovingHasAgent, ApprovedHasAgent
<1>4. ASSUME NEW o \in Operations, Approved(o)
      PROVE  ApprovingHasAgent' /\ ApprovedHasAgent'
  BY <1>4 DEF Approved, ApprovingHasAgent, ApprovedHasAgent, TypeOK
<1>5. ASSUME UNCHANGED <<assignment, crossed>>
      PROVE  ApprovingHasAgent' /\ ApprovedHasAgent'
  BY <1>5 DEF assignment, ApprovingHasAgent, ApprovedHasAgent
<1> QED
  BY <1>1, <1>2, <1>3, <1>4, <1>5
     DEF IntakeNext, intakeVars, Deliver, Record, Dedupe, Create, Announce, Abort, Survey,
         Publish, Falter, CreateRun, Elapse

\* The whole invariant is inductive.
LEMMA IntakeStep ==
  ASSUME Correct, [IntakeNext]_intakeVars
  PROVE  Correct'
BY IntakeTypeStep, HandlersStep, AbsentStep, DuplicatesStep, PursuedStep, ApprovalStep
   DEF Correct

\* The invariant of Intake: what is true of a webhook's handler at each of its points, of the
\* operations it creates and of those that an operator approves.
THEOREM IntakeInvariantHolds == IntakeSpec => []Correct
<1>1. IntakeInit => Correct
  BY IntakeStarts
<1>2. Correct /\ [IntakeNext]_intakeVars => Correct'
  BY IntakeStep
<1> QED
  BY <1>1, <1>2, PTL DEF IntakeSpec

\* An event is counted once: the deduplication of webhooks leaves two operations for a commit
\* within its window only if two handlers looked before either had created its own.
THEOREM HandledEventsCountOnce == IntakeSpec => []DuplicatesNeedOverlap
<1>1. Correct => DuplicatesNeedOverlap
  BY DEF Correct
<1> QED
  BY <1>1, IntakeInvariantHolds, PTL

\* An event is not lost: a delivery that replay protection will refuse is being handled, has
\* led to an operation, was ignored by the rules, or its handling failed.
THEOREM RecordedEventsAreHandled == IntakeSpec => []RecordedIsHandled
<1>1. Correct => RecordedIsHandled
  BY DEF Correct, RecordedIsPursued, RecordedIsHandled
<1> QED
  BY <1>1, IntakeInvariantHolds, PTL

\* approve-routing leaves an operation with an agent, unless the router wrote the operation
\* between its check and its update.
THEOREM ApprovedRoutingHasAgent == IntakeSpec => []ApprovedHasAgent
<1>1. Correct => ApprovedHasAgent
  BY DEF Correct
<1> QED
  BY <1>1, IntakeInvariantHolds, PTL

=============================================================================
