----------------------- MODULE GatewayExecutionProofs -----------------------
(***************************************************************************)
(* Proofs about the gateway for any number of callers, keys, enforcers,    *)
(* actions, requests and faults.  Each property has an invariant of its    *)
(* own that weighs a counter against the callers who are on their way to   *)
(* raise it; Types says where each kind of process can be.                 *)
(***************************************************************************)
EXTENDS GatewayExecution, FiniteSetTheorems, TLAPS

CallerPoints ==
  {"idle", "validate", "run", "use", "lookup", "connect", "scope", "simulate", "prepare",
   "execute", "cost", "spend", "cache"}
ExternalPoints ==
  {"idle", "lookup", "connect", "agent", "register", "policy", "scope", "simulate", "cache"}
EnforcerPoints == {"idle", "quarantine", "revoke"}

\* Where a process of each kind can stand, and what its locals are.  An API key never gets
\* past the simulation.
LocalsOK ==
  /\ pc \in [Processes -> CallerPoints \cup ExternalPoints \cup EnforcerPoints]
  /\ action \in [Processes -> Actions \cup {Nothing}]
  /\ response \in [Processes -> Responses \cup {Nothing}]
  /\ \A p \in Callers : pc[p] \in CallerPoints
  /\ \A p \in Externals : pc[p] \in ExternalPoints
  /\ \A p \in Enforcers : pc[p] \in EnforcerPoints
  /\ \A p \in Agents : pc[p] # "idle" => action[p] \in Actions

Types ==
  /\ used \in Nat /\ rows \in Nat /\ spent \in Nat /\ faults \in Nat
  /\ effects \in Nat /\ late \in Nat
  /\ lapsed \in BOOLEAN
  /\ status \in {"scheduled", "running", "paused", "quarantined"}
  /\ cache \in [Entries -> Responses \cup {Nothing}]
  /\ repeats \in [Entries -> Nat]
  /\ LocalsOK

-----------------------------------------------------------------------------
(* Types                                                                   *)

\* The initial state is well-typed.
LEMMA TypesInit == Init => Types
  <1> SUFFICES ASSUME Init PROVE Types
    OBVIOUS
  <1>1. LocalsOK
    BY DEF Init, LocalsOK, Processes, Agents, Responses, CallerPoints, ExternalPoints,
      EnforcerPoints
  <1>2. cache \in [Entries -> Responses \cup {Nothing}] /\ repeats \in [Entries -> Nat]
    BY DEF Init
  <1> QED
    BY <1>1, <1>2 DEF Init, Types

\* An answered request leaves its locals well-typed, ...
LEMMA FinishTypes ==
  ASSUME LocalsOK, NEW p \in Processes, Finish(p)
  PROVE  LocalsOK'
  BY DEF LocalsOK, Finish, GoTo, Processes, Agents, CallerPoints, ExternalPoints,
    EnforcerPoints

\* ... and so does one that goes on to a point of its kind, ...
LEMMA ProceedTypes ==
  ASSUME LocalsOK, NEW p \in Processes, NEW point, pc[p] # "idle",
         p \in Callers => point \in CallerPoints,
         p \in Externals => point \in ExternalPoints,
         p \in Enforcers => point \in EnforcerPoints,
         Proceed(p, point)
  PROVE  LocalsOK'
  <1>1. point \in CallerPoints \cup ExternalPoints \cup EnforcerPoints
    BY DEF Processes, Agents
  <1> QED
    BY <1>1 DEF LocalsOK, Proceed, GoTo, Processes, Agents

\* ... or whose response is settled.
LEMMA SettleTypes ==
  ASSUME LocalsOK, NEW p \in Processes, NEW point, NEW answer \in Responses, pc[p] # "idle",
         p \in Callers => point \in CallerPoints,
         p \in Externals => point \in ExternalPoints,
         p \in Enforcers => point \in EnforcerPoints,
         Settle(p, point, answer)
  PROVE  LocalsOK'
  <1>1. point \in CallerPoints \cup ExternalPoints \cup EnforcerPoints
    BY DEF Processes, Agents
  <1> QED
    BY <1>1 DEF LocalsOK, Settle, GoTo, Processes, Agents

\* Who can be at which point.
LEMMA Whereabouts ==
  ASSUME LocalsOK, NEW p \in Processes
  PROVE  /\ pc[p] \in {"validate", "run", "use", "prepare", "execute", "cost", "spend"} =>
              p \in Callers /\ p \notin Externals /\ p \notin Enforcers
         /\ pc[p] \in {"agent", "register", "policy"} =>
              p \notin Callers /\ p \in Externals /\ p \notin Enforcers
         /\ pc[p] \in {"lookup", "connect", "scope", "simulate", "cache"} =>
              p \in Agents /\ p \notin Enforcers
         /\ pc[p] \in {"quarantine", "revoke"} =>
              p \notin Callers /\ p \notin Externals /\ p \in Enforcers
         /\ p \in Callers => p \notin Externals
  BY GatewayAssumption DEF LocalsOK, Processes, Agents, CallerPoints, ExternalPoints,
    EnforcerPoints

\* Every step of a request keeps the locals well-typed.
LEMMA StepLocals ==
  ASSUME Types, NEW p \in Processes, Step(p)
  PROVE  LocalsOK'
  <1> USE FinishTypes, ProceedTypes, SettleTypes, Whereabouts
      DEF Types, CallerPoints, ExternalPoints, EnforcerPoints, Responses
  <1>1. CASE Validate(p)
    BY <1>1 DEF Validate
  <1>2. CASE CheckRun(p)
    BY <1>2 DEF CheckRun
  <1>3. CASE Use(p)
    BY <1>3 DEF Use
  <1>4. CASE LookUp(p)
    BY <1>4 DEF LookUp
  <1>5. CASE Connect(p)
    BY <1>5 DEF Connect
  <1>6. CASE FindAgent(p)
    BY <1>6 DEF FindAgent
  <1>7. CASE Register(p)
    BY <1>7 DEF Register
  <1>8. CASE JudgeExternal(p)
    BY <1>8 DEF JudgeExternal
  <1>9. CASE CheckScope(p)
    BY <1>9 DEF CheckScope
  <1>10. CASE Simulate(p)
    BY <1>10 DEF Simulate
  <1>11. CASE Prepare(p)
    BY <1>11 DEF Prepare
  <1>12. CASE Execute(p)
    BY <1>12 DEF Execute
  <1>13. CASE ChargeRow(p)
    BY <1>13 DEF ChargeRow
  <1>14. CASE ChargeTotal(p)
    BY <1>14 DEF ChargeTotal
  <1>15. CASE Cache(p)
    BY <1>15 DEF Cache
  <1>16. CASE CacheFails(p)
    BY <1>16 DEF CacheFails
  <1>17. CASE Quarantine(p)
    BY <1>17 DEF Quarantine
  <1>18. CASE Revoke(p)
    BY <1>18 DEF Revoke
  <1>19. CASE Fault(p)
    BY <1>19 DEF Fault
  <1> QED
    BY <1>1, <1>2, <1>3, <1>4, <1>5, <1>6, <1>7, <1>8, <1>9, <1>10, <1>11, <1>12, <1>13,
       <1>14, <1>15, <1>16, <1>17, <1>18, <1>19
    DEF Step

\* A process of the gateway moves: it calls, reports, or goes on.
Moves(p) ==
  \/ p \in Agents /\ \E a \in Actions : Call(p, a)
  \/ p \in Enforcers /\ Report(p)
  \/ Step(p)

\* What happens around the processes.
Around == Begin \/ Pause \/ Resume \/ Lapse \/ \E e \in Entries : Expire(e)

\* Every step is that of one process, is around them, or changes nothing.
LEMMA Steps ==
  [Next]_vars => (\E p \in Processes : Moves(p)) \/ Around \/ UNCHANGED vars
  BY DEF Next, Moves, Around, Processes

\* The entry of a request in flight.
LEMMA EntryOf ==
  ASSUME Types, NEW p \in Agents, pc[p] # "idle"
  PROVE  Entry(p) \in Entries
  BY DEF Types, LocalsOK, Entry, Entries, Owner

\* Every step keeps the types.
LEMMA TypesStep == Types /\ [Next]_vars => Types'
  <1> SUFFICES ASSUME Types, [Next]_vars PROVE Types'
    OBVIOUS
  <1> USE DEF Types
  <1>1. ASSUME NEW p \in Agents, NEW a \in Actions, Call(p, a) PROVE Types'
    <2>1. LocalsOK'
      BY <1>1, GatewayAssumption DEF Call, Starts, GoTo, LocalsOK, Processes, Agents,
        CallerPoints, ExternalPoints, EnforcerPoints
    <2> QED
      BY <1>1, <2>1 DEF Call, capability, others, costs, history
  <1>2. ASSUME NEW p \in Enforcers, Report(p) PROVE Types'
    <2>1. LocalsOK'
      BY <1>2, GatewayAssumption DEF Report, Starts, GoTo, LocalsOK, Processes, Agents,
        CallerPoints, ExternalPoints, EnforcerPoints
    <2> QED
      BY <1>2, <2>1 DEF Report, capability, others, costs, history
  <1>3. ASSUME NEW p \in Processes, Step(p) PROVE Types'
    <2>1. LocalsOK'
      BY <1>3, StepLocals
    <2> USE DEF capability, others, costs, bounds, history
    <2>2. CASE Use(p)
      BY <2>1, <2>2 DEF Use, Incremented
    <2>3. CASE Register(p)
      BY <2>1, <2>3 DEF Register
    <2>4. CASE Execute(p)
      <3>1. Entry(p) \in Entries
        BY <2>4, EntryOf, Whereabouts DEF Execute, Agents
      <3>2. repeats' \in [Entries -> Nat] /\ effects' \in Nat /\ late' \in Nat
        BY <2>4, <3>1 DEF Execute, Reach
      <3> QED
        BY <2>1, <2>4, <3>2 DEF Execute
    <2>5. CASE ChargeRow(p)
      BY <2>1, <2>5 DEF ChargeRow
    <2>6. CASE ChargeTotal(p)
      BY <2>1, <2>6 DEF ChargeTotal, Total
    <2>7. CASE Cache(p)
      <3>1. Entry(p) \in Entries
        BY <2>7, EntryOf, Whereabouts DEF Cache, Agents
      <3>2. cache' \in [Entries -> Responses \cup {Nothing}] /\ repeats' \in [Entries -> Nat]
        BY <2>7, <3>1 DEF Cache, LocalsOK
      <3> QED
        BY <2>1, <2>7, <3>2 DEF Cache
    <2>8. CASE CacheFails(p) \/ Fault(p)
      BY <2>1, <2>8 DEF CacheFails, Fault
    <2>9. CASE Quarantine(p)
      BY <2>1, <2>9 DEF Quarantine
    <2>10. CASE Revoke(p)
      BY <2>1, <2>10 DEF Revoke
    <2>11. CASE Unmoved
      BY <2>1, <2>11 DEF Unmoved
    <2> QED
      BY <1>3, <2>2, <2>3, <2>4, <2>5, <2>6, <2>7, <2>8, <2>9, <2>10, <2>11
      DEF Step, Validate, CheckRun, LookUp, Connect, FindAgent, JudgeExternal, CheckScope,
        Simulate, Prepare
  <1>4. ASSUME NEW e \in Entries, Expire(e) PROVE Types'
    BY <1>4 DEF Expire, LocalsOK, capability, others, costs, bounds
  <1>5. CASE Begin \/ Pause \/ Resume \/ Lapse
    BY <1>5 DEF Begin, Pause, Resume, Move, Lapse, LocalsOK, capability, others, costs,
      bounds, history
  <1>6. CASE UNCHANGED vars
    BY <1>6 DEF vars, LocalsOK, capability, others, costs, bounds, history
  <1> QED
    BY <1>1, <1>2, <1>3, <1>4, <1>5, <1>6 DEF Next

\* Places, locals, counters and rows keep their types; in particular an API key never gets as
\* far as to prepare or to pay for an execution.
THEOREM TypeCorrect == Spec => []Types
  BY TypesInit, TypesStep, PTL DEF Spec

-----------------------------------------------------------------------------
(* Counting callers                                                        *)

Standing(points) == {p \in Callers : pc[p] \in points}

\* Two sets of callers that differ in one caller at most.
LEMMA Counting ==
  ASSUME NEW S \in SUBSET Callers, NEW T \in SUBSET Callers, NEW p, S \ {p} = T \ {p}
  PROVE  /\ Cardinality(S) \in Nat /\ Cardinality(T) \in Nat
         /\ Cardinality(Callers) \in Nat \ {0}
         /\ Cardinality(T) <= Cardinality(Callers)
         /\ p \in Callers \ T => Cardinality(T) < Cardinality(Callers)
         /\ (p \in T => p \in S) => Cardinality(T) <= Cardinality(S)
         /\ p \in S \ T => Cardinality(T) = Cardinality(S) - 1
         /\ p \in T \ S => Cardinality(T) = Cardinality(S) + 1
  <1> USE GatewayAssumption, FS_CardinalityType
  <1>1. IsFiniteSet(S) /\ IsFiniteSet(T)
    BY FS_Subset
  <1>2. Cardinality(Callers) \in Nat \ {0}
    BY FS_EmptySet
  <1>3. Cardinality(T) <= Cardinality(Callers)
    BY FS_Subset
  <1>4. ASSUME p \in Callers \ T PROVE Cardinality(T) < Cardinality(Callers)
    BY <1>1, <1>2, <1>4, FS_Subset
  <1>5. ASSUME p \in T => p \in S PROVE Cardinality(T) <= Cardinality(S)
    <2>1. T \in SUBSET S
      BY <1>5
    <2> QED
      BY <1>1, <2>1, FS_Subset
  <1>6. ASSUME p \in S \ T PROVE Cardinality(T) = Cardinality(S) - 1
    <2>1. T = S \ {p}
      BY <1>6
    <2> QED
      BY <1>1, <1>6, <2>1, FS_RemoveElement
  <1>7. ASSUME p \in T \ S PROVE Cardinality(T) = Cardinality(S) + 1
    <2>1. T = S \cup {p}
      BY <1>7
    <2> QED
      BY <1>1, <1>7, <2>1, FS_AddElement
  <1> QED
    BY <1>1, <1>2, <1>3, <1>4, <1>5, <1>6, <1>7

\* A process that moves leaves the others where they are.
LEMMA OthersStay ==
  ASSUME Types, NEW p \in Processes, Moves(p)
  PROVE  \A q \in Processes \ {p} : pc'[q] = pc[q] /\ action'[q] = action[q]
  <1> USE DEF Types, LocalsOK, GoTo, Finish, Proceed, Settle
  <1>1. CASE ~Step(p)
    BY <1>1 DEF Moves, Call, Report, Starts
  <1>2. CASE Step(p)
    BY <1>2 DEF Step, Validate, CheckRun, Use, LookUp, Connect, FindAgent, Register,
      JudgeExternal, CheckScope, Simulate, Prepare, Execute, ChargeRow, ChargeTotal, Cache,
      CacheFails, Quarantine, Revoke, Fault
  <1> QED
    BY <1>1, <1>2

-----------------------------------------------------------------------------
(* The uses of a capability                                                *)

\* The uses there are, and those that validated requests are about to add.
UsesInv == used + At({"run", "use"}) <= MaxUses + Cardinality(Callers) - 1

\* No step exceeds the bound: who validates finds a use left, and is one of the callers.
LEMMA UsesStep == Types /\ UsesInv /\ [Next]_vars => UsesInv'
  <1> SUFFICES ASSUME Types, UsesInv, [Next]_vars PROVE UsesInv'
    OBVIOUS
  <1> DEFINE S == Standing({"run", "use"})
  <1>1. ASSUME NEW p \in Processes, Moves(p) PROVE UsesInv'
    <2>1. S \ {p} = S' \ {p} /\ S \in SUBSET Callers /\ S' \in SUBSET Callers
      BY <1>1, OthersStay DEF Standing, Processes, Agents
    <2>2. \/ used' = used
          \/ used' = used + 1 /\ p \in S \ S'
      BY <1>1, Whereabouts DEF Moves, Call, Report, Step, Validate, CheckRun, Use, LookUp,
        Connect, FindAgent, Register, JudgeExternal, CheckScope, Simulate, Prepare, Execute,
        ChargeRow, ChargeTotal, Cache, CacheFails, Quarantine, Revoke, Fault, Unmoved, capability,
        Proceed, GoTo, Types, LocalsOK, Standing, Incremented
    <2>3. p \in S' => p \in S \/ (used' = used /\ used < MaxUses)
      BY <1>1, Whereabouts DEF Moves, Call, Report, Step, Validate, CheckRun, Use, LookUp,
        Connect, FindAgent, Register, JudgeExternal, CheckScope, Simulate, Prepare, Execute,
        ChargeRow, ChargeTotal, Cache, CacheFails, Quarantine, Revoke, Fault, Unmoved, capability,
        Starts, Proceed, Finish, Settle, GoTo, Types, LocalsOK, Standing, Valid
    <2> HIDE DEF S
    <2>4. used \in Nat /\ MaxUses \in Nat
      BY GatewayAssumption DEF Types
    <2> QED
      BY <2>1, <2>2, <2>3, <2>4, Counting DEF UsesInv, At, S, Standing
  <1>2. CASE Around \/ UNCHANGED vars
    BY <1>2 DEF Around, Begin, Pause, Resume, Move, Lapse, Expire, vars, capability, UsesInv,
      At
  <1> QED
    BY <1>1, <1>2, Steps

\* A capability is used at most as often as it may be, and once more for each other caller that
\* validated it at the same time.
THEOREM UsesAreBounded == Spec => []UsesBounded
  <1>1. Init => UsesInv
    <2> SUFFICES ASSUME Init PROVE UsesInv
      OBVIOUS
    <2>1. Standing({"run", "use"}) = {}
      BY DEF Init, Standing, Processes, Agents
    <2>2. At({"run", "use"}) = 0 /\ Cardinality(Callers) \in Nat \ {0}
      BY <2>1, FS_EmptySet, FS_CardinalityType, GatewayAssumption DEF At, Standing
    <2> QED
      BY <2>2, GatewayAssumption DEF Init, UsesInv
  <1>2. Types /\ UsesInv => UsesBounded
    <2>1. Standing({"run", "use"}) \in SUBSET Callers
      BY DEF Standing
    <2> QED
      BY <2>1, Counting, GatewayAssumption DEF Types, UsesInv, UsesBounded, At, Standing
  <1> QED
    BY <1>1, <1>2, UsesStep, TypeCorrect, PTL DEF Spec

-----------------------------------------------------------------------------
(* Costs                                                                   *)

\* A total lags its rows by the requests between the two statements and by faults, and an
\* effect is paid for unless its request has yet to, or failed.
MoneyInv ==
  /\ spent + At({"spend"}) <= rows
  /\ rows <= spent + At({"spend"}) + faults
  /\ effects <= rows + At({"cost"}) + faults

\* No step loses a cost but for a fault.
LEMMA MoneyStep == Types /\ MoneyInv /\ [Next]_vars => MoneyInv'
  <1> SUFFICES ASSUME Types, MoneyInv, [Next]_vars PROVE MoneyInv'
    OBVIOUS
  <1> DEFINE S == Standing({"spend"})
             C == Standing({"cost"})
  <1>1. ASSUME NEW p \in Processes, Moves(p) PROVE MoneyInv'
    <2>1. /\ S \ {p} = S' \ {p} /\ S \in SUBSET Callers /\ S' \in SUBSET Callers
          /\ C \ {p} = C' \ {p} /\ C \in SUBSET Callers /\ C' \in SUBSET Callers
      BY <1>1, OthersStay DEF Standing, Processes, Agents
    <2> USE Whereabouts DEF Types, LocalsOK, Standing, Proceed, Settle, Finish, GoTo, Nothing
    <2>2. CASE Execute(p)
      <3>1. UNCHANGED <<rows, spent, faults>> /\ effects' \in {effects, effects + 1}
        BY <2>2 DEF Execute, Reach, costs, bounds, history
      <3>2. p \notin S /\ p \notin S' /\ p \in C' \ C
        BY <2>2 DEF Execute
      <3> HIDE DEF S, C
      <3> QED
        BY <2>1, <3>1, <3>2, Counting DEF MoneyInv, At, S, C
    <2>3. CASE ChargeRow(p)
      <3>1. UNCHANGED <<spent, faults, effects>> /\ rows' = rows + 1
        BY <2>3 DEF ChargeRow, bounds, history
      <3>2. p \in S' \ S /\ p \in C \ C'
        BY <2>3 DEF ChargeRow
      <3> HIDE DEF S, C
      <3> QED
        BY <2>1, <3>1, <3>2, Counting DEF MoneyInv, At, S, C
    <2>4. CASE ChargeTotal(p)
      <3>1. UNCHANGED <<rows, faults, effects>> /\ spent' = spent + 1
        BY <2>4 DEF ChargeTotal, Total, bounds, history
      <3>2. p \in S \ S' /\ p \notin C /\ p \notin C'
        BY <2>4 DEF ChargeTotal
      <3> HIDE DEF S, C
      <3> QED
        BY <2>1, <3>1, <3>2, Counting DEF MoneyInv, At, S, C
    <2>5. CASE CacheFails(p) \/ Fault(p)
      <3>1. UNCHANGED <<rows, spent, effects>> /\ faults' = faults + 1
        BY <2>5 DEF CacheFails, Fault, costs, history
      <3>2. p \notin S' /\ p \notin C' /\ (p \notin S \/ p \notin C)
        BY <2>5 DEF CacheFails, Fault
      <3> HIDE DEF S, C
      <3> QED
        BY <2>1, <3>1, <3>2, Counting DEF MoneyInv, At, S, C
    <2>6. CASE ~(Execute(p) \/ ChargeRow(p) \/ ChargeTotal(p) \/ CacheFails(p) \/ Fault(p))
      <3>1. UNCHANGED <<rows, spent, faults, effects>>
        BY <1>1, <2>6 DEF Moves, Call, Report, Step, Validate, CheckRun, Use, LookUp, Connect,
          FindAgent, Register, JudgeExternal, CheckScope, Simulate, Prepare, Cache, Quarantine,
          Revoke, Unmoved, costs, bounds, history
      <3>2. p \notin S /\ p \notin S' /\ p \notin C
        BY <1>1, <2>6 DEF Moves, Call, Report, Starts, Step, Validate, CheckRun, Use, LookUp,
          Connect, FindAgent, Register, JudgeExternal, CheckScope, Simulate, Prepare, Cache,
          Quarantine, Revoke
      <3> HIDE DEF S, C
      <3>3. p \in C' => p \in C' \ C
        BY <3>2
      <3> QED
        BY <2>1, <3>1, <3>2, <3>3, Counting DEF MoneyInv, At, S, C
    <2> QED
      BY <2>2, <2>3, <2>4, <2>5, <2>6
  <1>2. CASE Around \/ UNCHANGED vars
    BY <1>2 DEF Around, Begin, Pause, Resume, Move, Lapse, Expire, vars, costs, bounds, history,
      MoneyInv, At
  <1> QED
    BY <1>1, <1>2, Steps

\* The total of a run is the sum of its rows, and every effect has its row, but for the requests
\* in between and those that failed there.
THEOREM CostsAgree == Spec => []TotalsAgree
  <1>1. Init => MoneyInv
    <2> SUFFICES ASSUME Init PROVE MoneyInv
      OBVIOUS
    <2>1. Standing({"spend"}) = {} /\ Standing({"cost"}) = {}
      BY DEF Init, Standing, Processes, Agents
    <2> QED
      BY <2>1, FS_EmptySet DEF Init, MoneyInv, At, Standing
  <1>2. Types /\ MoneyInv => TotalsAgree
    <2>1. Standing({"spend"}) \in SUBSET Callers /\ Standing({"cost"}) \in SUBSET Callers
      BY DEF Standing
    <2> QED
      BY <2>1, Counting DEF Types, MoneyInv, TotalsAgree, At, Standing
  <1> QED
    BY <1>1, <1>2, MoneyStep, TypeCorrect, PTL DEF Spec

-----------------------------------------------------------------------------
(* Revocation and quarantine                                               *)

Cut == lapsed \/ status = "quarantined"

\* The callers past the validation, but for those that the check of the run will stop.
Inside ==
  {p \in Callers :
     \/ pc[p] \in {"use", "lookup", "connect", "scope", "simulate", "prepare", "execute"}
     \/ pc[p] = "run" /\ status # "quarantined"}

\* Nothing is late before the cut, and after it those inside can only become fewer.
DrainInv ==
  /\ ~Cut => late = 0
  /\ late + Cardinality(Inside) <= Cardinality(Callers)

\* No step lets anybody in after the cut.
LEMMA DrainStep == Types /\ DrainInv /\ [Next]_vars => DrainInv'
  <1> SUFFICES ASSUME Types, DrainInv, [Next]_vars PROVE DrainInv'
    OBVIOUS
  <1>0. Inside \in SUBSET Callers /\ Inside' \in SUBSET Callers /\ late \in Nat
    BY DEF Inside, Types
  <1>1. ASSUME UNCHANGED late, ~Cut' => ~Cut, Inside' \subseteq Inside PROVE DrainInv'
    <2>1. Cardinality(Inside') <= Cardinality(Inside) /\ Cardinality(Inside) \in Nat
          /\ Cardinality(Inside') \in Nat /\ Cardinality(Callers) \in Nat
      <3>1. IsFiniteSet(Inside) /\ IsFiniteSet(Inside')
        BY <1>0, FS_Subset, GatewayAssumption
      <3> QED
        BY <1>1, <3>1, FS_Subset, FS_CardinalityType, GatewayAssumption
    <2> QED
      BY <1>0, <1>1, <2>1 DEF DrainInv
  <1>2. ASSUME NEW p \in Processes, Quarantine(p) \/ Revoke(p) PROVE DrainInv'
    <2>1. /\ UNCHANGED late /\ (~Cut' => ~Cut)
          /\ status' = status \/ status' = "quarantined"
      BY <1>2 DEF Quarantine, Revoke, capability, others, history, Cut
    <2>2. \A q \in Callers : pc'[q] = pc[q]
      BY <1>2, OthersStay, Whereabouts DEF Moves, Step, Quarantine, Revoke, Processes, Agents,
        Types
    <2>3. Inside' \subseteq Inside
      BY <2>1, <2>2 DEF Inside
    <2> QED
      BY <1>1, <2>1, <2>3
  <1>3. ASSUME NEW p \in Processes, Moves(p), ~Quarantine(p), ~Revoke(p) PROVE DrainInv'
    <2>1. UNCHANGED <<status, lapsed>>
      BY <1>3 DEF Moves, Call, Report, Step, Validate, CheckRun, Use, LookUp, Connect,
        FindAgent, Register, JudgeExternal, CheckScope, Simulate, Prepare, Execute, ChargeRow,
        ChargeTotal, Cache, CacheFails, Fault, Unmoved, capability, others
    <2>2. Inside \ {p} = Inside' \ {p}
      BY <1>3, <2>1, OthersStay DEF Inside, Processes, Agents
    <2> USE Whereabouts DEF Types, LocalsOK, Proceed, Settle, Finish, GoTo
    <2>3. \/ UNCHANGED late
          \/ late' = late + 1 /\ Cut /\ p \in Inside \ Inside'
      BY <1>3 DEF Moves, Call, Report, Step, Validate, CheckRun, Use, LookUp, Connect,
        FindAgent, Register, JudgeExternal, CheckScope, Simulate, Prepare, Execute, ChargeRow,
        ChargeTotal, Cache, CacheFails, Fault, Unmoved, history, Reach, Inside, Cut
    <2>4. p \in Inside' => p \in Inside \/ ~Cut
      BY <1>3, <2>1 DEF Moves, Call, Report, Starts, Step, Validate, CheckRun, Use, LookUp,
        Connect, FindAgent, Register, JudgeExternal, CheckScope, Simulate, Prepare, Execute,
        ChargeRow, ChargeTotal, Cache, CacheFails, Fault, Inside, Cut, Valid
    <2>5. Cut' <=> Cut
      BY <2>1 DEF Cut
    <2> QED
      BY <1>0, <2>2, <2>3, <2>4, <2>5, Counting DEF DrainInv
  <1>4. CASE Around \/ UNCHANGED vars
    <2>1. UNCHANGED <<late, pc>> /\ (~Cut' => ~Cut)
          /\ (status' = "quarantined" <=> status = "quarantined")
      BY <1>4 DEF Around, Begin, Pause, Resume, Move, Lapse, Expire, vars, capability, others,
        history, Cut
    <2> QED
      BY <1>1, <2>1 DEF Inside
  <1> QED
    BY <1>2, <1>3, <1>4, Steps

\* After a revocation, an expiry or a quarantine each caller reaches the outside at most once
\* more.
THEOREM CutIsEffective == Spec => []RevocationDrains
  <1>1. Init => DrainInv
    <2> SUFFICES ASSUME Init PROVE DrainInv
      OBVIOUS
    <2>1. Inside = {}
      BY DEF Init, Inside, Processes, Agents
    <2> QED
      BY <2>1, FS_EmptySet, FS_CardinalityType, GatewayAssumption DEF Init, DrainInv, Cut
  <1>2. Types /\ DrainInv => RevocationDrains
    <2>1. Inside \in SUBSET Callers
      BY DEF Inside
    <2> QED
      BY <2>1, Counting DEF Types, DrainInv, RevocationDrains
  <1> QED
    BY <1>1, <1>2, DrainStep, TypeCorrect, PTL DEF Spec

-----------------------------------------------------------------------------
(* The idempotency cache                                                   *)

\* The callers that have looked up an action and are on their way to perform it.
Ahead(a) ==
  {p \in Callers : /\ pc[p] \in {"connect", "scope", "simulate", "prepare", "execute"}
                   /\ action[p] = a}

\* While the success of an action is cached, the caller that it is owed to is behind, and nobody
\* new gets ahead.
RepeatInv ==
  \A a \in Actions :
    /\ repeats[<<"api_key", a>>] = 0
    /\ cache[<<"capability", a>>] # "done" => repeats[<<"capability", a>>] = 0
    /\ cache[<<"capability", a>>] = "done" =>
         repeats[<<"capability", a>>] + Cardinality(Ahead(a)) < Cardinality(Callers)

\* No step lets anybody past a cached success.
LEMMA RepeatStep == Types /\ RepeatInv /\ [Next]_vars => RepeatInv'
  <1> SUFFICES ASSUME Types, RepeatInv, [Next]_vars, NEW a \in Actions
               PROVE  /\ repeats'[<<"api_key", a>>] = 0
                      /\ cache'[<<"capability", a>>] # "done" =>
                           repeats'[<<"capability", a>>] = 0
                      /\ cache'[<<"capability", a>>] = "done" =>
                           repeats'[<<"capability", a>>] + Cardinality(Ahead(a)') <
                             Cardinality(Callers)
    BY DEF RepeatInv
  <1> DEFINE e == <<"capability", a>>
             k == <<"api_key", a>>
  <1>0. /\ e \in Entries /\ k \in Entries /\ e # k
        /\ repeats[e] \in Nat /\ repeats[k] = 0
        /\ Ahead(a) \in SUBSET Callers /\ Ahead(a)' \in SUBSET Callers
    BY DEF Entries, Types, Ahead, RepeatInv
  <1>1. ASSUME NEW p \in Processes, Moves(p)
        PROVE  /\ repeats'[k] = 0
               /\ cache'[e] # "done" => repeats'[e] = 0
               /\ cache'[e] = "done" => repeats'[e] + Cardinality(Ahead(a)') < Cardinality(Callers)
    <2>1. Ahead(a) \ {p} = Ahead(a)' \ {p}
      BY <1>1, OthersStay DEF Ahead, Processes, Agents
    <2> USE Whereabouts DEF Types, LocalsOK, Proceed, Settle, Finish, GoTo
    <2>2. CASE Execute(p)
      <3>1. /\ UNCHANGED cache
            /\ p \in Callers /\ Entry(p) = <<"capability", action[p]>>
            /\ p \notin Ahead(a)'
            /\ p \in Ahead(a) <=> Entry(p) = e
        BY <2>2 DEF Execute, Ahead, Entry, Owner
      <3>2. /\ Entry(p) # e => repeats'[e] = repeats[e]
            /\ repeats'[k] = repeats[k]
            /\ repeats'[e] = repeats[e] \/ (repeats'[e] = repeats[e] + 1 /\ cache[e] = "done")
        BY <1>0, <2>2, <3>1 DEF Execute, Reach, history
      <3> HIDE DEF e, k
      <3> QED
        BY <1>0, <2>1, <3>1, <3>2, Counting DEF RepeatInv, e, k
    <2>3. CASE Cache(p)
      <3>1. Entry(p) # e => cache'[e] = cache[e] /\ repeats'[e] = repeats[e]
        BY <1>0, <2>3 DEF Cache
      <3>2. p \notin Ahead(a) /\ p \notin Ahead(a)' /\ repeats'[k] = 0
        BY <1>0, <2>3 DEF Cache, Ahead
      <3>3. CASE Entry(p) = e
        <4>1. /\ p \in Callers
              /\ cache'[e] = response[p]
              /\ \/ cache[e] = "done" /\ response[p] = "done" /\ repeats'[e] = repeats[e]
                 \/ repeats'[e] = 0
          BY <1>0, <2>3, <3>3 DEF Cache, Entry, Owner
        <4> HIDE DEF e, k
        <4> QED
          BY <1>0, <2>1, <3>2, <4>1, Counting DEF RepeatInv, e, k
      <3> HIDE DEF e, k
      <3> QED
        BY <1>0, <2>1, <3>1, <3>2, <3>3, Counting DEF RepeatInv, e, k
    <2>4. CASE ~Execute(p) /\ ~Cache(p)
      <3>1. UNCHANGED <<cache, repeats>>
        BY <1>1, <2>4 DEF Moves, Call, Report, Step, Validate, CheckRun, Use, LookUp, Connect,
          FindAgent, Register, JudgeExternal, CheckScope, Simulate, Prepare, ChargeRow,
          ChargeTotal, CacheFails, Quarantine, Revoke, Fault, Unmoved, history
      <3>2. p \in Ahead(a)' => p \in Ahead(a) \/ cache[e] # "done"
        <4>1. CASE LookUp(p)
          BY <4>1 DEF LookUp, Cached, Entry, Owner, Ahead, Nothing
        <4>2. CASE ~LookUp(p)
          BY <1>1, <2>4, <4>2 DEF Moves, Call, Report, Starts, Step, Validate, CheckRun, Use,
            Connect, FindAgent, Register, JudgeExternal, CheckScope, Simulate, Prepare,
            ChargeRow, ChargeTotal, CacheFails, Quarantine, Revoke, Fault, Ahead
        <4> QED
          BY <4>1, <4>2
      <3> HIDE DEF e, k
      <3> QED
        BY <1>0, <2>1, <3>1, <3>2, Counting DEF RepeatInv, e, k
    <2> QED
      BY <2>2, <2>3, <2>4
  <1>2. CASE Around \/ UNCHANGED vars
    <2>1. UNCHANGED <<pc, action>>
      BY <1>2 DEF Around, Begin, Pause, Resume, Move, Lapse, Expire, vars
    <2>2. Ahead(a)' = Ahead(a)
      BY <2>1 DEF Ahead
    <2>3. /\ repeats'[k] = 0
          /\ \/ cache'[e] = cache[e] /\ repeats'[e] = repeats[e]
             \/ cache'[e] = Nothing /\ repeats'[e] = 0
      BY <1>0, <1>2 DEF Around, Begin, Pause, Resume, Move, Lapse, Expire, vars, history, Types
    <2> QED
      BY <2>2, <2>3 DEF RepeatInv, Nothing
  <1> QED
    BY <1>1, <1>2, Steps

\* While the success of an action is cached, it is repeated at most once by each other caller
\* that had looked it up before.
THEOREM RepeatsAreOverlaps == Spec => []RepeatsNeedOverlap
  <1>1. Init => RepeatInv
    <2> SUFFICES ASSUME Init PROVE RepeatInv
      OBVIOUS
    <2>1. \A e \in Entries : repeats[e] = 0 /\ cache[e] = Nothing
      BY DEF Init
    <2> QED
      BY <2>1 DEF RepeatInv, Entries, Nothing
  <1>2. Types /\ RepeatInv => RepeatsNeedOverlap
    <2> SUFFICES ASSUME Types, RepeatInv, NEW e \in Entries
                 PROVE  repeats[e] < Cardinality(Callers)
      BY DEF RepeatsNeedOverlap
    <2>1. PICK a \in Actions : e = <<"capability", a>> \/ e = <<"api_key", a>>
      BY DEF Entries
    <2>2. Ahead(a) \in SUBSET Callers /\ repeats[e] \in Nat
      BY DEF Ahead, Types
    <2>3. Cardinality(Ahead(a)) \in Nat /\ Cardinality(Callers) \in Nat \ {0}
      BY <2>2, Counting
    <2>4. \/ repeats[e] = 0
          \/ repeats[e] + Cardinality(Ahead(a)) < Cardinality(Callers)
      BY <2>1 DEF RepeatInv
    <2> QED
      BY <2>2, <2>3, <2>4
  <1> QED
    BY <1>1, <1>2, RepeatStep, TypeCorrect, PTL DEF Spec

=============================================================================
