---------------------------- MODULE ProposalsProofs ----------------------------
(***************************************************************************)
(* Theorems about Proposals for every number of proposals, bundles,        *)
(* checks, handlers, requests and failures: the verdict of a proposal that *)
(* was decided once at a time is the announced one, and no evidence and no *)
(* verification stays pending with nobody at work on it.                   *)
(*                                                                         *)
(* DecisionInv says what a lone decision has done at each of its awaits.   *)
(* The property about evidence is inductive with the types and with the    *)
(* outcome a verification has before it is linked: a handler leaves its    *)
(* bundle or check only when it is settled, or else leaves it among what   *)
(* is amiss.                                                               *)
(***************************************************************************)
EXTENDS Proposals, FiniteSetTheorems, TLAPS

Deciding == {"decide", "announce"}
Replaying == {"begin", "replay", "tell", "fail"}
Points == Deciding \cup Replaying \cup {"idle", "insert", "link", "read", "prove"}

\* The types of the rows and of the locals each handler uses.
Types ==
  /\ status \in [Ids -> Verdicts \cup {"absent", "pending", "executed", "verified"}]
  /\ proof \in [Ids -> Checks \cup {Nothing}]
  /\ bundle \in [Bundles -> {"absent", "pending", "running", "completed", "failed"}]
  /\ check \in [Checks -> Outcomes \cup {"absent", "pending"}]
  /\ announced \in [Ids -> SUBSET Verdicts]
  /\ pc \in [Handlers -> Points]
  /\ subject \in [Handlers -> Ids \cup {Nothing}]
  /\ work \in [Handlers -> Bundles \cup Checks \cup {Nothing}]
  /\ verdict \in [Handlers -> Verdicts \cup {Nothing}]
  /\ \A h \in Handlers :
       /\ pc[h] \in Deciding \cup {"insert", "link", "read", "prove"} => subject[h] \in Ids
       /\ pc[h] \in Deciding => verdict[h] \in Verdicts
       /\ pc[h] \in Replaying \cup {"link"} => work[h] \in Bundles
       /\ pc[h] \in {"read", "prove"} => work[h] \in Checks

\* What is amiss is never forgotten.
LEMMA AmissGrows == [Next]_vars => amiss \subseteq amiss'
  BY DEF Next, vars, EndRun, Propose, Insert, Decide, Settle, Announce, Overwrite, Replay, Manual,
         Link, Rerun, BeginReplay, Complete, Tell, Fail, FailBundle, Verify, Observe, Prove, Crash,
         Fault, bounds, Begin

-----------------------------------------------------------------------------
(* Types                                                                   *)

\* The tables are empty and the handlers idle.
LEMMA TypesInit == Init => Types
  BY DEF Init, Types, Points, Deciding, Replaying

\* Every step keeps the types.
LEMMA TypesStep == Types /\ [Next]_vars => Types'
<1> SUFFICES ASSUME Types, [Next]_vars PROVE Types'
  OBVIOUS
<1> USE DEF Points, Deciding, Replaying
<1>1. CASE EndRun \/ UNCHANGED vars
  BY <1>1 DEF EndRun, vars, proposal, records, handler, bounds, Types
<1>2. ASSUME NEW h \in Handlers, NEW p \in Ids, Propose(h, p) PROVE Types'
  BY <1>2 DEF Propose, Begin, proposal, records, Types
<1>3. ASSUME NEW h \in Handlers, Insert(h) PROVE Types'
  BY <1>3 DEF Insert, At, GoTo, Fault, records, Types
<1>4. ASSUME NEW h \in Handlers, NEW p \in Ids, NEW v \in Verdicts, Decide(h, p, v) PROVE Types'
  BY <1>4 DEF Decide, proposal, records, Types
<1>5. ASSUME NEW h \in Handlers, Settle(h) PROVE Types'
  BY <1>5 DEF Settle, At, GoTo, Fault, records, Types
<1>6. ASSUME NEW h \in Handlers, Announce(h) PROVE Types'
  BY <1>6 DEF Announce, At, GoTo, Fault, proposal, Types
<1>7. ASSUME NEW p \in Ids, NEW final \in {"executed", "verified"}, Overwrite(p, final) PROVE Types'
  BY <1>7 DEF Overwrite, records, handler, Types
<1>8. ASSUME NEW h \in Handlers, NEW p \in Ids, NEW b \in Bundles, Replay(h, p, b) \/ Manual(h, p, b)
      PROVE  Types'
  BY <1>8 DEF Replay, Manual, Begin, proposal, Types
<1>9. ASSUME NEW h \in Handlers, Link(h) PROVE Types'
  BY <1>9 DEF Link, At, GoTo, Fault, records, Types
<1>10. ASSUME NEW h \in Handlers, NEW b \in Bundles, NEW again \in Bundles, Rerun(h, b, again)
       PROVE  Types'
  BY <1>10 DEF Rerun, Begin, proposal, Types
<1>11. ASSUME NEW h \in Handlers, BeginReplay(h) \/ Complete(h) \/ Tell(h) \/ Fail(h) PROVE Types'
  BY <1>11 DEF BeginReplay, Complete, Tell, Fail, FailBundle, Put, At, GoTo, Fault, proposal,
               records, Types
<1>12. ASSUME NEW h \in Handlers, NEW p \in Ids, NEW c \in Checks, Verify(h, p, c) PROVE Types'
  BY <1>12 DEF Verify, Begin, proposal, Types
<1>13. ASSUME NEW h \in Handlers, Observe(h) PROVE Types'
  BY <1>13 DEF Observe, At, GoTo, Fault, proposal, Types
<1>14. ASSUME NEW h \in Handlers, Prove(h) PROVE Types'
  BY <1>14 DEF Prove, At, GoTo, Fault, records, Types
<1>15. CASE Crash
  BY <1>15 DEF Crash, proposal, records, Types
<1> QED
  BY <1>1, <1>2, <1>3, <1>4, <1>5, <1>6, <1>7, <1>8, <1>9, <1>10, <1>11, <1>12, <1>13, <1>14, <1>15
     DEF Next

-----------------------------------------------------------------------------
(* Evidence and verification                                               *)

\* The property, and the outcome of a verification that is about to be linked.
EvidenceInv ==
  /\ Types
  /\ NothingIsLeftPending
  /\ \A h \in Handlers : At(h, "prove") => check[work[h]] \in Outcomes

\* Nothing is linked at first.
LEMMA EvidenceInit == Init => EvidenceInv
<1> SUFFICES ASSUME Init PROVE EvidenceInv
  OBVIOUS
<1>1. Types
  BY TypesInit
<1> QED
  BY <1>1 DEF Init, EvidenceInv, NothingIsLeftPending, At

\* A handler that stays where it is, or that was at work on neither evidence nor a verification.
Untouched(h) ==
  \/ pc'[h] = pc[h] /\ work'[h] = work[h]
  \/ pc[h] \in Deciding \cup {"idle", "insert", "tell", "prove"} /\ pc'[h] # "prove"

\* A step that leaves bundles and checks alone, and the workers on them at their work.
LEMMA OthersWork ==
  ASSUME EvidenceInv, Types', amiss \subseteq amiss', bundle' = bundle, check' = check,
         proof' = proof, \A h \in Handlers : Untouched(h)
  PROVE  EvidenceInv'
<1>1. \A b \in Bundles :
        /\ Working({"link", "begin"}, b) => Working({"link", "begin"}, b)'
        /\ Working({"replay", "fail"}, b) => Working({"replay", "fail"}, b)'
  BY DEF Working, Deciding, Untouched
<1>2. \A c \in Checks : Working({"read"}, c) => Working({"read"}, c)'
  BY DEF Working, Deciding, Untouched
<1>3. \A h \in Handlers : At(h, "prove")' => check'[work'[h]] \in Outcomes
  BY DEF EvidenceInv, At, Untouched
<1> QED
  BY <1>1, <1>2, <1>3 DEF EvidenceInv, NothingIsLeftPending

\* Every step keeps the invariant.
LEMMA EvidenceStep == EvidenceInv /\ [Next]_vars => EvidenceInv'
<1> SUFFICES ASSUME EvidenceInv, [Next]_vars PROVE EvidenceInv'
  OBVIOUS
<1>0. Types /\ Types' /\ amiss \subseteq amiss'
  BY TypesStep, AmissGrows DEF EvidenceInv
<1>1. CASE EndRun \/ UNCHANGED vars
  <2>1. bundle' = bundle /\ check' = check /\ proof' = proof /\ \A h \in Handlers : Untouched(h)
    BY <1>1 DEF EndRun, vars, proposal, records, handler, Untouched
  <2> QED
    BY <1>0, <2>1, OthersWork
<1>2. ASSUME NEW h \in Handlers, NEW p \in Ids,
             Propose(h, p) \/ \E v \in Verdicts : Decide(h, p, v)
      PROVE  EvidenceInv'
  <2>1. bundle' = bundle /\ check' = check /\ proof' = proof
    BY <1>2 DEF Propose, Decide, proposal, records
  <2>2. \A g \in Handlers : Untouched(g)
    BY <1>0, <1>2 DEF Propose, Decide, Begin, Types, Untouched
  <2> QED
    BY <1>0, <2>1, <2>2, OthersWork
<1>3. ASSUME NEW h \in Handlers, Insert(h) \/ Settle(h) \/ Announce(h) \/ Tell(h)
      PROVE  EvidenceInv'
  <2>1. \A g \in Handlers : Untouched(g)
    BY <1>0, <1>3 DEF Insert, Settle, Announce, Tell, At, GoTo, Fault, Types, Deciding, Untouched
  <2>2. bundle' = bundle /\ check' = check /\ proof' = proof
    BY <1>3 DEF Insert, Settle, Announce, Tell, proposal, records
  <2> QED
    BY <1>0, <2>1, <2>2, OthersWork
<1>5. ASSUME NEW p \in Ids, NEW final \in {"executed", "verified"}, Overwrite(p, final)
      PROVE  EvidenceInv'
  <2>1. bundle' = bundle /\ check' = check /\ proof' = proof /\ \A h \in Handlers : Untouched(h)
    BY <1>5 DEF Overwrite, records, handler, Untouched
  <2> QED
    BY <1>0, <2>1, OthersWork
<1>6. ASSUME NEW h \in Handlers, NEW p, NEW b \in Bundles, NEW point \in {"link", "begin"},
             Begin(h, point, p, b) \/ (Begin(h, "idle", p, b) /\ b \in amiss'),
             \/ bundle' = [bundle EXCEPT ![b] = "pending"]
             \/ bundle' = [bundle EXCEPT ![b] = "completed"],
             check' = check, proof' = proof
      PROVE  EvidenceInv'
  <2>1. /\ pc[h] = "idle" /\ \A g \in Handlers \ {h} : pc'[g] = pc[g] /\ work'[g] = work[g]
        /\ pc'[h] \in {point, "idle"} /\ work'[h] = b
    BY <1>0, <1>6 DEF Begin, Types
  <2>2. ASSUME NEW d \in Bundles \ amiss'
        PROVE  /\ bundle'[d] = "pending" => Working({"link", "begin"}, d)'
               /\ bundle'[d] = "running" => Working({"replay", "fail"}, d)'
    <3>1. CASE d = b
      BY <1>0, <1>6, <2>1, <2>2, <3>1 DEF Begin, Working, Types
    <3>2. CASE d # b
      BY <1>0, <1>6, <2>1, <2>2, <3>2 DEF EvidenceInv, NothingIsLeftPending, Working, Types
    <3> QED
      BY <3>1, <3>2
  <2>3. \A c \in Checks \ amiss' : check'[c] = "pending" => Working({"read"}, c)'
    BY <1>0, <1>6, <2>1 DEF EvidenceInv, NothingIsLeftPending, Working
  <2> QED
    BY <1>0, <1>6, <2>1, <2>2, <2>3 DEF EvidenceInv, NothingIsLeftPending, At
<1>7. ASSUME NEW h \in Handlers, NEW p \in Ids, NEW b \in Bundles, Replay(h, p, b) \/ Manual(h, p, b)
      PROVE  EvidenceInv'
  BY <1>6, <1>7 DEF Replay, Manual, proposal
<1>8. ASSUME NEW h \in Handlers, NEW b \in Bundles, NEW again \in Bundles, Rerun(h, b, again)
      PROVE  EvidenceInv'
  BY <1>6, <1>8 DEF Rerun, proposal
<1>9. ASSUME NEW h \in Handlers,
             Link(h) \/ BeginReplay(h) \/ Complete(h) \/ Fail(h)
      PROVE  EvidenceInv'
  <2> PICK b \in Bundles : b = work[h]
    BY <1>0, <1>9 DEF Types, Link, BeginReplay, Complete, Fail, At, Replaying
  <2>1. /\ pc[h] \in {"link", "begin", "replay", "fail"}
        /\ work' = work /\ \A g \in Handlers \ {h} : pc'[g] = pc[g]
        /\ pc'[h] \in {"idle", "begin", "replay", "tell", "fail"}
        /\ check' = check /\ proof' = proof
    BY <1>0, <1>9 DEF Link, BeginReplay, Complete, Fail, FailBundle, At, GoTo, Fault, Types,
                      proposal, records
  <2>2. /\ \A d \in Bundles \ {b} : bundle'[d] = bundle[d]
        /\ \/ b \in amiss'
           \/ pc[h] = "link" /\ bundle'[b] = bundle[b]
                /\ (bundle[b] = "pending" => pc'[h] = "begin")
           \/ pc'[h] = "replay" /\ bundle'[b] = "running"
           \/ bundle'[b] \in {"completed", "failed"}
           \/ pc[h] = "replay" /\ pc'[h] = "fail" /\ bundle' = bundle
    BY <1>0, <1>9, NothingAssumption
       DEF Link, BeginReplay, Complete, Fail, FailBundle, Put, At, GoTo, Fault, Concern, Types,
           records
  <2>3. ASSUME NEW d \in Bundles \ amiss', d # b
        PROVE  /\ bundle'[d] = "pending" => Working({"link", "begin"}, d)'
               /\ bundle'[d] = "running" => Working({"replay", "fail"}, d)'
    BY <1>0, <2>1, <2>2, <2>3 DEF EvidenceInv, NothingIsLeftPending, Working
  <2>4. ASSUME b \notin amiss'
        PROVE  /\ bundle'[b] = "pending" => Working({"link", "begin"}, b)'
               /\ bundle'[b] = "running" => Working({"replay", "fail"}, b)'
    <3>1. /\ bundle[b] = "pending" => Working({"link", "begin"}, b)
          /\ bundle[b] = "running" => Working({"replay", "fail"}, b)
      BY <1>0, <2>4 DEF EvidenceInv, NothingIsLeftPending
    <3>2. CASE pc[h] = "link" /\ bundle'[b] = bundle[b]
                 /\ (bundle[b] = "pending" => pc'[h] = "begin")
      BY <1>0, <2>1, <3>1, <3>2 DEF Working
    <3>3. CASE pc'[h] = "replay" /\ bundle'[b] = "running"
      BY <2>1, <3>3 DEF Working
    <3>4. CASE bundle'[b] \in {"completed", "failed"}
      BY <3>4
    <3>5. CASE pc[h] = "replay" /\ pc'[h] = "fail" /\ bundle' = bundle
      BY <1>0, <2>1, <3>1, <3>5 DEF Working
    <3> QED
      BY <2>2, <2>4, <3>2, <3>3, <3>4, <3>5
  <2>5. \A c \in Checks \ amiss' : check'[c] = "pending" => Working({"read"}, c)'
    BY <1>0, <2>1 DEF EvidenceInv, NothingIsLeftPending, Working
  <2> QED
    BY <1>0, <2>1, <2>3, <2>4, <2>5 DEF EvidenceInv, NothingIsLeftPending, At
<1>10. ASSUME NEW h \in Handlers, NEW p \in Ids, NEW c \in Checks, Verify(h, p, c)
       PROVE  EvidenceInv'
  <2>1. /\ pc[h] = "idle" /\ \A g \in Handlers \ {h} : pc'[g] = pc[g] /\ work'[g] = work[g]
        /\ pc'[h] = "read" /\ work'[h] = c
        /\ check[c] = "absent" /\ check' = [check EXCEPT ![c] = "pending"]
        /\ bundle' = bundle /\ proof' = proof
    BY <1>0, <1>10 DEF Verify, Begin, Types, proposal
  <2>2. \A d \in Bundles \ amiss' :
          /\ bundle'[d] = "pending" => Working({"link", "begin"}, d)'
          /\ bundle'[d] = "running" => Working({"replay", "fail"}, d)'
    BY <1>0, <2>1 DEF EvidenceInv, NothingIsLeftPending, Working
  <2>3. \A d \in Checks \ amiss' : check'[d] = "pending" => Working({"read"}, d)'
    BY <1>0, <2>1 DEF EvidenceInv, NothingIsLeftPending, Working, Types
  <2>4. /\ \A q \in Ids : proof'[q] # Nothing => check'[proof'[q]] \in Outcomes
        /\ \A g \in Handlers : At(g, "prove")' => check'[work'[g]] \in Outcomes
    BY <1>0, <2>1 DEF EvidenceInv, NothingIsLeftPending, At, Types, Outcomes
  <2> QED
    BY <1>0, <2>2, <2>3, <2>4 DEF EvidenceInv, NothingIsLeftPending
<1>11. ASSUME NEW h \in Handlers, Observe(h) \/ Prove(h) PROVE EvidenceInv'
  <2> PICK c \in Checks : c = work[h]
    BY <1>0, <1>11 DEF Types, Observe, Prove, At
  <2>1. /\ pc[h] \in {"read", "prove"} /\ work' = work
        /\ \A g \in Handlers \ {h} : pc'[g] = pc[g]
        /\ bundle' = bundle
        /\ \/ c \in amiss' /\ pc'[h] = "idle" /\ check' = check /\ proof' = proof
           \/ /\ pc'[h] = "prove" /\ proof' = proof
              /\ \E outcome \in Outcomes : check' = [check EXCEPT ![c] = outcome]
           \/ /\ pc[h] = "prove" /\ pc'[h] = "idle" /\ check' = check
              /\ proof' = [proof EXCEPT ![subject[h]] = c]
    BY <1>0, <1>11, NothingAssumption
       DEF Observe, Prove, At, GoTo, Fault, Concern, Types, proposal, records
  <2>2. \A d \in Bundles \ amiss' :
          /\ bundle'[d] = "pending" => Working({"link", "begin"}, d)'
          /\ bundle'[d] = "running" => Working({"replay", "fail"}, d)'
    BY <1>0, <2>1 DEF EvidenceInv, NothingIsLeftPending, Working
  <2>3. \A d \in Checks \ amiss' : check'[d] = "pending" => Working({"read"}, d)'
    BY <1>0, <2>1 DEF EvidenceInv, NothingIsLeftPending, Working, Types, At, Outcomes
  <2>4. /\ \A q \in Ids : proof'[q] # Nothing => check'[proof'[q]] \in Outcomes
        /\ \A g \in Handlers : At(g, "prove")' => check'[work'[g]] \in Outcomes
    BY <1>0, <2>1 DEF EvidenceInv, NothingIsLeftPending, At, Types
  <2> QED
    BY <1>0, <2>2, <2>3, <2>4 DEF EvidenceInv, NothingIsLeftPending
<1>12. CASE Crash
  <2>1. /\ bundle' = bundle /\ check' = check /\ proof' = proof /\ work' = work
        /\ \A h \in Handlers : pc'[h] = "idle"
        /\ \A h \in Handlers : ~At(h, "idle") => Concern(h) \subseteq amiss'
    BY <1>12 DEF Crash, proposal, records
  <2>2. \A x : x \in (Bundles \cup Checks) \ amiss' =>
          \A h \in Handlers : work[h] = x => pc[h] = "idle"
    BY <1>0, <2>1, NothingAssumption DEF Concern, At
  <2> QED
    BY <1>0, <2>1, <2>2 DEF EvidenceInv, NothingIsLeftPending, Working, At
<1> QED
  BY <1>1, <1>2, <1>3, <1>5, <1>7, <1>8, <1>9, <1>10, <1>11, <1>12 DEF Next

\* Evidence and verifications that are pending have somebody at work on them, and a proposal is
\* linked to a verification only when it has an outcome.
THEOREM PendingIsWorkedOn == Spec => []NothingIsLeftPending
<1>1. EvidenceInv => NothingIsLeftPending
  BY DEF EvidenceInv
<1> QED
  BY <1>1, EvidenceInit, EvidenceStep, PTL DEF Spec
-----------------------------------------------------------------------------
(* Decisions                                                               *)

Decides(h, p) == pc[h] \in Deciding /\ subject[h] = p

\* What a proposal and its only decision have in common.
OneDecision(p) ==
  /\ \A g, h \in Handlers : Decides(g, p) /\ Decides(h, p) => g = h
  /\ announced[p] = {} \/ \E v \in Verdicts : announced[p] = {v}
  /\ \A h \in Handlers : Decides(h, p) => announced[p] = {}
  /\ \A h \in Handlers : Decides(h, p) /\ pc[h] = "decide" => status[p] \notin Verdicts
  /\ \A h \in Handlers : Decides(h, p) /\ pc[h] = "announce" =>
       status[p] \in {verdict[h], "executed", "verified"}
  /\ (\A h \in Handlers : ~Decides(h, p)) =>
       (status[p] \in Verdicts => announced[p] = {status[p]})

\* A proposal is inserted once, leaves "pending" for good, and is announced only after that.
StatusInv ==
  /\ \A h \in Handlers : pc[h] = "insert" => status[subject[h]] = "absent"
  /\ \A g, h \in Handlers :
       pc[g] = "insert" /\ pc[h] = "insert" /\ subject[g] = subject[h] => g = h
  /\ \A h \in Handlers : pc[h] \in Deciding => status[subject[h]] # "absent"
  /\ \A h \in Handlers : pc[h] = "announce" => status[subject[h]] # "pending"
  /\ \A p \in Ids : status[p] \in {"absent", "pending"} => announced[p] = {}

DecisionInv ==
  /\ Types
  /\ StatusInv
  /\ \A p \in Ids \ (crossed \cup amiss) : OneDecision(p)

\* No proposal is there at first.
LEMMA DecisionInit == Init => DecisionInv
<1> SUFFICES ASSUME Init PROVE DecisionInv
  OBVIOUS
<1>1. Types
  BY TypesInit
<1> QED
  BY <1>1 DEF Init, DecisionInv, StatusInv, OneDecision, Decides, Deciding, Verdicts

\* A handler that is in the same decision or proposal as before, or in none.
Aside(h) ==
  \/ pc'[h] = pc[h] /\ subject'[h] = subject[h] /\ verdict'[h] = verdict[h]
  \/ pc[h] \notin Deciding \cup {"insert"} /\ pc'[h] \notin Deciding \cup {"insert"}

\* The history only grows.
LEMMA HistoryGrows == [Next]_vars => crossed \cup amiss \subseteq crossed' \cup amiss'
<1> SUFFICES ASSUME [Next]_vars PROVE crossed \cup amiss \subseteq crossed' \cup amiss'
  OBVIOUS
<1>1. crossed \subseteq crossed'
  BY DEF Next, vars, EndRun, Propose, Insert, Decide, Settle, Announce, Overwrite, Replay, Manual,
         Link, Rerun, BeginReplay, Complete, Tell, Fail, FailBundle, Verify, Observe, Prove, Crash,
         Fault, bounds, Begin
<1> QED
  BY <1>1, AmissGrows

\* A step that decides nothing.
LEMMA NoDecision ==
  ASSUME DecisionInv, Types', crossed \cup amiss \subseteq crossed' \cup amiss',
         status' = status, announced' = announced, \A h \in Handlers : Aside(h)
  PROVE  DecisionInv'
<1>1. \A h \in Handlers, p \in Ids : Decides(h, p)' <=> Decides(h, p)
  BY DEF Decides, Aside
<1>2. \A h \in Handlers : pc'[h] \in Deciding \cup {"insert"} =>
        pc'[h] = pc[h] /\ subject'[h] = subject[h] /\ verdict'[h] = verdict[h]
  BY DEF Aside
<1>3. StatusInv'
  BY <1>2 DEF DecisionInv, StatusInv, Deciding
<1>4. ASSUME NEW p \in Ids \ (crossed' \cup amiss') PROVE OneDecision(p)'
  <2>1. OneDecision(p)
    BY DEF DecisionInv
  <2>2. \A h \in Handlers : Decides(h, p)' => pc'[h] = pc[h] /\ verdict'[h] = verdict[h]
    BY <1>2 DEF Decides
  <2> QED
    BY <1>1, <2>1, <2>2 DEF OneDecision
<1> QED
  BY <1>3, <1>4 DEF DecisionInv

\* A handler of one proposal says nothing of another one.
LEMMA OtherProposals ==
  ASSUME DecisionInv, crossed \cup amiss \subseteq crossed' \cup amiss',
         NEW q \in Ids, status'[q] = status[q], announced'[q] = announced[q],
         \A h \in Handlers :
           \/ pc'[h] = pc[h] /\ subject'[h] = subject[h] /\ verdict'[h] = verdict[h]
           \/ ~Decides(h, q) /\ ~Decides(h, q)',
         q \notin crossed' \cup amiss'
  PROVE  OneDecision(q)'
<1>1. OneDecision(q)
  BY DEF DecisionInv
<1>2. \A h \in Handlers : Decides(h, q)' <=> Decides(h, q)
  BY DEF Decides
<1>3. \A h \in Handlers : Decides(h, q)' => pc'[h] = pc[h] /\ verdict'[h] = verdict[h]
  BY DEF Decides
<1> QED
  BY <1>1, <1>2, <1>3 DEF OneDecision

\* Every step keeps the invariant.
LEMMA DecisionStep == DecisionInv /\ [Next]_vars => DecisionInv'
<1> SUFFICES ASSUME DecisionInv, [Next]_vars PROVE DecisionInv'
  OBVIOUS
<1>0. Types /\ Types' /\ StatusInv /\ crossed \cup amiss \subseteq crossed' \cup amiss'
  BY TypesStep, HistoryGrows DEF DecisionInv
<1>1. CASE EndRun \/ UNCHANGED vars
  <2>1. status' = status /\ announced' = announced /\ \A h \in Handlers : Aside(h)
    BY <1>1 DEF EndRun, vars, proposal, records, handler, Aside
  <2> QED
    BY <1>0, <2>1, NoDecision
<1>2. ASSUME NEW h \in Handlers,
             \/ \E p \in Ids, b \in Bundles : Replay(h, p, b) \/ Manual(h, p, b)
             \/ \E b, again \in Bundles : Rerun(h, b, again)
             \/ \E p \in Ids, c \in Checks : Verify(h, p, c)
      PROVE  DecisionInv'
  <2>1. status' = status /\ announced' = announced
    BY <1>2 DEF Replay, Manual, Rerun, Verify, proposal
  <2>2. \A g \in Handlers : Aside(g)
    BY <1>0, <1>2 DEF Replay, Manual, Rerun, Verify, Begin, Types, Aside, Deciding
  <2> QED
    BY <1>0, <2>1, <2>2, NoDecision
<1>3. ASSUME NEW h \in Handlers,
             Link(h) \/ BeginReplay(h) \/ Complete(h) \/ Tell(h) \/ Fail(h) \/ Observe(h) \/ Prove(h)
      PROVE  DecisionInv'
  <2>1. status' = status /\ announced' = announced
    BY <1>3 DEF Link, BeginReplay, Complete, Tell, Fail, Observe, Prove, proposal, records
  <2>2. \A g \in Handlers : Aside(g)
    BY <1>0, <1>3 DEF Link, BeginReplay, Complete, Tell, Fail, FailBundle, Observe, Prove, GoTo,
                      Fault, At, Types, Aside, Deciding
  <2> QED
    BY <1>0, <2>1, <2>2, NoDecision
<1>4. ASSUME NEW h \in Handlers, NEW p \in Ids, Propose(h, p) PROVE DecisionInv'
  <2>1. /\ pc[h] = "idle" /\ pc' = [pc EXCEPT ![h] = "insert"]
        /\ subject' = [subject EXCEPT ![h] = p] /\ verdict' = verdict
        /\ status[p] = "absent" /\ status' = status /\ announced' = announced
        /\ \A k \in Handlers : pc[k] = "insert" => subject[k] # p
    BY <1>4 DEF Propose, Begin, Exists, At, proposal, records
  <2>2. StatusInv'
    BY <1>0, <2>1 DEF StatusInv, Types, Deciding
  <2>3. ASSUME NEW q \in Ids \ (crossed' \cup amiss') PROVE OneDecision(q)'
    <3>1. \A k \in Handlers :
            \/ pc'[k] = pc[k] /\ subject'[k] = subject[k] /\ verdict'[k] = verdict[k]
            \/ ~Decides(k, q) /\ ~Decides(k, q)'
      BY <1>0, <2>1 DEF Types, Decides, Deciding
    <3> QED
      BY <1>0, <2>1, <3>1, OtherProposals
  <2> QED
    BY <1>0, <2>2, <2>3 DEF DecisionInv
<1>5. ASSUME NEW h \in Handlers, Insert(h) PROVE DecisionInv'
  <2> PICK p \in Ids : p = subject[h]
    BY <1>0, <1>5 DEF Types, Insert, At
  <2>1. /\ pc[h] = "insert" /\ pc' = [pc EXCEPT ![h] = "idle"]
        /\ subject' = subject /\ verdict' = verdict /\ announced' = announced
        /\ status' = [status EXCEPT ![p] = "pending"] \/ status' = status
        /\ status[p] = "absent" /\ announced[p] = {}
    BY <1>0, <1>5 DEF Insert, At, GoTo, Fault, records, StatusInv
  <2>2. \A k \in Handlers : pc[k] \in Deciding => subject[k] # p
    BY <1>0, <2>1 DEF StatusInv
  <2>3. StatusInv'
    BY <1>0, <2>1, <2>2 DEF StatusInv, Types, Deciding
  <2>4. ASSUME NEW q \in Ids \ (crossed' \cup amiss') PROVE OneDecision(q)'
    <3>1. \A k \in Handlers :
            \/ pc'[k] = pc[k] /\ subject'[k] = subject[k] /\ verdict'[k] = verdict[k]
            \/ ~Decides(k, q) /\ ~Decides(k, q)'
      BY <1>0, <2>1 DEF Types, Decides, Deciding
    <3>2. CASE q = p
      <4>1. \A k \in Handlers : ~Decides(k, q)'
        BY <1>0, <2>1, <2>2, <3>2 DEF Types, Decides, Deciding
      <4>2. announced'[q] = {} /\ status'[q] \notin Verdicts
        BY <1>0, <2>1, <3>2 DEF Types, Verdicts
      <4> QED
        BY <4>1, <4>2 DEF OneDecision
    <3>3. CASE q # p
      BY <1>0, <2>1, <3>1, <3>3, OtherProposals DEF Types
    <3> QED
      BY <3>2, <3>3
  <2> QED
    BY <1>0, <2>3, <2>4 DEF DecisionInv
<1>6. ASSUME NEW h \in Handlers, NEW p \in Ids, NEW v \in Verdicts, Decide(h, p, v)
      PROVE  DecisionInv'
  <2>1. /\ pc[h] = "idle" /\ pc' = [pc EXCEPT ![h] = "decide"]
        /\ subject' = [subject EXCEPT ![h] = p] /\ verdict' = [verdict EXCEPT ![h] = v]
        /\ status[p] = "pending" /\ status' = status /\ announced' = announced
        /\ announced[p] = {}
    BY <1>0, <1>6 DEF Decide, IsPending, proposal, records, StatusInv
  <2>2. StatusInv'
    BY <1>0, <2>1 DEF StatusInv, Types, Deciding
  <2>3. ASSUME NEW q \in Ids \ (crossed' \cup amiss') PROVE OneDecision(q)'
    <3>1. CASE q = p
      <4>1. \A k \in Handlers : ~(pc[k] = "decide" /\ subject[k] = p)
        BY <1>6, <2>3, <3>1 DEF Decide, At
      <4>2. \A k \in Handlers : ~(pc[k] = "announce" /\ subject[k] = p)
        BY <1>0, <2>1 DEF StatusInv
      <4>3. \A k \in Handlers : Decides(k, q)' => k = h
        BY <1>0, <2>1, <3>1, <4>1, <4>2 DEF Types, Decides, Deciding
      <4>4. pc'[h] = "decide" /\ Decides(h, q)'
        BY <1>0, <2>1, <3>1 DEF Types, Decides, Deciding
      <4> QED
        BY <2>1, <3>1, <4>3, <4>4 DEF OneDecision, Verdicts
    <3>2. CASE q # p
      <4>1. \A k \in Handlers :
              \/ pc'[k] = pc[k] /\ subject'[k] = subject[k] /\ verdict'[k] = verdict[k]
              \/ ~Decides(k, q) /\ ~Decides(k, q)'
        BY <1>0, <2>1, <3>2 DEF Types, Decides, Deciding
      <4> QED
        BY <1>0, <2>1, <4>1, OtherProposals
    <3> QED
      BY <3>1, <3>2
  <2> QED
    BY <1>0, <2>2, <2>3 DEF DecisionInv
<1>7. ASSUME NEW h \in Handlers, Settle(h) PROVE DecisionInv'
  <2> PICK p \in Ids : p = subject[h]
    BY <1>0, <1>7 DEF Types, Settle, At, Deciding
  <2>1. /\ pc[h] = "decide" /\ subject' = subject /\ verdict' = verdict /\ announced' = announced
        /\ verdict[h] \in Verdicts
        /\ \/ status' = [status EXCEPT ![p] = verdict[h]] /\ pc' = [pc EXCEPT ![h] = "announce"]
           \/ status' = status /\ pc' = [pc EXCEPT ![h] = "idle"] /\ p \in amiss'
    BY <1>0, <1>7, NothingAssumption
       DEF Settle, At, GoTo, Fault, Concern, records, Types, Deciding
  <2>2. \A k \in Handlers : pc[k] = "insert" => subject[k] # p
    BY <1>0, <2>1 DEF StatusInv, Deciding
  <2>3. StatusInv'
    BY <1>0, <2>1, <2>2 DEF StatusInv, Types, Deciding, Verdicts
  <2>4. ASSUME NEW q \in Ids \ (crossed' \cup amiss') PROVE OneDecision(q)'
    <3>1. CASE q = p
      <4>1. OneDecision(p) /\ Decides(h, p)
        BY <1>0, <2>1, <2>4, <3>1 DEF DecisionInv, Decides, Deciding
      <4>2. status'[p] = verdict[h] /\ pc' = [pc EXCEPT ![h] = "announce"]
        BY <1>0, <2>1, <2>4, <3>1 DEF Types
      <4>3. \A k \in Handlers : Decides(k, p)' => k = h
        BY <1>0, <2>1, <4>1, <4>2 DEF Types, Decides, OneDecision
      <4>4. Decides(h, p)' /\ pc'[h] = "announce" /\ announced'[p] = {}
        BY <1>0, <2>1, <4>1, <4>2 DEF Types, Decides, Deciding, OneDecision
      <4> QED
        BY <2>1, <3>1, <4>2, <4>3, <4>4 DEF OneDecision
    <3>2. CASE q # p
      <4>1. \A k \in Handlers :
              \/ pc'[k] = pc[k] /\ subject'[k] = subject[k] /\ verdict'[k] = verdict[k]
              \/ ~Decides(k, q) /\ ~Decides(k, q)'
        BY <1>0, <2>1, <3>2 DEF Types, Decides, Deciding
      <4>2. status'[q] = status[q]
        BY <1>0, <2>1, <3>2 DEF Types
      <4> QED
        BY <1>0, <2>1, <4>1, <4>2, OtherProposals
    <3> QED
      BY <3>1, <3>2
  <2> QED
    BY <1>0, <2>3, <2>4 DEF DecisionInv
<1>8. ASSUME NEW h \in Handlers, Announce(h) PROVE DecisionInv'
  <2> PICK p \in Ids : p = subject[h]
    BY <1>0, <1>8 DEF Types, Announce, At, Deciding
  <2>1. /\ pc[h] = "announce" /\ pc' = [pc EXCEPT ![h] = "idle"]
        /\ subject' = subject /\ verdict' = verdict /\ status' = status
        /\ verdict[h] \in Verdicts
        /\ \/ announced' = [announced EXCEPT ![p] = @ \cup {verdict[h]}]
           \/ announced' = announced /\ p \in amiss'
    BY <1>0, <1>8, NothingAssumption
       DEF Announce, At, GoTo, Fault, Concern, proposal, Types, Deciding
  <2>2. status[p] \notin {"absent", "pending"}
    BY <1>0, <2>1 DEF StatusInv, Deciding
  <2>3. StatusInv'
    BY <1>0, <2>1, <2>2 DEF StatusInv, Types, Deciding
  <2>4. ASSUME NEW q \in Ids \ (crossed' \cup amiss') PROVE OneDecision(q)'
    <3>1. CASE q = p
      <4>1. OneDecision(p) /\ Decides(h, p)
        BY <1>0, <2>1, <2>4, <3>1 DEF DecisionInv, Decides, Deciding
      <4>2. announced'[p] = {verdict[h]}
        BY <1>0, <2>1, <2>4, <3>1, <4>1 DEF Types, OneDecision
      <4>3. \A k \in Handlers : ~Decides(k, p)'
        BY <1>0, <2>1, <4>1 DEF Types, Decides, Deciding, OneDecision
      <4>4. status[p] \in {verdict[h], "executed", "verified"}
        BY <2>1, <4>1 DEF OneDecision
      <4> QED
        BY <2>1, <3>1, <4>2, <4>3, <4>4 DEF OneDecision, Verdicts
    <3>2. CASE q # p
      <4>1. \A k \in Handlers :
              \/ pc'[k] = pc[k] /\ subject'[k] = subject[k] /\ verdict'[k] = verdict[k]
              \/ ~Decides(k, q) /\ ~Decides(k, q)'
        BY <1>0, <2>1, <3>2 DEF Types, Decides, Deciding
      <4>2. announced'[q] = announced[q]
        BY <1>0, <2>1, <3>2 DEF Types
      <4> QED
        BY <1>0, <2>1, <4>1, <4>2, OtherProposals
    <3> QED
      BY <3>1, <3>2
  <2> QED
    BY <1>0, <2>3, <2>4 DEF DecisionInv
<1>9. ASSUME NEW p \in Ids, NEW final \in {"executed", "verified"}, Overwrite(p, final)
      PROVE  DecisionInv'
  <2>1. /\ pc' = pc /\ subject' = subject /\ verdict' = verdict /\ announced' = announced
        /\ status[p] # "absent" /\ status' = [status EXCEPT ![p] = final]
    BY <1>9 DEF Overwrite, Exists, handler, records
  <2>2. StatusInv'
    BY <1>0, <2>1 DEF StatusInv, Types
  <2>3. ASSUME NEW q \in Ids \ (crossed' \cup amiss') PROVE OneDecision(q)'
    <3>1. OneDecision(q)
      BY <1>0, <2>3 DEF DecisionInv
    <3>2. \A k \in Handlers : Decides(k, q)' <=> Decides(k, q)
      BY <2>1 DEF Decides
    <3>3. status'[q] = status[q] \/ status'[q] = final
      BY <1>0, <2>1 DEF Types
    <3> QED
      BY <2>1, <3>1, <3>2, <3>3 DEF OneDecision, Verdicts
  <2> QED
    BY <1>0, <2>2, <2>3 DEF DecisionInv
<1>10. CASE Crash
  <2>1. /\ pc' = [h \in Handlers |-> "idle"] /\ status' = status /\ announced' = announced
        /\ \A h \in Handlers : pc[h] # "idle" => Concern(h) \subseteq amiss'
    BY <1>10 DEF Crash, At, proposal, records
  <2>2. StatusInv'
    BY <1>0, <2>1 DEF StatusInv, Deciding
  <2>3. ASSUME NEW q \in Ids \ (crossed' \cup amiss') PROVE OneDecision(q)'
    <3>1. OneDecision(q)
      BY <1>0, <2>3 DEF DecisionInv
    <3>2. \A k \in Handlers : ~Decides(k, q)
      BY <2>1, <2>3, NothingAssumption DEF Decides, Deciding, Concern
    <3>3. \A k \in Handlers : ~Decides(k, q)'
      BY <2>1 DEF Decides, Deciding
    <3> QED
      BY <2>1, <3>1, <3>2, <3>3 DEF OneDecision
  <2> QED
    BY <1>0, <2>2, <2>3 DEF DecisionInv
<1> QED
  BY <1>1, <1>2, <1>3, <1>4, <1>5, <1>6, <1>7, <1>8, <1>9, <1>10 DEF Next

\* A proposal that was decided once at a time stores the verdict that was announced.
THEOREM LoneDecisionsStand == Spec => []LoneVerdictStands
<1>1. ASSUME DecisionInv PROVE LoneVerdictStands
  <2> SUFFICES ASSUME NEW p \in Ids \ (crossed \cup amiss),
                      ~\E h \in Handlers : At(h, "announce") /\ subject[h] = p
               PROVE  /\ Cardinality(announced[p]) <= 1
                      /\ status[p] \in Verdicts => announced[p] = {status[p]}
                      /\ status[p] = "pending" => announced[p] = {}
    BY DEF LoneVerdictStands
  <2>1. OneDecision(p) /\ StatusInv
    BY <1>1 DEF DecisionInv
  <2>2. Cardinality(announced[p]) <= 1
    <3>1. CASE announced[p] = {}
      BY <3>1, FS_EmptySet
    <3>2. ASSUME NEW v \in Verdicts, announced[p] = {v} PROVE Cardinality(announced[p]) <= 1
      BY <3>2, FS_Singleton
    <3> QED
      BY <2>1, <3>1, <3>2 DEF OneDecision
  <2>3. status[p] \in Verdicts => \A h \in Handlers : ~Decides(h, p)
    BY <2>1 DEF OneDecision, Decides, Deciding, At
  <2> QED
    BY <2>1, <2>2, <2>3 DEF OneDecision, StatusInv
<1> QED
  BY <1>1, DecisionInit, DecisionStep, PTL DEF Spec
=============================================================================
