----------------------------- MODULE Proposals -----------------------------
(***************************************************************************)
(* The proposals of a run: their decision by operators, the evidence that  *)
(* is gathered for them in the background, and the read-back of an action  *)
(* that the gateway executed for one of them.                              *)
(*                                                                         *)
(* What the tests print and what the API answers choose the outcome of a   *)
(* replay and of a verification freely; hashes, diffs and the environment  *)
(* manifest are left out.  Nothing ties the three parts of a proposal to   *)
(* one another: it may be approved without evidence and executed without   *)
(* approval.                                                               *)
(*                                                                         *)
(* Definitions that no action uses are the mistakes the properties are     *)
(* tested against.                                                         *)
(***************************************************************************)
EXTENDS Naturals, FiniteSets

CONSTANTS
  Ids,         \* bound: proposals
  Bundles,     \* bound: evidence bundles
  Checks,      \* bound: verifications
  Handlers,    \* bound: requests and replays at once
  MaxRequests, \* bound: requests
  MaxFaults    \* bound: failed statements and ends of the Gate

ASSUME BoundsAssumption == {MaxRequests, MaxFaults} \subseteq Nat

Nothing == "nothing"
ASSUME NothingAssumption == Nothing \notin Ids \cup Bundles \cup Checks

Verdicts == {"approved", "denied"}
Outcomes == {"passed", "failed", "skipped"}

VARIABLES
  live,      \* the run is running or scheduled
  status,    \* Proposal.status
  evidence,  \* Proposal.evidenceBundleId
  proof,     \* Proposal.verificationId
  bundle,    \* EvidenceBundle.status
  check,     \* Verification.status
  announced, \* verdicts of a proposal.decided event
  pc,
  subject,   \* the proposal a handler is about
  work,      \* its bundle or verification
  verdict,
  requests,
  faults,
  crossed,   \* history: proposals that were being decided twice at once
  amiss      \* history: what a failed statement, a missing repository or an end of the Gate left

proposal == <<status, evidence, proof>>
records == <<bundle, check, announced>>
handler == <<pc, subject, work, verdict>>
bounds == <<requests, faults, crossed, amiss>>
vars == <<live, proposal, records, handler, bounds>>

Init ==
  /\ live = TRUE
  /\ status = [p \in Ids |-> "absent"]
  /\ evidence = [p \in Ids |-> Nothing]
  /\ proof = [p \in Ids |-> Nothing]
  /\ bundle = [b \in Bundles |-> "absent"]
  /\ check = [c \in Checks |-> "absent"]
  /\ announced = [p \in Ids |-> {}]
  /\ pc = [h \in Handlers |-> "idle"]
  /\ subject = [h \in Handlers |-> Nothing]
  /\ work = [h \in Handlers |-> Nothing]
  /\ verdict = [h \in Handlers |-> Nothing]
  /\ requests = 0
  /\ faults = 0
  /\ crossed = {}
  /\ amiss = {}

Exists(p) == status[p] # "absent"

\* A request arrives that is about a proposal and a record and goes on at a point.
Begin(h, point, p, x) ==
  /\ pc[h] = "idle"
  /\ requests < MaxRequests
  /\ requests' = requests + 1
  /\ pc' = [pc EXCEPT ![h] = point]
  /\ subject' = [subject EXCEPT ![h] = p]
  /\ work' = [work EXCEPT ![h] = x]
  /\ UNCHANGED <<verdict, faults>>

At(h, point) == pc[h] = point

GoTo(h, point) == pc' = [pc EXCEPT ![h] = point] /\ UNCHANGED <<subject, work, verdict>>

\* What a handler is about.
Concern(h) == {subject[h], work[h]} \ {Nothing}

\* A statement fails and the handler goes on at a point.
Fault(h, point) ==
  /\ faults < MaxFaults
  /\ faults' = faults + 1
  /\ amiss' = amiss \cup Concern(h)
  /\ GoTo(h, point)
  /\ UNCHANGED <<requests, crossed>>

-----------------------------------------------------------------------------
(* Proposals and their decision                                            *)

\* The orchestrator or a human ends the run.
EndRun ==
  /\ live
  /\ live' = FALSE
  /\ UNCHANGED <<proposal, records, handler, bounds>>

\* The run is looked at first and the proposal inserted afterwards.
Propose(h, p) ==
  /\ live
  /\ ~Exists(p)
  /\ \A k \in Handlers : ~(At(k, "insert") /\ subject[k] = p)
  /\ Begin(h, "insert", p, Nothing)
  /\ UNCHANGED <<live, proposal, records, crossed, amiss>>

Insert(h) ==
  /\ At(h, "insert")
  /\ \/ status' = [status EXCEPT ![subject[h]] = "pending"]
        /\ GoTo(h, "idle") /\ UNCHANGED bounds
     \/ Fault(h, "idle") /\ UNCHANGED status
  /\ UNCHANGED <<live, evidence, proof, records>>

AnyStatus(p) == Exists(p)

IsPending(p) == status[p] = "pending"

Decide(h, p, v) ==
  /\ IsPending(p)
  /\ pc[h] = "idle"
  /\ requests < MaxRequests
  /\ requests' = requests + 1
  /\ pc' = [pc EXCEPT ![h] = "decide"]
  /\ subject' = [subject EXCEPT ![h] = p]
  /\ work' = [work EXCEPT ![h] = Nothing]
  /\ verdict' = [verdict EXCEPT ![h] = v]
  /\ crossed' = IF \E k \in Handlers : At(k, "decide") /\ subject[k] = p
                THEN crossed \cup {p} ELSE crossed
  /\ UNCHANGED <<live, proposal, records, faults, amiss>>

\* The update has no condition.
Settle(h) ==
  /\ At(h, "decide")
  /\ \/ status' = [status EXCEPT ![subject[h]] = verdict[h]]
        /\ GoTo(h, "announce") /\ UNCHANGED bounds
     \/ Fault(h, "idle") /\ UNCHANGED status
  /\ UNCHANGED <<live, evidence, proof, records>>

Announce(h) ==
  /\ At(h, "announce")
  /\ \/ announced' = [announced EXCEPT ![subject[h]] = @ \cup {verdict[h]}]
        /\ GoTo(h, "idle") /\ UNCHANGED bounds
     \/ Fault(h, "idle") /\ UNCHANGED announced
  /\ UNCHANGED <<live, proposal, bundle, check>>

\* The endpoints executed and verified write their status over any other.
Overwrite(p, final) ==
  /\ Exists(p)
  /\ requests < MaxRequests
  /\ requests' = requests + 1
  /\ status' = [status EXCEPT ![p] = final]
  /\ UNCHANGED <<live, evidence, proof, records, handler, faults, crossed, amiss>>

-----------------------------------------------------------------------------
(* Evidence                                                                *)

\* A CI replay: the bundle, its link, and then the recipe in the background.
Replay(h, p, b) ==
  /\ Exists(p)
  /\ bundle[b] = "absent"
  /\ Begin(h, "link", p, b)
  /\ bundle' = [bundle EXCEPT ![b] = "pending"]
  /\ UNCHANGED <<live, proposal, check, announced, crossed, amiss>>

\* Manual evidence is complete when it is inserted.
Manual(h, p, b) ==
  /\ Exists(p)
  /\ bundle[b] = "absent"
  /\ Begin(h, "link", p, b)
  /\ bundle' = [bundle EXCEPT ![b] = "completed"]
  /\ UNCHANGED <<live, proposal, check, announced, crossed, amiss>>

\* A newer bundle takes the place of an older one.
Link(h) ==
  /\ At(h, "link")
  /\ \/ evidence' = [evidence EXCEPT ![subject[h]] = work[h]]
        /\ GoTo(h, IF bundle[work[h]] = "pending" THEN "begin" ELSE "idle")
        /\ UNCHANGED bounds
     \/ Fault(h, "idle") /\ UNCHANGED evidence
  /\ UNCHANGED <<live, status, proof, records>>

\* The rerun of a completed bundle is linked to no proposal.  That the operation has no
\* repository is found out after the new bundle is inserted.
Rerun(h, b, again) ==
  /\ bundle[b] = "completed"
  /\ bundle[again] = "absent"
  /\ \/ Begin(h, "begin", Nothing, again) /\ UNCHANGED amiss
     \/ Begin(h, "idle", Nothing, again) /\ amiss' = amiss \cup {again}
  /\ bundle' = [bundle EXCEPT ![again] = "pending"]
  /\ UNCHANGED <<live, proposal, check, announced, crossed>>

Put(h, value) == bundle' = [bundle EXCEPT ![work[h]] = value]

\* The first update stands before the try.
BeginReplay(h) ==
  /\ At(h, "begin")
  /\ \/ Put(h, "running") /\ GoTo(h, "replay") /\ UNCHANGED bounds
     \/ Fault(h, "idle") /\ UNCHANGED bundle
  /\ UNCHANGED <<live, proposal, check, announced>>

\* The tests run at both commits, whatever they say; a clone or a checkout may fail.
Complete(h) ==
  /\ At(h, "replay")
  /\ \/ Put(h, "completed") /\ GoTo(h, "tell") /\ UNCHANGED bounds
     \/ GoTo(h, "fail") /\ UNCHANGED <<bundle, bounds>>
     \/ Fault(h, "fail") /\ UNCHANGED bundle
  /\ UNCHANGED <<live, proposal, check, announced>>

\* The event of a completed replay is inside the try: when it fails, the bundle has failed.
Tell(h) ==
  /\ At(h, "tell")
  /\ \/ GoTo(h, "idle") /\ UNCHANGED bounds
     \/ Fault(h, "fail")
  /\ UNCHANGED <<live, proposal, records>>

FailQuietly(h) == GoTo(h, "idle") /\ UNCHANGED <<bundle, bounds>>

FailBundle(h) == Put(h, "failed") /\ GoTo(h, "idle") /\ UNCHANGED bounds

Fail(h) ==
  /\ At(h, "fail")
  /\ \/ FailBundle(h)
     \/ Fault(h, "idle") /\ UNCHANGED bundle
  /\ UNCHANGED <<live, proposal, check, announced>>

-----------------------------------------------------------------------------
(* Verification                                                            *)

\* The gateway has executed an action that names a proposal.
Verify(h, p, c) ==
  /\ Exists(p)
  /\ check[c] = "absent"
  /\ Begin(h, "read", p, c)
  /\ check' = [check EXCEPT ![c] = "pending"]
  /\ UNCHANGED <<live, proposal, bundle, announced, crossed, amiss>>

\* A missing connection skips, a failed read fails.
Observe(h) ==
  /\ At(h, "read")
  /\ \/ /\ \E outcome \in Outcomes : check' = [check EXCEPT ![work[h]] = outcome]
        /\ GoTo(h, "prove")
        /\ UNCHANGED bounds
     \/ Fault(h, "idle") /\ UNCHANGED check
  /\ UNCHANGED <<live, proposal, bundle, announced>>

Prove(h) ==
  /\ At(h, "prove")
  /\ \/ proof' = [proof EXCEPT ![subject[h]] = work[h]]
        /\ GoTo(h, "idle") /\ UNCHANGED bounds
     \/ Fault(h, "idle") /\ UNCHANGED proof
  /\ UNCHANGED <<live, status, evidence, records>>

\* Nothing looks for the handlers of a Gate that ended.
Crash ==
  /\ faults < MaxFaults
  /\ faults' = faults + 1
  /\ amiss' = amiss \cup UNION {Concern(h) : h \in {k \in Handlers : ~At(k, "idle")}}
  /\ pc' = [h \in Handlers |-> "idle"]
  /\ UNCHANGED <<live, proposal, records, subject, work, verdict, requests, crossed>>

Next ==
  \/ EndRun
  \/ \E h \in Handlers :
       \/ \E p \in Ids :
            \/ Propose(h, p)
            \/ \E v \in Verdicts : Decide(h, p, v)
            \/ \E b \in Bundles : Replay(h, p, b) \/ Manual(h, p, b)
            \/ \E c \in Checks : Verify(h, p, c)
       \/ \E b, again \in Bundles : Rerun(h, b, again)
       \/ Insert(h) \/ Settle(h) \/ Announce(h)
       \/ Link(h) \/ BeginReplay(h) \/ Complete(h) \/ Tell(h) \/ Fail(h)
       \/ Observe(h) \/ Prove(h)
  \/ \E p \in Ids : \E final \in {"executed", "verified"} : Overwrite(p, final)
  \/ Crash

Spec == Init /\ [][Next]_vars

-----------------------------------------------------------------------------
(* Properties                                                              *)

\* The values of the rows and of the handlers.
TypeOK ==
  /\ live \in BOOLEAN
  /\ status \in [Ids -> Verdicts \cup {"absent", "pending", "executed", "verified"}]
  /\ evidence \in [Ids -> Bundles \cup {Nothing}]
  /\ proof \in [Ids -> Checks \cup {Nothing}]
  /\ bundle \in [Bundles -> {"absent", "pending", "running", "completed", "failed"}]
  /\ check \in [Checks -> Outcomes \cup {"absent", "pending"}]
  /\ announced \in [Ids -> SUBSET Verdicts]
  /\ pc \in [Handlers -> {"idle", "insert", "decide", "announce", "link", "begin", "replay",
                          "tell", "fail", "read", "prove"}]
  /\ subject \in [Handlers -> Ids \cup {Nothing}]
  /\ work \in [Handlers -> Bundles \cup Checks \cup {Nothing}]
  /\ verdict \in [Handlers -> Verdicts \cup {Nothing}]
  /\ requests \in 0 .. MaxRequests
  /\ faults \in 0 .. MaxFaults
  /\ crossed \subseteq Ids
  /\ amiss \subseteq Ids \cup Bundles \cup Checks

\* A proposal that was decided once at a time has one verdict: the one that was announced is the
\* one that is stored, unless the proposal has been reported executed or verified since, and no
\* verdict is stored unannounced once its handler is done.
LoneVerdictStands ==
  \A p \in Ids \ (crossed \cup amiss) :
    \/ \E h \in Handlers : At(h, "announce") /\ subject[h] = p
    \/ /\ Cardinality(announced[p]) <= 1
       /\ status[p] \in Verdicts => announced[p] = {status[p]}
       /\ status[p] = "pending" => announced[p] = {}

Working(points, x) == \E h \in Handlers : pc[h] \in points /\ work[h] = x

\* Evidence that is pending or running and a verification that is pending have somebody at
\* work on them, so neither stays so for ever, and a proposal is linked to a verification only
\* when it has an outcome.  Excused is what a failed statement or the end of the Gate left
\* behind, and the evidence of a rerun whose operation has no repository, which stays pending.
NothingIsLeftPending ==
  /\ \A b \in Bundles \ amiss :
       /\ bundle[b] = "pending" => Working({"link", "begin"}, b)
       /\ bundle[b] = "running" => Working({"replay", "fail"}, b)
  /\ \A c \in Checks \ amiss : check[c] = "pending" => Working({"read"}, c)
  /\ \A p \in Ids : proof[p] # Nothing => check[proof[p]] \in Outcomes
=============================================================================
