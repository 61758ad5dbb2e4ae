--------------------------- MODULE IntakeInvariant ---------------------------
(***************************************************************************)
(* The inductive invariant of Intake: what is true of a handler at each of *)
(* its points, and of an operation while its routing is being approved.    *)
(* OperationsProofs proves it.                                             *)
(***************************************************************************)
EXTENDS Intake

Before == {"record", "dedupe", "create"}
After == {"announce", "survey", "apply", "publish", "run"}

\* A handler that has created an operation, and may create its run.
Held(h) == at[h] \in After

\* A handler has a delivery, recorded unless it is about to be, and once it has created an
\* operation, that operation is for its commit, has no run, and is no other handler's.
HandlersHold ==
  \A h \in Handlers :
    /\ at[h] # "idle" => delivery[h] \in Deliveries
    /\ at[h] \in (Before \cup After) \ {"record"} => delivery[h] \in recorded
    /\ Held(h) =>
         /\ made[h] \in Present
         /\ commit[made[h]] = subject[delivery[h]]
         /\ runsOf[made[h]] = 0
         /\ \A g \in Handlers : Held(g) /\ made[g] = made[h] => g = h

\* An operation that is not created has no run.
AbsentHasNoRun ==
  \A o \in Operations \ Present : runsOf[o] = 0

\* A handler that is about to create an operation for a commit is the only one, and there is
\* none within the window, unless two handlers raced.
CreatorIsAlone ==
  \A h \in Handlers :
    LET k == subject[delivery[h]] IN
    at[h] = "create" /\ k \notin raced =>
      /\ ~IsDuplicate(k)
      /\ \A g \in Handlers : at[g] = "create" /\ subject[delivery[g]] = k => g = h

\* RecordedIsHandled, by a handler that has found the delivery new: one that will find it
\* recorded leaves without a trace.
RecordedIsPursued ==
  \A d \in recorded :
    \/ \E h \in Handlers : delivery[h] = d /\ at[h] \notin {"idle", "record"}
    \/ \E o \in Present : commit[o] = subject[d]
    \/ fate[d] # "none"

\* An operation whose routing is being approved has an agent, unless the router has written
\* it since.
ApprovingHasAgent ==
  \A o \in approving : agent[o] # Nothing \/ o \in crossed

Correct ==
  /\ TypeOK /\ HandlersHold /\ AbsentHasNoRun
  /\ CreatorIsAlone /\ DuplicatesNeedOverlap
  /\ RecordedIsPursued
  /\ ApprovingHasAgent /\ ApprovedHasAgent
=============================================================================
