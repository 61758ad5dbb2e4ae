--------------------------- MODULE DecisionLedger ---------------------------
(***************************************************************************)
(* What the Gate promises about a tool call, in single atomic steps: the   *)
(* receipt ledger names every call at most once and is only appended to; a *)
(* call is performed only after it was permitted, by policy (an ALLOW      *)
(* receipt) or by a human decision; and a call that policy decided is never*)
(* handed to a human.                                                      *)
(*                                                                         *)
(* What it deliberately does not promise: that a human denial is final.    *)
(* Permit may follow a DENIED receipt, because two decision requests that  *)
(* both read a PENDING approval both write it (module ApprovalGate).       *)
(***************************************************************************)
EXTENDS Naturals, Sequences

CONSTANT Calls

VARIABLES
  log,        \* the ledger: a sequence of [call, verdict]
  permitted,  \* calls somebody entitled to do so has let through
  performed   \* calls whose side effect the agent has caused

vars == <<log, permitted, performed>>

ByPolicy == {"ALLOW", "DENY"}
ByHuman == {"APPROVED", "DENIED"}

Entries(c) == {i \in 1..Len(log) : log[i].call = c}
Recorded(c) == Entries(c) # {}
RecordedByPolicy(c) == \E i \in Entries(c) : log[i].verdict \in ByPolicy

-----------------------------------------------------------------------------
Init ==
  /\ log = <<>>
  /\ permitted = {}
  /\ performed = {}

\* A policy decision and its receipt are one step: ALLOW permits the call.
RecordPolicy(c, v) ==
  /\ ~Recorded(c)
  /\ c \notin permitted
  /\ log' = Append(log, [call |-> c, verdict |-> v])
  /\ permitted' = IF v = "ALLOW" THEN permitted \cup {c} ELSE permitted
  /\ UNCHANGED performed

\* A human approval takes effect before, and without, its receipt.
Permit(c) ==
  /\ ~RecordedByPolicy(c)
  /\ permitted' = permitted \cup {c}
  /\ UNCHANGED <<log, performed>>

\* The receipt of a human decision; an APPROVED one follows the permission.
RecordHuman(c, v) ==
  /\ ~Recorded(c)
  /\ v = "APPROVED" => c \in permitted
  /\ log' = Append(log, [call |-> c, verdict |-> v])
  /\ UNCHANGED <<permitted, performed>>

Perform(c) ==
  /\ c \in permitted
  /\ performed' = performed \cup {c}
  /\ UNCHANGED <<log, permitted>>

Next ==
  \E c \in Calls :
    \/ \E v \in ByPolicy : RecordPolicy(c, v)
    \/ Permit(c)
    \/ \E v \in ByHuman : RecordHuman(c, v)
    \/ Perform(c)

Spec == Init /\ [][Next]_vars
=============================================================================
