------------------------------ MODULE OpenClaw ------------------------------
(***************************************************************************)
(* A tool call of an OpenClaw agent: the hook that asks the Gate before    *)
(* any tool starts, the plugin's tools that ask it once more and wait for  *)
(* a reviewer, and the report of the outcome, while operators edit the     *)
(* policy rules.                                                           *)
(*                                                                         *)
(* A refused simulation, a lost request or answer, and a failed statement  *)
(* of the Gate are answers it may give; receipts and the overlap of two    *)
(* reviewers are modelled in ApprovalGate.  OpenClaw does not run a tool   *)
(* whose hook throws.                                                      *)
(***************************************************************************)
EXTENDS PolicyTable

VARIABLES
  pc,
  gated,     \* the tool is one of the plugin's
  asked,     \* the Gate's policy decisions for a call: the hook's and the plugin's
  review,    \* the approval the plugin waits for
  performed,
  answer,    \* what the agent is told
  execution  \* the execution that the Gate records for the hook's call

call == <<pc, gated, asked, review, performed, answer, execution>>
vars == <<table, evaluation, call>>

Unasked == "unasked"

Init ==
  /\ TableInit
  /\ pc = [c \in Askers |-> "idle"]
  /\ gated = [c \in Askers |-> FALSE]
  /\ asked = [c \in Askers |-> [hook |-> Unasked, plugin |-> Unasked]]
  /\ review = [c \in Askers |-> "none"]
  /\ performed = [c \in Askers |-> FALSE]
  /\ answer = [c \in Askers |-> "none"]
  /\ execution = [c \in Askers |-> "none"]

GoTo(c, point) == pc' = [pc EXCEPT ![c] = point]

\* The Gate's answers to a decision.  ALLOW may be refused by a simulation.
Replies(decision) ==
  CASE decision = "ALLOW" -> {"EXECUTE", "DENY", "error"}
    [] decision = "DENY" -> {"DENY", "error"}
    [] decision = "APPROVE" -> {"PENDING_APPROVAL", "error"}

\* An asker has an answer; its evaluation is over.
Answered(c, who, reply) ==
  /\ pc[c] = who
  /\ evaluation[c].stage = "decided"
  /\ reply \in Replies(evaluation[c].decision)
  /\ asked' = [asked EXCEPT ![c][who] = evaluation[c].decision]
  /\ evaluation' = [evaluation EXCEPT ![c] = NoAsk]

Say(c, text) == answer' = [answer EXCEPT ![c] = text] /\ GoTo(c, "report")

-----------------------------------------------------------------------------
(* The hook                                                                *)

ToolStart(c, plugins, kind, instance) ==
  /\ pc[c] = "idle"
  /\ GoTo(c, "hook")
  /\ gated' = [gated EXCEPT ![c] = plugins]
  /\ Ask(c, kind, instance)
  /\ UNCHANGED <<table, asked, review, performed, answer, execution>>

\* What a hook does that leaves a pending call to the plugin, and what this one does.
StopsButPending(reply) == reply \in {"DENY", "error"}

Stops(reply) == reply # "EXECUTE"

HookAnswered(c, reply) ==
  /\ Answered(c, "hook", reply)
  /\ GoTo(c, IF Stops(reply) THEN "blocked" ELSE "tool")
  /\ UNCHANGED <<table, gated, review, performed, answer, execution>>

-----------------------------------------------------------------------------
(* The tool                                                                *)

\* A tool is carried out; the plugin tells the agent of a failure that the action was blocked.
Perform(c) ==
  /\ performed' = [performed EXCEPT ![c] = TRUE]
  /\ \E text \in {"output", IF gated[c] THEN "blocked for safety" ELSE "failed"} : Say(c, text)

\* Any other tool runs.
RunTool(c) ==
  /\ pc[c] = "tool"
  /\ ~gated[c]
  /\ Perform(c)
  /\ UNCHANGED <<table, evaluation, gated, asked, review, execution>>

AskAgain(c, kind, instance) ==
  /\ pc[c] = "tool"
  /\ gated[c]
  /\ GoTo(c, "plugin")
  /\ Ask(c, kind, instance)
  /\ UNCHANGED <<table, gated, asked, review, performed, answer, execution>>

PluginAnswered(c, reply) ==
  /\ Answered(c, "plugin", reply)
  /\ \/ reply = "EXECUTE" /\ Perform(c) /\ UNCHANGED review
     \/ /\ reply = "DENY" /\ Say(c, "blocked by policy")
        /\ UNCHANGED <<review, performed>>
     \/ /\ reply = "error" /\ Say(c, "blocked for safety")
        /\ UNCHANGED <<review, performed>>
     \/ /\ reply = "PENDING_APPROVAL" /\ GoTo(c, "poll")
        /\ review' = [review EXCEPT ![c] = "PENDING"]
        /\ UNCHANGED <<performed, answer>>
  /\ UNCHANGED <<table, gated, execution>>

Resolve(c, verdict) ==
  /\ review[c] = "PENDING"
  /\ review' = [review EXCEPT ![c] = verdict]
  /\ UNCHANGED <<table, evaluation, pc, gated, asked, performed, answer, execution>>

\* A poll that fails is repeated, and after 100 s the plugin gives up.
Poll(c) ==
  /\ pc[c] = "poll"
  /\ \/ review[c] = "APPROVED" /\ Perform(c)
     \/ Say(c, "needs approval") /\ UNCHANGED performed
  /\ UNCHANGED <<table, evaluation, gated, asked, review, execution>>

\* The plugin's tools never fail for OpenClaw: they answer with a text.
ReportResult(c) ==
  /\ pc[c] = "report"
  /\ GoTo(c, "done")
  /\ \/ execution' = [execution EXCEPT ![c] =
          IF ~gated[c] /\ answer[c] = "failed" THEN "FAILED" ELSE "COMPLETED"]
     \/ UNCHANGED execution \* a lost request
  /\ UNCHANGED <<table, evaluation, gated, asked, review, performed, answer>>

Next ==
  \/ EditTable /\ UNCHANGED call
  \/ \E c \in Askers :
       \/ \E kind \in Kinds, instance \in Scopes :
            \/ \E plugins \in BOOLEAN : ToolStart(c, plugins, kind, instance)
            \/ AskAgain(c, kind, instance)
       \/ (ReadOwn(c) \/ ReadGlobal(c)) /\ UNCHANGED call
       \/ \E reply \in {"EXECUTE", "DENY", "PENDING_APPROVAL", "error"} :
            HookAnswered(c, reply) \/ PluginAnswered(c, reply)
       \/ \E verdict \in {"APPROVED", "DENIED"} : Resolve(c, verdict)
       \/ RunTool(c) \/ Poll(c) \/ ReportResult(c)

Spec == Init /\ [][Next]_vars

-----------------------------------------------------------------------------
(* Properties                                                              *)

\* A tool runs only after the policy allowed the call when the hook asked, and, if it is one of
\* the plugin's, allowed it again or was answered by a reviewer's approval when the plugin asked.
\* The rules may have changed in between.
PerformedPassedTwice ==
  \A c \in Askers : performed[c] =>
    /\ asked[c].hook = "ALLOW"
    /\ gated[c] => \/ asked[c].plugin = "ALLOW"
                   \/ asked[c].plugin = "APPROVE" /\ review[c] = "APPROVED"
=============================================================================
