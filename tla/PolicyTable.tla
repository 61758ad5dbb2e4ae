---------------------------- MODULE PolicyTable ----------------------------
(***************************************************************************)
(* The policy rules, the requests that edit them, and the evaluation of a  *)
(* call against them, which reads the rules of an instance and, if there   *)
(* are none, the global ones, in two statements.                           *)
(*                                                                         *)
(* What a rule matches (tool glob, risk tier, category, arguments) is the  *)
(* set of the kinds of call it matches.  A row is known by the request     *)
(* that created it and its priority.  No route changes the status of an    *)
(* agent, so the evaluation's check of the agent passes.                   *)
(* PolicyTable has no behaviour of its own: OpenClaw says when a call is   *)
(* evaluated.                                                              *)
(*                                                                         *)
(* Definitions that no action uses are the mistakes the properties are     *)
(* tested against.                                                         *)
(***************************************************************************)
EXTENDS Naturals, FiniteSets

CONSTANTS
  Instances, \* agents' instances
  Kinds,     \* kinds of call, as far as rules and defaults tell them apart
  Reads,     \* the kinds of the risk tier READ
  Matches,   \* bound: what a rule that is created or updated matches
  Offered,   \* bound: what it decides
  Presets,   \* bound: sets of [priority, kinds, decision]
  Seed,      \* the preset an empty table is filled with
  Askers,    \* evaluations at once
  Editors,   \* bound: requests that create rules or apply presets at once
  MaxEdits   \* bound: requests that change the table

Decisions == {"ALLOW", "DENY", "APPROVE"}
Global == "global"
Scopes == Instances \cup {Global}
Data == [kinds : Matches, decision : Offered]

ASSUME TableAssumption ==
  /\ MaxEdits \in Nat
  /\ Global \notin Instances
  /\ Matches \subseteq SUBSET Kinds
  /\ Offered \subseteq Decisions
  /\ Reads \subseteq Kinds
  /\ \A preset \in Presets \cup {Seed} :
       /\ preset \subseteq [priority : Nat, kinds : SUBSET Kinds, decision : Decisions]
       /\ \A r, q \in preset : r.priority = q.priority => r = q

VARIABLES
  rules,      \* the PolicyRule rows
  editor,     \* a request between its reads and its insert or commit
  edits,
  evaluation  \* a call's way through evaluatePolicy

table == <<rules, editor, edits>>

NoEdit == [at |-> "idle"]
NoAsk == [stage |-> "idle"]

Row(scope, priority, data, on, by, late) ==
  [scope |-> scope, priority |-> priority, kinds |-> data.kinds, decision |-> data.decision,
   enabled |-> on, by |-> by, late |-> late]

PresetRows(scope, preset, by, late) ==
  {Row(scope, r.priority, r, TRUE, by, late) : r \in preset}

Key(r) == <<r.by, r.priority>>

TableInit ==
  /\ rules = PresetRows(Global, Seed, 0, FALSE)
  /\ editor = [w \in Editors |-> NoEdit]
  /\ edits = 0
  /\ evaluation = [c \in Askers |-> NoAsk]

-----------------------------------------------------------------------------
(* What the table decides                                                  *)

OfScope(s) == {r \in rules : r.scope = s}

\* The decisions of the first rules among some: "order by priority" leaves ties open.
\* Without a match reads are allowed and the rest is held for approval.
First(some, kind) ==
  LET matching == {r \in some : kind \in r.kinds} IN
  IF matching = {} THEN {IF kind \in Reads THEN "ALLOW" ELSE "APPROVE"}
  ELSE {r.decision : r \in {q \in matching : \A p \in matching : q.priority <= p.priority}}

\* What the table decides at one moment: the rules of the instance, if it has any that is
\* enabled, override the global ones.
InForce(T, instance, kind) ==
  LET own == {r \in T : r.enabled /\ r.scope = instance}
      general == {r \in T : r.enabled /\ r.scope = Global}
  IN  First(IF own = {} THEN general ELSE own, kind)

-----------------------------------------------------------------------------
(* Edits                                                                   *)

\* The evaluations that are under way see the table change.
Witnessed ==
  evaluation' = [c \in Askers |->
    IF evaluation[c].stage \notin {"own", "global"} THEN evaluation[c]
    ELSE [evaluation[c] EXCEPT
            !.seen = @ \cup InForce(rules', evaluation[c].instance, evaluation[c].kind),
            !.turns = IF rules' = rules \/ @ = 2 THEN @ ELSE @ + 1]]

\* The requests that have read the rows of a scope are overtaken by its new rows.
Overtake(s) ==
  [x \in Editors |-> IF editor[x].at \in {"insert", "replace"} /\ editor[x].scope = s
                     THEN [editor[x] EXCEPT !.late = TRUE] ELSE editor[x]]

CountedPriority(s) == {10 * (Cardinality(OfScope(s)) + 1)}

\* Ten more than the last priority of the scope.
NextPriority(s) ==
  {10 + last : last \in
     {p \in {r.priority : r \in OfScope(s)} \cup {0} : \A r \in OfScope(s) : r.priority <= p}}

Duplicate(s, d) ==
  \E r \in OfScope(s) : r.enabled /\ r.kinds = d.kinds /\ r.decision = d.decision

Edit == edits < MaxEdits /\ edits' = edits + 1

\* A request to create a rule, which may not be the double of an enabled one, or a suggestion of
\* the optimizer, which is always enabled and may be a double.
Create(w, s, d, on) ==
  /\ Edit
  /\ editor[w].at = "idle"
  /\ on \/ ~Duplicate(s, d)
  /\ editor' = [editor EXCEPT ![w] =
       [at |-> "rank", scope |-> s, data |-> d, on |-> on, by |-> edits']]
  /\ UNCHANGED <<rules, evaluation>>

Rank(w) ==
  /\ editor[w].at = "rank"
  /\ \E next \in NextPriority(editor[w].scope) :
       editor' = [editor EXCEPT ![w] =
         [at |-> "insert", scope |-> @.scope, data |-> @.data, on |-> @.on, by |-> @.by,
          priority |-> next, late |-> FALSE]]
  /\ UNCHANGED <<rules, edits, evaluation>>

Insert(w) ==
  LET e == editor[w] IN
  /\ e.at = "insert"
  /\ rules' = rules \cup {Row(e.scope, e.priority, e.data, e.on, e.by, e.late)}
  /\ editor' = [Overtake(e.scope) EXCEPT ![w] = NoEdit]
  /\ UNCHANGED edits
  /\ Witnessed

\* Everything of a rule may be updated but its scope and its priority.
Update(r, d, on) ==
  /\ Edit
  /\ rules' = (rules \ {r}) \cup
       {[r EXCEPT !.kinds = d.kinds, !.decision = d.decision, !.enabled = on]}
  /\ UNCHANGED editor
  /\ Witnessed

Delete(r) ==
  /\ Edit
  /\ rules' = rules \ {r}
  /\ UNCHANGED editor
  /\ Witnessed

\* One transaction, at Read Committed: its deleteMany finds the rows there are when it starts.
ApplyPreset(w, s, preset) ==
  /\ Edit
  /\ editor[w].at = "idle"
  /\ editor' = [editor EXCEPT ![w] =
       [at |-> "replace", scope |-> s, preset |-> preset, by |-> edits',
        found |-> {Key(r) : r \in OfScope(s)}, late |-> FALSE]]
  /\ UNCHANGED <<rules, evaluation>>

\* The commit.  What is left of the rows found is gone, in the version that an update has made
\* of them; rows that were committed since stay.  A transaction that is rolled back changes
\* nothing.
Replace(w) ==
  LET e == editor[w] IN
  /\ e.at = "replace"
  /\ rules' = {r \in rules : r.scope = e.scope => Key(r) \notin e.found}
                 \cup PresetRows(e.scope, e.preset, e.by, e.late)
  /\ editor' = [Overtake(e.scope) EXCEPT ![w] = NoEdit]
  /\ UNCHANGED edits
  /\ Witnessed

EditTable ==
  \/ \E w \in Editors :
       \/ \E s \in Scopes, d \in Data, on \in BOOLEAN : Create(w, s, d, on)
       \/ Rank(w) \/ Insert(w)
       \/ \E s \in Scopes, preset \in Presets : ApplyPreset(w, s, preset)
       \/ Replace(w)
  \/ \E r \in rules :
       \/ \E d \in Data, on \in BOOLEAN : Update(r, d, on)
       \/ Delete(r)

-----------------------------------------------------------------------------
(* Evaluation                                                              *)

\* The rows a statement reads, without the mistake and with it.
EveryRow(s) == OfScope(s)

EnabledRows(s) == {r \in OfScope(s) : r.enabled}

\* A call is recorded, and the instance found whose row was updated last among the running
\* ones, whichever instance the call comes from.
Ask(c, kind, instance) ==
  evaluation' = [evaluation EXCEPT ![c] =
    [stage |-> "own", kind |-> kind, instance |-> instance,
     seen |-> InForce(rules, instance, kind), turns |-> 0]]

Decide(c, decision) ==
  evaluation' = [evaluation EXCEPT ![c] =
    [stage |-> "decided", decision |-> decision, seen |-> @.seen, turns |-> @.turns]]

\* A call without an instance reads the global rules at once.
ReadOwn(c) ==
  LET e == evaluation[c] IN
  /\ e.stage = "own"
  /\ IF EnabledRows(e.instance) = {} /\ e.instance # Global
     THEN evaluation' = [evaluation EXCEPT ![c].stage = "global"]
     ELSE \E d \in First(EnabledRows(e.instance), e.kind) : Decide(c, d)
  /\ UNCHANGED table

ReadGlobal(c) ==
  /\ evaluation[c].stage = "global"
  /\ \E d \in First(EnabledRows(Global), evaluation[c].kind) : Decide(c, d)
  /\ UNCHANGED table

-----------------------------------------------------------------------------
(* Properties                                                              *)

\* A call during whose evaluation the table changed at most once gets a decision that the
\* table held, as a whole, at some moment of the evaluation.  Two changes are excused: a
\* call that found its instance without rules may be decided by global rules that were
\* relaxed after the instance had got rules of its own.
DecisionWasInForce ==
  \A c \in Askers :
    evaluation[c].stage = "decided" /\ evaluation[c].turns <= 1 =>
      evaluation[c].decision \in evaluation[c].seen

\* Two rules of a scope have the same priority, which leaves their order open, only if one of
\* them was created by a request that another overtook: a creation that had read the last
\* priority, or a preset that had found the rows to delete, before rows of the other were
\* committed.
TiesNeedOverlap ==
  \A r, q \in rules :
    r.scope = q.scope /\ r.priority = q.priority /\ r # q => r.late \/ q.late
=============================================================================
