--------------------------- MODULE OpenClawProofs ---------------------------
(***************************************************************************)
(* Theorems about OpenClaw and the PolicyTable it asks, for every number   *)
(* of instances, kinds, presets, calls, operators and edits: their types;  *)
(* nothing runs that has not been let pass; a decision was in force at     *)
(* some moment of its evaluation; a tie of priorities needs two creations  *)
(* or presets that overlap.                                                *)
(*                                                                         *)
(* Each property has an invariant of its own beside the types.  Passed     *)
(* says what was answered by the point a call has reached.  InView says    *)
(* that what the table decides now was seen, and that an evaluation on its *)
(* way to the global rules has seen what they decide for as long as the    *)
(* table changed at most once.  Ranked says that the priority of a         *)
(* creation that is not late is above all of its scope, and that a preset  *)
(* that is not late has found every row of its scope.                      *)
(***************************************************************************)
EXTENDS OpenClaw, TLAPS

-----------------------------------------------------------------------------
(* The types                                                               *)

Rows ==
  [scope : Scopes, priority : Nat, kinds : SUBSET Kinds, decision : Decisions,
   enabled : BOOLEAN, by : Nat, late : BOOLEAN]

Ranking == [at : {"rank"}, scope : Scopes, data : Data, on : BOOLEAN, by : Nat]

Inserting ==
  [at : {"insert"}, scope : Scopes, data : Data, on : BOOLEAN, by : Nat, priority : Nat,
   late : BOOLEAN]

Replacing ==
  [at : {"replace"}, scope : Scopes, preset : Presets, by : Nat, found : SUBSET (Nat \X Nat),
   late : BOOLEAN]

Editings == {NoEdit} \cup Ranking \cup Inserting \cup Replacing

Asking ==
  [stage : {"own", "global"}, kind : Kinds, instance : Scopes, seen : SUBSET Decisions,
   turns : 0 .. 2]

Decided == [stage : {"decided"}, decision : Decisions, seen : SUBSET Decisions, turns : 0 .. 2]

Points == {"idle", "hook", "blocked", "tool", "plugin", "poll", "report", "done"}

Answers == Decisions \cup {Unasked}

RulesOK == rules \subseteq Rows

EditorsOK == editor \in [Editors -> Editings] /\ edits \in Nat

EvaluationsOK == evaluation \in [Askers -> {NoAsk} \cup Asking \cup Decided]

CallsOK ==
  /\ pc \in [Askers -> Points]
  /\ gated \in [Askers -> BOOLEAN]
  /\ asked \in [Askers -> [hook : Answers, plugin : Answers]]
  /\ review \in [Askers -> {"none", "PENDING", "APPROVED", "DENIED"}]
  /\ performed \in [Askers -> BOOLEAN]

Types == RulesOK /\ EditorsOK /\ EvaluationsOK /\ CallsOK

\* A row is a row of its scope.
LEMMA RowIsRow ==
  ASSUME NEW s \in Scopes, NEW p \in Nat, NEW data, data.kinds \in SUBSET Kinds,
         data.decision \in Decisions, NEW on \in BOOLEAN, NEW by \in Nat, NEW late \in BOOLEAN
  PROVE  /\ Row(s, p, data, on, by, late) \in Rows
         /\ Row(s, p, data, on, by, late).scope = s
         /\ Row(s, p, data, on, by, late).priority = p
         /\ Row(s, p, data, on, by, late).late = late
  BY DEF Row, Rows

\* A preset's rows are rows of the scope it is applied to, no two share a priority, and they are
\* late if the preset is.
LEMMA PresetsAreRows ==
  ASSUME NEW s \in Scopes, NEW preset \in Presets \cup {Seed}, NEW by \in Nat,
         NEW late \in BOOLEAN
  PROVE  /\ PresetRows(s, preset, by, late) \subseteq Rows
         /\ \A r \in PresetRows(s, preset, by, late) : r.scope = s /\ r.late = late
         /\ \A r, q \in PresetRows(s, preset, by, late) : r.priority = q.priority => r = q
<1>1. ASSUME NEW r \in PresetRows(s, preset, by, late)
      PROVE  /\ r \in Rows /\ r.scope = s /\ r.late = late
             /\ \E a \in preset : r = Row(s, a.priority, a, TRUE, by, late)
                                 /\ r.priority = a.priority
  <2>1. PICK a \in preset : r = Row(s, a.priority, a, TRUE, by, late)
    BY DEF PresetRows
  <2>2. a \in [priority : Nat, kinds : SUBSET Kinds, decision : Decisions]
    BY TableAssumption
  <2> QED
    BY <2>1, <2>2 DEF Row, Rows
<1>2. \A a, b \in preset : a.priority = b.priority => a = b
  BY TableAssumption
<1>3. ASSUME NEW r \in PresetRows(s, preset, by, late),
             NEW q \in PresetRows(s, preset, by, late), r.priority = q.priority
      PROVE  r = q
  <2>1. PICK a \in preset : /\ r = Row(s, a.priority, a, TRUE, by, late)
                            /\ r.priority = a.priority
    BY <1>1
  <2>2. PICK b \in preset : /\ q = Row(s, b.priority, b, TRUE, by, late)
                            /\ q.priority = b.priority
    BY <1>1
  <2>3. a = b
    BY <1>2, <1>3, <2>1, <2>2
  <2> QED
    BY <2>1, <2>2, <2>3
<1> QED
  BY <1>1, <1>3

\* What the first rules among some decide is a decision.
LEMMA FirstDecides ==
  ASSUME NEW some, some \subseteq Rows, NEW kind
  PROVE  First(some, kind) \subseteq Decisions
  BY DEF First, Rows, Decisions

\* So is what the table decides at one moment.
LEMMA InForceDecides ==
  ASSUME NEW T, T \subseteq Rows, NEW instance, NEW kind
  PROVE  InForce(T, instance, kind) \subseteq Decisions
<1>1. {r \in T : r.enabled /\ r.scope = instance} \subseteq Rows
  OBVIOUS
<1>2. {r \in T : r.enabled /\ r.scope = Global} \subseteq Rows
  OBVIOUS
<1> QED
  BY <1>1, <1>2, FirstDecides DEF InForce

\* The rows of one scope.
RowsOf(T, s) == {r \in T : r.scope = s}

\* A change of the table is one of the rows of one scope.
ChangesOneScope ==
  \E s \in Scopes : \A t \in Scopes : t # s => RowsOf(rules', t) = RowsOf(rules, t)

\* An edit keeps the types of rows and editors, and either leaves the rules alone or changes
\* those of one scope while the evaluations look on.
LEMMA EditTypes ==
  ASSUME Types, EditTable
  PROVE  /\ RulesOK' /\ EditorsOK'
         /\ UNCHANGED <<rules, evaluation>> \/ (Witnessed /\ ChangesOneScope)
<1> USE DEF Types, RulesOK, EditorsOK
<1>1. ASSUME NEW w \in Editors, NEW s \in Scopes, NEW d \in Data, NEW on \in BOOLEAN,
             Create(w, s, d, on)
      PROVE  RulesOK' /\ EditorsOK' /\ UNCHANGED <<rules, evaluation>>
  BY <1>1 DEF Create, Edit, Ranking, Editings
<1>2. ASSUME NEW w \in Editors, Rank(w)
      PROVE  RulesOK' /\ EditorsOK' /\ UNCHANGED <<rules, evaluation>>
  <2>1. editor[w] \in Ranking
    BY <1>2 DEF Rank, NoEdit, Ranking, Inserting, Replacing, Editings
  <2>2. PICK next \in NextPriority(editor[w].scope) :
          editor' = [editor EXCEPT ![w] =
            [at |-> "insert", scope |-> @.scope, data |-> @.data, on |-> @.on, by |-> @.by,
             priority |-> next, late |-> FALSE]]
    BY <1>2 DEF Rank
  <2>3. next \in Nat
    BY <2>2 DEF NextPriority, OfScope, Rows
  <2>4. editor'[w] \in Inserting
    BY <2>1, <2>2, <2>3 DEF Ranking, Inserting
  <2> QED
    BY <1>2, <2>2, <2>4 DEF Rank, Editings
<1>3. ASSUME NEW s \in Scopes
      PROVE  Overtake(s) \in [Editors -> Editings]
  <2> SUFFICES ASSUME NEW x \in Editors, editor[x].at \in {"insert", "replace"}
               PROVE  [editor[x] EXCEPT !.late = TRUE] \in Inserting \cup Replacing
    BY DEF Overtake, Editings
  <2>1. editor[x] \in Inserting \/ editor[x] \in Replacing
    BY DEF NoEdit, Ranking, Inserting, Replacing, Editings
  <2> QED
    BY <2>1 DEF Inserting, Replacing
<1>4. ASSUME NEW w \in Editors, Insert(w)
      PROVE  RulesOK' /\ EditorsOK' /\ Witnessed /\ ChangesOneScope
  <2> DEFINE e == editor[w]
             row == Row(e.scope, e.priority, e.data, e.on, e.by, e.late)
  <2>1. e \in Inserting
    BY <1>4 DEF Insert, NoEdit, Ranking, Inserting, Replacing, Editings
  <2>2. e.data.kinds \in SUBSET Kinds /\ e.data.decision \in Decisions /\ e.scope \in Scopes
    BY <2>1, TableAssumption DEF Inserting, Data
  <2>3. row \in Rows /\ row.scope = e.scope
    BY <2>1, <2>2, RowIsRow DEF Inserting
  <2>4. rules' = rules \cup {row} /\ editor' = [Overtake(e.scope) EXCEPT ![w] = NoEdit]
        /\ edits' = edits /\ Witnessed
    BY <1>4 DEF Insert
  <2>5. EditorsOK'
    BY <1>3, <2>2, <2>4 DEF Editings
  <2> HIDE DEF row, e
  <2>6. ChangesOneScope
    BY <2>2, <2>3, <2>4 DEF ChangesOneScope, RowsOf
  <2> QED
    BY <2>3, <2>4, <2>5, <2>6
<1>5. ASSUME NEW r \in rules, NEW d \in Data, NEW on \in BOOLEAN, Update(r, d, on)
      PROVE  RulesOK' /\ EditorsOK' /\ Witnessed /\ ChangesOneScope
  <2> DEFINE row == [r EXCEPT !.kinds = d.kinds, !.decision = d.decision, !.enabled = on]
  <2>1. r \in Rows
    OBVIOUS
  <2>2. d.kinds \in SUBSET Kinds /\ d.decision \in Decisions
    BY TableAssumption DEF Data
  <2>3. row \in Rows /\ row.scope = r.scope
    BY <2>1, <2>2 DEF Rows
  <2>4. /\ rules' = (rules \ {r}) \cup {row} /\ editor' = editor /\ edits' \in Nat
        /\ Witnessed
    BY <1>5 DEF Update, Edit
  <2>5. r.scope \in Scopes
    BY <2>1 DEF Rows
  <2> HIDE DEF row
  <2> QED
    BY <2>3, <2>4, <2>5 DEF ChangesOneScope, RowsOf
<1>6. ASSUME NEW r \in rules, Delete(r)
      PROVE  RulesOK' /\ EditorsOK' /\ Witnessed /\ ChangesOneScope
  <2>1. r.scope \in Scopes
    BY DEF Rows
  <2>2. rules' = rules \ {r} /\ editor' = editor /\ edits' \in Nat /\ Witnessed
    BY <1>6 DEF Delete, Edit
  <2> QED
    BY <2>1, <2>2 DEF ChangesOneScope, RowsOf
<1>7. ASSUME NEW w \in Editors, NEW s \in Scopes, NEW preset \in Presets,
             ApplyPreset(w, s, preset)
      PROVE  RulesOK' /\ EditorsOK' /\ UNCHANGED <<rules, evaluation>>
  <2> DEFINE e == [at |-> "replace", scope |-> s, preset |-> preset, by |-> edits',
                   found |-> {Key(r) : r \in OfScope(s)}, late |-> FALSE]
  <2>1. edits' \in Nat
    BY <1>7 DEF ApplyPreset, Edit
  <2>2. {Key(r) : r \in OfScope(s)} \subseteq Nat \X Nat
    BY DEF Key, OfScope, Rows
  <2>3. e \in Replacing
    BY <2>1, <2>2 DEF Replacing
  <2>4. editor' = [editor EXCEPT ![w] = e] /\ UNCHANGED <<rules, evaluation>>
    BY <1>7 DEF ApplyPreset
  <2> HIDE DEF e
  <2> QED
    BY <2>1, <2>3, <2>4 DEF Editings
<1>8. ASSUME NEW w \in Editors, Replace(w)
      PROVE  RulesOK' /\ EditorsOK' /\ Witnessed /\ ChangesOneScope
  <2> DEFINE e == editor[w]
             fresh == PresetRows(e.scope, e.preset, e.by, e.late)
             left == {r \in rules : r.scope = e.scope => Key(r) \notin e.found}
  <2>1. e \in Replacing
    BY <1>8 DEF Replace, NoEdit, Ranking, Inserting, Replacing, Editings
  <2>2. e.scope \in Scopes /\ fresh \subseteq Rows /\ \A r \in fresh : r.scope = e.scope
    BY <2>1, PresetsAreRows DEF Replacing
  <2>3. /\ rules' = left \cup fresh /\ editor' = [Overtake(e.scope) EXCEPT ![w] = NoEdit]
        /\ edits' = edits /\ Witnessed
    BY <1>8 DEF Replace
  <2>4. left \subseteq rules /\ \A r \in rules : r.scope # e.scope => r \in left
    OBVIOUS
  <2>5. EditorsOK'
    BY <1>3, <2>2, <2>3 DEF Editings
  <2> HIDE DEF fresh, left, e
  <2>6. ChangesOneScope
    BY <2>2, <2>3, <2>4 DEF ChangesOneScope, RowsOf
  <2> QED
    BY <2>2, <2>3, <2>4, <2>5, <2>6
<1> QED
  BY <1>1, <1>2, <1>4, <1>5, <1>6, <1>7, <1>8 DEF EditTable

\* What an evaluation under way becomes when the table changes.
LEMMA Witnesses ==
  ASSUME Types, RulesOK', Witnessed, NEW c \in Askers
  PROVE  /\ evaluation[c].stage \notin {"own", "global"} => evaluation'[c] = evaluation[c]
         /\ evaluation[c].stage \in {"own", "global"} =>
              /\ evaluation[c] \in Asking /\ evaluation'[c] \in Asking
              /\ \A field \in {"stage", "kind", "instance"} :
                   evaluation'[c][field] = evaluation[c][field]
              /\ evaluation'[c].seen = evaluation[c].seen \cup
                   InForce(rules', evaluation[c].instance, evaluation[c].kind)
              /\ evaluation'[c].turns =
                   IF rules' = rules \/ evaluation[c].turns = 2 THEN evaluation[c].turns
                   ELSE evaluation[c].turns + 1
<1>1. CASE evaluation[c].stage \notin {"own", "global"}
  BY <1>1 DEF Witnessed
<1>2. CASE evaluation[c].stage \in {"own", "global"}
  <2> DEFINE e == evaluation[c]
             now == InForce(rules', e.instance, e.kind)
             turns == IF rules' = rules \/ e.turns = 2 THEN e.turns ELSE e.turns + 1
  <2>1. e \in Asking
    BY <1>2 DEF Types, EvaluationsOK, NoAsk, Decided, Asking
  <2>2. now \subseteq Decisions
    BY InForceDecides DEF RulesOK
  <2>3. evaluation'[c] = [e EXCEPT !.seen = e.seen \cup now, !.turns = turns]
    BY <1>2 DEF Witnessed
  <2>4. turns \in 0 .. 2
    BY <2>1 DEF Asking
  <2> HIDE DEF now, turns, e
  <2>5. /\ evaluation'[c] \in Asking
        /\ \A field \in {"stage", "kind", "instance"} : evaluation'[c][field] = e[field]
        /\ evaluation'[c].seen = e.seen \cup now /\ evaluation'[c].turns = turns
    BY <2>1, <2>2, <2>3, <2>4 DEF Asking
  <2> QED
    BY <1>2, <2>1, <2>5 DEF e, now, turns
<1> QED
  BY <1>1, <1>2

\* What evaluations have seen keeps its type when the table changes.
LEMMA WitnessTypes ==
  ASSUME Types, RulesOK', Witnessed
  PROVE  EvaluationsOK'
<1>1. \A c \in Askers : evaluation'[c] \in {NoAsk} \cup Asking \cup Decided
  BY Witnesses DEF Types, EvaluationsOK
<1>2. evaluation' = [c \in Askers |-> evaluation'[c]]
  BY DEF Witnessed
<1> QED
  BY <1>1, <1>2 DEF EvaluationsOK

\* A call that asks, and what it has then seen.
LEMMA AskTypes ==
  ASSUME Types, NEW c \in Askers, NEW kind \in Kinds, NEW instance \in Scopes,
         Ask(c, kind, instance)
  PROVE  /\ EvaluationsOK'
         /\ evaluation'[c] = [stage |-> "own", kind |-> kind, instance |-> instance,
                              seen |-> InForce(rules, instance, kind), turns |-> 0]
         /\ \A d \in Askers : d # c => evaluation'[d] = evaluation[d]
<1> DEFINE e == [stage |-> "own", kind |-> kind, instance |-> instance,
                 seen |-> InForce(rules, instance, kind), turns |-> 0]
<1>1. e \in Asking
  BY InForceDecides DEF Types, RulesOK, Asking
<1>2. evaluation' = [evaluation EXCEPT ![c] = e]
  BY DEF Ask
<1> HIDE DEF e
<1>3. /\ EvaluationsOK' /\ evaluation'[c] = e
      /\ \A d \in Askers : d # c => evaluation'[d] = evaluation[d]
  BY <1>1, <1>2 DEF Types, EvaluationsOK
<1> QED
  BY <1>3 DEF e

\* The two reads of an evaluation: it goes on to the global rules when its instance has none,
\* or decides by the first of those it has read.
LEMMA ReadSteps ==
  ASSUME Types, NEW c \in Askers, ReadOwn(c) \/ ReadGlobal(c)
  PROVE  /\ EvaluationsOK'
         /\ evaluation[c] \in Asking
         /\ \A d \in Askers : d # c => evaluation'[d] = evaluation[d]
         /\ \/ /\ evaluation[c].stage = "own" /\ evaluation[c].instance # Global
               /\ EnabledRows(evaluation[c].instance) = {}
               /\ evaluation'[c] = [evaluation[c] EXCEPT !.stage = "global"]
               /\ evaluation'[c] \in Asking
            \/ \E d \in First(EnabledRows(
                   IF evaluation[c].stage = "own" THEN evaluation[c].instance ELSE Global),
                   evaluation[c].kind) :
                 /\ \/ evaluation[c].stage = "global"
                    \/ evaluation[c].instance = Global
                    \/ EnabledRows(evaluation[c].instance) # {}
                 /\ evaluation'[c] = [stage |-> "decided", decision |-> d,
                      seen |-> evaluation[c].seen, turns |-> evaluation[c].turns]
                 /\ evaluation'[c] \in Decided
<1> DEFINE e == evaluation[c]
           scope == IF e.stage = "own" THEN e.instance ELSE Global
<1>1. e \in Asking
  BY DEF ReadOwn, ReadGlobal, Types, EvaluationsOK, NoAsk, Decided, Asking
<1>2. CASE /\ e.stage = "own" /\ e.instance # Global /\ EnabledRows(e.instance) = {}
           /\ evaluation' = [evaluation EXCEPT ![c].stage = "global"]
  <2>1. evaluation' = [evaluation EXCEPT ![c] = [e EXCEPT !.stage = "global"]]
    BY <1>2
  <2>2. [e EXCEPT !.stage = "global"] \in Asking
    BY <1>1 DEF Asking
  <2> HIDE DEF e
  <2>3. /\ EvaluationsOK' /\ evaluation'[c] = [e EXCEPT !.stage = "global"]
        /\ \A d \in Askers : d # c => evaluation'[d] = evaluation[d]
    BY <2>1, <2>2 DEF Types, EvaluationsOK
  <2> QED
    BY <1>1, <1>2, <2>2, <2>3 DEF e
<1>3. ASSUME NEW d \in First(EnabledRows(scope), e.kind), Decide(c, d),
             e.stage = "global" \/ e.instance = Global \/ EnabledRows(e.instance) # {}
      PROVE  /\ EvaluationsOK'
             /\ evaluation'[c] = [stage |-> "decided", decision |-> d, seen |-> e.seen,
                                  turns |-> e.turns]
             /\ evaluation'[c] \in Decided
             /\ \A x \in Askers : x # c => evaluation'[x] = evaluation[x]
  <2>1. EnabledRows(scope) \subseteq Rows
    BY DEF EnabledRows, OfScope, Types, RulesOK
  <2>2. d \in Decisions
    BY <2>1, FirstDecides
  <2>3. [stage |-> "decided", decision |-> d, seen |-> e.seen, turns |-> e.turns] \in Decided
    BY <1>1, <2>2 DEF Asking, Decided
  <2>4. evaluation' = [evaluation EXCEPT ![c] =
          [stage |-> "decided", decision |-> d, seen |-> e.seen, turns |-> e.turns]]
    BY <1>3 DEF Decide
  <2> HIDE DEF e, scope
  <2> QED
    BY <2>3, <2>4 DEF Types, EvaluationsOK
<1>4. \/ /\ e.stage = "own" /\ e.instance # Global /\ EnabledRows(e.instance) = {}
         /\ evaluation' = [evaluation EXCEPT ![c].stage = "global"]
      \/ \E d \in First(EnabledRows(scope), e.kind) :
           /\ Decide(c, d)
           /\ e.stage = "global" \/ e.instance = Global \/ EnabledRows(e.instance) # {}
  BY DEF ReadOwn, ReadGlobal
<1> QED
  BY <1>1, <1>2, <1>3, <1>4

\* An answer ends an evaluation: the asker's decision is noted, and the reply fits it.
LEMMA AnswerSteps ==
  ASSUME Types, NEW c \in Askers, NEW who \in {"hook", "plugin"}, NEW reply,
         Answered(c, who, reply)
  PROVE  /\ EvaluationsOK' /\ evaluation'[c] = NoAsk
         /\ \A d \in Askers : d # c => evaluation'[d] = evaluation[d] /\ asked'[d] = asked[d]
         /\ asked' \in [Askers -> [hook : Answers, plugin : Answers]]
         /\ asked'[c][who] = evaluation[c].decision
         /\ who # "hook" => asked'[c].hook = asked[c].hook
         /\ reply = "EXECUTE" => asked'[c][who] = "ALLOW"
         /\ reply = "PENDING_APPROVAL" => asked'[c][who] = "APPROVE"
<1>1. evaluation[c] \in Decided /\ evaluation' = [evaluation EXCEPT ![c] = NoAsk]
  BY DEF Answered, Types, EvaluationsOK, NoAsk, Asking, Decided
<1>2. evaluation[c].decision \in Decisions /\ reply \in Replies(evaluation[c].decision)
  BY <1>1 DEF Decided, Answered
<1>3. /\ reply = "EXECUTE" => evaluation[c].decision = "ALLOW"
      /\ reply = "PENDING_APPROVAL" => evaluation[c].decision = "APPROVE"
  BY <1>2 DEF Replies, Decisions
<1>4. asked' = [asked EXCEPT ![c] = [asked[c] EXCEPT ![who] = evaluation[c].decision]]
  BY DEF Answered
<1>5. /\ [asked[c] EXCEPT ![who] = evaluation[c].decision] \in [hook : Answers, plugin : Answers]
      /\ [asked[c] EXCEPT ![who] = evaluation[c].decision][who] = evaluation[c].decision
      /\ who # "hook" => [asked[c] EXCEPT ![who] = evaluation[c].decision].hook = asked[c].hook
  BY <1>2 DEF Types, CallsOK, Answers
<1>6. EvaluationsOK' /\ evaluation'[c] = NoAsk
      /\ \A d \in Askers : d # c => evaluation'[d] = evaluation[d]
  BY <1>1 DEF Types, EvaluationsOK
<1> HIDE DEF Answered
<1>7. /\ asked' \in [Askers -> [hook : Answers, plugin : Answers]]
      /\ asked'[c] = [asked[c] EXCEPT ![who] = evaluation[c].decision]
      /\ \A d \in Askers : d # c => asked'[d] = asked[d]
  BY <1>4, <1>5 DEF Types, CallsOK
<1> QED
  BY <1>3, <1>5, <1>6, <1>7

\* The parts of a step: an edit, a call that starts to ask, a read, an answer, or the rest.
CallStep(c) ==
  \/ \E reply \in {"EXECUTE", "DENY", "PENDING_APPROVAL", "error"} :
       HookAnswered(c, reply) \/ PluginAnswered(c, reply)
  \/ \E verdict \in {"APPROVED", "DENIED"} : Resolve(c, verdict)
  \/ RunTool(c) \/ Poll(c) \/ ReportResult(c)

AskStep(c) ==
  \E kind \in Kinds, instance \in Scopes :
    \/ \E plugins \in BOOLEAN : ToolStart(c, plugins, kind, instance)
    \/ AskAgain(c, kind, instance)

\* A step is one of a call, of an operator, or none.
LEMMA StepKinds ==
  ASSUME [Next]_vars
  PROVE  \/ EditTable /\ UNCHANGED call
         \/ \E c \in Askers : \/ AskStep(c)
                              \/ (ReadOwn(c) \/ ReadGlobal(c)) /\ UNCHANGED <<table, call>>
                              \/ CallStep(c)
         \/ UNCHANGED vars
  BY DEF Next, AskStep, CallStep, ReadOwn, ReadGlobal

\* A call that starts to ask leaves the table alone and moves to the point of its asker.
LEMMA AskCalls ==
  ASSUME Types, NEW c \in Askers, AskStep(c)
  PROVE  /\ UNCHANGED <<table, asked, review, performed>>
         /\ \E kind \in Kinds, instance \in Scopes : Ask(c, kind, instance)
         /\ \/ /\ pc[c] = "idle" /\ pc' = [pc EXCEPT ![c] = "hook"]
               /\ \E plugins \in BOOLEAN : gated' = [gated EXCEPT ![c] = plugins]
            \/ /\ pc[c] = "tool" /\ pc' = [pc EXCEPT ![c] = "plugin"]
               /\ gated[c] /\ gated' = gated
  BY DEF AskStep, ToolStart, AskAgain, GoTo

\* Every other step of a call leaves the table alone, moves the call alone, and asks nothing.
LEMMA CallSteps ==
  ASSUME Types, NEW c \in Askers, CallStep(c)
  PROVE  /\ UNCHANGED <<table, gated>>
         /\ EvaluationsOK' /\ CallsOK'
         /\ \A d \in Askers : d # c => evaluation'[d] = evaluation[d]
         /\ evaluation'[c] \in {evaluation[c], NoAsk}
<1> USE DEF Types, CallsOK
<1>1. ASSUME NEW reply, HookAnswered(c, reply) \/ PluginAnswered(c, reply)
      PROVE  /\ UNCHANGED <<table, gated>>
             /\ EvaluationsOK' /\ CallsOK'
             /\ \A d \in Askers : d # c => evaluation'[d] = evaluation[d]
             /\ evaluation'[c] = NoAsk
  <2>1. PICK who \in {"hook", "plugin"} : Answered(c, who, reply)
    BY <1>1 DEF HookAnswered, PluginAnswered
  <2>2. /\ EvaluationsOK' /\ evaluation'[c] = NoAsk
        /\ \A d \in Askers : d # c => evaluation'[d] = evaluation[d]
        /\ asked' \in [Askers -> [hook : Answers, plugin : Answers]]
    BY <2>1, AnswerSteps
  <2>3. UNCHANGED <<table, gated>>
    BY <1>1 DEF HookAnswered, PluginAnswered
  <2>4. /\ \E point \in Points : pc' = [pc EXCEPT ![c] = point]
        /\ review' = review \/ review' = [review EXCEPT ![c] = "PENDING"]
        /\ performed' = performed \/ performed' = [performed EXCEPT ![c] = TRUE]
    BY <1>1 DEF HookAnswered, PluginAnswered, Perform, Say, GoTo, Points
  <2> QED
    BY <2>2, <2>3, <2>4
<1>2. ASSUME NEW verdict \in {"APPROVED", "DENIED"}, Resolve(c, verdict)
      PROVE  UNCHANGED <<table, gated, evaluation>> /\ CallsOK'
  BY <1>2 DEF Resolve
<1>3. CASE RunTool(c) \/ Poll(c) \/ ReportResult(c)
  <2>1. /\ UNCHANGED <<table, gated, evaluation, asked, review>>
        /\ \E point \in Points : pc' = [pc EXCEPT ![c] = point]
        /\ performed' = performed \/ performed' = [performed EXCEPT ![c] = TRUE]
    BY <1>3 DEF RunTool, Poll, ReportResult, Perform, Say, GoTo, Points
  <2> QED
    BY <2>1 DEF EvaluationsOK
<1> QED
  BY <1>1, <1>2, <1>3 DEF CallStep, EvaluationsOK

\* Every step keeps the types.
LEMMA TypesStep == Types /\ [Next]_vars => Types'
<1> SUFFICES ASSUME Types, [Next]_vars PROVE Types'
  OBVIOUS
<1>1. CASE EditTable /\ UNCHANGED call
  BY <1>1, EditTypes, WitnessTypes DEF Types, EvaluationsOK, CallsOK, call
<1>2. ASSUME NEW c \in Askers, AskStep(c) PROVE Types'
  <2>1. EvaluationsOK'
    BY <1>2, AskCalls, AskTypes
  <2>2. RulesOK' /\ EditorsOK' /\ CallsOK'
    BY <1>2, AskCalls DEF table, Types, RulesOK, EditorsOK, CallsOK, Points
  <2> QED
    BY <2>1, <2>2 DEF Types
<1>3. ASSUME NEW c \in Askers, (ReadOwn(c) \/ ReadGlobal(c)) /\ UNCHANGED <<table, call>>
      PROVE  Types'
  BY <1>3, ReadSteps DEF table, call, Types, RulesOK, EditorsOK, CallsOK
<1>4. ASSUME NEW c \in Askers, CallStep(c) PROVE Types'
  BY <1>4, CallSteps DEF table, Types, RulesOK, EditorsOK
<1>5. CASE UNCHANGED vars
  BY <1>5 DEF vars, table, call, Types, RulesOK, EditorsOK, EvaluationsOK, CallsOK
<1> QED
  BY <1>1, <1>2, <1>3, <1>4, <1>5, StepKinds

\* The types hold at first.
LEMMA TypesInit == Init => Types
<1> SUFFICES ASSUME Init PROVE Types
  OBVIOUS
<1>1. RulesOK
  BY PresetsAreRows DEF Init, TableInit, RulesOK, Scopes
<1>2. /\ editor = [w \in Editors |-> NoEdit] /\ edits = 0
      /\ evaluation = [c \in Askers |-> NoAsk]
  BY Zenon DEF Init, TableInit
<1>3. EditorsOK /\ EvaluationsOK
  BY <1>2 DEF EditorsOK, Editings, EvaluationsOK
<1>4. CallsOK
  BY Zenon DEF Init, CallsOK, Points, Answers
<1> QED
  BY <1>1, <1>3, <1>4 DEF Types

\* The rows, the requests, the evaluations and the calls have their types.
THEOREM TypesHold == Spec => []Types
<1> QED
  BY TypesInit, TypesStep, PTL DEF Spec

-----------------------------------------------------------------------------
(* Nothing runs that has not been let pass                                 *)

\* What the Gate has said of a call by the time it has reached a point.
Passed ==
  /\ PerformedPassedTwice
  /\ \A c \in Askers :
       /\ performed[c] => pc[c] \in {"report", "done"}
       /\ pc[c] \in {"tool", "plugin", "poll"} => asked[c].hook = "ALLOW"
       /\ pc[c] \in {"plugin", "poll"} => gated[c]
       /\ pc[c] = "poll" => asked[c].plugin = "APPROVE"

\* The steps of a call keep what was answered by the point it has reached.
LEMMA PassedCall ==
  ASSUME Types, Passed, NEW c \in Askers, CallStep(c)
  PROVE  Passed'
<1> USE DEF Types, CallsOK
<1>1. ASSUME NEW reply, HookAnswered(c, reply) PROVE Passed'
  <2>1. Answered(c, "hook", reply) /\ pc[c] = "hook"
    BY <1>1 DEF HookAnswered, Answered
  <2>2. /\ \A d \in Askers : d # c => asked'[d] = asked[d]
        /\ reply = "EXECUTE" => asked'[c].hook = "ALLOW"
    BY <2>1, AnswerSteps
  <2>3. /\ pc' = [pc EXCEPT ![c] = IF reply # "EXECUTE" THEN "blocked" ELSE "tool"]
        /\ UNCHANGED <<gated, review, performed>>
    BY <1>1 DEF HookAnswered, GoTo, Stops
  <2>4. ~performed[c]
    BY <2>1 DEF Passed
  <2>5. /\ pc'[c] = IF reply # "EXECUTE" THEN "blocked" ELSE "tool"
        /\ \A d \in Askers : d # c => pc'[d] = pc[d]
    BY <2>3
  <2> QED
    BY <2>2, <2>3, <2>4, <2>5 DEF Passed, PerformedPassedTwice
<1>2. ASSUME NEW reply, PluginAnswered(c, reply) PROVE Passed'
  <2>1. Answered(c, "plugin", reply) /\ pc[c] = "plugin"
    BY <1>2 DEF PluginAnswered, Answered
  <2>2. /\ \A d \in Askers : d # c => asked'[d] = asked[d]
        /\ asked'[c].hook = asked[c].hook
        /\ reply = "EXECUTE" => asked'[c].plugin = "ALLOW"
        /\ reply = "PENDING_APPROVAL" => asked'[c].plugin = "APPROVE"
    BY <2>1, AnswerSteps
  <2>3. ~performed[c] /\ gated[c] /\ asked[c].hook = "ALLOW"
    BY <2>1 DEF Passed
  <2>4. /\ gated' = gated
        /\ \/ /\ reply = "EXECUTE" /\ pc' = [pc EXCEPT ![c] = "report"]
              /\ performed' = [performed EXCEPT ![c] = TRUE] /\ review' = review
           \/ /\ pc' = [pc EXCEPT ![c] = "report"] /\ UNCHANGED <<review, performed>>
           \/ /\ reply = "PENDING_APPROVAL" /\ pc' = [pc EXCEPT ![c] = "poll"]
              /\ review' = [review EXCEPT ![c] = "PENDING"] /\ performed' = performed
    BY <1>2 DEF PluginAnswered, Perform, Say, GoTo
  <2>5. /\ \A d \in Askers : d # c =>
             pc'[d] = pc[d] /\ performed'[d] = performed[d] /\ review'[d] = review[d]
        /\ \/ reply = "EXECUTE" /\ pc'[c] = "report"
           \/ pc'[c] = "report" /\ ~performed'[c]
           \/ reply = "PENDING_APPROVAL" /\ pc'[c] = "poll" /\ ~performed'[c]
    BY <2>3, <2>4
  <2> QED
    BY <2>2, <2>3, <2>4, <2>5 DEF Passed, PerformedPassedTwice
<1>3. ASSUME NEW verdict \in {"APPROVED", "DENIED"}, Resolve(c, verdict) PROVE Passed'
  <2>1. /\ review[c] = "PENDING" /\ review' = [review EXCEPT ![c] = verdict]
        /\ UNCHANGED <<pc, gated, asked, performed>>
    BY <1>3 DEF Resolve
  <2>2. \A d \in Askers : review[d] = "APPROVED" => review'[d] = "APPROVED"
    BY <2>1
  <2> QED
    BY <2>1, <2>2 DEF Passed, PerformedPassedTwice
<1>4. CASE RunTool(c)
  <2>1. /\ pc[c] = "tool" /\ ~gated[c] /\ pc' = [pc EXCEPT ![c] = "report"]
        /\ performed' = [performed EXCEPT ![c] = TRUE] /\ UNCHANGED <<gated, asked, review>>
    BY <1>4 DEF RunTool, Perform, Say, GoTo
  <2> QED
    BY <2>1 DEF Passed, PerformedPassedTwice
<1>5. CASE Poll(c)
  <2>1. /\ pc[c] = "poll" /\ pc' = [pc EXCEPT ![c] = "report"] /\ UNCHANGED <<gated, asked, review>>
        /\ \/ review[c] = "APPROVED" /\ performed' = [performed EXCEPT ![c] = TRUE]
           \/ performed' = performed
    BY <1>5 DEF Poll, Perform, Say, GoTo
  <2> QED
    BY <2>1 DEF Passed, PerformedPassedTwice
<1>6. CASE ReportResult(c)
  <2>1. /\ pc[c] = "report" /\ pc' = [pc EXCEPT ![c] = "done"]
        /\ UNCHANGED <<gated, asked, review, performed>>
    BY <1>6 DEF ReportResult, GoTo
  <2> QED
    BY <2>1 DEF Passed, PerformedPassedTwice
<1> QED
  BY <1>1, <1>2, <1>3, <1>4, <1>5, <1>6 DEF CallStep

\* So does every step.
LEMMA PassedStep == Types /\ Passed /\ [Next]_vars => Passed'
<1> SUFFICES ASSUME Types, Passed, [Next]_vars PROVE Passed'
  OBVIOUS
<1>1. ASSUME NEW c \in Askers, AskStep(c) PROVE Passed'
  <2>1. /\ UNCHANGED <<asked, review, performed>>
        /\ \A d \in Askers : d # c => pc'[d] = pc[d] /\ gated'[d] = gated[d]
        /\ \/ pc[c] = "idle" /\ pc'[c] = "hook"
           \/ pc[c] = "tool" /\ pc'[c] = "plugin" /\ gated'[c] = gated[c] /\ gated[c]
    BY <1>1, AskCalls DEF Types, CallsOK
  <2> QED
    BY <2>1 DEF Passed, PerformedPassedTwice
<1>2. ASSUME UNCHANGED call PROVE Passed'
  BY <1>2 DEF call, Passed, PerformedPassedTwice
<1> QED
  BY <1>1, <1>2, PassedCall, StepKinds DEF vars

\* A tool runs only after the policy allowed the call when the hook asked, and, if it is one of
\* the plugin's, allowed it again or was answered by a reviewer's approval.
THEOREM PerformedHasPassed == Spec => []PerformedPassedTwice
<1>1. Init => Passed
  BY DEF Init, Passed, PerformedPassedTwice
<1>2. Passed => PerformedPassedTwice
  BY DEF Passed
<1> QED
  BY <1>1, <1>2, TypesInit, TypesStep, PassedStep, PTL DEF Spec

-----------------------------------------------------------------------------
(* A decision was in force                                                 *)

\* The enabled rows of a scope.
On(T, s) == {r \in T : r.enabled /\ r.scope = s}

\* What an evaluation has seen of the table.
Sees(e) ==
  /\ e.stage \in {"own", "global"} => InForce(rules, e.instance, e.kind) \subseteq e.seen
  /\ e.stage = "global" =>
       /\ e.instance # Global
       /\ e.turns = 0 => On(rules, e.instance) = {}
       /\ e.turns <= 1 => First(On(rules, Global), e.kind) \subseteq e.seen
  /\ e.stage = "decided" /\ e.turns <= 1 => e.decision \in e.seen

InView == \A c \in Askers : Sees(evaluation[c])

\* The rules of the instance, if it has any that is enabled, override the global ones.
LEMMA InForceIs ==
  ASSUME NEW T, NEW instance, NEW kind
  PROVE  InForce(T, instance, kind) =
           First(IF On(T, instance) = {} THEN On(T, Global) ELSE On(T, instance), kind)
  BY DEF InForce, On

\* An evaluation that is under way while the rules of one scope change goes on to see.
LEMMA SeesEdit ==
  ASSUME Types, RulesOK', Witnessed, ChangesOneScope, NEW c \in Askers, Sees(evaluation[c])
  PROVE  Sees(evaluation[c])'
<1>1. CASE evaluation[c].stage \notin {"own", "global"}
  BY <1>1, Witnesses DEF Sees
<1>2. CASE evaluation[c].stage \in {"own", "global"}
  <2> DEFINE e == evaluation[c]
             f == evaluation'[c]
             now == InForce(rules', e.instance, e.kind)
  <2>1. /\ e \in Asking /\ f \in Asking
        /\ f.stage = e.stage /\ f.kind = e.kind /\ f.instance = e.instance
        /\ f.seen = e.seen \cup now
        /\ f.turns = IF rules' = rules \/ e.turns = 2 THEN e.turns ELSE e.turns + 1
    BY <1>2, Witnesses
  <2>2. InForce(rules', f.instance, f.kind) \subseteq f.seen
    BY <2>1
  <2>3. e.instance \in Scopes /\ Global \in Scopes /\ e.turns \in 0 .. 2
    BY <2>1 DEF Asking, Scopes
  <2>4. ASSUME e.stage = "global", f.turns <= 1
        PROVE  First(On(rules', Global), e.kind) \subseteq f.seen
    <3>1. First(On(rules, Global), e.kind) \subseteq e.seen
      BY <2>1, <2>3, <2>4 DEF Sees
    <3>2. CASE On(rules', Global) = On(rules, Global)
      BY <2>1, <3>1, <3>2
    <3>3. CASE On(rules', Global) # On(rules, Global)
      <4>1. rules' # rules /\ e.turns = 0 /\ e.instance # Global
        BY <2>1, <2>3, <2>4, <3>3 DEF Sees
      <4>2. On(rules', e.instance) = On(rules, e.instance)
        BY <2>3, <3>3, <4>1 DEF ChangesOneScope, On, RowsOf
      <4>3. On(rules, e.instance) = {}
        BY <2>4, <4>1 DEF Sees
      <4>4. now = First(On(rules', Global), e.kind)
        BY <4>2, <4>3, InForceIs
      <4> QED
        BY <2>1, <4>4
    <3> QED
      BY <3>2, <3>3
  <2>5. ASSUME e.stage = "global", f.turns = 0
        PROVE  On(rules', e.instance) = {}
    <3>1. rules' = rules /\ e.turns = 0
      BY <2>1, <2>3, <2>5
    <3> QED
      BY <2>5, <3>1 DEF Sees
  <2>6. e.stage = "global" => e.instance # Global
    BY DEF Sees
  <2> HIDE DEF now
  <2> QED
    BY <1>2, <2>1, <2>2, <2>4, <2>5, <2>6 DEF Sees
<1> QED
  BY <1>1, <1>2

\* A read that finds no rule of the instance, and one that decides.
LEMMA SeesRead ==
  ASSUME Types, NEW c \in Askers, Sees(evaluation[c]), ReadOwn(c) \/ ReadGlobal(c), rules' = rules
  PROVE  Sees(evaluation[c])'
<1> DEFINE e == evaluation[c]
           f == evaluation'[c]
<1>1. \A s : EnabledRows(s) = On(rules, s)
  BY DEF EnabledRows, OfScope, On
<1>2. e \in Asking /\ e.turns \in 0 .. 2
  BY ReadSteps DEF Asking
<1>3. CASE /\ e.stage = "own" /\ e.instance # Global /\ EnabledRows(e.instance) = {}
           /\ f = [e EXCEPT !.stage = "global"] /\ f \in Asking
  <2>1. /\ f.stage = "global" /\ f.kind = e.kind /\ f.instance = e.instance /\ f.seen = e.seen
        /\ f.turns = e.turns
    BY <1>2, <1>3 DEF Asking
  <2>2. On(rules, e.instance) = {} /\ InForce(rules, e.instance, e.kind) \subseteq e.seen
    BY <1>1, <1>3 DEF Sees
  <2>3. First(On(rules, Global), e.kind) \subseteq e.seen
    BY <2>2, InForceIs
  <2>4. InForce(rules', f.instance, f.kind) \subseteq f.seen
    BY <2>1, <2>2
  <2> QED
    BY <1>3, <2>1, <2>2, <2>3, <2>4 DEF Sees
<1>4. ASSUME NEW d \in First(EnabledRows(IF e.stage = "own" THEN e.instance ELSE Global), e.kind),
             e.stage = "global" \/ e.instance = Global \/ EnabledRows(e.instance) # {},
             f = [stage |-> "decided", decision |-> d, seen |-> e.seen, turns |-> e.turns]
      PROVE  Sees(evaluation[c])'
  <2>1. f.stage = "decided" /\ f.decision = d /\ f.seen = e.seen /\ f.turns = e.turns
    BY <1>4
  <2>2. ASSUME e.turns <= 1 PROVE d \in e.seen
    <3>1. CASE e.stage = "global"
      BY <1>1, <1>4, <2>2, <3>1 DEF Sees
    <3>2. CASE e.stage = "own"
      <4>1. InForce(rules, e.instance, e.kind) \subseteq e.seen
        BY <3>2 DEF Sees
      <4>2. d \in First(On(rules, e.instance), e.kind)
        BY <1>1, <1>4, <3>2
      <4>3. e.instance = Global \/ On(rules, e.instance) # {}
        BY <1>1, <1>4, <3>2
      <4>4. InForce(rules, e.instance, e.kind) = First(On(rules, e.instance), e.kind)
        BY <4>3, InForceIs
      <4> QED
        BY <4>1, <4>2, <4>4
    <3> QED
      BY <1>2, <3>1, <3>2 DEF Asking
  <2> QED
    BY <2>1, <2>2 DEF Sees
<1> QED
  BY <1>3, <1>4, ReadSteps

\* Every step keeps what evaluations have seen of the table.
LEMMA InViewStep == Types /\ InView /\ [Next]_vars => InView'
<1> SUFFICES ASSUME Types, InView, [Next]_vars, NEW c \in Askers PROVE Sees(evaluation[c])'
  BY DEF InView
<1> USE DEF InView
<1>1. ASSUME rules' = rules, evaluation'[c] = evaluation[c] PROVE Sees(evaluation[c])'
  BY <1>1 DEF Sees
<1>2. CASE EditTable /\ UNCHANGED call
  BY <1>1, <1>2, EditTypes, SeesEdit
<1>3. ASSUME NEW d \in Askers, AskStep(d) PROVE Sees(evaluation[c])'
  <2>1. PICK kind \in Kinds, instance \in Scopes : Ask(d, kind, instance) /\ rules' = rules
    BY <1>3, AskCalls DEF table
  <2>2. CASE d = c
    <3>1. evaluation'[c] = [stage |-> "own", kind |-> kind, instance |-> instance,
                            seen |-> InForce(rules, instance, kind), turns |-> 0]
      BY <2>1, <2>2, AskTypes
    <3> QED
      BY <2>1, <3>1 DEF Sees
  <2>3. CASE d # c
    BY <1>1, <2>1, <2>3, AskTypes
  <2> QED
    BY <2>2, <2>3
<1>4. ASSUME NEW d \in Askers, (ReadOwn(d) \/ ReadGlobal(d)) /\ UNCHANGED <<table, call>>
      PROVE  Sees(evaluation[c])'
  <2>1. rules' = rules
    BY <1>4 DEF table
  <2>2. CASE d = c
    BY <1>4, <2>1, <2>2, SeesRead
  <2>3. CASE d # c
    BY <1>1, <1>4, <2>1, <2>3, ReadSteps
  <2> QED
    BY <2>2, <2>3
<1>5. ASSUME NEW d \in Askers, CallStep(d) PROVE Sees(evaluation[c])'
  <2>1. rules' = rules /\ (evaluation'[c] = evaluation[c] \/ evaluation'[c] = NoAsk)
    BY <1>5, CallSteps DEF table
  <2> QED
    BY <1>1, <2>1 DEF Sees, NoAsk
<1>6. CASE UNCHANGED vars
  BY <1>1, <1>6 DEF vars, table
<1> QED
  BY <1>2, <1>3, <1>4, <1>5, <1>6, StepKinds

\* A call during whose evaluation the table changed at most once gets a decision that the
\* table held, as a whole, at some moment of the evaluation.
THEOREM DecisionsWereInForce == Spec => []DecisionWasInForce
<1>1. Init => InView
  <2>1. Init => evaluation = [c \in Askers |-> NoAsk]
    BY Zenon DEF Init, TableInit
  <2> QED
    BY <2>1 DEF InView, Sees, NoAsk
<1>2. InView => DecisionWasInForce
  BY DEF InView, Sees, DecisionWasInForce
<1> QED
  BY <1>1, <1>2, TypesInit, TypesStep, InViewStep, PTL DEF Spec

-----------------------------------------------------------------------------
(* Priorities                                                              *)

\* The priority of a creation that is not late is above all of its scope, and a preset that is not
\* late has found all of them.
Ranked ==
  /\ TiesNeedOverlap
  /\ \A w \in Editors : \A r \in rules :
       editor[w].at \in {"insert", "replace"} /\ ~editor[w].late /\ r.scope = editor[w].scope =>
         /\ editor[w].at = "insert" => r.priority < editor[w].priority
         /\ editor[w].at = "replace" => Key(r) \in editor[w].found

\* An edit ties nothing that is not late, and overtakes who has read the priorities before it.
LEMMA RankedEdit == Types /\ Ranked /\ EditTable => Ranked'
<1> SUFFICES ASSUME Types, Ranked, EditTable PROVE Ranked'
  OBVIOUS
<1> USE DEF Types, RulesOK, EditorsOK
<1>1. ASSUME NEW w \in Editors, NEW s, NEW d, NEW on, Create(w, s, d, on) PROVE Ranked'
  <2>1. /\ rules' = rules /\ editor'[w].at = "rank"
        /\ \A x \in Editors : x # w => editor'[x] = editor[x]
    BY <1>1 DEF Create
  <2> QED
    BY <2>1 DEF Ranked, TiesNeedOverlap
<1>2. ASSUME NEW w \in Editors, Rank(w) PROVE Ranked'
  <2>1. PICK next \in NextPriority(editor[w].scope) :
          editor' = [editor EXCEPT ![w] =
            [at |-> "insert", scope |-> @.scope, data |-> @.data, on |-> @.on, by |-> @.by,
             priority |-> next, late |-> FALSE]]
    BY <1>2 DEF Rank
  <2>2. \A r \in rules : r.scope = editor[w].scope => r.priority < next
    BY <2>1 DEF NextPriority, OfScope, Rows
  <2>3. /\ rules' = rules /\ editor'[w].scope = editor[w].scope /\ editor'[w].priority = next
        /\ editor'[w].at = "insert"
        /\ \A x \in Editors : x # w => editor'[x] = editor[x]
    BY <1>2, <2>1 DEF Rank
  <2> QED
    BY <2>2, <2>3 DEF Ranked, TiesNeedOverlap
<1>3. ASSUME NEW s \in Scopes, NEW x \in Editors, editor'[x] = Overtake(s)[x],
             editor'[x].at \in {"insert", "replace"}, ~editor'[x].late
      PROVE  editor'[x] = editor[x] /\ editor[x].scope # s
  <2>1. editor[x].at \in {"insert", "replace"} =>
          editor[x] \in Inserting \/ editor[x] \in Replacing
    BY DEF NoEdit, Ranking, Inserting, Replacing, Editings
  <2>2. editor[x].at \in {"insert", "replace"} /\ editor[x].scope = s => editor'[x].late
    BY <1>3, <2>1 DEF Overtake, Inserting, Replacing
  <2> QED
    BY <1>3, <2>2 DEF Overtake
<1>4. ASSUME NEW w \in Editors, NEW s \in Scopes, editor' = [Overtake(s) EXCEPT ![w] = NoEdit],
             TiesNeedOverlap', \A r \in rules' : r.scope # s => r \in rules
      PROVE  Ranked'
  <2>1. editor'[w] = NoEdit /\ \A x \in Editors : x # w => editor'[x] = Overtake(s)[x]
    BY <1>4 DEF Overtake
  <2>2. ASSUME NEW x \in Editors, editor'[x].at \in {"insert", "replace"}, ~editor'[x].late
        PROVE  editor'[x] = editor[x] /\ editor[x].scope # s
    BY <1>3, <2>1, <2>2 DEF NoEdit
  <2> QED
    BY <1>4, <2>2 DEF Ranked
<1>5. ASSUME NEW w \in Editors, Insert(w) PROVE Ranked'
  <2> DEFINE e == editor[w]
             row == Row(e.scope, e.priority, e.data, e.on, e.by, e.late)
  <2>1. e \in Inserting
    BY <1>5 DEF Insert, NoEdit, Ranking, Inserting, Replacing, Editings
  <2>2. e.data.kinds \in SUBSET Kinds /\ e.data.decision \in Decisions /\ e.scope \in Scopes
    BY <2>1, TableAssumption DEF Inserting, Data
  <2>3. row.scope = e.scope /\ row.priority = e.priority /\ row.late = e.late
    BY <2>1, <2>2, RowIsRow DEF Inserting
  <2>4. rules' = rules \cup {row} /\ editor' = [Overtake(e.scope) EXCEPT ![w] = NoEdit]
    BY <1>5 DEF Insert
  <2>5. ~e.late => \A r \in rules : r.scope = e.scope => r.priority < e.priority
    BY <1>5 DEF Insert, Ranked
  <2>6. e.priority \in Nat /\ \A r \in rules : r.priority \in Nat
    BY <2>1 DEF Rows, Inserting
  <2> HIDE DEF row, e
  <2>7. TiesNeedOverlap'
    BY <2>3, <2>4, <2>5, <2>6 DEF Ranked, TiesNeedOverlap
  <2> QED
    BY <1>4, <2>2, <2>3, <2>4, <2>7
<1>6. ASSUME NEW r \in rules, NEW d, NEW on, Update(r, d, on) PROVE Ranked'
  <2>1. PICK row : /\ rules' = (rules \ {r}) \cup {row} /\ row.scope = r.scope
                   /\ row.priority = r.priority /\ row.late = r.late /\ row.by = r.by
    <3> DEFINE row == [r EXCEPT !.kinds = d.kinds, !.decision = d.decision, !.enabled = on]
    <3>1. r \in Rows /\ rules' = (rules \ {r}) \cup {row}
      BY <1>6 DEF Update
    <3>2. /\ row.scope = r.scope /\ row.priority = r.priority /\ row.late = r.late
          /\ row.by = r.by
      BY <3>1 DEF Rows
    <3> QED
      BY <3>1, <3>2
  <2>2. editor' = editor
    BY <1>6 DEF Update
  <2>3. TiesNeedOverlap'
    BY <2>1 DEF Ranked, TiesNeedOverlap
  <2> QED
    BY <2>1, <2>2, <2>3 DEF Ranked, Key
<1>7. ASSUME NEW r \in rules, Delete(r) PROVE Ranked'
  BY <1>7 DEF Delete, Ranked, TiesNeedOverlap
<1>8. ASSUME NEW w \in Editors, NEW s \in Scopes, NEW preset, ApplyPreset(w, s, preset)
      PROVE  Ranked'
  <2>1. /\ rules' = rules /\ editor'[w].at = "replace" /\ editor'[w].scope = s
        /\ editor'[w].found = {Key(r) : r \in OfScope(s)}
        /\ \A x \in Editors : x # w => editor'[x] = editor[x]
    BY <1>8 DEF ApplyPreset
  <2> QED
    BY <2>1 DEF Ranked, TiesNeedOverlap, OfScope
<1>9. ASSUME NEW w \in Editors, Replace(w) PROVE Ranked'
  <2> DEFINE e == editor[w]
             fresh == PresetRows(e.scope, e.preset, e.by, e.late)
             left == {r \in rules : r.scope = e.scope => Key(r) \notin e.found}
  <2>1. e \in Replacing
    BY <1>9 DEF Replace, NoEdit, Ranking, Inserting, Replacing, Editings
  <2>2. /\ e.scope \in Scopes
        /\ \A r \in fresh : r.scope = e.scope /\ r.late = e.late
        /\ \A r, q \in fresh : r.priority = q.priority => r = q
    BY <2>1, PresetsAreRows DEF Replacing
  <2>3. rules' = left \cup fresh /\ editor' = [Overtake(e.scope) EXCEPT ![w] = NoEdit]
    BY <1>9 DEF Replace
  <2>4. left \subseteq rules /\ (~e.late => \A r \in left : r.scope # e.scope)
    BY <1>9 DEF Replace, Ranked
  <2>5. e.late \in BOOLEAN
    BY <2>1 DEF Replacing
  <2> HIDE DEF fresh, left, e
  <2>6. TiesNeedOverlap'
    BY <2>2, <2>3, <2>4, <2>5 DEF Ranked, TiesNeedOverlap
  <2> QED
    BY <1>4, <2>2, <2>3, <2>4, <2>6
<1> QED
  BY <1>1, <1>2, <1>5, <1>6, <1>7, <1>8, <1>9 DEF EditTable

\* Every step keeps the ranks.
LEMMA RankedStep == Types /\ Ranked /\ [Next]_vars => Ranked'
<1> SUFFICES ASSUME Types, Ranked, [Next]_vars PROVE Ranked'
  OBVIOUS
<1>1. ASSUME UNCHANGED table PROVE Ranked'
  BY <1>1 DEF table, Ranked, TiesNeedOverlap
<1>2. EditTable \/ UNCHANGED table
  <2>1. ASSUME NEW c \in Askers, AskStep(c) PROVE UNCHANGED table
    BY <2>1, AskCalls
  <2>2. ASSUME NEW c \in Askers, CallStep(c) PROVE UNCHANGED table
    BY <2>2, CallSteps
  <2> QED
    BY <2>1, <2>2, StepKinds DEF vars
<1> QED
  BY <1>1, <1>2, RankedEdit

\* Two rules of a scope have the same priority only if one of them was created by a request, a
\* creation or a preset, that rows of another overtook.
THEOREM TiesHaveOverlap == Spec => []TiesNeedOverlap
<1>1. Init => Ranked
  <2>1. \A r, q \in PresetRows(Global, Seed, 0, FALSE) : r.priority = q.priority => r = q
    BY PresetsAreRows DEF Scopes
  <2>2. Init => TiesNeedOverlap
    BY <2>1 DEF Init, TableInit, TiesNeedOverlap
  <2>3. Init => \A w \in Editors : editor[w].at = "idle"
    BY DEF Init, TableInit, NoEdit
  <2> QED
    BY <2>2, <2>3 DEF Ranked
<1>2. Ranked => TiesNeedOverlap
  BY DEF Ranked
<1> QED
  BY <1>1, <1>2, TypesInit, TypesStep, RankedStep, PTL DEF Spec
=============================================================================
