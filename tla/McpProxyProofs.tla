---------------------------- MODULE McpProxyProofs ----------------------------
(***************************************************************************)
(* Theorems about McpProxy for every number of servers, sessions, calls,   *)
(* messages handled at once, reloads, edits and failures: what is          *)
(* performed was permitted, it is performed once unless two checks         *)
(* overlapped, and a reload leaves tools, clients and configuration in     *)
(* agreement.                                                              *)
(*                                                                         *)
(* None of the properties is inductive.  PermitInv adds what the Gate has  *)
(* said about the call of a handler at each await, and that a call has one *)
(* handler that asks the Gate.  OnceInv follows the right to perform a     *)
(* call, which a call without overlapping checks has once: a handler has   *)
(* it, or the session's deferred calls, or it has been used.  ReloadInv    *)
(* says at each point of a reload what is still of the one before and what *)
(* is already of this one.                                                 *)
(***************************************************************************)
EXTENDS McpProxy, TLAPS

Permitted == {"allowed", "approved"}

\* What a handler of a call is doing.
Performing == {"upstream", "vault", "secure"}
Owning == Performing \cup {"gate"}

\* The types the calls need.
CallTypes ==
  /\ deferred \in [Sessions -> SUBSET Calls]
  /\ home \in [Calls -> Sessions \cup {Nothing}]
  /\ verdict \in [Calls -> {"none", "allowed", "refused", "pending", "approved", "denied", "expired"}]
  /\ pc \in [Handlers -> {"idle", "gate", "upstream", "vault", "secure", "ask"}]
  /\ about \in [Handlers -> Calls \cup {Nothing}]
  /\ performed \in [Calls -> Nat]
  /\ \A h \in Handlers : pc[h] # "idle" => about[h] \in Calls

\* What has been decided about the call of a handler.
Decided ==
  /\ \A h \in Handlers : pc[h] = "gate" => verdict[about[h]] = "none" /\ home[about[h]] # Nothing
  /\ \A g, h \in Handlers : pc[g] = "gate" /\ pc[h] = "gate" /\ about[g] = about[h] => g = h
  /\ \A h \in Handlers : pc[h] \in Performing => verdict[about[h]] \in Permitted
  /\ \A c \in Calls : home[c] = Nothing => verdict[c] = "none"

PermitInv == CallTypes /\ Decided /\ PerformedIsPermitted

\* A session holds the call c until a reviewer has decided.
Held(c) == \E x \in Sessions : c \in deferred[x]

\* The right to perform the call c is in one place.
Once(c) ==
  /\ \A g, h \in Handlers :
       pc[g] # "idle" /\ pc[h] # "idle" /\ about[g] = c /\ about[h] = c => g = h
  /\ \A h \in Handlers : pc[h] = "ask" /\ about[h] = c => Held(c)
  /\ \A h \in Handlers : pc[h] \in Owning /\ about[h] = c =>
       performed[c] = 0 /\ ~Held(c)
  /\ Held(c) => performed[c] = 0
  /\ performed[c] <= 1

Homes ==
  /\ \A h \in Handlers : pc[h] # "idle" => home[about[h]] \in Sessions
  /\ \A x \in Sessions, c \in Calls : c \in deferred[x] => home[c] = x
  /\ \A c \in Calls : home[c] = Nothing => performed[c] = 0

OnceInv == CallTypes /\ Homes /\ \A c \in Calls \ joined : Once(c)

\* What leaves the calls and their handlers alone.
callVars == <<deferred, home, verdict, pc, about, performed, joined>>

ProxyStep ==
  \/ \E r \in Reloads : Sighup(r) \/ Fetch(r) \/ Clear(r) \/ Settled(r)
  \/ \E r \in Reloads, s \in Servers : Close(r, s) \/ Connect(r, s) \/ List(r, s) \/ Die(s, r)
  \/ \E x \in Sessions : Open(x) \/ Disconnect(x)
  \/ \E s \in Servers : Configure(s)

\* A reload, a session and an edit leave the calls alone.
LEMMA ProxyStepsLeaveCalls == ProxyStep \/ UNCHANGED vars => UNCHANGED callVars
  BY DEF ProxyStep, callVars, vars, Sighup, Fetch, Clear, Settled, Close, Connect, List, Die,
         Open, Disconnect, Configure, calls, handlers, bounds, upstreams, reloads, sessions

\* A handler that starts to perform its call, or has found no client for it.
LEMMA StartOutcome ==
  ASSUME NEW h, NEW c, Start(h, c)
  PROVE  \/ Answer(h)
         \/ \E p \in {"upstream", "vault"} : \E w : Handle(h, p, c, w)
  BY DEF Start

-----------------------------------------------------------------------------
(* Types                                                                   *)

\* The calls are well typed at first.
LEMMA TypesInit == Init => CallTypes
  BY DEF Init, CallTypes

\* Handling and answering keep the types.
LEMMA HandleTypes ==
  ASSUME CallTypes, NEW h \in Handlers, NEW c \in Calls, NEW w,
         NEW p \in {"idle", "gate", "upstream", "vault", "secure", "ask"},
         Handle(h, p, c, w) \/ Answer(h)
  PROVE  /\ pc' \in [Handlers -> {"idle", "gate", "upstream", "vault", "secure", "ask"}]
         /\ about' \in [Handlers -> Calls \cup {Nothing}]
         /\ \A g \in Handlers : pc'[g] # "idle" => about'[g] \in Calls
  BY DEF CallTypes, Handle, Answer

\* A handler that starts to perform its call keeps the types.
LEMMA StartTypes ==
  ASSUME CallTypes, NEW h \in Handlers, NEW c \in Calls, Start(h, c)
  PROVE  /\ pc' \in [Handlers -> {"idle", "gate", "upstream", "vault", "secure", "ask"}]
         /\ about' \in [Handlers -> Calls \cup {Nothing}]
         /\ \A g \in Handlers : pc'[g] # "idle" => about'[g] \in Calls
  BY HandleTypes DEF Start

\* Every step keeps the types.
LEMMA TypesStep == CallTypes /\ [Next]_vars => CallTypes'
<1> SUFFICES ASSUME CallTypes, [Next]_vars PROVE CallTypes'
  OBVIOUS
<1>1. CASE ProxyStep \/ UNCHANGED vars
  BY <1>1, ProxyStepsLeaveCalls DEF callVars, CallTypes
<1>2. ASSUME NEW h \in Handlers, NEW c \in Calls, CheckApproval(h, c) PROVE CallTypes'
  BY <1>2, HandleTypes DEF CheckApproval, CallTypes, calls
<1>3. ASSUME NEW h \in Handlers, NEW c \in Calls, NEW x \in Sessions, NEW s \in Servers,
             Call(h, c, x, s)
      PROVE  CallTypes'
  BY <1>3, HandleTypes DEF Call, CallTypes
<1>4. ASSUME NEW h \in Handlers, Decide(h) PROVE CallTypes'
  <2> DEFINE c == about[h]
  <2>1. c \in Calls
    BY <1>4 DEF Decide, CallTypes
  <2>2. Start(h, c) \/ Answer(h)
    BY <1>4 DEF Decide
  <2>3. /\ verdict' \in [Calls -> {"none", "allowed", "refused", "pending", "approved", "denied", "expired"}]
        /\ deferred' \in [Sessions -> SUBSET Calls]
    <3>1. PICK v \in {"allowed", "refused", "pending"} : verdict' = [verdict EXCEPT ![c] = v]
      BY <1>4 DEF Decide
    <3>2. \/ deferred' = deferred
          \/ deferred' = [deferred EXCEPT ![home[c]] = @ \cup {c}]
      BY <1>4 DEF Decide
    <3> QED
      BY <2>1, <3>1, <3>2 DEF CallTypes
  <2> QED
    BY <1>4, <2>1, <2>2, <2>3, StartTypes, HandleTypes DEF Decide, CallTypes, calls
<1>5. ASSUME NEW h \in Handlers, Unreached(h) PROVE CallTypes'
  BY <1>5, HandleTypes DEF Unreached, CallTypes, calls
<1>6. ASSUME NEW h \in Handlers, Upstream(h) \/ Secure(h) PROVE CallTypes'
  <2>1. about[h] \in Calls
    BY <1>6 DEF Upstream, Secure, CallTypes
  <2>2. performed' \in [Calls -> Nat]
    BY <1>6, <2>1 DEF Upstream, Secure, Perform, CallTypes
  <2> QED
    BY <1>6, <2>1, <2>2, HandleTypes DEF Upstream, Secure, CallTypes, calls
<1>7. ASSUME NEW h \in Handlers, Check(h) PROVE CallTypes'
  <2>1. about[h] \in Calls
    BY <1>7 DEF Check, CallTypes
  <2> QED
    BY <1>7, <2>1, HandleTypes DEF Check, CallTypes, calls
<1>8. ASSUME NEW h \in Handlers, Resolve(h) PROVE CallTypes'
  <2> DEFINE c == about[h]
  <2>1. c \in Calls
    BY <1>8 DEF Resolve, CallTypes
  <2>2. Start(h, c) \/ Answer(h)
    BY <1>8 DEF Resolve
  <2>3. deferred' \in [Sessions -> SUBSET Calls]
    BY <1>8, <2>1 DEF Resolve, Removed, CallTypes
  <2> QED
    BY <1>8, <2>1, <2>2, <2>3, StartTypes, HandleTypes DEF Resolve, CallTypes, calls
<1>9. ASSUME NEW c \in Calls, Review(c) PROVE CallTypes'
  BY <1>9 DEF Review, CallTypes, calls, handlers
<1> QED
  BY <1>1, <1>2, <1>3, <1>4, <1>5, <1>6, <1>7, <1>8, <1>9 DEF Next, ProxyStep

\* The handlers, calls and sessions of the proxy keep their types.
THEOREM CallsAreTyped == Spec => []CallTypes
  BY TypesInit, TypesStep, PTL DEF Spec

-----------------------------------------------------------------------------
(* What is performed was permitted                                         *)

\* Before a call is made nothing is decided about it.
LEMMA PermitInit == Init => PermitInv
<1> SUFFICES ASSUME Init PROVE PermitInv
  OBVIOUS
<1>1. CallTypes
  BY TypesInit
<1> QED
  BY <1>1 DEF Init, PermitInv, Decided, PerformedIsPermitted, Performing

\* A handler that performs nothing new, and ends up idle or at a point where its call is
\* permitted, keeps what is decided about calls.
LEMMA HandlerMoves ==
  ASSUME PermitInv, NEW h \in Handlers, NEW c \in Calls, NEW w, NEW p \in Performing \cup {"ask", "idle"},
         Handle(h, p, c, w) \/ Answer(h),
         p \in Performing => verdict[c] \in Permitted,
         home' = home, verdict' = verdict, performed' = performed, CallTypes'
  PROVE  PermitInv'
  BY DEF PermitInv, CallTypes, Decided, PerformedIsPermitted, Handle, Answer, Performing, Permitted

\* Every step keeps what was permitted.
LEMMA PermitStep == PermitInv /\ [Next]_vars => PermitInv'
<1> SUFFICES ASSUME PermitInv, [Next]_vars PROVE PermitInv'
  OBVIOUS
<1>0. CallTypes /\ Decided /\ PerformedIsPermitted /\ CallTypes'
  BY TypesStep DEF PermitInv
<1>1. CASE ProxyStep \/ UNCHANGED vars
  BY <1>0, <1>1, ProxyStepsLeaveCalls DEF callVars, PermitInv, Decided, PerformedIsPermitted
<1>2. ASSUME NEW h \in Handlers, NEW c \in Calls, CheckApproval(h, c) PROVE PermitInv'
  BY <1>0, <1>2, HandlerMoves DEF CheckApproval, calls, Performing
<1>3. ASSUME NEW h \in Handlers, NEW c \in Calls, NEW x \in Sessions, NEW s \in Servers,
             Call(h, c, x, s)
      PROVE  PermitInv'
  <2>1. /\ home[c] = Nothing /\ home' = [home EXCEPT ![c] = x] /\ x # Nothing
        /\ Handle(h, "gate", c, Nothing)
        /\ verdict' = verdict /\ performed' = performed
    BY <1>3, NothingAssumption DEF Call
  <2>2. verdict[c] = "none"
    BY <1>0, <2>1 DEF Decided
  <2>3. \A g \in Handlers : pc[g] = "gate" => about[g] # c
    BY <1>0, <2>1 DEF Decided
  <2>4. Decided'
    BY <1>0, <2>1, <2>2, <2>3 DEF Decided, CallTypes, Handle, Performing
  <2> QED
    BY <1>0, <2>1, <2>4 DEF PermitInv, PerformedIsPermitted
<1>4. ASSUME NEW h \in Handlers, Decide(h) PROVE PermitInv'
  <2> DEFINE c == about[h]
  <2>1. /\ c \in Calls /\ pc[h] = "gate" /\ verdict[c] = "none" /\ home[c] # Nothing
        /\ home' = home /\ performed' = performed
    BY <1>0, <1>4 DEF Decide, CallTypes, Decided, calls
  <2>2. PICK v \in {"allowed", "refused", "pending"} : verdict' = [verdict EXCEPT ![c] = v]
    BY <1>4 DEF Decide
  <2>3. verdict'[c] = v
    BY <1>0, <2>1, <2>2 DEF CallTypes
  <2>4. \/ Answer(h)
        \/ v = "allowed" /\ \E p \in {"upstream", "vault"} : \E w : Handle(h, p, c, w)
    BY <1>4, <2>3, StartOutcome DEF Decide
  <2>5. \A g \in Handlers : pc[g] \in Performing => about[g] # c
    BY <1>0, <2>1 DEF Decided, Permitted
  <2>6. \A g \in Handlers : pc[g] = "gate" /\ about[g] = c => g = h
    BY <1>0, <2>1 DEF Decided
  <2>7. performed[c] = 0
    BY <1>0, <2>1 DEF PerformedIsPermitted, CallTypes
  <2>8. PerformedIsPermitted'
    BY <1>0, <2>1, <2>2, <2>7 DEF PerformedIsPermitted, CallTypes
  <2>9. CASE Answer(h)
    BY <1>0, <2>1, <2>2, <2>5, <2>6, <2>8, <2>9
       DEF PermitInv, Decided, CallTypes, Answer, Handle, Performing
  <2>10. CASE v = "allowed" /\ \E p \in {"upstream", "vault"} : \E w : Handle(h, p, c, w)
    BY <1>0, <2>1, <2>2, <2>5, <2>6, <2>8, <2>10
       DEF PermitInv, Decided, CallTypes, Handle, Performing, Permitted
  <2> QED
    BY <2>4, <2>9, <2>10
<1>5. ASSUME NEW h \in Handlers, Unreached(h) PROVE PermitInv'
  <2>1. about[h] \in Calls
    BY <1>0, <1>5 DEF Unreached, CallTypes
  <2> QED
    BY <1>0, <1>5, <2>1, HandlerMoves DEF Unreached, calls, Performing
<1>6. ASSUME NEW h \in Handlers, Upstream(h) \/ Secure(h) PROVE PermitInv'
  <2>1. /\ about[h] \in Calls /\ verdict[about[h]] \in Permitted
        /\ home' = home /\ verdict' = verdict
        /\ Answer(h)
        /\ performed' = performed \/ Perform(about[h])
    BY <1>0, <1>6 DEF Upstream, Secure, CallTypes, Decided, Performing, calls
  <2>2. Decided'
    BY <1>0, <2>1 DEF Decided, CallTypes, Answer, Handle, Performing
  <2>3. PerformedIsPermitted'
    BY <1>0, <2>1 DEF PerformedIsPermitted, CallTypes, Perform, Permitted
  <2> QED
    BY <1>0, <2>2, <2>3 DEF PermitInv
<1>7. ASSUME NEW h \in Handlers, Check(h) PROVE PermitInv'
  <2>1. about[h] \in Calls /\ verdict[about[h]] \in Permitted
    BY <1>0, <1>7 DEF Check, CallTypes, Decided, Performing
  <2> QED
    BY <1>0, <1>7, <2>1, HandlerMoves DEF Check, calls, Performing
<1>8. ASSUME NEW h \in Handlers, Resolve(h) PROVE PermitInv'
  <2>1. /\ about[h] \in Calls
        /\ home' = home /\ verdict' = verdict /\ performed' = performed
        /\ \/ Answer(h)
           \/ verdict[about[h]] = "approved" /\ Start(h, about[h])
    BY <1>0, <1>8 DEF Resolve, CallTypes, Granted, calls
  <2>2. \/ Answer(h)
        \/ /\ verdict[about[h]] \in Permitted
           /\ \E p \in Performing : \E w : Handle(h, p, about[h], w)
    BY <2>1, StartOutcome DEF Permitted, Performing
  <2>3. CASE Answer(h)
    BY <1>0, <2>1, <2>3, HandlerMoves DEF Performing
  <2>4. ASSUME NEW p \in Performing, NEW w, Handle(h, p, about[h], w),
               verdict[about[h]] \in Permitted
        PROVE  PermitInv'
    BY <1>0, <2>1, <2>4, HandlerMoves
  <2> QED
    BY <2>2, <2>3, <2>4
<1>9. ASSUME NEW c \in Calls, Review(c) PROVE PermitInv'
  <2>1. /\ verdict[c] = "pending" /\ performed' = performed /\ home' = home
        /\ pc' = pc /\ about' = about
    BY <1>9 DEF Review, calls, handlers
  <2>2. PICK v \in {"approved", "denied", "expired"} : verdict' = [verdict EXCEPT ![c] = v]
    BY <1>9 DEF Review
  <2>3. home[c] # Nothing
    BY <1>0, <2>1 DEF Decided
  <2>4. PerformedIsPermitted'
    BY <1>0, <2>1, <2>2 DEF PerformedIsPermitted, CallTypes
  <2> QED
    BY <1>0, <2>1, <2>2, <2>3, <2>4 DEF PermitInv, Decided, CallTypes, Performing, Permitted
<1> QED
  BY <1>1, <1>2, <1>3, <1>4, <1>5, <1>6, <1>7, <1>8, <1>9 DEF Next, ProxyStep

\* A call that was performed had been allowed by the policy or approved by a reviewer: the
\* verdict of a call is settled before a handler performs it, and a settled verdict that
\* permits is never taken back.
THEOREM OnlyPermittedCallsArePerformed == Spec => []PerformedIsPermitted
<1>1. PermitInv => PerformedIsPermitted
  BY DEF PermitInv
<1> QED
  BY <1>1, PermitInit, PermitStep, PTL DEF Spec

-----------------------------------------------------------------------------
(* What is performed twice was checked twice at once                       *)

\* No call has been made.
LEMMA OnceInit == Init => OnceInv
<1> SUFFICES ASSUME Init PROVE OnceInv
  OBVIOUS
<1>1. CallTypes
  BY TypesInit
<1>2. Homes
  BY DEF Init, Homes
<1>3. ASSUME NEW c \in Calls PROVE Once(c)
  <2>1. home[c] = Nothing /\ performed[c] = 0
    BY DEF Init
  <2>2. \A h \in Handlers : pc[h] = "idle"
    BY DEF Init
  <2> QED
    BY <2>1, <2>2 DEF Once, Owning, Performing
<1> QED
  BY <1>1, <1>2, <1>3 DEF OnceInv

\* A step of the handler h about the call c leaves the other calls alone.
LEMMA OtherCalls ==
  ASSUME CallTypes, CallTypes', NEW d \in Calls, Once(d),
         \A h \in Handlers : \/ pc'[h] = pc[h] /\ about'[h] = about[h]
                             \/ pc'[h] = "idle" /\ (pc[h] = "idle" \/ about[h] # d)
                             \/ about'[h] # d /\ (pc[h] = "idle" \/ about[h] # d),
         home'[d] = home[d], performed'[d] = performed[d],
         Held(d)' <=> Held(d)
  PROVE  Once(d)'
  BY DEF Once, Owning, Performing

\* A step of the handler h about its call c, which ends at a point where the right is c's.
LEMMA OwnCall ==
  ASSUME CallTypes, CallTypes', NEW h \in Handlers, NEW c \in Calls, Once(c),
         pc[h] # "idle", about[h] = c,
         \A g \in Handlers \ {h} : pc'[g] = pc[g] /\ about'[g] = about[g],
         pc'[h] \in Owning \cup {"idle"},
         pc'[h] \in Owning => about'[h] = c /\ performed'[c] = 0 /\ ~Held(c)',
         performed'[c] <= 1, Held(c)' => performed'[c] = 0
  PROVE  Once(c)'
  BY DEF Once, Owning, Performing

\* Every step keeps the right to perform a call in one place.
LEMMA OnceStep == OnceInv /\ [Next]_vars => OnceInv'
<1> SUFFICES ASSUME OnceInv, [Next]_vars PROVE OnceInv'
  OBVIOUS
<1>0. CallTypes /\ Homes /\ CallTypes' /\ \A c \in Calls \ joined : Once(c)
  BY TypesStep DEF OnceInv
<1>1. CASE ProxyStep \/ UNCHANGED vars
  BY <1>0, <1>1, ProxyStepsLeaveCalls DEF callVars, OnceInv, Homes, Once, Held
<1>2. ASSUME NEW h \in Handlers, NEW c \in Calls, CheckApproval(h, c) PROVE OnceInv'
  <2>1. /\ pc[h] = "idle" /\ home[c] # Nothing /\ c \in deferred[home[c]]
        /\ Handle(h, "ask", c, Nothing)
        /\ home' = home /\ performed' = performed /\ deferred' = deferred
        /\ joined \subseteq joined'
        /\ c \notin joined' => \A g \in Handlers : ~(pc[g] = "ask" /\ about[g] = c)
    BY <1>2 DEF CheckApproval, calls
  <2>2. home[c] \in Sessions
    BY <1>0, <2>1 DEF CallTypes
  <2>3. Homes'
    BY <1>0, <2>1, <2>2 DEF Homes, CallTypes, Handle
  <2>4. ASSUME NEW d \in Calls \ joined', d # c PROVE Once(d)'
    BY <1>0, <2>1, <2>4, OtherCalls DEF Handle, CallTypes, Held
  <2>5. ASSUME c \notin joined' PROVE Once(c)'
    <3>1. Once(c)
      BY <1>0, <2>1, <2>5
    <3>2. \A g \in Handlers : pc[g] # "idle" => about[g] # c
      BY <1>0, <2>1, <2>2, <2>5, <3>1 DEF Once, Held, Owning, Performing, CallTypes
    <3> QED
      BY <1>0, <2>1, <2>2, <3>1, <3>2 DEF Once, Held, Owning, Performing, CallTypes, Handle
  <2> QED
    BY <1>0, <2>3, <2>4, <2>5 DEF OnceInv
<1>3. ASSUME NEW h \in Handlers, NEW c \in Calls, NEW x \in Sessions, NEW s \in Servers,
             Call(h, c, x, s)
      PROVE  OnceInv'
  <2>1. /\ pc[h] = "idle" /\ home[c] = Nothing /\ home' = [home EXCEPT ![c] = x]
        /\ x # Nothing
        /\ Handle(h, "gate", c, Nothing)
        /\ performed' = performed /\ deferred' = deferred /\ joined' = joined
    BY <1>3, NothingAssumption DEF Call
  <2>2. \A g \in Handlers : pc[g] # "idle" => about[g] # c
    BY <1>0, <2>1, NothingAssumption DEF Homes
  <2>3. performed[c] = 0 /\ \A y \in Sessions : c \notin deferred[y]
    BY <1>0, <2>1, NothingAssumption DEF Homes
  <2>4. Homes'
    BY <1>0, <2>1, <2>2, <2>3 DEF Homes, CallTypes, Handle
  <2>5. ASSUME NEW d \in Calls \ joined', d # c PROVE Once(d)'
    BY <1>0, <2>1, <2>5, OtherCalls DEF Handle, CallTypes, Held
  <2>6. Once(c)'
    BY <1>0, <2>1, <2>2, <2>3 DEF Once, Held, Owning, Performing, CallTypes, Handle
  <2> QED
    BY <1>0, <2>4, <2>5, <2>6 DEF OnceInv
<1>4. ASSUME NEW h \in Handlers, Decide(h) \/ Unreached(h) PROVE OnceInv'
  <2> PICK c \in Calls : c = about[h]
    BY <1>0, <1>4 DEF CallTypes, Decide, Unreached, Upstream, Secure, Check, Resolve
  <2>1. /\ pc[h] = "gate" /\ home[c] \in Sessions
        /\ home' = home /\ performed' = performed /\ joined' = joined
    BY <1>0, <1>4 DEF Decide, Unreached, CallTypes, Homes, calls
  <2>2. \/ /\ deferred' = deferred
           /\ Answer(h) \/ \E p \in {"upstream", "vault"} : \E w : Handle(h, p, c, w)
        \/ deferred' = [deferred EXCEPT ![home[c]] = @ \cup {c}] /\ Answer(h)
    <3>1. CASE Unreached(h)
      BY <3>1 DEF Unreached
    <3>2. CASE Decide(h)
      <4>1. PICK v \in {"allowed", "refused", "pending"} : verdict' = [verdict EXCEPT ![c] = v]
        BY <3>2 DEF Decide
      <4>2. verdict'[c] = v
        BY <1>0, <2>1, <4>1 DEF CallTypes
      <4> QED
        BY <3>2, <4>1, <4>2, StartOutcome DEF Decide
    <3> QED
      BY <1>4, <3>1, <3>2
  <2>3. Homes'
    BY <1>0, <2>1, <2>2 DEF Homes, CallTypes, Handle, Answer
  <2>4. ASSUME NEW d \in Calls \ joined', d # c PROVE Once(d)'
    <3>1. Held(d)' <=> Held(d)
      BY <1>0, <2>1, <2>2, <2>4 DEF CallTypes, Held
    <3>2. \A g \in Handlers : \/ pc'[g] = pc[g] /\ about'[g] = about[g]
                              \/ pc'[g] = "idle" /\ about[g] # d
                              \/ about'[g] # d /\ about[g] # d
      BY <1>0, <2>1, <2>2, <2>4 DEF CallTypes, Handle, Answer
    <3> QED
      BY <1>0, <2>1, <2>4, <3>1, <3>2, OtherCalls
  <2>5. ASSUME c \notin joined' PROVE Once(c)'
    <3>1. Once(c)
      BY <1>0, <2>1, <2>5
    <3>2. performed[c] = 0 /\ ~Held(c)
      BY <2>1, <3>1 DEF Once, Owning
    <3>3. /\ \A g \in Handlers \ {h} : pc'[g] = pc[g] /\ about'[g] = about[g]
          /\ \/ pc'[h] = "idle"
             \/ pc'[h] \in Owning /\ about'[h] = c /\ deferred' = deferred
      BY <1>0, <2>2 DEF CallTypes, Handle, Answer, Owning, Performing
    <3>4. Held(c)' => deferred' # deferred
      BY <3>2 DEF Held
    <3> QED
      BY <1>0, <2>1, <3>1, <3>2, <3>3, <3>4, OwnCall DEF Owning, Performing
  <2> QED
    BY <1>0, <2>1, <2>3, <2>4, <2>5 DEF OnceInv
<1>5. ASSUME NEW h \in Handlers, Upstream(h) \/ Secure(h) \/ Check(h) PROVE OnceInv'
  <2> PICK c \in Calls : c = about[h]
    BY <1>0, <1>5 DEF CallTypes, Decide, Unreached, Upstream, Secure, Check, Resolve
  <2>1. /\ pc[h] \in Owning /\ home[c] \in Sessions
        /\ home' = home /\ deferred' = deferred /\ joined' = joined
        /\ \/ Answer(h) /\ (performed' = performed \/ Perform(c))
           \/ Handle(h, "secure", c, Nothing) /\ performed' = performed
    BY <1>0, <1>5 DEF Upstream, Secure, Check, CallTypes, Homes, Owning, Performing, calls
  <2>2. Homes'
    BY <1>0, <2>1, NothingAssumption DEF Homes, CallTypes, Handle, Answer, Perform
  <2>3. ASSUME NEW d \in Calls \ joined', d # c PROVE Once(d)'
    <3>1. performed'[d] = performed[d]
      BY <1>0, <2>1, <2>3 DEF CallTypes, Perform
    <3>2. \A g \in Handlers : \/ pc'[g] = pc[g] /\ about'[g] = about[g]
                              \/ pc'[g] = "idle" /\ about[g] # d
                              \/ about'[g] # d /\ about[g] # d
      BY <1>0, <2>1, <2>3 DEF CallTypes, Handle, Answer
    <3> QED
      BY <1>0, <2>1, <2>3, <3>1, <3>2, OtherCalls DEF Held
  <2>4. ASSUME c \notin joined' PROVE Once(c)'
    <3>1. Once(c)
      BY <1>0, <2>1, <2>4
    <3>2. performed[c] = 0 /\ ~Held(c) /\ ~Held(c)'
      BY <2>1, <3>1 DEF Once, Held
    <3>3. /\ \A g \in Handlers \ {h} : pc'[g] = pc[g] /\ about'[g] = about[g]
          /\ \/ pc'[h] = "idle" /\ performed'[c] <= 1
             \/ pc'[h] \in Owning /\ about'[h] = c /\ performed'[c] = 0
      BY <1>0, <2>1, <3>2 DEF CallTypes, Handle, Answer, Owning, Performing, Perform
    <3> QED
      BY <1>0, <2>1, <3>1, <3>2, <3>3, OwnCall DEF Owning, Performing
  <2> QED
    BY <1>0, <2>1, <2>2, <2>3, <2>4 DEF OnceInv
<1>6. ASSUME NEW h \in Handlers, Resolve(h) PROVE OnceInv'
  <2> PICK c \in Calls : c = about[h]
    BY <1>0, <1>6 DEF CallTypes, Decide, Unreached, Upstream, Secure, Check, Resolve
  <2>1. /\ pc[h] = "ask" /\ home[c] \in Sessions
        /\ home' = home /\ performed' = performed /\ joined' = joined
    BY <1>0, <1>6 DEF Resolve, CallTypes, Homes, calls
  <2>2. \/ /\ deferred' = [deferred EXCEPT ![home[c]] = @ \ {c}]
           /\ Answer(h) \/ \E p \in {"upstream", "vault"} : \E w : Handle(h, p, c, w)
        \/ deferred' = deferred /\ Answer(h)
    BY <1>0, <1>6, <2>1, StartOutcome DEF Resolve, Removed, CallTypes
  <2>3. Homes'
    BY <1>0, <2>1, <2>2 DEF Homes, CallTypes, Handle, Answer
  <2>4. ASSUME NEW d \in Calls \ joined', d # c PROVE Once(d)'
    <3>1. Held(d)' <=> Held(d)
      BY <1>0, <2>1, <2>2, <2>4 DEF CallTypes, Held
    <3>2. \A g \in Handlers : \/ pc'[g] = pc[g] /\ about'[g] = about[g]
                              \/ pc'[g] = "idle" /\ about[g] # d
                              \/ about'[g] # d /\ about[g] # d
      BY <1>0, <2>1, <2>2, <2>4 DEF CallTypes, Handle, Answer
    <3> QED
      BY <1>0, <2>1, <2>4, <3>1, <3>2, OtherCalls
  <2>5. ASSUME c \notin joined' PROVE Once(c)'
    <3>1. Once(c) /\ Held(c) /\ performed[c] = 0
      BY <1>0, <2>1, <2>5 DEF Once
    <3>2. /\ \A g \in Handlers \ {h} : pc'[g] = pc[g] /\ about'[g] = about[g]
          /\ \/ pc'[h] = "idle"
             \/ /\ pc'[h] \in Owning /\ about'[h] = c
                /\ deferred' = [deferred EXCEPT ![home[c]] = @ \ {c}]
      BY <1>0, <2>2 DEF CallTypes, Handle, Answer, Owning, Performing
    <3>3. deferred' = [deferred EXCEPT ![home[c]] = @ \ {c}] => ~Held(c)'
      BY <1>0, <2>1 DEF CallTypes, Homes, Held
    <3> QED
      BY <1>0, <2>1, <3>1, <3>2, <3>3, OwnCall DEF Owning, Performing
  <2> QED
    BY <1>0, <2>1, <2>3, <2>4, <2>5 DEF OnceInv
<1>7. ASSUME NEW c \in Calls, Review(c) PROVE OnceInv'
  BY <1>0, <1>7 DEF Review, OnceInv, Homes, Once, Held, calls, handlers
<1> QED
  BY <1>1, <1>2, <1>3, <1>4, <1>5, <1>6, <1>7 DEF Next, ProxyStep

\* A call is performed at most once, unless two checks of its approval have overlapped.
THEOREM RepeatsNeedTwoChecks == Spec => []RepeatsNeedOverlap
<1>1. OnceInv => RepeatsNeedOverlap
  BY DEF OnceInv, Once, RepeatsNeedOverlap, CallTypes
<1> QED
  BY <1>1, OnceInit, OnceStep, PTL DEF Spec

-----------------------------------------------------------------------------
(* A reload leaves tools, clients and configuration in agreement           *)

\* What a message, a session and an edit leave alone.
reloadVars == <<registry, client, open, reloads>>

CallStep ==
  \/ \E x \in Sessions : Open(x) \/ Disconnect(x)
  \/ \E h \in Handlers, c \in Calls :
       CheckApproval(h, c) \/ \E x \in Sessions, s \in Servers : Call(h, c, x, s)
  \/ \E h \in Handlers :
       Decide(h) \/ Unreached(h) \/ Upstream(h) \/ Check(h) \/ Secure(h) \/ Resolve(h)
  \/ \E c \in Calls : Review(c)
  \/ \E s \in Servers : Configure(s)

\* The types of the upstream servers and the reloads.
ReloadTypes ==
  /\ config \in [Servers -> Entry] /\ registry \in [Servers -> Entry]
  /\ client \in [Servers -> Reloads \cup {Nothing}]
  /\ open \subseteq Servers \X Reloads
  /\ reload \in [Reloads -> {"unused", "fetch", "close", "connect", "done"}]
  /\ fetched \in [Reloads -> [Servers -> Entry]]
  /\ visited \in [Reloads -> SUBSET Servers]
  /\ link \in [Reloads -> [Servers -> {"none", "connecting", "listing"}]]
  /\ last \in Reloads /\ crowded \in BOOLEAN

\* A reload stands where its servers and its loop say.
Phases ==
  \A r \in Reloads :
    /\ reload[r] # "close" => visited[r] = {}
    /\ reload[r] # "connect" => \A s \in Servers : link[r][s] = "none"
    /\ reload[r] \in {"close", "connect"} /\ ~crowded => last = r

Alone == \A q, r \in Reloads : Running(q) /\ Running(r) => q = r

\* Every open client is the one in the map, and every tool is the one the last reload read.
Known == \A s \in Servers, q \in Reloads : <<s, q>> \in open => client[s] = q
Current ==
  \A s \in Servers : registry[s] # Nothing => registry[s] = fetched[last][s] /\ client[s] = last

\* What has been closed is not open, and what is connected anew is of the reload.
Progress ==
  \A r \in Reloads, s \in Servers :
    /\ reload[r] = "close" => registry[s] = Nothing
    /\ s \in visited[r] => <<s, client[s]>> \notin open
    /\ link[r][s] = "connecting" => client[s] = Nothing
    /\ link[r][s] = "listing" => client[s] = r

ReloadInv == ReloadTypes /\ Phases /\ (~crowded => Alone /\ Known /\ Current /\ Progress)

\* A message, a session and an edit leave the reloads alone.
LEMMA CallStepsLeaveReloads == CallStep \/ UNCHANGED vars => UNCHANGED reloadVars
  BY DEF CallStep, reloadVars, vars, Open, Disconnect, CheckApproval, Call, Decide, Unreached,
         Upstream, Check, Secure, Resolve, Review, Configure, upstreams

\* At the start the servers of main are being connected.
LEMMA ReloadInit == Init => ReloadInv
<1> SUFFICES ASSUME Init PROVE ReloadInv
  OBVIOUS
<1>1. ReloadTypes
  BY ProxyAssumption DEF Init, ReloadTypes, None, Entry
<1>2. Phases
  BY DEF Init, Phases
<1>3. Alone /\ Known /\ Current /\ Progress
  BY DEF Init, Alone, Running, Known, Current, Progress, None
<1> QED
  BY <1>1, <1>2, <1>3 DEF ReloadInv

\* Every step keeps the invariant of the reloads.
LEMMA ReloadStep == ReloadInv /\ [Next]_vars => ReloadInv'
<1> SUFFICES ASSUME ReloadInv, [Next]_vars PROVE ReloadInv'
  OBVIOUS
<1>0. ReloadTypes /\ Phases /\ (~crowded => Alone /\ Known /\ Current /\ Progress)
  BY DEF ReloadInv
<1>a. config' \in [Servers -> Entry]
  BY <1>0 DEF Next, vars, ReloadTypes, Sighup, Fetch, Clear, Settled, Close, Connect, List, Die,
              Open, Disconnect, CheckApproval, Call, Decide, Unreached, Upstream, Check, Secure,
              Resolve, Review, Configure
<1>1. CASE CallStep \/ UNCHANGED vars
  <2>1. UNCHANGED reloadVars
    BY <1>1, CallStepsLeaveReloads
  <2> QED
    BY <1>0, <1>a, <2>1 DEF reloadVars, reloads, ReloadInv, ReloadTypes, Phases, Alone, Running,
                            Known, Current, Progress
<1>2. ASSUME NEW r \in Reloads, Sighup(r) PROVE ReloadInv'
  <2>1. ReloadTypes' /\ Phases'
    BY <1>0, <1>2, <1>a DEF Sighup, At, ReloadTypes, Phases, upstreams
  <2>2. ASSUME ~crowded' PROVE Alone' /\ Known' /\ Current' /\ Progress'
    BY <1>0, <1>2, <2>2 DEF Sighup, At, ReloadTypes, Alone, Running, Known, Current, Progress,
                            upstreams
  <2> QED
    BY <2>1, <2>2 DEF ReloadInv
<1>3. ASSUME NEW r \in Reloads, Fetch(r) PROVE ReloadInv'
  <2>1. /\ fetched' \in [Reloads -> [Servers -> Entry]]
        /\ registry' = None /\ last' = r /\ client' = client /\ open' = open
        /\ visited' = visited /\ link' = link /\ crowded' = crowded
        /\ reload[r] = "fetch" /\ reload' = [reload EXCEPT ![r] = "close"]
    BY <1>0, <1>3 DEF Fetch, At, NoTools, None, ReloadTypes, Entry
  <2>2. ReloadTypes'
    BY <1>0, <1>a, <2>1 DEF ReloadTypes, None, Entry
  <2>3. ASSUME NEW q \in Reloads, q # r, ~crowded PROVE ~Running(q)
    BY <1>0, <2>1, <2>3 DEF Alone, Running
  <2>4. Phases'
    BY <1>0, <2>1, <2>3 DEF Phases, ReloadTypes, Running
  <2>5. ASSUME ~crowded' PROVE Alone' /\ Known' /\ Current' /\ Progress'
    BY <1>0, <2>1, <2>3, <2>5 DEF ReloadTypes, Phases, Alone, Running, Known, Current, Progress,
                                  None
  <2> QED
    BY <2>2, <2>4, <2>5 DEF ReloadInv
<1>4. ASSUME NEW r \in Reloads, NEW s \in Servers, Close(r, s) PROVE ReloadInv'
  <2>1. ReloadTypes' /\ Phases'
    BY <1>0, <1>4, <1>a DEF Close, Closed, ReloadTypes, Phases
  <2>2. ASSUME ~crowded' PROVE Alone' /\ Known' /\ Current' /\ Progress'
    BY <1>0, <1>4, <2>2 DEF Close, Closed, ReloadTypes, Alone, Running, Known, Current, Progress
  <2> QED
    BY <2>1, <2>2 DEF ReloadInv
<1>5. ASSUME NEW r \in Reloads, Clear(r) PROVE ReloadInv'
  <2>1. /\ registry' = registry /\ open' = open /\ fetched' = fetched /\ last' = last
        /\ crowded' = crowded /\ client' = None
        /\ visited' = [visited EXCEPT ![r] = {}]
        /\ reload[r] = "close" /\ reload' = [reload EXCEPT ![r] = "connect"]
        /\ \A s \in Servers : client[s] = Nothing \/ s \in visited[r]
    BY <1>5 DEF Clear, At
  <2>2. /\ link' \in [Reloads -> [Servers -> {"none", "connecting", "listing"}]]
        /\ \A q \in Reloads \ {r} : link'[q] = link[q]
        /\ \A s \in Servers : link'[r][s] # "listing"
    BY <1>0, <1>5 DEF Clear, ReloadTypes
  <2>3. ReloadTypes'
    BY <1>0, <1>a, <2>1, <2>2 DEF ReloadTypes, None
  <2>4. Phases'
    BY <1>0, <2>1, <2>2 DEF Phases, ReloadTypes
  <2>5. ASSUME ~crowded' PROVE Alone' /\ Known' /\ Current' /\ Progress'
    <3>1. open = {}
      BY <1>0, <2>1, <2>5, NothingAssumption DEF Known, Progress, ReloadTypes
    <3>2. \A s \in Servers : registry[s] = Nothing
      BY <1>0, <2>1, <2>5 DEF Progress
    <3>3. ASSUME NEW q \in Reloads, q # r PROVE ~Running(q)
      BY <1>0, <2>1, <2>5, <3>3 DEF Alone, Running
    <3>4. Alone'
      BY <1>0, <2>1, <3>3 DEF Alone, Running, ReloadTypes
    <3>5. Progress'
      BY <1>0, <2>1, <2>2, <3>1, <3>2, <3>3 DEF Progress, Running, ReloadTypes, Phases, None
    <3> QED
      BY <2>1, <3>1, <3>2, <3>4, <3>5 DEF Known, Current
  <2> QED
    BY <2>3, <2>4, <2>5 DEF ReloadInv
<1>6. ASSUME NEW r \in Reloads, NEW s \in Servers, Connect(r, s) PROVE ReloadInv'
  <2>1. ReloadTypes' /\ Phases'
    BY <1>0, <1>6, <1>a DEF Connect, ReloadTypes, Phases
  <2>2. ASSUME ~crowded' PROVE Alone' /\ Known' /\ Current' /\ Progress'
    <3>1. /\ ~crowded /\ reload' = reload /\ visited' = visited /\ registry' = registry
          /\ fetched' = fetched /\ last' = last
          /\ link[r][s] = "connecting" /\ reload[r] = "connect" /\ last = r
          /\ client[s] = Nothing /\ registry[s] = Nothing
      BY <1>0, <1>6, <2>2, NothingAssumption
         DEF Connect, Phases, Progress, Current, ReloadTypes
    <3>2. ASSUME NEW q \in Reloads, q # r
          PROVE  visited[q] = {} /\ \A t \in Servers : link[q][t] = "none"
      BY <1>0, <3>1, <3>2 DEF Alone, Running, Phases
    <3>3. \A q \in Reloads : <<s, q>> \notin open
      BY <1>0, <3>1, NothingAssumption DEF Known
    <3>4. PICK ok \in BOOLEAN :
            /\ link' = [link EXCEPT ![r][s] = IF ok THEN "listing" ELSE "none"]
            /\ client' = IF ok THEN [client EXCEPT ![s] = r] ELSE client
            /\ open' = IF ok THEN open \cup {<<s, r>>} ELSE open
      BY <1>6 DEF Connect
    <3>5. visited[r] = {}
      BY <1>0, <3>1 DEF Phases
    <3>6. Known' /\ Current'
      BY <1>0, <3>1, <3>3, <3>4 DEF Known, Current, ReloadTypes
    <3>7. Progress'
      BY <1>0, <3>1, <3>2, <3>4, <3>5 DEF Progress, ReloadTypes
    <3> QED
      BY <1>0, <3>1, <3>6, <3>7 DEF Alone, Running
  <2> QED
    BY <2>1, <2>2 DEF ReloadInv
<1>7. ASSUME NEW r \in Reloads, NEW s \in Servers, List(r, s) PROVE ReloadInv'
  <2>1. ReloadTypes' /\ Phases'
    BY <1>0, <1>7, <1>a DEF List, ReloadTypes, Phases
  <2>2. ASSUME ~crowded' PROVE Alone' /\ Known' /\ Current' /\ Progress'
    <3>1. /\ ~crowded /\ reload' = reload /\ visited' = visited /\ client' = client
          /\ open' = open /\ fetched' = fetched /\ last' = last
          /\ link[r][s] = "listing" /\ reload[r] = "connect" /\ last = r /\ client[s] = r
          /\ link' = [link EXCEPT ![r][s] = "none"]
          /\ registry' \in {registry, [registry EXCEPT ![s] = fetched[r][s]]}
      BY <1>0, <1>7, <2>2 DEF List, Phases, Progress
    <3>2. \A q \in Reloads : reload[q] # "close"
      BY <1>0, <3>1 DEF Alone, Running
    <3>3. Current'
      BY <1>0, <3>1 DEF Current, ReloadTypes
    <3>4. Progress'
      BY <1>0, <3>1, <3>2 DEF Progress, ReloadTypes
    <3> QED
      BY <1>0, <3>1, <3>3, <3>4 DEF Alone, Running, Known
  <2> QED
    BY <2>1, <2>2 DEF ReloadInv
<1>8. ASSUME NEW r \in Reloads, Settled(r) PROVE ReloadInv'
  <2>1. ReloadTypes' /\ Phases'
    BY <1>0, <1>8, <1>a DEF Settled, At, ReloadTypes, Phases, upstreams
  <2>2. ASSUME ~crowded' PROVE Alone' /\ Known' /\ Current' /\ Progress'
    BY <1>0, <1>8, <2>2 DEF Settled, At, ReloadTypes, Alone, Running, Known, Current, Progress,
                            upstreams
  <2> QED
    BY <2>1, <2>2 DEF ReloadInv
<1>9. ASSUME NEW r \in Reloads, NEW s \in Servers, Die(s, r) PROVE ReloadInv'
  BY <1>0, <1>9, <1>a DEF Die, reloads, ReloadInv, ReloadTypes, Phases, Alone, Running, Known,
                          Current, Progress
<1> QED
  BY <1>1, <1>2, <1>3, <1>4, <1>5, <1>6, <1>7, <1>8, <1>9 DEF Next, CallStep

\* When no reload runs and none have overlapped, every registered tool has the kind and the
\* client that the last reload gave it, and no client is open that the map has forgotten: a
\* reload closes every client of the map before it clears it, and only its own connections
\* are made until it is done.
THEOREM ReloadsAgree == Spec => []QuietProxyIsConsistent
<1>1. ReloadInv => QuietProxyIsConsistent
  BY DEF ReloadInv, QuietProxyIsConsistent, Known, Current
<1> QED
  BY <1>1, ReloadInit, ReloadStep, PTL DEF Spec

=============================================================================
