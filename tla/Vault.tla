------------------------------- MODULE Vault -------------------------------
(***************************************************************************)
(* The secrets of connections: the requests that edit them, which rewrite  *)
(* the whole list of a connection from a copy they have read, and the two  *)
(* ways secrets leave it: those of mode "agent" of every active connection *)
(* into the environment of a workspace, and those of mode "exec_only" of   *)
(* the named connections into a container that executes one action.        *)
(*                                                                         *)
(* A secret is its name and its mode; values, their encryption, and which  *)
(* of two secrets with one name wins are left out, and so are a            *)
(* connection's own credential and what else its row holds.  A request     *)
(* for a connection that is not there changes nothing.  Vault has no       *)
(* behaviour of its own: Workspaces says who takes the secrets.            *)
(*                                                                         *)
(* Definitions that no action uses are the mistakes the properties are     *)
(* tested against.                                                         *)
(***************************************************************************)
EXTENDS Naturals, FiniteSets

CONSTANTS
  Connections,
  Names,      \* of secrets
  Editors,    \* bound: requests at once that add or remove one secret
  Executors,  \* bound: secure executions
  MaxRequests \* bound: requests that change a connection or execute

Modes == {"agent", "exec_only"}
Secrets == Names \X Modes
Removal == "none"

ASSUME VaultAssumption == MaxRequests \in Nat

VARIABLES
  connectionStatus, \* Connection.status, "deleted" when there is no row
  secrets,          \* Connection.secrets
  editor,           \* a request between its read and its write
  requests,
  execution,        \* connections still to resolve, and the secrets of those resolved
  told,             \* history: the secrets of a connection according to the answers
  tangled           \* history: connections with an edit that another one overtook

vault == <<connectionStatus, secrets, editor, requests, told, tangled>>

NoEdit == [at |-> "idle"]
NoExecution == [todo |-> {}, got |-> {}]

VaultInit ==
  /\ connectionStatus = [c \in Connections |-> "active"]
  /\ secrets = [c \in Connections |-> {}]
  /\ editor = [e \in Editors |-> NoEdit]
  /\ requests = 0
  /\ execution = [x \in Executors |-> NoExecution]
  /\ told = secrets
  /\ tangled = {}

-----------------------------------------------------------------------------
(* Editing                                                                 *)

\* The list without a name, and with the name's new entry unless it is removed.
Appended(list, name, mode) ==
  list \cup (IF mode = Removal THEN {} ELSE {<<name, mode>>})

Edited(list, name, mode) ==
  {s \in list : s[1] # name} \cup (IF mode = Removal THEN {} ELSE {<<name, mode>>})

Request == requests < MaxRequests /\ requests' = requests + 1

\* PUT replaces the list in one statement, and does not look for names given twice.
Replace(c, list) ==
  /\ Request
  /\ connectionStatus[c] # "deleted"
  /\ secrets' = [secrets EXCEPT ![c] = list]
  /\ told' = [told EXCEPT ![c] = list]
  /\ tangled' = tangled \ {c}
  /\ editor' = [e \in Editors |->
                  IF editor[e].at = c THEN [editor[e] EXCEPT !.fresh = FALSE] ELSE editor[e]]
  /\ UNCHANGED <<connectionStatus, execution>>

\* POST and DELETE of one secret: the list is read, ...
ReadList(e, c, name, mode) ==
  /\ Request
  /\ editor[e] = NoEdit
  /\ connectionStatus[c] # "deleted"
  /\ editor' = [editor EXCEPT ![e] =
       [at |-> c, list |-> secrets[c], name |-> name, mode |-> mode, fresh |-> TRUE]]
  /\ UNCHANGED <<connectionStatus, secrets, execution, told, tangled>>

\* ... edited and written as a whole, whatever has been written since.  The update of a
\* row that is gone fails.
WriteList(e) ==
  LET edit == editor[e]
      c == edit.at
  IN
  /\ edit # NoEdit
  /\ IF connectionStatus[c] = "deleted"
     THEN UNCHANGED <<secrets, told, tangled>> /\ editor' = [editor EXCEPT ![e] = NoEdit]
     ELSE /\ secrets' = [secrets EXCEPT ![c] = Edited(edit.list, edit.name, edit.mode)]
          /\ told' = [told EXCEPT ![c] =
                        {s \in @ : s[1] # edit.name} \cup ({edit.name} \X ({edit.mode} \cap Modes))]
          /\ tangled' = IF edit.fresh THEN tangled ELSE tangled \cup {c}
          /\ editor' = [f \in Editors |->
               IF f = e THEN NoEdit
               ELSE IF editor[f].at = c THEN [editor[f] EXCEPT !.fresh = FALSE] ELSE editor[f]]
  /\ UNCHANGED <<connectionStatus, requests, execution>>

\* A revoked connection keeps its secrets, and they may still be edited.
RevokeConnection(c) ==
  /\ Request
  /\ connectionStatus[c] # "deleted"
  /\ connectionStatus' = [connectionStatus EXCEPT ![c] = "revoked"]
  /\ UNCHANGED <<secrets, editor, execution, told, tangled>>

DeleteConnection(c) ==
  /\ Request
  /\ connectionStatus[c] # "deleted"
  /\ connectionStatus' = [connectionStatus EXCEPT ![c] = "deleted"]
  /\ UNCHANGED <<secrets, editor, execution, told, tangled>>

EditVault ==
  \/ \E c \in Connections :
       \/ \E list \in SUBSET Secrets : Replace(c, list)
       \/ \E e \in Editors, name \in Names, mode \in Modes \cup {Removal} :
            ReadList(e, c, name, mode)
       \/ RevokeConnection(c) \/ DeleteConnection(c)
  \/ \E e \in Editors : WriteList(e)

-----------------------------------------------------------------------------
(* Reading                                                                 *)

OfMode(c, mode) == {c} \X {s[1] : s \in {t \in secrets[c] : t[2] = mode}}

Live(c) == connectionStatus[c] = "active"

\* resolveAgentSecrets: one statement over all connections.
AgentSecrets == UNION {OfMode(c, "agent") : c \in {d \in Connections : Live(d)}}

StartExecution(x, wanted) ==
  /\ execution[x] = NoExecution
  /\ wanted # {}
  /\ Request
  /\ execution' = [execution EXCEPT ![x].todo = wanted]
  /\ UNCHANGED <<connectionStatus, secrets, editor, told, tangled>>

\* resolveMultiConnectionCredentials: one connection after the other; one that is not
\* active fails the whole.
ResolveNext(x, c) ==
  /\ c \in execution[x].todo
  /\ execution' = [execution EXCEPT ![x] =
       IF Live(c) THEN [todo |-> @.todo \ {c}, got |-> @.got \cup OfMode(c, "exec_only")]
       ELSE NoExecution]
  /\ UNCHANGED vault

=============================================================================
