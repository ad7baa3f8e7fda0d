----------------------------- MODULE UserAccess -----------------------------
(***************************************************************************)
(* Who may do what in the admin API of Falko MDM: require_auth and         *)
(* _check_user_access (app/admin.py), the user documents (app/db.py        *)
(* upsert_user, update_user_status), and the endpoints that authorize,     *)
(* deny and queue commands. Each Firestore call is a step.                 *)
(*                                                                         *)
(* Google's verification of a token is external: each time it confirms the *)
(* e-mail address of the sender or fails (no token, a bad or expired one,  *)
(* Google's keys out of reach).                                            *)
(***************************************************************************)
EXTENDS Naturals, FiniteSets

CONSTANTS
  Users,        \* e-mail addresses
  Bootstrap,    \* _BOOTSTRAP_ADMINS
  Threads,      \* request threads of all instances
  MaxCommands,  \* bound on queued commands
  None

ASSUME AccessAssumption ==
  /\ Bootstrap \subseteq Users
  /\ MaxCommands \in Nat
  /\ None \notin Users

States == {"absent", "pending", "authorized", "denied"}
Roles == {"none", "user", "admin"}
Operations == {"read", "authorize", "deny", "command", "danger"}
Steps == {"idle", "verify", "lookup", "create", "login", "reread", "endpoint",
          "role", "update", "enqueue"}

VARIABLES
  state,     \* status of each user document ("absent": no document)
  role,      \* its role
  step,      \* what each thread does next
  request,   \* [user, op, on]: who asks, for what, about whom
  queued,    \* commands put into the queue: which kind, by whom
  judged,    \* history: the last decision taken about each user
  ever,      \* history: the users somebody has authorized
  barred     \* history: threads whose sender was denied when the request
             \* came and has not been authorized since

history == <<judged, ever, barred>>
vars == <<state, role, step, request, queued, history>>

NoRequest == [user |-> None, op |-> None, on |-> None]

Init ==
  /\ state = [u \in Users |-> "absent"]
  /\ role = [u \in Users |-> "none"]
  /\ step = [t \in Threads |-> "idle"]
  /\ request = [t \in Threads |-> NoRequest]
  /\ queued = {}
  /\ judged = [u \in Users |-> "none"]
  /\ ever = {} /\ barred = {}

Sender(t) == request[t].user
Goto(t, s) == step' = [step EXCEPT ![t] = s]
Finish(t) == /\ Goto(t, "idle")
             /\ request' = [request EXCEPT ![t] = NoRequest]

(* A request with the token of a user.                                     *)
Arrive(t, u, op, v) ==
  /\ step[t] = "idle"
  /\ op \notin {"authorize", "deny"} => v = u
  /\ request' = [request EXCEPT ![t] = [user |-> u, op |-> op, on |-> v]]
  /\ Goto(t, "verify")
  /\ barred' = IF judged[u] = "denied" THEN barred \cup {t} ELSE barred \ {t}
  /\ UNCHANGED <<state, role, queued, judged, ever>>

(* require_auth: the token is verified, or 401.                            *)
Verify(t) ==
  /\ step[t] = "verify"
  /\ (Goto(t, "lookup") /\ UNCHANGED request) \/ Finish(t)
  /\ UNCHANGED <<state, role, queued, history>>

----------------------------------------------------------------------------
(* _check_user_access, with upsert_user: get, then set or update and get.  *)

Lookup(t) ==
  /\ step[t] = "lookup"
  /\ Goto(t, IF state[Sender(t)] = "absent" THEN "create" ELSE "login")
  /\ UNCHANGED <<state, role, request, queued, history>>

(* Mutant: only users waiting for a decision are kept out.                 *)
UnlessPending(u, s) == u \in Bootstrap \/ s # "pending"

Allowed(u, s) == u \in Bootstrap \/ s = "authorized"

(* Goes on to the endpoint, or answers 403.                                *)
Admit(t, s) == IF Allowed(Sender(t), s)
               THEN Goto(t, "endpoint") /\ UNCHANGED request
               ELSE Finish(t)

(* Mutant: new users need no decision.                                     *)
NewAuthorized(u) == [state |-> "authorized",
                     role |-> IF u \in Bootstrap THEN "admin" ELSE "user"]

NewUser(u) == IF u \in Bootstrap
              THEN [state |-> "authorized", role |-> "admin"]
              ELSE [state |-> "pending", role |-> "user"]

(* ref.set: the whole document, whatever is there by now.                  *)
Create(t) ==
  LET u == Sender(t)
  IN  /\ step[t] = "create"
      /\ state' = [state EXCEPT ![u] = NewUser(u).state]
      /\ role' = [role EXCEPT ![u] = NewUser(u).role]
      /\ Admit(t, NewUser(u).state)
      /\ UNCHANGED <<queued, history>>

(* ref.update of last_login only.                                          *)
Login(t) ==
  /\ step[t] = "login"
  /\ Goto(t, "reread")
  /\ UNCHANGED <<state, role, request, queued, history>>

Reread(t) ==
  /\ step[t] = "reread"
  /\ Admit(t, state[Sender(t)])
  /\ UNCHANGED <<state, role, queued, history>>

----------------------------------------------------------------------------
(* The endpoints.                                                          *)

(* Mutant: the endpoints do not look the user up first.                    *)
AllKnown(v) == TRUE

Known(v) == state[v] # "absent"

(* authorize_user and deny_user look the user up first: 404 if unknown.    *)
(* The listings, get_one_device and a send_command without a known command *)
(* type (400) change nothing.                                              *)
Endpoint(t) ==
  /\ step[t] = "endpoint"
  /\ \/ /\ request[t].op = "read"
        /\ Finish(t)
     \/ /\ request[t].op \in {"authorize", "deny"}
        /\ IF Known(request[t].on) THEN Goto(t, "update") /\ UNCHANGED request
                                   ELSE Finish(t)
     \/ /\ request[t].op = "danger"
        /\ Goto(t, "role")
        /\ UNCHANGED request
     \/ /\ request[t].op = "command"
        /\ Goto(t, "enqueue")
        /\ UNCHANGED request
  /\ UNCHANGED <<state, role, queued, history>>

(* Mutant: update_user_status always writes the role's default too.        *)
RoleReset(v) == "user"

(* update_user_status leaves the role alone: no caller passes one.         *)
RoleAfter(v) == role[v]

Update(t) ==
  LET v == request[t].on
      s == IF request[t].op = "authorize" THEN "authorized" ELSE "denied"
  IN  /\ step[t] = "update"
      /\ state' = [state EXCEPT ![v] = s]
      /\ role' = [role EXCEPT ![v] = RoleAfter(v)]
      /\ judged' = [judged EXCEPT ![v] = s]
      /\ ever' = IF s = "authorized" THEN ever \cup {v} ELSE ever
      /\ barred' = IF s = "authorized" THEN {x \in barred : Sender(x) # v} ELSE barred
      /\ Finish(t)
      /\ UNCHANGED queued

(* Mutant: the role check passes everyone require_auth admitted.           *)
MayDangerAll(u) == role[u] # "none"

MayDanger(u) == role[u] = "admin"

(* send_command's second check for EraseDevice and ShutDownDevice: the     *)
(* token is verified once more (401 if that fails now), the role read.     *)
CheckRole(t) ==
  /\ step[t] = "role"
  /\ \/ Finish(t)
     \/ MayDanger(Sender(t)) /\ Goto(t, "enqueue") /\ UNCHANGED request
  /\ UNCHANGED <<state, role, queued, history>>

(* The command is put into the queue, or the device is unknown (404).      *)
Enqueue(t) ==
  /\ step[t] = "enqueue"
  /\ \/ /\ Cardinality(queued) < MaxCommands
        /\ queued' = queued \cup {[by |-> Sender(t), kind |-> request[t].op]}
     \/ UNCHANGED queued
  /\ Finish(t)
  /\ UNCHANGED <<state, role, history>>

Serve(t) ==
  \/ Verify(t) \/ Lookup(t) \/ Create(t) \/ Login(t) \/ Reread(t)
  \/ Endpoint(t) \/ Update(t) \/ CheckRole(t) \/ Enqueue(t)

(* A thread dies or a Firestore call raises.                               *)
Die(t) ==
  /\ step[t] # "idle"
  /\ Finish(t)
  /\ UNCHANGED <<state, role, queued, history>>

Next == \E t \in Threads :
  \/ \E u, v \in Users, op \in Operations : Arrive(t, u, op, v)
  \/ Serve(t)
  \/ Die(t)

Spec == Init /\ [][Next]_vars

----------------------------------------------------------------------------
(* Properties.                                                             *)

(* Types; a user has a role exactly if there is a document.                *)
TypeOK ==
  /\ state \in [Users -> States] /\ role \in [Users -> Roles]
  /\ \A u \in Users : state[u] = "absent" <=> role[u] = "none"
  /\ step \in [Threads -> Steps]
  /\ request \in [Threads -> [user : Users \cup {None}, on : Users \cup {None},
                             op : Operations \cup {None}]]
  /\ \A t \in Threads : step[t] # "idle" => request[t] # NoRequest
  /\ queued \in SUBSET [by : Users, kind : {"command", "danger"}]
  /\ judged \in [Users -> {"none", "authorized", "denied"}]
  /\ ever \subseteq Users /\ barred \subseteq Threads

(* However first log-ins, decisions and commands interleave, exactly the   *)
(* bootstrap administrators get the admin role: no path of the code can    *)
(* give it to anybody else or take it from them.                           *)
AdminsAreBootstrap == \A u \in Users :
  state[u] # "absent" => (role[u] = "admin" <=> u \in Bootstrap)

(* EraseDevice and ShutDownDevice are queued by administrators only.       *)
DangerByAdmins == \A q \in queued : q.kind = "danger" => q.by \in Bootstrap

InEndpoint(t) == step[t] \in {"endpoint", "role", "update", "enqueue"}

LetInByDecision == \A t \in Threads :
  InEndpoint(t)' /\ ~ InEndpoint(t)
    => Sender(t) \in Bootstrap \/ judged[Sender(t)] = "authorized"

(* require_auth: a request is let in only if its sender is a bootstrap     *)
(* administrator, or if at that moment the last decision about the sender  *)
(* is to authorize, whatever first log-ins have written over the document. *)
EntryByDecision == [][LetInByDecision]_vars

(* A request that comes after its sender was denied gets nowhere, though   *)
(* older requests of the same user may still be running.                   *)
DeniedStayOut == \A t \in barred :
  InEndpoint(t) => Sender(t) \in Bootstrap

(* upsert_user: "an existing user keeps status and role": a decision       *)
(* stands until the next one.                                              *)
DecisionsStand == \A u \in Users : judged[u] # "none" => state[u] = judged[u]
============================================================================
