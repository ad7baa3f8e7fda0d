------------------------- MODULE UserAccess_proofs -------------------------
(***************************************************************************)
(* Proofs about UserAccess for every set of users, administrators and      *)
(* request threads.                                                        *)
(***************************************************************************)
EXTENDS UserAccess, TLAPS

(* Why these hold: a request that has come as far as its endpoint is of    *)
(* somebody who was let in, and a document that lets somebody in was made  *)
(* by a decision; what a decision undoes is only undone by another one.    *)
LetIn == Bootstrap \cup ever

RequestOK(t) ==
  /\ step[t] = "idle" <=> request[t].user = None
  /\ step[t] # "idle" => request[t].on \in Users /\ request[t].op \in Operations
  /\ step[t] = "role" => request[t].op = "danger"
  /\ step[t] = "update" => state[request[t].on] # "absent"
  /\ step[t] = "enqueue" => request[t].op \in {"command", "danger"}
  /\ step[t] = "enqueue" /\ request[t].op = "danger" => Sender(t) \in Bootstrap
  /\ InEndpoint(t) => Sender(t) \in LetIn

RequestsOK == \A t \in Threads : RequestOK(t)

DocumentsOK == \A u \in Users :
  /\ state[u] = "authorized"
       => u \in Bootstrap \/ (u \in ever /\ judged[u] = "authorized")
  /\ judged[u] = "denied" => u \in Bootstrap \/ state[u] \in {"pending", "denied"}

BarredOK == \A t \in barred : step[t] # "idle" => judged[Sender(t)] = "denied"

AccessInv ==
  /\ RequestsOK /\ DocumentsOK /\ BarredOK
  /\ AdminsAreBootstrap /\ DangerByAdmins /\ DeniedStayOut

Requests == [user : Users \cup {None}, on : Users \cup {None},
             op : Operations \cup {None}]

LEMMA NoRequestTyped == NoRequest \in Requests
BY DEF NoRequest, Requests

(* Who sent the request of a thread that is not idle.                      *)
LEMMA Senders ==
  ASSUME AccessAssumption, TypeOK, AccessInv, NEW t \in Threads, step[t] # "idle"
  PROVE  /\ Sender(t) \in Users
         /\ request[t].on \in Users /\ request[t].op \in Operations
<1>1. request[t] \in Requests
  BY DEF TypeOK, Requests
<1>2. request[t].user # None
  BY DEF AccessInv, RequestOK, RequestsOK
<1> QED BY <1>1, <1>2 DEF AccessInv, RequestOK, RequestsOK, Requests, Sender

(* The steps that touch nothing but the thread's own progress.             *)
LEMMA ProgressKeeps ==
  ASSUME AccessAssumption, TypeOK, AccessInv, NEW t \in Threads,
         \/ Verify(t) \/ Lookup(t) \/ Login(t) \/ Reread(t) \/ Endpoint(t)
         \/ CheckRole(t) \/ Die(t)
  PROVE  TypeOK' /\ AccessInv'
<1>1. UNCHANGED <<state, role, queued, history>> /\ step[t] # "idle"
  BY DEF Verify, Lookup, Login, Reread, Endpoint, CheckRole, Die
<1>2. /\ Sender(t) \in Users
      /\ request[t].on \in Users /\ request[t].op \in Operations
      /\ request[t] \in Requests
  BY <1>1, Senders DEF TypeOK, Requests
<1>3. PICK s \in Steps : /\ Goto(t, s)
                         /\ \/ UNCHANGED request /\ s # "idle"
                            \/ Finish(t) /\ s = "idle"
  BY DEF Verify, Lookup, Login, Reread, Endpoint, CheckRole, Die, Admit, Finish, Goto, Steps
<1>4. /\ step' = [step EXCEPT ![t] = s]
      /\ \/ request' = request /\ s # "idle"
         \/ request' = [request EXCEPT ![t] = NoRequest] /\ s = "idle"
  BY <1>1, <1>3 DEF Goto, Finish
<1>5. TypeOK'
  BY <1>1, <1>2, <1>4, NoRequestTyped DEF TypeOK, Requests, history, NoRequest, AccessAssumption
<1>6. step'[t] = s
  BY <1>4 DEF TypeOK
<1>7. s = "role" => request[t].op = "danger"
  BY <1>6 DEF Verify, Lookup, Login, Reread, Endpoint, CheckRole, Die, Admit, Finish, Goto, TypeOK
<1>8. s = "update" => state[request[t].on] # "absent"
  BY <1>6 DEF Verify, Lookup, Login, Reread, Endpoint, CheckRole, Die, Admit, Finish, Goto,
     TypeOK, Known
<1>9. s = "enqueue" =>
        \/ request[t].op = "command"
        \/ request[t].op = "danger" /\ Sender(t) \in Bootstrap
  <2>1. CASE CheckRole(t) /\ s = "enqueue"
    <3>1. request[t].op = "danger" /\ role[Sender(t)] = "admin"
      BY <1>6, <2>1 DEF CheckRole, Finish, Goto, TypeOK, MayDanger, AccessInv, RequestOK, RequestsOK
    <3> QED
      BY <1>2, <3>1 DEF TypeOK, AccessInv, AdminsAreBootstrap
  <2>2. CASE ~ CheckRole(t)
    BY <1>6, <2>2 DEF Verify, Lookup, Login, Reread, Endpoint, Die, Admit, Finish, Goto, TypeOK
  <2> QED BY <2>1, <2>2
<1>10. s \in {"endpoint", "role", "update", "enqueue"} =>
         /\ Sender(t) \in LetIn
         /\ t \in barred => Sender(t) \in Bootstrap
  <2>1. CASE Reread(t)
    <3>1. s = "endpoint" => Allowed(Sender(t), state[Sender(t)])
      BY <1>6, <2>1 DEF Reread, Admit, Finish, Goto, TypeOK
    <3>2. s \in {"idle", "endpoint"}
      BY <1>6, <2>1 DEF Reread, Admit, Finish, Goto, TypeOK
    <3>3. t \in barred => judged[Sender(t)] = "denied"
      BY <1>1 DEF AccessInv, BarredOK
    <3> QED
      BY <1>2, <3>1, <3>2, <3>3 DEF Allowed, AccessInv, DocumentsOK, LetIn
  <2>2. CASE Endpoint(t) \/ CheckRole(t)
    <3>1. InEndpoint(t)
      BY <2>2 DEF Endpoint, CheckRole, InEndpoint
    <3> QED BY <3>1 DEF AccessInv, RequestOK, RequestsOK, DeniedStayOut
  <2>3. CASE Verify(t) \/ Lookup(t) \/ Login(t) \/ Die(t)
    BY <1>6, <2>3 DEF Verify, Lookup, Login, Die, Finish, Goto, TypeOK
  <2> QED BY <2>1, <2>2, <2>3
<1>11. /\ \A x \in Threads \ {t} : step'[x] = step[x] /\ request'[x] = request[x]
       /\ s # "idle" => request'[t] = request[t]
       /\ s = "idle" => request'[t] = NoRequest
  BY <1>4 DEF TypeOK
<1>12. RequestsOK'
  <2> SUFFICES ASSUME NEW x \in Threads PROVE RequestOK(x)'
    BY DEF RequestsOK
  <2>1. CASE x # t
    BY <1>1, <1>11, <2>1 DEF AccessInv, RequestOK, RequestsOK, Sender, InEndpoint, LetIn, history
  <2>2. CASE x = t /\ s = "idle"
    BY <1>6, <1>11, <2>2 DEF RequestOK, NoRequest, InEndpoint
  <2>3. CASE x = t /\ s # "idle"
    <3>1. request[t].user # None
      BY <1>1 DEF AccessInv, RequestOK, RequestsOK
    <3> QED
      BY <1>1, <1>2, <1>6, <1>7, <1>8, <1>9, <1>10, <1>11, <2>3, <3>1
         DEF RequestOK, Sender, InEndpoint, LetIn, history
  <2> QED BY <2>1, <2>2, <2>3
<1>13. BarredOK' /\ DeniedStayOut'
  <2> SUFFICES ASSUME NEW x \in barred
               PROVE  /\ step'[x] # "idle" => judged[Sender(x)'] = "denied"
                      /\ InEndpoint(x)' => Sender(x)' \in Bootstrap
    BY <1>1 DEF BarredOK, DeniedStayOut, history
  <2>1. x \in Threads
    BY DEF TypeOK
  <2>2. CASE x # t
    BY <1>11, <2>1, <2>2 DEF AccessInv, BarredOK, DeniedStayOut, Sender, InEndpoint
  <2>3. CASE x = t
    BY <1>1, <1>6, <1>10, <1>11, <2>3 DEF AccessInv, BarredOK, Sender, InEndpoint
  <2> QED BY <2>2, <2>3
<1> QED
  BY <1>1, <1>5, <1>12, <1>13
     DEF AccessInv, DocumentsOK, AdminsAreBootstrap, DangerByAdmins,
         LetIn, history

(* A request that comes in: if its sender is denied now, it is barred.     *)
LEMMA ArriveKeeps ==
  ASSUME AccessAssumption, TypeOK, AccessInv,
         NEW t \in Threads, NEW u \in Users, NEW v \in Users, NEW op \in Operations,
         Arrive(t, u, op, v)
  PROVE  TypeOK' /\ AccessInv'
<1>1. /\ UNCHANGED <<state, role, queued, judged, ever>>
      /\ step[t] = "idle" /\ step' = [step EXCEPT ![t] = "verify"]
      /\ request' = [request EXCEPT ![t] = [user |-> u, op |-> op, on |-> v]]
      /\ barred' = IF judged[u] = "denied" THEN barred \cup {t} ELSE barred \ {t}
  BY DEF Arrive, Goto
<1>2. TypeOK'
  BY <1>1 DEF TypeOK, Steps, NoRequest, AccessAssumption
<1>3. /\ step'[t] = "verify" /\ Sender(t)' = u
      /\ request'[t] = [user |-> u, op |-> op, on |-> v]
      /\ \A x \in Threads \ {t} : step'[x] = step[x] /\ request'[x] = request[x]
  BY <1>1 DEF TypeOK, Sender
<1>4. RequestsOK'
  <2> SUFFICES ASSUME NEW x \in Threads PROVE RequestOK(x)'
    BY DEF RequestsOK
  <2>1. CASE x # t
    BY <1>1, <1>3, <2>1 DEF AccessInv, RequestsOK, RequestOK, Sender, InEndpoint, LetIn
  <2>2. CASE x = t
    BY <1>3, <2>2 DEF RequestOK, InEndpoint, AccessAssumption
  <2> QED BY <2>1, <2>2
<1>5. BarredOK' /\ DeniedStayOut'
  <2> SUFFICES ASSUME NEW x \in barred'
               PROVE  /\ step'[x] # "idle" => judged[Sender(x)'] = "denied"
                      /\ InEndpoint(x)' => Sender(x)' \in Bootstrap
    BY <1>1 DEF BarredOK, DeniedStayOut
  <2>1. CASE x # t
    <3>1. x \in barred /\ x \in Threads
      BY <1>1, <2>1 DEF TypeOK
    <3> QED
      BY <1>3, <2>1, <3>1 DEF AccessInv, BarredOK, DeniedStayOut, Sender, InEndpoint
  <2>2. CASE x = t
    BY <1>1, <1>3, <2>2 DEF InEndpoint
  <2> QED BY <2>1, <2>2
<1> QED
  BY <1>1, <1>2, <1>4, <1>5
     DEF AccessInv, DocumentsOK, AdminsAreBootstrap, DangerByAdmins, LetIn

(* The first log-in, even if it overwrites what another thread has         *)
(* written: it lets nobody in but the bootstrap administrators.            *)
LEMMA CreateKeeps ==
  ASSUME AccessAssumption, TypeOK, AccessInv, NEW t \in Threads, Create(t)
  PROVE  TypeOK' /\ AccessInv'
<1> DEFINE u == Sender(t)
<1>1. step[t] = "create" /\ UNCHANGED <<queued, judged, ever, barred>>
  BY DEF Create, history
<1>2. u \in Users /\ request[t] \in Requests
  BY <1>1, Senders DEF TypeOK, Requests
<1>3. CASE u \in Bootstrap
  <2>1. /\ state' = [state EXCEPT ![u] = "authorized"]
        /\ role' = [role EXCEPT ![u] = "admin"]
        /\ step' = [step EXCEPT ![t] = "endpoint"] /\ UNCHANGED request
    BY <1>3 DEF Create, NewUser, Admit, Allowed, Goto
  <2>2. TypeOK'
    BY <1>1, <1>2, <2>1 DEF TypeOK, States, Roles, Steps
  <2>3. RequestsOK'
    <3> SUFFICES ASSUME NEW x \in Threads PROVE RequestOK(x)'
      BY DEF RequestsOK
    <3>1. CASE x # t
      BY <1>1, <1>2, <2>1, <3>1
         DEF TypeOK, AccessInv, RequestsOK, RequestOK, Sender, InEndpoint, LetIn
    <3>2. CASE x = t
      BY <1>1, <1>3, <2>1, <3>2
         DEF TypeOK, AccessInv, RequestsOK, RequestOK, Sender, InEndpoint, LetIn
    <3> QED BY <3>1, <3>2
  <2>4. DocumentsOK' /\ AdminsAreBootstrap'
    BY <1>1, <1>2, <1>3, <2>1
       DEF TypeOK, AccessInv, DocumentsOK, AdminsAreBootstrap, LetIn
  <2>5. BarredOK' /\ DeniedStayOut'
    BY <1>1, <1>3, <2>1
       DEF TypeOK, AccessInv, BarredOK, DeniedStayOut, Sender, InEndpoint
  <2> QED
    BY <1>1, <2>2, <2>3, <2>4, <2>5 DEF AccessInv, DangerByAdmins
<1>4. CASE u \notin Bootstrap
  <2>1. /\ state' = [state EXCEPT ![u] = "pending"]
        /\ role' = [role EXCEPT ![u] = "user"]
        /\ step' = [step EXCEPT ![t] = "idle"]
        /\ request' = [request EXCEPT ![t] = NoRequest]
    BY <1>4 DEF Create, NewUser, Admit, Allowed, Goto, Finish
  <2>2. TypeOK'
    BY <1>1, <1>2, <2>1, NoRequestTyped DEF TypeOK, States, Roles, Steps, Requests
  <2>3. RequestsOK'
    <3> SUFFICES ASSUME NEW x \in Threads PROVE RequestOK(x)'
      BY DEF RequestsOK
    <3>1. CASE x # t
      BY <1>1, <1>2, <2>1, <3>1
         DEF TypeOK, AccessInv, RequestsOK, RequestOK, Sender, InEndpoint, LetIn
    <3>2. CASE x = t
      BY <2>1, <3>2 DEF TypeOK, RequestOK, NoRequest, InEndpoint
    <3> QED BY <3>1, <3>2
  <2>4. DocumentsOK' /\ AdminsAreBootstrap'
    BY <1>1, <1>2, <1>4, <2>1
       DEF TypeOK, AccessInv, DocumentsOK, AdminsAreBootstrap, LetIn
  <2>5. BarredOK' /\ DeniedStayOut'
    BY <1>1, <2>1 DEF TypeOK, AccessInv, BarredOK, DeniedStayOut, Sender, InEndpoint
  <2> QED
    BY <1>1, <2>2, <2>3, <2>4, <2>5 DEF AccessInv, DangerByAdmins
<1> QED BY <1>3, <1>4

(* A decision about a user who has a document.                             *)
LEMMA UpdateKeeps ==
  ASSUME AccessAssumption, TypeOK, AccessInv, NEW t \in Threads, Update(t)
  PROVE  TypeOK' /\ AccessInv'
<1> DEFINE v == request[t].on
           s == IF request[t].op = "authorize" THEN "authorized" ELSE "denied"
<1>1. /\ step[t] = "update" /\ UNCHANGED <<queued, role>>
      /\ state' = [state EXCEPT ![v] = s] /\ judged' = [judged EXCEPT ![v] = s]
      /\ ever' = IF s = "authorized" THEN ever \cup {v} ELSE ever
      /\ barred' = IF s = "authorized" THEN {x \in barred : Sender(x) # v} ELSE barred
      /\ step' = [step EXCEPT ![t] = "idle"]
      /\ request' = [request EXCEPT ![t] = NoRequest]
  <2>1. step[t] = "update"
    BY DEF Update
  <2>2. v \in Users
    BY <2>1, Senders
  <2>3. role' = role
    BY <2>2 DEF Update, RoleAfter, TypeOK
  <2> QED BY <2>1, <2>3 DEF Update, Finish, Goto
<1>2. v \in Users /\ s \in {"authorized", "denied"} /\ state[v] # "absent"
  BY <1>1, Senders DEF AccessInv, RequestsOK, RequestOK
<1> HIDE DEF v, s
<1>3. TypeOK'
  <2>1. step' \in [Threads -> Steps]
    BY <1>1 DEF TypeOK, Steps
  <2>2. request' \in [Threads -> Requests]
    BY <1>1, NoRequestTyped DEF TypeOK, Requests
  <2>3. \A x \in Threads : step'[x] # "idle" => request'[x] # NoRequest
    BY <1>1 DEF TypeOK
  <2>4. /\ state' \in [Users -> States] /\ role' \in [Users -> Roles]
        /\ judged' \in [Users -> {"none", "authorized", "denied"}]
        /\ \A u \in Users : state'[u] = "absent" <=> role'[u] = "none"
    BY <1>1, <1>2 DEF TypeOK, States
  <2> QED BY <1>1, <1>2, <2>1, <2>2, <2>3, <2>4 DEF TypeOK, Requests
<1>4. /\ step'[t] = "idle" /\ request'[t] = NoRequest
      /\ \A x \in Threads \ {t} : step'[x] = step[x] /\ request'[x] = request[x]
      /\ \A u \in Users : state'[u] = "absent" <=> state[u] = "absent"
      /\ LetIn \subseteq LetIn'
  BY <1>1, <1>2 DEF TypeOK, LetIn
<1>5. RequestsOK'
  <2> SUFFICES ASSUME NEW x \in Threads PROVE RequestOK(x)'
    BY DEF RequestsOK
  <2>1. CASE x # t
    BY <1>4, <2>1 DEF AccessInv, RequestsOK, RequestOK, Sender, InEndpoint
  <2>2. CASE x = t
    BY <1>4, <2>2 DEF RequestOK, NoRequest, InEndpoint
  <2> QED BY <2>1, <2>2
<1>6. DocumentsOK' /\ AdminsAreBootstrap'
  BY <1>1, <1>2 DEF TypeOK, AccessInv, DocumentsOK, AdminsAreBootstrap, LetIn
<1>7. BarredOK' /\ DeniedStayOut'
  <2> SUFFICES ASSUME NEW x \in barred'
               PROVE  /\ step'[x] # "idle" => judged'[Sender(x)'] = "denied"
                      /\ InEndpoint(x)' => Sender(x)' \in Bootstrap
    BY DEF BarredOK, DeniedStayOut
  <2>1. x \in barred /\ x \in Threads /\ (s = "authorized" => Sender(x) # v)
    BY <1>1 DEF TypeOK
  <2>2. CASE x # t
    <3>1. step'[x] = step[x] /\ Sender(x)' = Sender(x)
      BY <1>4, <2>1, <2>2 DEF Sender
    <3>2. step[x] # "idle" => judged[Sender(x)] = "denied" /\ Sender(x) \in Users
      BY <2>1, Senders DEF AccessInv, BarredOK
    <3>3. step[x] # "idle" => judged'[Sender(x)] = "denied"
      BY <1>1, <1>2, <2>1, <3>2 DEF TypeOK
    <3> QED BY <2>1, <3>1, <3>3 DEF AccessInv, DeniedStayOut, InEndpoint
  <2>3. CASE x = t
    BY <1>4, <2>3 DEF InEndpoint
  <2> QED BY <2>2, <2>3
<1>8. DangerByAdmins'
  BY <1>1, <1>4 DEF AccessInv, DangerByAdmins
<1> QED BY <1>3, <1>5, <1>6, <1>7, <1>8 DEF AccessInv

(* The command goes into the queue.                                        *)
LEMMA EnqueueKeeps ==
  ASSUME AccessAssumption, TypeOK, AccessInv, NEW t \in Threads, Enqueue(t)
  PROVE  TypeOK' /\ AccessInv'
<1>1. /\ UNCHANGED <<state, role, judged, ever, barred>> /\ step[t] = "enqueue"
      /\ step' = [step EXCEPT ![t] = "idle"]
      /\ request' = [request EXCEPT ![t] = NoRequest]
      /\ \/ queued' = queued \cup {[by |-> Sender(t), kind |-> request[t].op]}
         \/ queued' = queued
  BY DEF Enqueue, Finish, Goto, history
<1>2. /\ Sender(t) \in Users /\ request[t].op \in {"command", "danger"}
      /\ Sender(t) \in LetIn
      /\ request[t].op = "danger" => Sender(t) \in Bootstrap
  BY <1>1, Senders DEF AccessInv, RequestsOK, RequestOK, InEndpoint
<1>3. TypeOK'
  <2>1. step' \in [Threads -> Steps] /\ request' \in [Threads -> Requests]
    BY <1>1, NoRequestTyped DEF TypeOK, Steps, Requests
  <2>2. queued' \in SUBSET [by : Users, kind : {"command", "danger"}]
    BY <1>1, <1>2 DEF TypeOK
  <2>3. \A x \in Threads : step'[x] # "idle" => request'[x] # NoRequest
    BY <1>1 DEF TypeOK
  <2> QED BY <1>1, <2>1, <2>2, <2>3 DEF TypeOK, Requests
<1>4. DangerByAdmins'
  BY <1>1, <1>2 DEF AccessInv, DangerByAdmins
<1>5. /\ step'[t] = "idle" /\ request'[t] = NoRequest
      /\ \A x \in Threads \ {t} : step'[x] = step[x] /\ request'[x] = request[x]
  BY <1>1 DEF TypeOK
<1>6. RequestsOK'
  <2> SUFFICES ASSUME NEW x \in Threads PROVE RequestOK(x)'
    BY DEF RequestsOK
  <2>1. CASE x # t
    BY <1>1, <1>5, <2>1 DEF AccessInv, RequestsOK, RequestOK, Sender, InEndpoint, LetIn
  <2>2. CASE x = t
    BY <1>5, <2>2 DEF RequestOK, NoRequest, InEndpoint
  <2> QED BY <2>1, <2>2
<1>7. BarredOK' /\ DeniedStayOut'
  BY <1>1, <1>5 DEF TypeOK, AccessInv, BarredOK, DeniedStayOut, Sender, InEndpoint
<1> QED
  BY <1>1, <1>3, <1>4, <1>6, <1>7
     DEF AccessInv, DocumentsOK, AdminsAreBootstrap, LetIn

(* Every step keeps the invariant: all properties of access at once.       *)
THEOREM AccessInvariant == Spec => [](TypeOK /\ AccessInv)
<1> USE AccessAssumption
<1>1. ASSUME Init PROVE TypeOK /\ AccessInv
  <2>1. TypeOK
    BY <1>1, NoRequestTyped DEF Init, TypeOK, Requests, States, Roles, Steps
  <2>2. AccessInv
    BY <1>1 DEF Init, AccessInv, RequestsOK, RequestOK, DocumentsOK, BarredOK,
       AdminsAreBootstrap, DangerByAdmins, DeniedStayOut,
       NoRequest, InEndpoint, Sender
  <2> QED BY <2>1, <2>2
<1>2. ASSUME TypeOK, AccessInv, [Next]_vars PROVE TypeOK' /\ AccessInv'
  <2>1. CASE UNCHANGED vars
    BY <1>2, <2>1 DEF vars, history, TypeOK, AccessInv, RequestsOK, RequestOK, DocumentsOK,
       BarredOK, AdminsAreBootstrap, DangerByAdmins, DeniedStayOut,
       LetIn, InEndpoint, Sender
  <2>2. ASSUME NEW t \in Threads, Serve(t) \/ Die(t) PROVE TypeOK' /\ AccessInv'
    BY <1>2, <2>2, ProgressKeeps, CreateKeeps, UpdateKeeps, EnqueueKeeps DEF Serve
  <2> QED BY <1>2, <2>1, <2>2, ArriveKeeps DEF Next
<1> QED BY <1>1, <1>2, PTL DEF Spec

(* Nobody but the bootstrap administrators ever has the admin role, and    *)
(* nothing takes it from them.                                             *)
THEOREM RolesAreFixed == Spec => []AdminsAreBootstrap
<1>1. AccessInv => AdminsAreBootstrap
  BY DEF AccessInv
<1> QED BY <1>1, AccessInvariant, PTL

(* So EraseDevice and ShutDownDevice are queued by them alone.             *)
THEOREM OnlyAdmins == Spec => []DangerByAdmins
<1>1. AccessInv => DangerByAdmins
  BY DEF AccessInv
<1> QED BY <1>1, AccessInvariant, PTL

(* A thread comes to its endpoint by a log-in that reads a document, or    *)
(* makes one; the document that lets its user in was written by a decision.*)
LEMMA EntryStep ==
  ASSUME AccessAssumption, TypeOK, AccessInv, [Next]_vars
  PROVE  LetInByDecision
<1> SUFFICES ASSUME NEW t \in Threads, InEndpoint(t)', ~ InEndpoint(t)
             PROVE  Sender(t) \in Bootstrap \/ judged[Sender(t)] = "authorized"
  BY DEF LetInByDecision
<1>1. Create(t) \/ Reread(t)
  <2>1. CASE UNCHANGED vars
    BY <2>1 DEF vars, InEndpoint
  <2>2. ASSUME NEW x \in Threads, NEW u \in Users, NEW v \in Users, NEW op \in Operations,
               Arrive(x, u, op, v)
        PROVE  FALSE
    BY <2>2 DEF Arrive, Goto, InEndpoint, TypeOK
  <2>3. ASSUME NEW x \in Threads, Serve(x) \/ Die(x) PROVE Create(t) \/ Reread(t)
    <3>1. x = t
      BY <2>3 DEF Serve, Verify, Lookup, Create, Login, Reread, Endpoint, Update, CheckRole,
         Enqueue, Die, Admit, Goto, Finish, InEndpoint, TypeOK
    <3> QED
      BY <2>3, <3>1 DEF Serve, Verify, Lookup, Login, Endpoint, Update, CheckRole, Enqueue,
         Die, Goto, Finish, InEndpoint, TypeOK
  <2> QED BY <2>1, <2>2, <2>3 DEF Next
<1>2. CASE Create(t)
  BY <1>2 DEF Create, NewUser, Admit, Allowed, Goto, Finish, InEndpoint, TypeOK
<1>3. CASE Reread(t)
  <2>1. Sender(t) \in Users
    BY <1>3, Senders DEF Reread
  <2>2. Allowed(Sender(t), state[Sender(t)])
    BY <1>3 DEF Reread, Admit, Goto, Finish, InEndpoint, TypeOK
  <2> QED BY <2>1, <2>2 DEF Allowed, AccessInv, DocumentsOK
<1> QED BY <1>1, <1>2, <1>3

(* Nobody is let in against the last decision about him: require_auth      *)
(* never lets in a user whom a decision, or the lack of one, keeps out,    *)
(* whatever a late first log-in has written.                               *)
THEOREM OnlyAuthorized == Spec => EntryByDecision
<1>1. TypeOK /\ AccessInv /\ [Next]_vars => LetInByDecision
  BY EntryStep, AccessAssumption
<1> QED BY <1>1, AccessInvariant, PTL DEF Spec, EntryByDecision

(* A user who is denied starts nothing new.                                *)
THEOREM DenialsHold == Spec => []DeniedStayOut
<1>1. AccessInv => DeniedStayOut
  BY DEF AccessInv
<1> QED BY <1>1, AccessInvariant, PTL

----------------------------------------------------------------------------
(* Where authorization comes from, and when a decision is safe.            *)

(* A user is let in by somebody who had been let in, by an authorize_user  *)
(* about exactly this user: there is no other way into the system.         *)
TrustIsHandedOn == \A u \in ever' \ ever : \E t \in Threads :
  /\ step[t] = "update" /\ request[t].op = "authorize" /\ request[t].on = u
  /\ Sender(t) \in Bootstrap \cup ever

LEMMA TrustStep ==
  ASSUME AccessAssumption, TypeOK, AccessInv, [Next]_vars
  PROVE  TrustIsHandedOn
<1>1. CASE UNCHANGED ever
  BY <1>1 DEF TrustIsHandedOn
<1>2. ASSUME NEW t \in Threads, Update(t) PROVE TrustIsHandedOn
  <2>1. step[t] = "update" /\ Sender(t) \in LetIn
    BY <1>2 DEF Update, AccessInv, RequestsOK, RequestOK, InEndpoint
  <2>2. \A u \in ever' \ ever : request[t].op = "authorize" /\ request[t].on = u
    BY <1>2 DEF Update
  <2> QED BY <2>1, <2>2 DEF TrustIsHandedOn, LetIn
<1>3. ASSUME NEW t \in Threads, Serve(t) \/ Die(t), ~ Update(t) PROVE UNCHANGED ever
  BY <1>3 DEF Serve, Verify, Lookup, Create, Login, Reread, Endpoint, CheckRole, Enqueue,
     Die, history
<1> QED BY <1>1, <1>2, <1>3 DEF Next, Arrive, vars, history

(* The chain of authorizations behind every user leads back to a bootstrap *)
(* administrator.                                                          *)
THEOREM ChainOfTrust == Spec => [][TrustIsHandedOn]_vars
<1>1. TypeOK /\ AccessInv /\ [Next]_vars => TrustIsHandedOn
  BY TrustStep, AccessAssumption
<1> QED BY <1>1, AccessInvariant, PTL DEF Spec

(* The user has a document, and no first log-in that has seen none is      *)
(* still to write one.                                                     *)
FirstLoginOver(u) ==
  /\ state[u] # "absent"
  /\ \A t \in Threads : step[t] = "create" => Sender(t) # u

LEMMA DecisionStep ==
  ASSUME AccessAssumption, TypeOK, AccessInv, NEW u \in Users,
         FirstLoginOver(u), [Next]_vars
  PROVE  /\ FirstLoginOver(u)'
         /\ state[u] = judged[u] => state'[u] = judged'[u]
<1> USE DEF history
<1>1. ASSUME NEW t \in Threads, \A x \in Threads \ {t} : step'[x] = step[x] /\ request'[x] = request[x],
             step'[t] = "create" => Sender(t)' # u, state'[u] # "absent",
             state[u] = judged[u] => state'[u] = judged'[u]
      PROVE  FirstLoginOver(u)' /\ (state[u] = judged[u] => state'[u] = judged'[u])
  BY <1>1 DEF FirstLoginOver, Sender
<1>3. ASSUME NEW t \in Threads, NEW v \in Users, NEW w \in Users, NEW op \in Operations,
             Arrive(t, v, op, w)
      PROVE  FirstLoginOver(u)' /\ (state[u] = judged[u] => state'[u] = judged'[u])
  BY <1>3 DEF Arrive, Goto, TypeOK, FirstLoginOver, Sender
<1>4. ASSUME NEW t \in Threads, Create(t)
      PROVE  FirstLoginOver(u)' /\ (state[u] = judged[u] => state'[u] = judged'[u])
  <2>1. Sender(t) # u
    BY <1>4 DEF Create, FirstLoginOver
  <2> QED BY <1>4, <2>1 DEF Create, Admit, Goto, Finish, TypeOK, FirstLoginOver, Sender
<1>5. ASSUME NEW t \in Threads, Update(t)
      PROVE  FirstLoginOver(u)' /\ (state[u] = judged[u] => state'[u] = judged'[u])
  BY <1>5 DEF Update, Goto, Finish, TypeOK, FirstLoginOver, Sender
<1>6. ASSUME NEW t \in Threads, Lookup(t)
      PROVE  FirstLoginOver(u)' /\ (state[u] = judged[u] => state'[u] = judged'[u])
  BY <1>6 DEF Lookup, Goto, TypeOK, FirstLoginOver, Sender
<1>7. ASSUME NEW t \in Threads,
             \/ Verify(t) \/ Login(t) \/ Reread(t) \/ Endpoint(t) \/ CheckRole(t)
             \/ Enqueue(t) \/ Die(t)
      PROVE  FirstLoginOver(u)' /\ (state[u] = judged[u] => state'[u] = judged'[u])
  <2>1. UNCHANGED <<state, judged>>
    BY <1>7 DEF Verify, Login, Reread, Endpoint, CheckRole, Enqueue, Die
  <2>2. step'[t] # "create"
    BY <1>7 DEF Verify, Login, Reread, Admit, Endpoint, CheckRole, Enqueue, Die, Goto, Finish, TypeOK
  <2>3. \A x \in Threads \ {t} : step'[x] = step[x] /\ request'[x] = request[x]
    BY <1>7 DEF Verify, Login, Reread, Admit, Endpoint, CheckRole, Enqueue, Die, Goto, Finish, TypeOK
  <2> QED BY <1>1, <2>1, <2>2, <2>3 DEF FirstLoginOver
<1>8. CASE UNCHANGED vars
  BY <1>8 DEF vars, FirstLoginOver, Sender
<1> QED BY <1>3, <1>4, <1>5, <1>6, <1>7, <1>8 DEF Next, Serve

(* What DecisionsStand promises holds once the user's first log-ins are    *)
(* over: from then on a decision stands until the next one. Only a first   *)
(* log-in that overlaps another one and a decision can undo it.            *)
THEOREM DecisionsStandAfterLogin ==
  ASSUME NEW u \in Users
  PROVE  Spec => [](FirstLoginOver(u) /\ state[u] = judged[u]
                      => [](FirstLoginOver(u) /\ state[u] = judged[u]))
<1> DEFINE Stands == FirstLoginOver(u) /\ state[u] = judged[u]
<1>1. TypeOK /\ AccessInv /\ Stands /\ [Next]_vars => Stands'
  BY DecisionStep, AccessAssumption
<1> HIDE DEF Stands
<1>2. Spec => [](Stands => []Stands)
  BY <1>1, AccessInvariant, PTL DEF Spec
<1> QED BY <1>2 DEF Stands
============================================================================
