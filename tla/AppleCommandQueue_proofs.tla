---------------------- MODULE AppleCommandQueue_proofs ----------------------
(***************************************************************************)
(* Proofs about AppleCommandQueue for every fleet, every number of threads *)
(* and crashes: no command is handed over twice, with and without devices  *)
(* that give up, and of devices that wait for their answers, the order in  *)
(* which commands arrive, that nothing is lost without a cause and that    *)
(* the handlers implement CommandLifecycle.                                *)
(***************************************************************************)
EXTENDS AppleCommandQueue, FiniteSetTheorems, WellFoundedInduction, TLAPS

(* A report names a command exactly when it carries a result for it.       *)
LEMMA ReportFields ==
  /\ Idle \in Reports
  /\ Idle.cmd = None /\ Idle.result = None
  /\ \A r \in Reports :
       /\ r.cmd \in Commands \cup {None}
       /\ r.result \in Outcomes \cup {None}
       /\ r.cmd # None => r.cmd \in Commands /\ r.result \in Outcomes
BY DEF Reports, Idle

(* What dequeue_command can do: nothing pending, or the thread now holds a *)
(* pending command of the device it serves.                                *)
LEMMA DequeueEffect ==
  ASSUME TypeOK, NEW w \in Workers, Dequeue(w)
  PROVE  /\ step[w] = "dequeue"
         /\ UNCHANGED <<documents, request, devices, crashes, ahead>>
         /\ \/ /\ held' = held
               /\ step' = [step EXCEPT ![w] = "answer"]
            \/ \E c \in Commands :
                 /\ status[c] = "pending"
                 /\ Target[c] = request[w].device
                 /\ held' = [held EXCEPT ![w] = c]
                 /\ step' = [step EXCEPT ![w] = "mark"]
BY DEF Dequeue, Queue, OldestIn, Goto

(* The order_by("created_at").limit(1) of dequeue_command has an answer    *)
(* whenever something is pending: no handler is stuck in its query.        *)
LEMMA SomethingIsOldest ==
  ASSUME TypeOK, NEW Q \in SUBSET Commands, Q # {}
  PROVE  OldestIn(Q) # {}
<1> DEFINE Times == {created[c] : c \in Q}
<1>1. Times \in SUBSET Nat /\ Times # {}
  BY DEF TypeOK
<1>2. IsWellFoundedOn(OpToRel(<, Nat), Nat)
  BY NatLessThanWellFounded
<1>3. PICK t \in Times : \A u \in Times : ~ (<<u, t>> \in OpToRel(<, Nat))
  BY <1>1, <1>2, WFMin
<1>4. \A u \in Times : ~ (u < t)
  BY <1>1, <1>3 DEF OpToRel
<1>5. \A u \in Times : t <= u
  BY <1>1, <1>4
<1>6. PICK c \in Q : created[c] = t
  BY <1>3
<1>7. c \in OldestIn(Q)
  BY <1>5, <1>6 DEF OldestIn
<1> QED BY <1>7

(* Every step preserves the types, and the small invariant of each thread. *)
LEMMA TypeKept == TypeOK /\ [Next]_vars => TypeOK'
<1> USE QueueAssumption
<1> SUFFICES ASSUME TypeOK, [Next]_vars PROVE TypeOK'
  OBVIOUS
<1> USE DEF TypeOK
<1>1. ASSUME NEW c \in Commands, Stamp(c) \/ Enqueue(c) PROVE TypeOK'
  <2>1. CASE Stamp(c)
    BY <2>1 DEF Stamp, workers, devices, WorkerOK
  <2>2. CASE Enqueue(c)
    BY <2>2 DEF Enqueue, workers, devices, WorkerOK, Statuses
  <2> QED BY <1>1, <2>1, <2>2
<1>2. ASSUME NEW d \in Devices, NEW w \in Workers, Poll(d, w) PROVE TypeOK'
  BY <1>2 DEF Poll, Goto, documents, WorkerOK, Steps
<1>3. ASSUME NEW w \in Workers, Touch(w) PROVE TypeOK'
  <2>1. request[w].say \in Reports
    OBVIOUS
  <2>2. lastStatus' \in [Devices -> Outcomes \cup {None}]
    BY <1>3, <2>1, ReportFields DEF Touch
  <2> QED BY <1>3, <2>2 DEF Touch, Goto, devices, WorkerOK, Steps
<1>4. ASSUME NEW w \in Workers, Ack(w) PROVE TypeOK'
  <2>1. request[w].say \in Reports
    OBVIOUS
  <2>2. request[w].say.result \in Statuses
    BY <1>4, <2>1, ReportFields DEF Ack, WorkerOK, Statuses
  <2>3. status' \in [Commands -> Statuses]
    BY <1>4, <2>2 DEF Ack
  <2> QED BY <1>4, <2>3 DEF Ack, Goto, devices, WorkerOK, Steps
<1>5. ASSUME NEW w \in Workers, Dequeue(w) PROVE TypeOK'
  <2>1. step[w] = "dequeue" /\ held[w] = None /\ request[w].device \in Devices
    BY <1>5, DequeueEffect DEF WorkerOK
  <2>2. UNCHANGED <<documents, request, devices, crashes, ahead>>
    BY <1>5, DequeueEffect
  <2>3. CASE held' = held /\ step' = [step EXCEPT ![w] = "answer"]
    BY <2>1, <2>2, <2>3 DEF documents, devices, WorkerOK, Steps
  <2>4. ASSUME NEW c \in Commands, Target[c] = request[w].device,
               held' = [held EXCEPT ![w] = c],
               step' = [step EXCEPT ![w] = "mark"]
        PROVE  TypeOK'
    BY <2>1, <2>2, <2>4 DEF documents, devices, WorkerOK, Steps
  <2>5. \/ held' = held /\ step' = [step EXCEPT ![w] = "answer"]
        \/ \E c \in Commands : /\ Target[c] = request[w].device
                               /\ held' = [held EXCEPT ![w] = c]
                               /\ step' = [step EXCEPT ![w] = "mark"]
    BY <1>5, DequeueEffect
  <2> HIDE DEF TypeOK
  <2> QED BY <2>3, <2>4, <2>5
<1>6. ASSUME NEW w \in Workers, Mark(w) PROVE TypeOK'
  BY <1>6 DEF Mark, Goto, devices, WorkerOK, Statuses, Steps
<1> HIDE DEF TypeOK
<1>7. ASSUME NEW w \in Workers, Release(w), HangUp(w) \/ connection' = connection
      PROVE  /\ step' \in [Workers -> Steps]
             /\ request' \in [Workers -> [device : Devices \cup {None}, say : Reports]]
             /\ held' \in [Workers -> Commands \cup {None}]
             /\ connection' \in [Devices -> Workers \cup {None}]
             /\ \A v \in Workers : WorkerOK(v)'
  BY <1>7, ReportFields
  DEF TypeOK, Release, HangUp, Goto, NoRequest, WorkerOK, Steps
<1>8. ASSUME NEW w \in Workers, AnswerEmpty(w) PROVE TypeOK'
  BY <1>7, <1>8, ReportFields DEF AnswerEmpty, documents, TypeOK
<1>9. ASSUME NEW w \in Workers, AnswerCommand(w) PROVE TypeOK'
  <2>1. held[w] \in Commands /\ request[w].device \in Devices
    BY <1>9 DEF AnswerCommand, TypeOK, WorkerOK
  <2>2. /\ outcome' \in [Commands -> Outcomes \cup {None}]
        /\ report' \in [Devices -> Reports]
        /\ handled' \in [Devices -> Seq(Commands)]
    BY <1>9, <2>1 DEF AnswerCommand, TypeOK, Reports
  <2> QED BY <1>7, <1>9, <2>2 DEF AnswerCommand, documents, TypeOK
<1>10. ASSUME NEW w \in Workers, AnswerLost(w) \/ BuildFails(w) \/ Crash(w)
       PROVE  TypeOK'
  <2>1. CASE AnswerLost(w)
    BY <1>7, <2>1 DEF AnswerLost, documents, devices, TypeOK
  <2>2. CASE BuildFails(w)
    BY <1>7, <2>2 DEF BuildFails, documents, TypeOK
  <2>3. CASE Crash(w)
    BY <1>7, <2>3 DEF Crash, documents, TypeOK
  <2> QED BY <1>10, <2>1, <2>2, <2>3
<1>11. ASSUME NEW d \in Devices, GiveUp(d) PROVE TypeOK'
  BY <1>11 DEF GiveUp, documents, workers, TypeOK, WorkerOK
<1>12. CASE UNCHANGED vars
  BY <1>12 DEF vars, documents, workers, devices, TypeOK, WorkerOK
<1> QED
  BY <1>1, <1>2, <1>3, <1>4, <1>5, <1>6, <1>8, <1>9, <1>10, <1>11, <1>12
  DEF Next, Handle

(* The type invariant, with the small invariant of each thread (WorkerOK). *)
THEOREM TypeCorrect == Spec => []TypeOK
<1> USE QueueAssumption
<1>1. Init => TypeOK
  BY ReportFields DEF Init, TypeOK, WorkerOK, NoRequest, Statuses, Steps
<1>2. TypeOK /\ [Next]_vars => TypeOK'
  BY TypeKept
<1> QED
  BY <1>1, <1>2, PTL DEF Spec

----------------------------------------------------------------------------
(* At most once, whatever interleaves.                                     *)

(* The parts of HandoverInv that only the history of the devices can       *)
(* disturb.                                                                *)
HistoryInv == HandedWereMet /\ HandedToTarget /\ HandedOverOnce

LEMMA HistoryKept ==
  ASSUME HistoryInv, UNCHANGED <<outcome, handled>>
  PROVE  HistoryInv'
BY DEF HistoryInv, HandedWereMet, HandedToTarget, HandedOverOnce

(* A thread that is released holds nothing, and nobody listens to it.      *)
LEMMA ReleaseKeeps ==
  ASSUME TypeOK, HandoverInv, NEW w \in Workers, Release(w), UNCHANGED status,
         \A d \in Devices :
            \/ connection'[d] = None
            \/ connection[d] # w /\ connection'[d] = connection[d]
  PROVE  /\ AnswerMarked'
         /\ \A d \in Devices : connection'[d] # None =>
              /\ connection[d] \in Workers \ {w}
              /\ connection'[d] = connection[d]
              /\ step'[connection[d]] = step[connection[d]]
              /\ request'[connection[d]] = request[connection[d]]
              /\ held'[connection[d]] = held[connection[d]]
              /\ ListenedTo(connection[d], d)
         /\ \A v \in Workers : \/ request'[v] = request[v]
                                \/ request'[v].say.cmd = None
<1>1. /\ step'[w] = "idle" /\ held'[w] = None /\ request'[w].say.cmd = None
      /\ \A v \in Workers \ {w} : /\ step'[v] = step[v]
                                   /\ request'[v] = request[v]
                                   /\ held'[v] = held[v]
  BY DEF TypeOK, Release, Goto, NoRequest, Idle
<1>2. AnswerMarked'
  BY <1>1 DEF AnswerMarked, HandoverInv
<1>3. ASSUME NEW d \in Devices, connection'[d] # None
      PROVE  /\ connection[d] \in Workers \ {w}
             /\ connection'[d] = connection[d]
             /\ ListenedTo(connection[d], d)
  BY <1>3 DEF TypeOK, HandoverInv, ListensToFresh
<1> QED
  BY <1>1, <1>2, <1>3

LEMMA HangUpEffect ==
  ASSUME TypeOK, NEW w \in Workers, HangUp(w)
  PROVE  \A d \in Devices : \/ connection'[d] = None
                            \/ connection[d] # w /\ connection'[d] = connection[d]
BY DEF HangUp, TypeOK

(* Ending a request without handing anything over preserves the invariant. *)
LEMMA EndKeeps ==
  ASSUME TypeOK, HandoverInv, NEW w \in Workers, Release(w),
         UNCHANGED <<documents, outcome, handled>>,
         \A d \in Devices :
            \/ connection'[d] = None
            \/ connection[d] # w /\ connection'[d] = connection[d],
         \A d \in Devices : report'[d] = report[d] \/ report'[d].cmd = None
  PROVE  HandoverInv'
<1>1. UNCHANGED status
  BY DEF documents
<1>2. AnswerMarked' /\ PendingUnmet' /\ RecordedIsReported'
  BY <1>1, ReleaseKeeps DEF HandoverInv, PendingUnmet, RecordedIsReported
<1>3. ListensToFresh'
  BY <1>1, ReleaseKeeps DEF ListensToFresh, ListenedTo
<1>4. ReportsAgree'
  BY <1>1, ReleaseKeeps DEF HandoverInv, ReportsAgree, Agrees
<1>5. HistoryInv'
  BY HistoryKept DEF HistoryInv, HandoverInv
<1> QED
  BY <1>2, <1>3, <1>4, <1>5 DEF HandoverInv, HistoryInv

(* Handing a command over preserves it: the device had not met the command.*)
LEMMA HandOverKeeps ==
  ASSUME QueueAssumption, TypeOK, HandoverInv, NEW w \in Workers, AnswerCommand(w)
  PROVE  HandoverInv'
<1> DEFINE c == held[w]
           d == request[w].device
<1>1. /\ c \in Commands /\ d \in Devices /\ Target[c] = d /\ None \notin Outcomes
      /\ connection[d] = w /\ step[w] = "answer" /\ c # None
  BY DEF AnswerCommand, TypeOK, WorkerOK, QueueAssumption
<1>2. outcome[c] = None /\ status[c] \notin {"absent", "pending"}
  BY <1>1 DEF HandoverInv, ListensToFresh, ListenedTo, AnswerMarked, QueueAssumption
<1>3. PICK r \in Outcomes :
        /\ outcome' = [outcome EXCEPT ![c] = r]
        /\ report' = [report EXCEPT ![d] = [cmd |-> c, result |-> r]]
  BY DEF AnswerCommand
<1>4. /\ handled' = [handled EXCEPT ![d] = Append(@, c)]
      /\ UNCHANGED status
      /\ Release(w) /\ HangUp(w)
  BY DEF AnswerCommand, documents
<1> HIDE DEF c, d
<1>5. /\ outcome'[c] = r /\ r # None
      /\ \A x \in Commands : x # c => outcome'[x] = outcome[x]
  BY <1>1, <1>3 DEF TypeOK
<1>7. ReportsAgree'
  <2>1. ASSUME NEW x \in Devices PROVE Agrees(report[x])'
    <3>1. CASE x = d
      BY <1>1, <1>3, <1>5, <3>1 DEF TypeOK, Agrees
    <3>2. CASE x # d
      <4>1. report'[x] = report[x] /\ report[x] \in Reports
        BY <1>3, <3>2 DEF TypeOK
      <4>2. Agrees(report[x])
        BY DEF HandoverInv, ReportsAgree
      <4> QED BY <1>1, <1>2, <1>5, <4>1, <4>2, ReportFields DEF Agrees
    <3> QED BY <3>1, <3>2
  <2>2. ASSUME NEW v \in Workers PROVE Agrees(request[v].say)'
    <3>1. CASE request'[v].say.cmd = None
      BY <3>1 DEF Agrees
    <3>2. CASE request'[v] = request[v]
      <4>1. request[v].say \in Reports
        BY DEF TypeOK
      <4>2. Agrees(request[v].say)
        BY DEF HandoverInv, ReportsAgree
      <4> QED BY <1>1, <1>2, <1>5, <3>2, <4>1, <4>2, ReportFields DEF Agrees
    <3> QED BY <1>4, <3>1, <3>2, ReleaseKeeps, HangUpEffect
  <2> QED BY <2>1, <2>2 DEF ReportsAgree
<1>8. ListensToFresh'
  <2> SUFFICES ASSUME NEW x \in Devices, connection'[x] # None
               PROVE  ListenedTo(connection[x], x)'
    BY DEF ListensToFresh
  <2> DEFINE v == connection[x]
  <2>1. /\ v \in Workers \ {w} /\ connection'[x] = v
        /\ step'[v] = step[v] /\ request'[v] = request[v] /\ held'[v] = held[v]
        /\ ListenedTo(v, x)
    BY <1>4, ReleaseKeeps, HangUpEffect
  <2>2. held[v] # None => held[v] \in Commands /\ Target[held[v]] = x
    BY <2>1 DEF ListenedTo, TypeOK, WorkerOK
  <2>3. held[v] # c
    BY <1>1, <2>1, <2>2
  <2> QED BY <1>5, <2>1, <2>2, <2>3 DEF ListenedTo
<1>9. HistoryInv'
  <2>1. /\ \A x \in Devices : x # d => handled'[x] = handled[x]
        /\ handled[d] \in Seq(Commands)
        /\ handled'[d] = Append(handled[d], c)
    BY <1>1, <1>4 DEF TypeOK
  <2>2. \A x \in Devices : \A i \in DOMAIN handled[x] :
          /\ handled[x][i] \in Commands
          /\ outcome[handled[x][i]] # None
          /\ Target[handled[x][i]] = x
    BY DEF TypeOK, HandoverInv, HandedWereMet, HandedToTarget
  <2>3. /\ DOMAIN handled'[d] = DOMAIN handled[d] \cup {Len(handled[d]) + 1}
        /\ \A i \in DOMAIN handled[d] : handled'[d][i] = handled[d][i]
        /\ handled'[d][Len(handled[d]) + 1] = c
    BY <1>1, <2>1
  <2>4. \A i \in DOMAIN handled[d] : handled[d][i] # c
    BY <1>1, <1>2, <2>2
  <2>5. HandedWereMet'
    <3>1. \A x \in Devices : \A i \in DOMAIN handled[x] : outcome'[handled[x][i]] # None
      BY <1>2, <1>5, <2>2
    <3>2. \A i \in DOMAIN handled'[d] : outcome'[handled'[d][i]] # None
      BY <1>1, <1>5, <2>3, <3>1
    <3> QED BY <2>1, <3>1, <3>2 DEF HandedWereMet
  <2>6. HandedToTarget'
    <3>1. \A x \in Devices : \A i \in DOMAIN handled[x] : Target[handled[x][i]] = x
      BY <2>2
    <3>2. \A i \in DOMAIN handled'[d] : Target[handled'[d][i]] = d
      BY <1>1, <2>3, <3>1
    <3> QED BY <2>1, <3>1, <3>2 DEF HandedToTarget
  <2>7. HandedOverOnce'
    <3>1. HandedOverOnce
      BY DEF HandoverInv
    <3>2. ASSUME NEW x \in Devices,
                 NEW i \in DOMAIN handled'[x], NEW j \in DOMAIN handled'[x],
                 handled'[x][i] = handled'[x][j]
          PROVE  i = j
      <4>1. CASE x # d
        BY <2>1, <3>1, <3>2, <4>1 DEF HandedOverOnce
      <4>2. CASE x = d
        BY <1>1, <2>3, <2>4, <3>1, <3>2, <4>2 DEF HandedOverOnce
      <4> QED BY <4>1, <4>2
    <3> QED BY <3>2 DEF HandedOverOnce
  <2> QED BY <2>5, <2>6, <2>7 DEF HistoryInv
<1>10. PendingUnmet' /\ RecordedIsReported'
  BY <1>2, <1>4, <1>5 DEF HandoverInv, PendingUnmet, RecordedIsReported
<1>11. AnswerMarked'
  BY <1>4, ReleaseKeeps, HangUpEffect
<1> QED
  BY <1>7, <1>8, <1>9, <1>10, <1>11 DEF HandoverInv, HistoryInv

(* Every step preserves HandoverInv, one action after the other.           *)
LEMMA HandoverKept == TypeOK /\ TypeOK' /\ HandoverInv /\ [Next]_vars => HandoverInv'
<1> USE QueueAssumption
<1> SUFFICES ASSUME TypeOK, TypeOK', HandoverInv, [Next]_vars
             PROVE  HandoverInv'
  OBVIOUS
<1>h. ASSUME UNCHANGED <<outcome, handled>> PROVE HistoryInv'
  BY <1>h, HistoryKept DEF HistoryInv, HandoverInv
<1> USE DEF PendingUnmet, AnswerMarked, ListensToFresh, ListenedTo, ReportsAgree,
            Agrees, RecordedIsReported
<1>1. ASSUME NEW c \in Commands, Stamp(c) \/ Enqueue(c) PROVE HandoverInv'
  <2>1. CASE Stamp(c)
    BY <1>h, <2>1 DEF Stamp, workers, devices, HandoverInv, HistoryInv
  <2>2. CASE Enqueue(c)
    BY <1>h, <2>2 DEF Enqueue, workers, devices, TypeOK, Results, HandoverInv,
                      HistoryInv
  <2> QED BY <1>1, <2>1, <2>2
<1>2. ASSUME NEW d \in Devices, NEW w \in Workers, Poll(d, w)
      PROVE  HandoverInv'
  BY <1>h, <1>2 DEF Poll, Goto, documents, TypeOK, WorkerOK, HandoverInv, HistoryInv
<1>3. ASSUME NEW w \in Workers, Touch(w) PROVE HandoverInv'
  BY <1>h, <1>3 DEF Touch, Goto, devices, TypeOK, HandoverInv, HistoryInv
<1>4. ASSUME NEW w \in Workers, Ack(w) PROVE HandoverInv'
  <2> DEFINE c == request[w].say.cmd
             r == request[w].say.result
  <2>1. c \in Commands /\ r \in Results /\ outcome[c] = r
    BY <1>4, ReportFields DEF Ack, TypeOK, WorkerOK, HandoverInv
  <2>2. r \notin {"absent", "pending"} /\ outcome[c] # None
    BY <2>1 DEF Results
  <2>3. status' = [status EXCEPT ![c] = r]
    BY <1>4 DEF Ack
  <2> HIDE DEF c, r
  <2>4. /\ step[w] = "ack" /\ step' = [step EXCEPT ![w] = "dequeue"]
        /\ UNCHANGED <<request, held, devices>>
    BY <1>4 DEF Ack, Goto
  <2>5. /\ status'[c] = r
        /\ \A x \in Commands : x # c => status'[x] = status[x]
    BY <2>1, <2>3 DEF TypeOK
  <2>6. PendingUnmet' /\ RecordedIsReported'
    BY <2>1, <2>2, <2>4, <2>5 DEF devices, HandoverInv
  <2>7. AnswerMarked'
    BY <2>2, <2>4, <2>5 DEF TypeOK, HandoverInv
  <2>8. ListensToFresh' /\ ReportsAgree'
    BY <2>4 DEF devices, TypeOK, HandoverInv
  <2> QED
    BY <1>h, <2>4, <2>6, <2>7, <2>8 DEF devices, HandoverInv, HistoryInv
<1>5. ASSUME NEW w \in Workers, Dequeue(w) PROVE HandoverInv'
  <2>1. UNCHANGED <<documents, request, devices, crashes, ahead>>
    BY <1>5, DequeueEffect
  <2>2. step[w] = "dequeue" /\ held[w] = None
    BY <1>5, DequeueEffect DEF TypeOK, WorkerOK
  <2>3. CASE held' = held /\ step' = [step EXCEPT ![w] = "answer"]
    BY <1>h, <2>1, <2>2, <2>3
    DEF documents, devices, TypeOK, HandoverInv, HistoryInv
  <2>4. ASSUME NEW c \in Commands, status[c] = "pending",
               held' = [held EXCEPT ![w] = c],
               step' = [step EXCEPT ![w] = "mark"]
        PROVE  HandoverInv'
    BY <1>h, <2>1, <2>2, <2>4
    DEF documents, devices, TypeOK, HandoverInv, HistoryInv
  <2> QED BY <1>5, <2>3, <2>4, DequeueEffect
<1>6. ASSUME NEW w \in Workers, Mark(w) PROVE HandoverInv'
  BY <1>h, <1>6 DEF Mark, Goto, devices, TypeOK, WorkerOK, Results, HandoverInv,
                    HistoryInv
<1>7. ASSUME NEW w \in Workers, AnswerEmpty(w) PROVE HandoverInv'
  BY <1>7, EndKeeps, HangUpEffect, ReportFields DEF AnswerEmpty, TypeOK
<1>8. ASSUME NEW w \in Workers, AnswerCommand(w) PROVE HandoverInv'
  BY <1>8, HandOverKeeps
<1>9. ASSUME NEW w \in Workers, AnswerLost(w) \/ BuildFails(w) \/ Crash(w)
       PROVE  HandoverInv'
  <2>1. CASE AnswerLost(w)
    <3>1. \A d \in Devices : connection[d] # w
      BY <2>1 DEF AnswerLost, HandoverInv
    <3> QED
      BY <2>1, <3>1, EndKeeps DEF AnswerLost, devices
  <2>2. CASE BuildFails(w)
    BY <2>2, EndKeeps, HangUpEffect DEF BuildFails
  <2>3. CASE Crash(w)
    BY <2>3, EndKeeps, HangUpEffect DEF Crash
  <2> QED BY <1>9, <2>1, <2>2, <2>3
<1>10. ASSUME NEW d \in Devices, GiveUp(d) PROVE HandoverInv'
  BY <1>h, <1>10 DEF GiveUp, documents, workers, TypeOK, HandoverInv, HistoryInv
<1>11. CASE UNCHANGED vars
  BY <1>h, <1>11 DEF vars, HandoverInv, HistoryInv
<1> QED
  BY <1>1, <1>2, <1>3, <1>4, <1>5, <1>6, <1>7, <1>8, <1>9, <1>10, <1>11
  DEF Next, Handle

(* It all begins with an empty database and idle threads.                  *)
LEMMA QueueInit == Init => TypeOK /\ HandoverInv
<1> USE QueueAssumption
<1>1. Init => TypeOK
  BY ReportFields DEF Init, TypeOK, WorkerOK, NoRequest, Statuses, Steps
<1>2. Init => HandoverInv
  BY ReportFields
  DEF Init, HandoverInv, PendingUnmet, AnswerMarked, ListensToFresh, ReportsAgree,
      Agrees, HandedWereMet, HandedToTarget, HandedOverOnce, RecordedIsReported,
      NoRequest, Results
<1> QED BY <1>1, <1>2

(* HandoverInv, the strengthening behind the three results below, is       *)
(* inductive.                                                              *)
THEOREM HandoverInvariant == Spec => []HandoverInv
<1> USE QueueAssumption
<1>1. Init => HandoverInv
  BY QueueInit
<1>2. TypeOK /\ TypeOK' /\ HandoverInv /\ [Next]_vars => HandoverInv'
  BY HandoverKept
<1> QED
  BY <1>1, <1>2, TypeCorrect, PTL DEF Spec

(* No device is handed the same command twice, whatever the threads, the   *)
(* retries and the crashes do: mdm() marks before it answers.              *)
THEOREM AtMostOnce == Spec => []HandedOverOnce
<1>1. HandoverInv => HandedOverOnce
  BY DEF HandoverInv
<1> QED BY <1>1, HandoverInvariant, PTL

(* A device is handed only the commands of its own sub-collection.         *)
THEOREM OnlyToTarget == Spec => []HandedToTarget
<1>1. HandoverInv => HandedToTarget
  BY DEF HandoverInv
<1> QED BY <1>1, HandoverInvariant, PTL

(* A result found in Firestore is the one the device reported.             *)
THEOREM RecordsAreReports == Spec => []RecordedIsReported
<1>1. HandoverInv => RecordedIsReported
  BY DEF HandoverInv
<1> QED BY <1>1, HandoverInvariant, PTL

----------------------------------------------------------------------------
(* Order, the refinement of CommandLifecycle, and counted losses.          *)

Typed == TypeOK /\ HandoverInv

(* Why RespectsEnqueueOrder holds: what still waits is not ahead of what   *)
(* was taken, and neither is what the device is about to get.              *)
NotAhead(c, b) == <<c, b>> \notin ahead

TimesOK ==
  /\ \A c \in Commands : status[c] # "absent" => created[c] # 0
  /\ \A a, b \in Commands : <<a, b>> \in ahead =>
       status[a] # "absent" /\ created[b] # 0 /\ created[a] < created[b]

WaitingBehind == \A d \in Devices : \A c \in Queue(d) :
  /\ \A i \in DOMAIN handled[d] : NotAhead(c, handled[d][i])
  /\ \A w \in Workers :
       held[w] # None /\ request[w].device = d => NotAhead(c, held[w])

ComingBehind == \A w \in Workers : held[w] # None =>
  /\ status[held[w]] # "absent"
  /\ connection[request[w].device] = w =>
       \A i \in DOMAIN handled[request[w].device] :
         NotAhead(held[w], handled[request[w].device][i])

OrderInv == TimesOK /\ WaitingBehind /\ ComingBehind /\ RespectsEnqueueOrder

(* Why ImplementsLifecycle and LossesAreAccounted hold: a device that      *)
(* waits has one thread that works for it, and no other disturbs the       *)
(* command this one holds.                                                 *)
PatientInv ==
  /\ \A w \in Workers :
       /\ step[w] # "idle" => connection[request[w].device] = w
       /\ step[w] = "mark" => status[held[w]] = "pending"
       /\ step[w] = "answer" /\ held[w] # None => status[held[w]] = "sent"
       /\ request[w].say.cmd # None => Target[request[w].say.cmd] = request[w].device
  /\ \A d \in Devices : report[d].cmd # None => Target[report[d].cmd] = d

(* The handed commands have documents.                                     *)
LEMMA HandedExist ==
  ASSUME QueueAssumption, Typed, NEW d \in Devices, NEW i \in DOMAIN handled[d]
  PROVE  /\ handled[d][i] \in Commands
         /\ outcome[handled[d][i]] # None
         /\ status[handled[d][i]] \notin {"absent", "pending"}
<1>1. handled[d][i] \in Commands
  BY DEF Typed, TypeOK
<1>2. outcome[handled[d][i]] # None
  BY DEF Typed, HandoverInv, HandedWereMet
<1> QED BY <1>1, <1>2 DEF Typed, HandoverInv, PendingUnmet

(* A reported command has been met.                                        *)
LEMMA ReportedExist ==
  ASSUME QueueAssumption, Typed, NEW w \in Workers, request[w].say.cmd # None
  PROVE  LET c == request[w].say.cmd
         IN  /\ c \in Commands
             /\ outcome[c] = request[w].say.result
             /\ request[w].say.result \in Outcomes
             /\ outcome[c] # None
             /\ status[c] \notin {"absent", "pending"}
<1> DEFINE c == request[w].say.cmd
<1>1. request[w].say \in Reports
  BY DEF Typed, TypeOK
<1>2. c \in Commands /\ request[w].say.result \in Outcomes
  BY <1>1, ReportFields
<1>3. outcome[c] = request[w].say.result
  BY DEF Typed, HandoverInv, ReportsAgree, Agrees
<1>4. outcome[c] # None
  BY <1>2, <1>3 DEF QueueAssumption
<1> QED BY <1>2, <1>3, <1>4 DEF Typed, HandoverInv, PendingUnmet

----------------------------------------------------------------------------
(* The order of the queue.                                                 *)

(* Steps that take nothing new, stamp nothing and bring nothing along.     *)
LEMMA NothingNew ==
  ASSUME QueueAssumption, Typed, OrderInv,
         UNCHANGED <<created, ahead, handled>>,
         \A c \in Commands : /\ status'[c] = "pending" => status[c] = "pending"
                             /\ status'[c] = "absent" <=> status[c] = "absent",
         \A w \in Workers : \/ held'[w] = None
                            \/ /\ held'[w] = held[w]
                               /\ request'[w].device = request[w].device,
         \A d \in Devices, w \in Workers :
            connection'[d] = w => connection[d] = w \/ held'[w] = None
  PROVE  OrderInv'
<1>1. TimesOK'
  BY DEF OrderInv, TimesOK
<1>2. WaitingBehind'
  BY DEF OrderInv, WaitingBehind, NotAhead, Queue
<1>3. ComingBehind'
  <2> SUFFICES ASSUME NEW w \in Workers, held'[w] # None
               PROVE  /\ status'[held'[w]] # "absent"
                      /\ connection'[request'[w].device] = w =>
                           \A i \in DOMAIN handled'[request'[w].device] :
                             NotAhead(held[w], handled[request[w].device][i])'
    BY DEF ComingBehind
  <2>1. held'[w] = held[w] /\ request'[w].device = request[w].device
    OBVIOUS
  <2>2. held[w] \in Commands /\ request[w].device \in Devices
    BY <2>1 DEF Typed, TypeOK, WorkerOK
  <2> QED
    BY <2>1, <2>2 DEF OrderInv, ComingBehind, NotAhead
<1>4. RespectsEnqueueOrder'
  BY DEF OrderInv, RespectsEnqueueOrder
<1> QED BY <1>1, <1>2, <1>3, <1>4 DEF OrderInv

(* A created_at is stamped, or a command written: nothing gets ahead of    *)
(* what was taken, which is stamped already, and what becomes visible now  *)
(* is not ahead of anything.                                               *)
LEMMA AddingKeeps ==
  ASSUME QueueAssumption, Typed, OrderInv, NEW c \in Commands, Stamp(c) \/ Enqueue(c)
  PROVE  OrderInv'
<1> USE DEF workers, devices
<1>1. \A x \in Commands : status[x] # "absent" =>
        created'[x] = created[x] /\ status'[x] = status[x]
  BY DEF Stamp, Enqueue, OrderInv, TimesOK, Typed, TypeOK
<1>2. \A x, y \in Commands : <<x, y>> \in ahead' =>
        \/ <<x, y>> \in ahead
        \/ y = c /\ status[c] = "absent" /\ status[x] # "absent"
           /\ created'[y] # 0 /\ created[x] < created'[y]
  <2>1. CASE Stamp(c)
    <3>1. status[c] = "absent"
      BY <2>1 DEF Stamp, OrderInv, TimesOK
    <3>2. PICK t \in Stamps :
            /\ created' = [created EXCEPT ![c] = t]
            /\ ahead' = ahead \cup
                 {<<b, c>> : b \in {x \in Commands : status[x] # "absent" /\ created[x] < t}}
      BY <2>1 DEF Stamp
    <3>3. created'[c] = t /\ t # 0
      BY <3>2 DEF QueueAssumption, Typed, TypeOK
    <3> QED BY <3>1, <3>2, <3>3
  <2>2. CASE Enqueue(c)
    BY <2>2 DEF Enqueue
  <2> QED BY <2>1, <2>2
<1>3. \A x \in Commands : status'[x] # "absent" /\ status[x] = "absent" =>
        x = c /\ created[c] # 0 /\ UNCHANGED <<created, ahead>>
  BY DEF Stamp, Enqueue, Typed, TypeOK
<1>4. \A x \in Commands : created[x] # 0 => created'[x] = created[x]
  BY DEF Stamp, Enqueue, Typed, TypeOK
<1>5. TimesOK'
  <2>1. \A x \in Commands : status'[x] # "absent" => created'[x] # 0
    BY <1>1, <1>3 DEF OrderInv, TimesOK
  <2>2. ASSUME NEW a \in Commands, NEW b \in Commands, <<a, b>> \in ahead'
        PROVE  status'[a] # "absent" /\ created'[b] # 0 /\ created'[a] < created'[b]
    BY <1>1, <1>2, <1>4, <2>2 DEF OrderInv, TimesOK
  <2> QED BY <2>1, <2>2 DEF TimesOK
<1>6. UNCHANGED <<handled, held, request, connection>>
  BY DEF Stamp, Enqueue
<1>7. ASSUME NEW d \in Devices, NEW x \in Queue(d)', NEW b \in Commands,
             status[b] # "absent", x \in Queue(d) => NotAhead(x, b)
      PROVE  NotAhead(x, b)'
  <2>1. x \in Commands /\ status'[x] = "pending" /\ Target[x] = d
    BY <1>7 DEF Queue
  <2>2. CASE status[x] = "absent"
    BY <1>3, <2>1, <2>2 DEF NotAhead, OrderInv, TimesOK
  <2>3. CASE status[x] # "absent"
    <3>1. x \in Queue(d)
      BY <1>1, <2>1, <2>3 DEF Queue
    <3> QED BY <1>2, <1>7, <2>1, <3>1 DEF NotAhead
  <2> QED BY <2>2, <2>3
<1>8. \A w \in Workers : held[w] # None =>
        /\ held[w] \in Commands /\ status[held[w]] # "absent"
        /\ request[w].device \in Devices
  BY DEF OrderInv, ComingBehind, Typed, TypeOK, WorkerOK
<1>9. \A d \in Devices : \A i \in DOMAIN handled[d] :
        handled[d][i] \in Commands /\ status[handled[d][i]] # "absent"
  BY HandedExist
<1>10. WaitingBehind'
  <2>1. ASSUME NEW d \in Devices, NEW x \in Queue(d)', NEW i \in DOMAIN handled[d]
        PROVE  NotAhead(x, handled[d][i])'
    <3>1. x \in Queue(d) => NotAhead(x, handled[d][i])
      BY DEF OrderInv, WaitingBehind
    <3>2. PICK b \in Commands : b = handled[d][i] /\ status[b] # "absent"
      BY <1>9
    <3>3. NotAhead(x, b)'
      BY <1>7, <3>1, <3>2
    <3> QED BY <1>6, <3>2, <3>3 DEF NotAhead
  <2>2. ASSUME NEW d \in Devices, NEW x \in Queue(d)', NEW w \in Workers,
               held[w] # None, request[w].device = d
        PROVE  NotAhead(x, held[w])'
    <3>1. x \in Queue(d) => NotAhead(x, held[w])
      BY <2>2 DEF OrderInv, WaitingBehind
    <3>2. PICK b \in Commands : b = held[w] /\ status[b] # "absent"
      BY <1>8, <2>2
    <3>3. NotAhead(x, b)'
      BY <1>7, <3>1, <3>2
    <3> QED BY <1>6, <3>2, <3>3 DEF NotAhead
  <2> QED BY <1>6, <2>1, <2>2 DEF WaitingBehind
<1>11. ComingBehind' /\ RespectsEnqueueOrder'
  <2>1. \A a, b \in Commands : status[b] # "absent" /\ NotAhead(a, b) => NotAhead(a, b)'
    BY <1>2 DEF NotAhead
  <2>2. ComingBehind'
    BY <1>1, <1>6, <1>8, <1>9, <2>1 DEF OrderInv, ComingBehind, NotAhead
  <2>3. RespectsEnqueueOrder'
    BY <1>6, <1>9, <2>1 DEF OrderInv, RespectsEnqueueOrder, NotAhead
  <2> QED BY <2>2, <2>3
<1> QED BY <1>5, <1>10, <1>11 DEF OrderInv

(* The query takes a command no waiting one is ahead of, and which is not  *)
(* ahead of anything the device has got.                                   *)
LEMMA DequeueKeepsOrder ==
  ASSUME QueueAssumption, Typed, OrderInv, NEW w \in Workers, Dequeue(w)
  PROVE  OrderInv'
<1> USE DEF documents, devices
<1>1. /\ UNCHANGED <<status, created, ahead, handled, request, connection>>
      /\ step[w] = "dequeue"
  BY DEF Dequeue
<1>2. request[w].device \in Devices
  BY <1>1 DEF Typed, TypeOK, WorkerOK
<1>3. CASE held' = held
  BY <1>1, <1>3, NothingNew
<1>4. ASSUME NEW c \in OldestIn(Queue(request[w].device)), held' = [held EXCEPT ![w] = c]
      PROVE  OrderInv'
  <2> DEFINE d == request[w].device
  <2>1. /\ c \in Queue(d) /\ c \in Commands /\ status[c] = "pending"
        /\ \A x \in Queue(d) : created[c] <= created[x]
    BY <1>4 DEF OldestIn, Queue
  <2>2. held'[w] = c /\ \A v \in Workers \ {w} : held'[v] = held[v]
    BY <1>4 DEF Typed, TypeOK
  <2>3. \A x \in Queue(d) : NotAhead(x, c)
    <3> TAKE x \in Queue(d)
    <3>1. x \in Commands /\ created[c] <= created[x] /\ created[c] \in Nat /\ created[x] \in Nat
      BY <2>1 DEF Queue, Typed, TypeOK
    <3>2. <<x, c>> \in ahead => created[x] < created[c]
      BY <2>1, <3>1 DEF OrderInv, TimesOK
    <3> QED BY <3>1, <3>2 DEF NotAhead
  <2>4. WaitingBehind'
    <3>1. \A e \in Devices : \A x \in Queue(e) : \A v \in Workers :
            held'[v] # None /\ request[v].device = e => NotAhead(x, held'[v])
      BY <2>2, <2>3 DEF OrderInv, WaitingBehind
    <3> QED BY <1>1, <3>1 DEF OrderInv, WaitingBehind, NotAhead, Queue
  <2>5. ComingBehind'
    <3>1. \A i \in DOMAIN handled[d] : NotAhead(c, handled[d][i])
      BY <1>2, <2>1 DEF OrderInv, WaitingBehind
    <3>2. \A v \in Workers : held'[v] # None =>
            /\ status[held'[v]] # "absent"
            /\ connection[request[v].device] = v =>
                 \A i \in DOMAIN handled[request[v].device] :
                   NotAhead(held'[v], handled[request[v].device][i])
      BY <2>1, <2>2, <3>1 DEF OrderInv, ComingBehind
    <3> QED BY <1>1, <3>2 DEF ComingBehind, NotAhead
  <2> QED
    BY <1>1, <2>4, <2>5 DEF OrderInv, TimesOK, RespectsEnqueueOrder
<1> QED BY <1>3, <1>4 DEF Dequeue

(* The answer: what arrives is not ahead of anything that has arrived.     *)
LEMMA HandOverKeepsOrder ==
  ASSUME QueueAssumption, Typed, OrderInv, NEW w \in Workers, AnswerCommand(w)
  PROVE  OrderInv'
<1> DEFINE c == held[w]
           d == request[w].device
<1>1. /\ UNCHANGED <<status, created, ahead>>
      /\ handled' = [handled EXCEPT ![d] = Append(@, c)]
      /\ c \in Commands /\ c # None /\ step[w] = "answer" /\ connection[d] = w
      /\ held' = [held EXCEPT ![w] = None]
      /\ request' = [request EXCEPT ![w] = NoRequest]
      /\ HangUp(w)
  BY DEF AnswerCommand, Release, documents, QueueAssumption
<1>2. d \in Devices /\ handled[d] \in Seq(Commands)
  BY <1>1 DEF Typed, TypeOK, WorkerOK
<1> HIDE DEF c, d
<1>3. /\ handled'[d] = Append(handled[d], c)
      /\ \A e \in Devices \ {d} : handled'[e] = handled[e]
  BY <1>1, <1>2 DEF Typed, TypeOK
<1>4. /\ \A i \in DOMAIN handled[d] : i \in DOMAIN handled'[d] /\ handled'[d][i] = handled[d][i]
      /\ \A i \in DOMAIN handled'[d] : \/ i \in DOMAIN handled[d]
                                       \/ handled'[d][i] = c /\ i = Len(handled[d]) + 1
      /\ \A i \in DOMAIN handled'[d] : i \in 1 .. Len(handled[d]) + 1
      /\ DOMAIN handled[d] = 1 .. Len(handled[d]) /\ Len(handled[d]) \in Nat
  BY <1>1, <1>2, <1>3
<1>5. held'[w] = None /\ \A v \in Workers \ {w} : held'[v] = held[v] /\ request'[v] = request[v]
  BY <1>1 DEF Typed, TypeOK
<1>6. WaitingBehind'
  <2>1. \A x \in Queue(d) : NotAhead(x, c)
    BY <1>1, <1>2 DEF OrderInv, WaitingBehind, c, d
  <2>2. \A e \in Devices : \A x \in Queue(e) : \A i \in DOMAIN handled'[e] :
          NotAhead(x, handled'[e][i])
    BY <1>2, <1>3, <1>4, <2>1 DEF OrderInv, WaitingBehind
  <2>3. \A e \in Devices : \A x \in Queue(e) : \A v \in Workers :
          held'[v] # None /\ request'[v].device = e => NotAhead(x, held'[v])
    BY <1>5 DEF OrderInv, WaitingBehind
  <2> QED BY <1>1, <2>2, <2>3 DEF WaitingBehind, NotAhead, Queue
<1>7. ComingBehind'
  <2> SUFFICES ASSUME NEW v \in Workers, held'[v] # None
               PROVE  /\ status'[held'[v]] # "absent"
                      /\ connection'[request'[v].device] = v =>
                           \A i \in DOMAIN handled'[request'[v].device] :
                             NotAhead(held[v], handled[request[v].device][i])'
    BY DEF ComingBehind
  <2>1. v # w /\ held'[v] = held[v] /\ request'[v] = request[v]
    BY <1>5
  <2>2. request[v].device \in Devices
    BY <2>1 DEF Typed, TypeOK, WorkerOK
  <2>3. status'[held'[v]] # "absent"
    BY <1>1, <2>1 DEF OrderInv, ComingBehind
  <2>4. ASSUME connection'[request[v].device] = v
        PROVE  /\ handled'[request[v].device] = handled[request[v].device]
               /\ connection[request[v].device] = v
    <3>1. connection[request[v].device] = v
      BY <1>1, <2>1, <2>2, <2>4 DEF HangUp, QueueAssumption, Typed, TypeOK
    <3>2. request[v].device # d
      BY <1>1, <2>1, <3>1
    <3> QED BY <1>3, <2>2, <3>1, <3>2
  <2>5. connection[request[v].device] = v =>
          \A i \in DOMAIN handled[request[v].device] :
            <<held[v], handled[request[v].device][i]>> \notin ahead
    BY <2>1 DEF OrderInv, ComingBehind, NotAhead
  <2>6. ahead' = ahead
    BY <1>1
  <2> QED BY <2>1, <2>3, <2>4, <2>5, <2>6 DEF NotAhead
<1>8. RespectsEnqueueOrder'
  <2>1. \A i \in DOMAIN handled[d] : NotAhead(c, handled[d][i])
    BY <1>1 DEF OrderInv, ComingBehind, c, d
  <2>2. ASSUME NEW i \in DOMAIN handled'[d], NEW j \in DOMAIN handled'[d], i < j
        PROVE  NotAhead(handled'[d][j], handled'[d][i])
    <3>1. i \in DOMAIN handled[d] /\ handled'[d][i] = handled[d][i]
      BY <1>4, <2>2
    <3>2. CASE j \in DOMAIN handled[d]
      BY <1>2, <1>4, <2>2, <3>1, <3>2 DEF OrderInv, RespectsEnqueueOrder, NotAhead
    <3>3. CASE handled'[d][j] = c
      BY <2>1, <3>1, <3>3
    <3> QED BY <1>4, <3>2, <3>3
  <2>3. ASSUME NEW e \in Devices \ {d}, NEW i \in DOMAIN handled'[e],
               NEW j \in DOMAIN handled'[e], i < j
        PROVE  NotAhead(handled'[e][j], handled'[e][i])
    BY <1>3, <2>3 DEF OrderInv, RespectsEnqueueOrder, NotAhead
  <2> QED BY <1>1, <1>2, <2>2, <2>3 DEF RespectsEnqueueOrder, NotAhead
<1>9. TimesOK'
  BY <1>1 DEF OrderInv, TimesOK
<1> QED BY <1>6, <1>7, <1>8, <1>9 DEF OrderInv

(* The end of a request that brings nothing to the device.                 *)
LEMMA EndKeepsOrder ==
  ASSUME QueueAssumption, Typed, OrderInv, NEW w \in Workers, Release(w),
         UNCHANGED <<status, created, ahead, handled>>,
         HangUp(w) \/ UNCHANGED connection
  PROVE  OrderInv'
<1>1. /\ held'[w] = None
      /\ \A v \in Workers \ {w} : held'[v] = held[v] /\ request'[v] = request[v]
  BY DEF Release, Typed, TypeOK
<1>2. \A d \in Devices, v \in Workers : connection'[d] = v => connection[d] = v
  BY DEF HangUp, QueueAssumption
<1> QED BY <1>1, <1>2, NothingNew

LEMMA OrderKept ==
  ASSUME QueueAssumption, Typed, OrderInv, [Next]_vars
  PROVE  OrderInv'
<1> USE DEF documents, workers, devices
<1>1. ASSUME NEW d \in Devices, NEW w \in Workers, Poll(d, w) PROVE OrderInv'
  <2>1. held[w] = None
    BY <1>1 DEF Poll, Typed, TypeOK, WorkerOK
  <2>2. /\ UNCHANGED <<status, created, ahead, handled, held>>
        /\ \A v \in Workers \ {w} : request'[v] = request[v]
        /\ \A e \in Devices, v \in Workers : connection'[e] = v => connection[e] = v \/ v = w
    BY <1>1 DEF Poll, Typed, TypeOK
  <2> QED BY <2>1, <2>2, NothingNew
<1>2. ASSUME NEW w \in Workers, Touch(w) PROVE OrderInv'
  BY <1>2, NothingNew DEF Touch
<1>3. ASSUME NEW w \in Workers, Ack(w) PROVE OrderInv'
  <2>1. request[w].say.cmd # None
    BY <1>3 DEF Ack, Typed, TypeOK, WorkerOK
  <2>2. request[w].say.result \in Results
    BY <2>1, ReportedExist DEF QueueAssumption
  <2>3. \A c \in Commands : /\ status'[c] = "pending" => status[c] = "pending"
                            /\ status'[c] = "absent" <=> status[c] = "absent"
    BY <1>3, <2>1, <2>2, ReportedExist DEF Ack, Typed, TypeOK, Results
  <2> QED BY <1>3, <2>3, NothingNew DEF Ack
<1>4. ASSUME NEW w \in Workers, Mark(w) PROVE OrderInv'
  <2>1. held[w] \in Commands /\ status[held[w]] # "absent"
    BY <1>4 DEF Mark, Typed, TypeOK, WorkerOK, OrderInv, ComingBehind
  <2>2. \A c \in Commands : /\ status'[c] = "pending" => status[c] = "pending"
                            /\ status'[c] = "absent" <=> status[c] = "absent"
    BY <1>4, <2>1 DEF Mark, Typed, TypeOK
  <2> QED BY <1>4, <2>2, NothingNew DEF Mark
<1>5. ASSUME NEW w \in Workers,
             AnswerEmpty(w) \/ AnswerLost(w) \/ BuildFails(w) \/ Crash(w)
      PROVE  OrderInv'
  BY <1>5, EndKeepsOrder DEF AnswerEmpty, AnswerLost, BuildFails, Crash
<1>6. ASSUME NEW d \in Devices, GiveUp(d) PROVE OrderInv'
  <2>1. \A e \in Devices, v \in Workers : connection'[e] = v => connection[e] = v
    BY <1>6 DEF GiveUp, Typed, TypeOK, QueueAssumption
  <2> QED BY <1>6, <2>1, NothingNew DEF GiveUp
<1>7. CASE UNCHANGED vars
  BY <1>7, NothingNew DEF vars
<1> QED
  BY <1>1, <1>2, <1>3, <1>4, <1>5, <1>6, <1>7, AddingKeeps, DequeueKeepsOrder,
     HandOverKeepsOrder DEF Next, Handle

LEMMA OrderInitially == ASSUME Init PROVE OrderInv
BY DEF Init, OrderInv, TimesOK, WaitingBehind, ComingBehind, RespectsEnqueueOrder, Queue

(* What waits came after what was taken, whatever interleaves.             *)
THEOREM OrderInvariant == Spec => []OrderInv
<1> USE QueueAssumption
<1>1. Init => OrderInv
  BY OrderInitially
<1>2. TypeOK /\ HandoverInv /\ OrderInv /\ [Next]_vars => OrderInv'
  BY OrderKept DEF Typed
<1> QED BY <1>1, <1>2, TypeCorrect, HandoverInvariant, PTL DEF Spec

(* However threads, retries and crashes interleave and whatever the clocks *)
(* of the servers say, a device never gets a command after one that was    *)
(* stamped once the first could be read, and with a later time.            *)
THEOREM FirstComeFirstServed == Spec => []RespectsEnqueueOrder
<1>1. OrderInv => RespectsEnqueueOrder
  BY DEF OrderInv
<1> QED BY <1>1, OrderInvariant, PTL

----------------------------------------------------------------------------
(* Devices that wait for their answers.                                    *)

(* Two threads at work work for two devices, so they hold two commands.    *)
LEMMA Alone ==
  ASSUME QueueAssumption, Typed, PatientInv, NEW v \in Workers, NEW w \in Workers,
         v # w, step[v] # "idle", step[w] # "idle"
  PROVE  /\ request[v].device # request[w].device
         /\ held[v] # None => held[v] # held[w]
         /\ held[v] # None => held[v] # request[w].say.cmd
<1>1. /\ connection[request[v].device] = v /\ connection[request[w].device] = w
  BY DEF PatientInv
<1>2. request[v].device # request[w].device
  BY <1>1
<1>3. held[v] # None => Target[held[v]] = request[v].device
  BY DEF Typed, TypeOK, WorkerOK
<1>4. held[w] # None => Target[held[w]] = request[w].device
  BY DEF Typed, TypeOK, WorkerOK
<1>5. request[w].say.cmd # None => Target[request[w].say.cmd] = request[w].device
  BY DEF PatientInv
<1> QED BY <1>2, <1>3, <1>4, <1>5

(* What PatientInv says of one thread.                                     *)
PatientWorker(w) ==
  /\ step[w] # "idle" => connection[request[w].device] = w
  /\ step[w] = "mark" => status[held[w]] = "pending"
  /\ step[w] = "answer" /\ held[w] # None => status[held[w]] = "sent"
  /\ request[w].say.cmd # None => Target[request[w].say.cmd] = request[w].device

PatientDevices == \A d \in Devices : report[d].cmd # None => Target[report[d].cmd] = d

LEMMA PatientParts == PatientInv <=> PatientDevices /\ \A w \in Workers : PatientWorker(w)
BY DEF PatientInv, PatientWorker, PatientDevices

(* A thread that ends its request leaves the others their devices.         *)
LEMMA EndKeepsPatient ==
  ASSUME QueueAssumption, Typed, PatientInv, NEW w \in Workers, Release(w),
         UNCHANGED status, HangUp(w) \/ UNCHANGED connection, PatientDevices'
  PROVE  PatientInv'
<1>1. ASSUME NEW v \in Workers PROVE PatientWorker(v)'
  <2>1. CASE v = w
    <3>1. step'[w] = "idle" /\ request'[w] = NoRequest
      BY DEF Release, Goto, Typed, TypeOK
    <3> QED BY <2>1, <3>1 DEF PatientWorker, NoRequest, Idle
  <2>2. CASE v # w
    <3>1. step'[v] = step[v] /\ request'[v] = request[v] /\ held'[v] = held[v]
      BY <2>2 DEF Release, Goto, Typed, TypeOK
    <3>2. step[v] # "idle" => request[v].device \in Devices
      BY DEF Typed, TypeOK, WorkerOK
    <3>3. step[v] # "idle" => connection'[request[v].device] = v
      BY <2>2, <3>2, PatientParts DEF PatientWorker, HangUp
    <3> QED BY <3>1, <3>3, PatientParts DEF PatientWorker
  <2> QED BY <2>1, <2>2
<1> QED BY <1>1, PatientParts DEF PatientInv, PatientWorker, PatientDevices

(* A status that changes under no thread's hands.                          *)
LEMMA ElsewhereKeepsPatient ==
  ASSUME QueueAssumption, Typed, PatientInv, NEW w \in Workers,
         UNCHANGED <<connection, request, report>>,
         \A v \in Workers \ {w} :
           /\ step'[v] = step[v] /\ held'[v] = held[v]
           /\ step[v] # "idle" /\ held[v] # None => status'[held[v]] = status[held[v]],
         step[w] # "idle",
         step'[w] = "mark" => status'[held'[w]] = "pending",
         step'[w] = "answer" /\ held'[w] # None => status'[held'[w]] = "sent"
  PROVE  PatientInv'
<1>1. ASSUME NEW v \in Workers PROVE PatientWorker(v)'
  <2>1. CASE v = w
    BY <2>1, PatientParts DEF PatientWorker
  <2>2. CASE v # w
    <3>1. step[v] = "mark" => held[v] # None
      BY DEF Typed, TypeOK, WorkerOK
    <3> QED BY <2>2, <3>1, PatientParts DEF PatientWorker
  <2> QED BY <2>1, <2>2
<1>2. PatientDevices'
  BY PatientParts DEF PatientDevices
<1> QED BY <1>1, <1>2 DEF PatientInv, PatientWorker, PatientDevices

LEMMA PatientKept ==
  ASSUME QueueAssumption, ~ CanGiveUp, Typed, PatientInv, [Next]_vars
  PROVE  PatientInv'
<1> USE DEF documents, workers, devices
<1>1. ASSUME NEW c \in Commands, Stamp(c) \/ Enqueue(c) PROVE PatientInv'
  <2>1. /\ UNCHANGED <<step, request, held, connection, report>>
        /\ \A x \in Commands : status[x] # "absent" => status'[x] = status[x]
    BY <1>1 DEF Stamp, Enqueue, Typed, TypeOK
  <2>2. ASSUME NEW w \in Workers PROVE PatientWorker(w)'
    <3>1. /\ step[w] = "mark" => held[w] \in Commands
          /\ held[w] # None => held[w] \in Commands
      BY DEF Typed, TypeOK, WorkerOK
    <3> QED BY <2>1, <3>1, PatientParts DEF PatientWorker
  <2> QED BY <2>1, <2>2 DEF PatientInv, PatientWorker
<1>2. ASSUME NEW d \in Devices, NEW w \in Workers, Poll(d, w) PROVE PatientInv'
  <2>1. /\ connection[d] = None /\ connection' = [connection EXCEPT ![d] = w]
        /\ request' = [request EXCEPT ![w] = [device |-> d, say |-> report[d]]]
        /\ step' = [step EXCEPT ![w] = "touch"]
        /\ UNCHANGED <<status, held, report>>
    BY <1>2 DEF Poll, Goto
  <2>2. ASSUME NEW v \in Workers PROVE PatientWorker(v)'
    <3>1. CASE v = w
      <4>1. step'[w] = "touch" /\ request'[w] = [device |-> d, say |-> report[d]]
            /\ connection'[d] = w
        BY <2>1 DEF Typed, TypeOK
      <4> QED BY <3>1, <4>1 DEF PatientWorker, PatientInv
    <3>2. CASE v # w
      <4>1. step'[v] = step[v] /\ request'[v] = request[v]
        BY <2>1, <3>2 DEF Typed, TypeOK
      <4>2. step[v] # "idle" => request[v].device \in Devices
        BY DEF Typed, TypeOK, WorkerOK
      <4>3. step[v] # "idle" => connection'[request[v].device] = v
        BY <2>1, <4>2, PatientParts DEF PatientWorker, QueueAssumption, Typed, TypeOK
      <4> QED BY <2>1, <4>1, <4>3, PatientParts DEF PatientWorker
    <3> QED BY <3>1, <3>2
  <2> QED BY <2>1, <2>2 DEF PatientInv, PatientWorker
<1>3. ASSUME NEW w \in Workers, Touch(w) PROVE PatientInv'
  <2>1. step[w] = "touch" /\ step'[w] \in {"ack", "dequeue"}
    BY <1>3 DEF Touch, Goto, Typed, TypeOK
  <2>2. \A v \in Workers \ {w} : step'[v] = step[v]
    BY <1>3 DEF Touch, Goto, Typed, TypeOK
  <2> QED BY <1>3, <2>1, <2>2, ElsewhereKeepsPatient DEF Touch
<1>4. ASSUME NEW w \in Workers, Ack(w) PROVE PatientInv'
  <2>1. step[w] = "ack" /\ step'[w] = "dequeue"
    BY <1>4 DEF Ack, Goto, Typed, TypeOK
  <2>2. ASSUME NEW v \in Workers \ {w}, step[v] # "idle", held[v] # None
        PROVE  status'[held[v]] = status[held[v]]
    <3>1. held[v] # request[w].say.cmd
      BY <2>1, <2>2, Alone
    <3>2. held[v] \in Commands
      BY <2>2 DEF Typed, TypeOK
    <3> QED BY <1>4, <3>1, <3>2 DEF Ack, Typed, TypeOK
  <2>3. \A v \in Workers \ {w} : step'[v] = step[v] /\ held'[v] = held[v]
    BY <1>4 DEF Ack, Goto, Typed, TypeOK
  <2> QED BY <1>4, <2>1, <2>2, <2>3, ElsewhereKeepsPatient DEF Ack
<1>5. ASSUME NEW w \in Workers, Dequeue(w) PROVE PatientInv'
  <2>1. /\ UNCHANGED <<status, request, connection, report>>
        /\ step[w] = "dequeue" /\ held[w] = None
    BY <1>5, DequeueEffect DEF Typed, TypeOK, WorkerOK
  <2>2. /\ \A v \in Workers \ {w} : step'[v] = step[v] /\ held'[v] = held[v]
        /\ \/ step'[w] = "answer" /\ held'[w] = None
           \/ step'[w] = "mark" /\ status[held'[w]] = "pending"
    BY <1>5, <2>1, DequeueEffect DEF Typed, TypeOK
  <2> QED BY <2>1, <2>2, ElsewhereKeepsPatient
<1>6. ASSUME NEW w \in Workers, Mark(w) PROVE PatientInv'
  <2>1. step[w] = "mark" /\ step'[w] = "answer" /\ held[w] \in Commands
    BY <1>6 DEF Mark, Goto, Typed, TypeOK, WorkerOK
  <2>2. ASSUME NEW v \in Workers \ {w}, step[v] # "idle", held[v] # None
        PROVE  status'[held[v]] = status[held[v]]
    <3>1. held[v] # held[w]
      BY <2>1, <2>2, Alone
    <3>2. held[v] \in Commands
      BY <2>2 DEF Typed, TypeOK
    <3> QED BY <1>6, <3>1, <3>2 DEF Mark, Typed, TypeOK
  <2>3. status'[held'[w]] = "sent" /\ \A v \in Workers \ {w} : step'[v] = step[v] /\ held'[v] = held[v]
    BY <1>6, <2>1 DEF Mark, Goto, Typed, TypeOK
  <2> QED BY <1>6, <2>1, <2>2, <2>3, ElsewhereKeepsPatient DEF Mark
<1>7. ASSUME NEW w \in Workers, AnswerLost(w) \/ BuildFails(w) \/ Crash(w) PROVE PatientInv'
  <2>1. UNCHANGED report
    BY <1>7 DEF AnswerLost, BuildFails, Crash
  <2>2. PatientDevices'
    BY <2>1, PatientParts DEF PatientDevices
  <2> QED BY <1>7, <2>2, EndKeepsPatient DEF AnswerLost, BuildFails, Crash
<1>8. ASSUME NEW w \in Workers, AnswerEmpty(w) PROVE PatientInv'
  <2>1. PatientDevices'
    BY <1>8, PatientParts, ReportFields DEF AnswerEmpty, PatientDevices
  <2> QED BY <1>8, <2>1, EndKeepsPatient DEF AnswerEmpty
<1>9. ASSUME NEW w \in Workers, AnswerCommand(w) PROVE PatientInv'
  <2>1. /\ held[w] \in Commands /\ Target[held[w]] = request[w].device
        /\ request[w].device \in Devices
    BY <1>9 DEF AnswerCommand, Typed, TypeOK, WorkerOK, QueueAssumption
  <2>2. \E r \in Outcomes : report' =
          [report EXCEPT ![request[w].device] = [cmd |-> held[w], result |-> r]]
    BY <1>9 DEF AnswerCommand
  <2>3. PatientDevices'
    BY <2>1, <2>2, PatientParts DEF PatientDevices, Typed, TypeOK
  <2> QED BY <1>9, <2>3, EndKeepsPatient DEF AnswerCommand
<1>10. CASE UNCHANGED vars
  BY <1>10 DEF vars, PatientInv
<1> QED
  BY <1>1, <1>2, <1>3, <1>4, <1>5, <1>6, <1>7, <1>8, <1>9, <1>10 DEF Next, Handle, GiveUp

LEMMA PatientInitially == ASSUME QueueAssumption, Init PROVE PatientInv
BY ReportFields DEF Init, PatientInv, NoRequest

(* One thread works for a device that waits.                               *)
THEOREM PatientInvariant ==
  ASSUME ~ CanGiveUp
  PROVE  Spec => []PatientInv
<1> USE QueueAssumption
<1>1. Init => PatientInv
  BY PatientInitially
<1>2. TypeOK /\ HandoverInv /\ PatientInv /\ [Next]_vars => PatientInv'
  BY PatientKept DEF Typed
<1> QED BY <1>1, <1>2, TypeCorrect, HandoverInvariant, PTL DEF Spec

(* A step that touches one command moves one stage.                        *)
LEMMA StageOfOne ==
  ASSUME NEW c \in Commands,
         \A x \in Commands \ {c} : status'[x] = status[x] /\ outcome'[x] = outcome[x]
  PROVE  Stage' = [Stage EXCEPT ![c] = Stage'[c]]
<1>1. \A x \in Commands \ {c} : Stage'[x] = Stage[x]
  BY DEF Stage
<1>2. Stage = [x \in Commands |-> Stage[x]] /\ Stage' = [x \in Commands |-> Stage'[x]]
  BY DEF Stage
<1> QED BY <1>1, <1>2

LEMMA StageKept == ASSUME UNCHANGED <<status, outcome>> PROVE UNCHANGED Stage
BY DEF Stage

(* What the refinement mapping shows of each operation: only a late thread *)
(* that writes "sent" over a result does what no command should go through.*)
LEMMA LifecycleSteps ==
  ASSUME QueueAssumption, Typed, OrderInv, [Next]_vars
  PROVE  \/ UNCHANGED <<Stage, outcome>>
         \/ Lifecycle!LifecycleNext
         \/ \E w \in Workers : /\ Mark(w) /\ held[w] \in Commands
                               /\ status[held[w]] \in Results
                               /\ Lifecycle!Unsettle(held[w])
<1> USE DEF documents, workers, devices
<1> DEFINE Stutter == UNCHANGED <<Stage, outcome>>
<1>1. ASSUME UNCHANGED <<status, outcome>> PROVE Stutter
  BY <1>1, StageKept
<1>2. ASSUME NEW c \in Commands, Enqueue(c) PROVE Lifecycle!Submit(c)
  <2>1. /\ status[c] = "absent" /\ status'[c] = "pending"
        /\ \A x \in Commands \ {c} : status'[x] = status[x] /\ outcome'[x] = outcome[x]
        /\ UNCHANGED outcome
    BY <1>2 DEF Enqueue, Typed, TypeOK
  <2>2. Stage[c] = "new" /\ Stage'[c] = "queued"
    BY <2>1 DEF Stage
  <2> QED BY <2>1, <2>2, StageOfOne DEF Lifecycle!Submit, Lifecycle!Move
<1>3. ASSUME NEW w \in Workers, Mark(w)
      PROVE  \/ Stutter
             \/ Lifecycle!Take(held[w])
             \/ status[held[w]] \in Results /\ Lifecycle!Unsettle(held[w])
  <2> DEFINE c == held[w]
  <2>1. c \in Commands /\ status[c] \in Statuses \ {"absent"}
    BY <1>3 DEF Mark, Typed, TypeOK, WorkerOK, OrderInv, ComingBehind
  <2>2. /\ status' = [status EXCEPT ![c] = "sent"] /\ status'[c] = "sent" /\ UNCHANGED outcome
        /\ \A x \in Commands \ {c} : status'[x] = status[x] /\ outcome'[x] = outcome[x]
    BY <1>3, <2>1 DEF Mark, Typed, TypeOK
  <2>3. CASE status[c] = "pending"
    <3>1. outcome[c] = None
      BY <2>1, <2>3 DEF Typed, HandoverInv, PendingUnmet
    <3>2. Stage[c] = "queued" /\ Stage'[c] = "taken"
      BY <2>1, <2>2, <2>3, <3>1 DEF Stage
    <3> QED BY <2>1, <2>2, <3>2, StageOfOne DEF Lifecycle!Take, Lifecycle!Move
  <2>4. CASE status[c] = "sent"
    <3>1. status' = status
      BY <2>1, <2>2, <2>4 DEF Typed, TypeOK
    <3> QED BY <1>1, <2>2, <3>1
  <2>5. CASE status[c] \in Results
    <3>1. outcome[c] = status[c] /\ outcome[c] # None
      BY <2>1, <2>5 DEF Typed, HandoverInv, RecordedIsReported, QueueAssumption
    <3>2. Stage[c] = "settled" /\ Stage'[c] = "handed"
      BY <2>1, <2>2, <2>5, <3>1 DEF Stage, Results
    <3> QED BY <2>1, <2>2, <2>5, <3>2, StageOfOne DEF Lifecycle!Unsettle, Lifecycle!Move
  <2> QED BY <2>1, <2>3, <2>4, <2>5 DEF Statuses
<1>4. ASSUME NEW w \in Workers, AnswerCommand(w) PROVE Lifecycle!HandOver(held[w])
  <2> DEFINE c == held[w]
  <2>1. /\ c \in Commands /\ c # None /\ UNCHANGED status
        /\ request[w].device \in Devices /\ connection[request[w].device] = w
    BY <1>4 DEF AnswerCommand, Typed, TypeOK, WorkerOK, QueueAssumption
  <2>2. outcome[c] = None
    BY <2>1 DEF Typed, HandoverInv, ListensToFresh, ListenedTo, QueueAssumption
  <2>a. status[c] \in Statuses \ {"absent", "pending"}
    BY <1>4, <2>1 DEF AnswerCommand, Typed, TypeOK, HandoverInv, AnswerMarked
  <2>b. status[c] \notin Results
    BY <2>1, <2>2 DEF Typed, HandoverInv, RecordedIsReported, QueueAssumption
  <2>c. status[c] = "sent"
    BY <2>a, <2>b DEF Statuses
  <2>3. PICK r \in Outcomes : outcome' = [outcome EXCEPT ![c] = r]
    BY <1>4 DEF AnswerCommand
  <2>4. /\ outcome'[c] # None
        /\ \A x \in Commands \ {c} : status'[x] = status[x] /\ outcome'[x] = outcome[x]
    BY <2>1, <2>3 DEF QueueAssumption, Typed, TypeOK
  <2>5. Stage[c] = "taken" /\ Stage'[c] = "handed"
    BY <2>1, <2>2, <2>c, <2>4 DEF Stage
  <2> QED BY <2>1, <2>3, <2>4, <2>5, StageOfOne DEF Lifecycle!HandOver, Lifecycle!Move
<1>5. ASSUME NEW w \in Workers, Ack(w)
      PROVE  Stutter \/ Lifecycle!Settle(request[w].say.cmd)
  <2> DEFINE c == request[w].say.cmd
             r == request[w].say.result
  <2>1. /\ c \in Commands /\ outcome[c] = r /\ outcome[c] # None /\ r \in Results
        /\ status[c] \notin {"absent", "pending"} /\ status[c] \in Statuses
    BY <1>5, ReportedExist DEF Ack, Typed, TypeOK, WorkerOK, QueueAssumption
  <2>2. /\ status'[c] = r /\ UNCHANGED outcome
        /\ \A x \in Commands \ {c} : status'[x] = status[x] /\ outcome'[x] = outcome[x]
    BY <1>5, <2>1 DEF Ack, Typed, TypeOK
  <2>3. CASE status[c] \in Results
    <3>1. status[c] = r
      BY <2>1, <2>3 DEF Typed, HandoverInv, RecordedIsReported
    <3>2. status' = status
      BY <1>5, <2>1, <3>1 DEF Ack, Typed, TypeOK
    <3> QED BY <1>1, <2>2, <3>2
  <2>4. CASE status[c] = "sent"
    <3>1. Stage[c] = "handed" /\ Stage'[c] = "settled"
      BY <2>1, <2>2, <2>4 DEF Stage, Results
    <3> QED BY <2>1, <2>2, <3>1, StageOfOne DEF Lifecycle!Settle, Lifecycle!Move
  <2> QED BY <2>1, <2>3, <2>4 DEF Statuses
<1>6. ASSUME NEW w \in Workers, Dequeue(w) PROVE Stutter
  BY <1>1, <1>6, DequeueEffect DEF Typed
<1>7. ASSUME NEW w \in Workers,
             Touch(w) \/ AnswerEmpty(w) \/ AnswerLost(w) \/ BuildFails(w) \/ Crash(w)
      PROVE  Stutter
  BY <1>1, <1>7 DEF Touch, AnswerEmpty, AnswerLost, BuildFails, Crash
<1>8. ASSUME NEW c \in Commands, Stamp(c) PROVE Stutter
  BY <1>1, <1>8 DEF Stamp
<1>9. ASSUME NEW d \in Devices, NEW w \in Workers, Poll(d, w) PROVE Stutter
  BY <1>1, <1>9 DEF Poll
<1>10. /\ UNCHANGED vars => Stutter
       /\ \A d \in Devices : GiveUp(d) => Stutter
  BY <1>1 DEF vars, GiveUp
<1>11. /\ \A w \in Workers : Mark(w) \/ AnswerCommand(w) => held[w] \in Commands
       /\ \A w \in Workers : Ack(w) => request[w].say.cmd \in Commands
  BY ReportedExist DEF Mark, AnswerCommand, Ack, Typed, TypeOK, WorkerOK
<1> HIDE DEF Stutter
<1>12. \/ Stutter
       \/ Lifecycle!LifecycleNext
       \/ \E w \in Workers : /\ Mark(w) /\ held[w] \in Commands
                             /\ status[held[w]] \in Results
                             /\ Lifecycle!Unsettle(held[w])
  BY <1>2, <1>3, <1>4, <1>5, <1>6, <1>7, <1>8, <1>9, <1>10, <1>11
  DEF Next, Handle, Lifecycle!LifecycleNext
<1> QED BY <1>12 DEF Stutter

(* With devices that wait no thread is late.                               *)
LEMMA StepOfLifecycle ==
  ASSUME QueueAssumption, Typed, OrderInv, PatientInv, [Next]_vars
  PROVE  [Lifecycle!LifecycleNext]_(Lifecycle!abstractVars)
<1>1. ASSUME NEW w \in Workers, Mark(w) PROVE status[held[w]] \notin Results
  BY <1>1, PatientParts DEF Mark, PatientWorker, Results
<1> QED BY <1>1, LifecycleSteps DEF Lifecycle!abstractVars

LEMMA StepOfRetriedLifecycle ==
  ASSUME QueueAssumption, Typed, OrderInv, [Next]_vars
  PROVE  [Lifecycle!RetriedNext]_(Lifecycle!abstractVars)
BY LifecycleSteps DEF Lifecycle!RetriedNext, Lifecycle!abstractVars

LEMMA LifecycleInitially == Init => Lifecycle!LifecycleInit
BY DEF Init, Stage, Lifecycle!LifecycleInit

(* The handlers implement the command lifecycle, except that the record of *)
(* a result may be overwritten, whether or not devices give up requests.   *)
THEOREM QueueImplementsRetriedLifecycle == Spec => ImplementsRetriedLifecycle
<1> USE QueueAssumption
<1>1. Init => Lifecycle!LifecycleInit
  BY LifecycleInitially
<1>2. TypeOK /\ HandoverInv /\ OrderInv /\ [Next]_vars
        => [Lifecycle!RetriedNext]_(Lifecycle!abstractVars)
  BY StepOfRetriedLifecycle DEF Typed
<1> QED
  BY <1>1, <1>2, TypeCorrect, HandoverInvariant, OrderInvariant, PTL
  DEF Spec, ImplementsRetriedLifecycle, Lifecycle!RetriedSpec

(* With devices that wait for their answers, the handlers of mdm() and     *)
(* send_command implement the abstract command lifecycle.                  *)
THEOREM QueueImplementsLifecycle ==
  ASSUME ~ CanGiveUp
  PROVE  Spec => ImplementsLifecycle
<1> USE QueueAssumption
<1>1. Init => Lifecycle!LifecycleInit
  BY LifecycleInitially
<1>2. TypeOK /\ HandoverInv /\ OrderInv /\ PatientInv /\ [Next]_vars
        => [Lifecycle!LifecycleNext]_(Lifecycle!abstractVars)
  BY StepOfLifecycle DEF Typed
<1> QED
  BY <1>1, <1>2, TypeCorrect, HandoverInvariant, OrderInvariant, PatientInvariant, PTL
  DEF Spec, ImplementsLifecycle, Lifecycle!LifecycleSpec

----------------------------------------------------------------------------
(* Counting what is lost.                                                  *)

(* A set that gains one element at most, or loses one.                     *)
LEMMA CountedSubset ==
  ASSUME NEW S, NEW x, NEW T, IsFiniteSet(S), T \subseteq S \cup {x}
  PROVE  /\ IsFiniteSet(T) /\ Cardinality(T) \in Nat /\ Cardinality(S) \in Nat
         /\ Cardinality(T) <= Cardinality(S) + 1
         /\ T \subseteq S => Cardinality(T) <= Cardinality(S)
         /\ \A y \in S : T \subseteq S \ {y} => Cardinality(T) + 1 <= Cardinality(S)
<1> DEFINE More == S \cup {x}
<1>1. /\ IsFiniteSet(More) /\ Cardinality(S) \in Nat /\ Cardinality(More) \in Nat
      /\ Cardinality(More) <= Cardinality(S) + 1
  <2>1. Cardinality(More) = IF x \in S THEN Cardinality(S) ELSE Cardinality(S) + 1
    BY FS_AddElement
  <2>2. IsFiniteSet(More) /\ Cardinality(S) \in Nat
    BY FS_AddElement, FS_CardinalityType
  <2> QED BY <2>1, <2>2
<1>2. IsFiniteSet(T) /\ Cardinality(T) <= Cardinality(More) /\ Cardinality(T) \in Nat
  BY <1>1, FS_Subset, FS_CardinalityType
<1>3. T \subseteq S => Cardinality(T) <= Cardinality(S)
  BY FS_Subset
<1>4. ASSUME NEW y \in S, T \subseteq S \ {y} PROVE Cardinality(T) + 1 <= Cardinality(S)
  <2> DEFINE Fewer == S \ {y}
  <2>1. IsFiniteSet(Fewer) /\ Cardinality(Fewer) = Cardinality(S) - 1
    BY FS_RemoveElement
  <2>2. Cardinality(T) <= Cardinality(Fewer)
    BY <1>4, <2>1, FS_Subset
  <2> HIDE DEF Fewer
  <2> QED BY <1>1, <1>2, <2>1, <2>2
<1> HIDE DEF More
<1> QED BY <1>1, <1>2, <1>3, <1>4

(* Two sets counted together: an element may enter the first if another    *)
(* leaves the second, or if the bound grows.                               *)
Covered(A, B, A1, B1, n, n1) ==
  \/ A1 \subseteq A /\ B1 \subseteq B /\ n <= n1
  \/ \E x, y : y \in B /\ A1 \subseteq A \cup {x} /\ B1 \subseteq B \ {y} /\ n <= n1
  \/ \E x : A1 \subseteq A \cup {x} /\ B1 \subseteq B /\ n + 1 <= n1
  \/ \E y : A1 \subseteq A /\ B1 \subseteq B \cup {y} /\ n + 1 <= n1

LEMMA CountedPair ==
  ASSUME NEW A, NEW B, NEW A1, NEW B1, NEW n \in Nat, NEW n1 \in Nat,
         IsFiniteSet(A), IsFiniteSet(B), Cardinality(A) + Cardinality(B) <= n,
         Covered(A, B, A1, B1, n, n1)
  PROVE  /\ IsFiniteSet(A1) /\ IsFiniteSet(B1)
         /\ Cardinality(A1) + Cardinality(B1) <= n1
<1>1. PICK x, y : /\ A1 \subseteq A \cup {x} /\ B1 \subseteq B \cup {y}
                  /\ \/ A1 \subseteq A /\ B1 \subseteq B /\ n <= n1
                     \/ y \in B /\ B1 \subseteq B \ {y} /\ n <= n1
                     \/ B1 \subseteq B /\ n + 1 <= n1
                     \/ A1 \subseteq A /\ n + 1 <= n1
  BY DEF Covered
<1> DEFINE a == Cardinality(A)   a1 == Cardinality(A1)
           b == Cardinality(B)   b1 == Cardinality(B1)
<1>2. /\ IsFiniteSet(A1) /\ a \in Nat /\ a1 \in Nat /\ a1 <= a + 1
      /\ A1 \subseteq A => a1 <= a
  BY <1>1, CountedSubset
<1>3. /\ IsFiniteSet(B1) /\ b \in Nat /\ b1 \in Nat /\ b1 <= b + 1
      /\ B1 \subseteq B => b1 <= b
      /\ y \in B /\ B1 \subseteq B \ {y} => b1 + 1 <= b
  BY <1>1, CountedSubset
<1>4. a + b <= n
  OBVIOUS
<1> HIDE DEF a, b, a1, b1
<1>5. a1 + b1 <= n1
  BY <1>1, <1>2, <1>3, <1>4
<1> QED BY <1>2, <1>3, <1>5 DEF a1, b1
LostToCrashes == Lost \ Unencodable

LossInv == IsFiniteSet(LostToCrashes) /\ Cardinality(LostToCrashes) <= crashes

LEMMA AllLost ==
  ASSUME IsFiniteSet(Unencodable), IsFiniteSet(LostToCrashes)
  PROVE  /\ Cardinality(Lost) \in Nat /\ Cardinality(LostToCrashes) \in Nat
         /\ Cardinality(Unencodable) \in Nat
         /\ Cardinality(Lost) <= Cardinality(LostToCrashes) + Cardinality(Unencodable)
<1> DEFINE All == LostToCrashes \cup Unencodable
<1>1. LostToCrashes \cap Unencodable = {} /\ Lost \subseteq All
  BY DEF LostToCrashes
<1>2. /\ IsFiniteSet(All)
      /\ Cardinality(All) = Cardinality(LostToCrashes) + Cardinality(Unencodable)
                            - Cardinality(LostToCrashes \cap Unencodable)
  BY FS_Union
<1>3. /\ Cardinality(LostToCrashes) \in Nat /\ Cardinality(Unencodable) \in Nat
      /\ Cardinality(LostToCrashes \cap Unencodable) = 0
  BY <1>1, FS_CardinalityType, FS_EmptySet
<1>4. /\ Cardinality(Lost) <= Cardinality(All)
      /\ Cardinality(Lost) \in Nat /\ Cardinality(All) \in Nat
  BY <1>1, <1>2, FS_Subset, FS_CardinalityType
<1> HIDE DEF All
<1> QED BY <1>2, <1>3, <1>4

(* A command is lost where nobody holds it any more.                       *)
LEMMA LosesNothing ==
  ASSUME \A c \in Commands :
           status'[c] = "sent" /\ outcome'[c] = None =>
             \/ status[c] = "sent" /\ outcome[c] = None
             \/ \E w \in Workers : held'[w] = c,
         \A w \in Workers : held[w] \in Commands \ Unencodable =>
             \/ \E v \in Workers : held'[v] = held[w]
             \/ outcome'[held[w]] # None
  PROVE  LostToCrashes' \subseteq LostToCrashes
BY DEF LostToCrashes, Lost

(* Nothing is lost but what cannot be encoded, unless a request dies or an *)
(* answer finds nobody.                                                    *)
LEMMA OnlyTheseLose ==
  ASSUME QueueAssumption, Typed, Next, \A w \in Workers : ~ Crash(w) /\ ~ AnswerLost(w)
  PROVE  LostToCrashes' \subseteq LostToCrashes
<1> USE DEF documents, workers, devices
<1>1. ASSUME UNCHANGED <<status, held, outcome>> PROVE LostToCrashes' \subseteq LostToCrashes
  BY <1>1 DEF LostToCrashes, Lost
<1>2. ASSUME NEW c \in Commands, Enqueue(c) PROVE LostToCrashes' \subseteq LostToCrashes
  <2>1. \A x \in Commands : status'[x] = "sent" => status[x] = "sent"
    BY <1>2 DEF Enqueue, Typed, TypeOK
  <2> QED BY <1>2, <2>1, LosesNothing DEF Enqueue
<1>3. ASSUME NEW w \in Workers, Ack(w) PROVE LostToCrashes' \subseteq LostToCrashes
  <2>1. request[w].say.result \in Results
    BY <1>3, ReportedExist DEF Ack, Typed, TypeOK, WorkerOK, QueueAssumption
  <2>2. \A x \in Commands : status'[x] = "sent" => status[x] = "sent"
    BY <1>3, <2>1 DEF Ack, Typed, TypeOK, Results
  <2> QED BY <1>3, <2>2, LosesNothing DEF Ack
<1>4. ASSUME NEW w \in Workers, Dequeue(w) PROVE LostToCrashes' \subseteq LostToCrashes
  <2>1. UNCHANGED <<status, outcome>> /\ step[w] = "dequeue"
    BY <1>4, DequeueEffect DEF Typed
  <2>2. held[w] = None
    BY <2>1 DEF Typed, TypeOK, WorkerOK
  <2>3. held' = held \/ \E c \in Commands : held' = [held EXCEPT ![w] = c]
    BY <1>4, DequeueEffect DEF Typed
  <2>4. \A v \in Workers \ {w} : held'[v] = held[v]
    BY <2>3 DEF Typed, TypeOK
  <2> QED BY <2>1, <2>2, <2>4, LosesNothing DEF QueueAssumption
<1>5. ASSUME NEW w \in Workers, Mark(w) PROVE LostToCrashes' \subseteq LostToCrashes
  <2>1. /\ UNCHANGED <<held, outcome>>
        /\ \A x \in Commands : status'[x] = "sent" => status[x] = "sent" \/ held'[w] = x
    BY <1>5 DEF Mark, Typed, TypeOK
  <2> QED BY <2>1, LosesNothing
<1>6. ASSUME NEW w \in Workers, Release(w), UNCHANGED status,
             held[w] \in Commands \ Unencodable => outcome'[held[w]] # None,
             \A c \in Commands : outcome'[c] = None => outcome[c] = None
      PROVE  LostToCrashes' \subseteq LostToCrashes
  <2>1. \A v \in Workers \ {w} : held'[v] = held[v]
    BY <1>6 DEF Release, Typed, TypeOK
  <2> QED BY <1>6, <2>1, LosesNothing
<1>7. ASSUME NEW w \in Workers, AnswerCommand(w) PROVE LostToCrashes' \subseteq LostToCrashes
  <2>1. \A c \in Commands : outcome'[c] = None => outcome[c] = None /\ c # held[w]
    BY <1>7 DEF AnswerCommand, Typed, TypeOK, QueueAssumption
  <2> QED BY <1>6, <1>7, <2>1 DEF AnswerCommand
<1>8. ASSUME NEW w \in Workers, AnswerEmpty(w) \/ BuildFails(w)
      PROVE  LostToCrashes' \subseteq LostToCrashes
  BY <1>6, <1>8 DEF AnswerEmpty, BuildFails, QueueAssumption
<1>9. ASSUME NEW d \in Devices, GiveUp(d) PROVE LostToCrashes' \subseteq LostToCrashes
  BY <1>1, <1>9 DEF GiveUp
<1>10. ASSUME NEW w \in Workers, Touch(w) PROVE LostToCrashes' \subseteq LostToCrashes
  BY <1>1, <1>10 DEF Touch
<1>11. ASSUME NEW c \in Commands, Stamp(c) PROVE LostToCrashes' \subseteq LostToCrashes
  BY <1>1, <1>11 DEF Stamp
<1>12. ASSUME NEW d \in Devices, NEW w \in Workers, Poll(d, w)
       PROVE  LostToCrashes' \subseteq LostToCrashes
  BY <1>1, <1>12 DEF Poll
<1> QED
  BY <1>2, <1>3, <1>4, <1>5, <1>7, <1>8, <1>9, <1>10, <1>11, <1>12 DEF Next, Handle

(* Such a request takes one command with it at most.                       *)
LEMMA RequestLosesOne ==
  ASSUME QueueAssumption, Typed, NEW w \in Workers, Crash(w) \/ AnswerLost(w)
  PROVE  LostToCrashes' \subseteq LostToCrashes \cup {held[w]}
<1>1. /\ UNCHANGED <<status, outcome>>
      /\ \A v \in Workers \ {w} : held'[v] = held[v]
  BY DEF Crash, AnswerLost, Release, documents, devices, Typed, TypeOK
<1> QED BY <1>1 DEF LostToCrashes, Lost

LEMMA LossesCounted ==
  ASSUME QueueAssumption, ~ CanGiveUp, Typed, PatientInv, LossInv, [Next]_vars
  PROVE  LossInv'
<1>1. crashes \in Nat /\ Cardinality(LostToCrashes) \in Nat
  BY FS_CardinalityType DEF Typed, TypeOK, LossInv, QueueAssumption
<1>2. ASSUME LostToCrashes' \subseteq LostToCrashes, UNCHANGED crashes PROVE LossInv'
  <2>1. /\ IsFiniteSet(LostToCrashes') /\ Cardinality(LostToCrashes') \in Nat
        /\ Cardinality(LostToCrashes') <= Cardinality(LostToCrashes)
    BY <1>2, CountedSubset DEF LossInv
  <2> QED BY <1>1, <1>2, <2>1 DEF LossInv
<1>3. ASSUME NEW w \in Workers, Crash(w) PROVE LossInv'
  <2>1. LostToCrashes' \subseteq LostToCrashes \cup {held[w]} /\ crashes' = crashes + 1
    BY <1>3, RequestLosesOne DEF Crash
  <2>2. /\ IsFiniteSet(LostToCrashes') /\ Cardinality(LostToCrashes') \in Nat
        /\ Cardinality(LostToCrashes') <= Cardinality(LostToCrashes) + 1
    BY <2>1, CountedSubset DEF LossInv
  <2> QED BY <1>1, <2>1, <2>2 DEF LossInv
<1>4. CASE UNCHANGED vars
  BY <1>2, <1>4 DEF vars, LostToCrashes, Lost
<1>5. CASE Next /\ \A w \in Workers : ~ Crash(w)
  <2>1. UNCHANGED crashes
    BY <1>5 DEF Next, Handle, Stamp, Enqueue, Poll, Touch, Ack, Dequeue, Mark,
       AnswerEmpty, AnswerCommand, AnswerLost, BuildFails, GiveUp
  <2>2. \A w \in Workers : ~ AnswerLost(w)
    BY PatientParts DEF AnswerLost, PatientWorker
  <2> QED BY <1>2, <1>5, <2>1, <2>2, OnlyTheseLose
<1> QED BY <1>3, <1>4, <1>5

(* With devices that wait for their answers every lost command is          *)
(* accounted for: by a died request, or by a payload no plist can hold.    *)
THEOREM LossesExplained ==
  ASSUME IsFiniteSet(Unencodable)
  PROVE  Spec => []LossesAreAccounted
<1> USE QueueAssumption
<1>1. CASE CanGiveUp
  <2>1. LossesAreAccounted
    BY <1>1 DEF LossesAreAccounted
  <2> QED BY <2>1, PTL
<1>2. CASE ~ CanGiveUp
  <2>1. Init => LossInv
    <3> SUFFICES ASSUME Init PROVE LossInv
      OBVIOUS
    <3>1. LostToCrashes = {} /\ crashes = 0
      BY DEF Init, LostToCrashes, Lost
    <3> QED BY <3>1, FS_EmptySet DEF LossInv
  <2>2. TypeOK /\ HandoverInv /\ PatientInv /\ LossInv /\ [Next]_vars => LossInv'
    BY <1>2, LossesCounted DEF Typed
  <2>3. TypeOK /\ LossInv => LossesAreAccounted
    <3> SUFFICES ASSUME TypeOK, LossInv PROVE Cardinality(Lost) <= crashes + Cardinality(Unencodable)
      BY DEF LossesAreAccounted
    <3>1. /\ Cardinality(Lost) \in Nat /\ Cardinality(LostToCrashes) \in Nat
          /\ Cardinality(Unencodable) \in Nat
          /\ Cardinality(Lost) <= Cardinality(LostToCrashes) + Cardinality(Unencodable)
      BY AllLost DEF LossInv
    <3>2. crashes \in Nat
      BY DEF TypeOK
    <3> QED BY <3>1, <3>2 DEF LossInv
  <2> QED
    BY <1>2, <2>1, <2>2, <2>3, TypeCorrect, HandoverInvariant, PatientInvariant, PTL DEF Spec
<1> QED BY <1>1, <1>2
============================================================================
