------------------------ MODULE AppleDevice_proofs ------------------------
(***************************************************************************)
(* The proofs of the queue show that no device that stays is handed a      *)
(* command twice or too early. Here the device also enrols, departs and    *)
(* comes back: its check-ins leave the queue alone, and a departure only   *)
(* drops what the invariants speak of, so they hold of the composition.    *)
(* What departures cost is counted.                                        *)
(***************************************************************************)
EXTENDS AppleDevice, AppleCommandQueue_proofs

(* The steps of the queue but those of devices that abandon a request.     *)
StayingNext ==
  \/ \E c \in Commands : Stamp(c) \/ Enqueue(c)
  \/ \E d \in Devices, w \in Workers : Poll(d, w)
  \/ \E w \in Workers : Handle(w) \/ Crash(w)

LEMMA StayingIsNext == [StayingNext]_vars => [Next]_vars
BY DEF StayingNext, Next

LEMMA AbandoningIsNext == ASSUME DeviceAssumption, AbandonPoll PROVE Next
BY DEF AbandonPoll, Next, DeviceAssumption

(* A step of the composition is a step of the queue or of nothing in it,   *)
(* except for a thread that dies in a check-in, a poll the device gives up *)
(* and a departure.                                                        *)
LEMMA DeviceSteps ==
  ASSUME DeviceAssumption, [DeviceNext]_deviceVars
  PROVE  \/ [StayingNext]_vars /\ UNCHANGED <<departures, givenUp>>
         \/ \E w \in Workers : DieInCheckIn(w)
         \/ AbandonPoll
         \/ Depart
<1> USE DEF waking, counts
<1>1. ASSUME NEW c \in Commands, SendCommand(c) \/ Add(c)
      PROVE  StayingNext /\ UNCHANGED <<departures, givenUp>>
  BY <1>1 DEF SendCommand, Add, StayingNext
<1>2. ASSUME ReadPushData \/ Push \/ LosePush
      PROVE  UNCHANGED <<vars, departures, givenUp>>
  BY <1>2 DEF ReadPushData, Push, LosePush, queue, vars, documents, workers, devices
<1>3. ASSUME CheckIn \/ AbandonCheckIn
      PROVE  UNCHANGED <<vars, departures, givenUp>>
  BY <1>3 DEF CheckIn, AbandonCheckIn, Enrollment!Compose, Enrollment!GiveUp, queue, vars, documents, workers, devices
<1>4. ASSUME NEW w \in Workers, PollAwake(w)
      PROVE  StayingNext /\ UNCHANGED <<departures, givenUp>>
  BY <1>4 DEF PollAwake, StayingNext, DeviceAssumption
<1>5. ASSUME NEW w \in Workers, Serve(w)
      PROVE  StayingNext /\ UNCHANGED <<departures, givenUp>>
  BY <1>5 DEF Serve, StayingNext, Handle
<1>6. ASSUME NEW w \in Workers, Die(w)
      PROVE  StayingNext /\ UNCHANGED <<departures, givenUp>>
  BY <1>6 DEF Die, StayingNext
<1>7. ASSUME NEW w \in Workers, SendCheckIn(w) \/ ServeCheckIn(w)
      PROVE  UNCHANGED <<vars, departures, givenUp>>
  BY <1>7 DEF SendCheckIn, ServeCheckIn, Enrollment!Send, Enrollment!Serve,
     Enrollment!Upsert, Enrollment!Answer, queue, vars, documents, workers, devices
<1>8. ASSUME UNCHANGED deviceVars
      PROVE  UNCHANGED <<vars, departures, givenUp>>
  BY <1>8 DEF deviceVars
<1> QED
  BY <1>1, <1>2, <1>3, <1>4, <1>5, <1>6, <1>7, <1>8 DEF DeviceNext

(* A thread that dies in a check-in only counts as a died request.         *)
LEMMA DieInCheckInKeeps ==
  ASSUME QueueAssumption, TypeOK, HandoverInv, NEW w \in Workers, DieInCheckIn(w)
  PROVE  TypeOK' /\ HandoverInv'
<1>1. /\ UNCHANGED <<documents, workers, devices, ahead>>
      /\ crashes < MaxCrashes /\ crashes' = crashes + 1
  BY DEF DieInCheckIn, Enrollment!Crash, queue
<1>2. crashes' \in 0..MaxCrashes
  BY <1>1 DEF TypeOK, QueueAssumption
<1>3. TypeOK'
  BY <1>1, <1>2 DEF TypeOK, WorkerOK, documents, workers, devices
<1>4. HandoverInv'
  BY <1>1 DEF HandoverInv, PendingUnmet, AnswerMarked, ListensToFresh, ListenedTo,
     ReportsAgree, Agrees, HandedWereMet, HandedToTarget, HandedOverOnce,
     RecordedIsReported, documents, workers, devices
<1> QED BY <1>3, <1>4

(* A departing device drops its connection and its report: the invariant   *)
(* asks nothing of a device that waits for nothing and reports nothing.    *)
LEMMA DepartKeeps ==
  ASSUME DeviceAssumption, TypeOK, HandoverInv, Depart
  PROVE  TypeOK' /\ HandoverInv'
<1>1. /\ connection' = [connection EXCEPT ![Device] = None]
      /\ report' = [report EXCEPT ![Device] = Idle]
      /\ UNCHANGED <<documents, workers, outcome, handled, ahead>>
      /\ UNCHANGED crashes
  BY DEF Depart, Enrollment!Wipe, Enrollment!Compose
<1>2. TypeOK'
  BY <1>1, ReportFields DEF TypeOK, WorkerOK, documents, workers
<1>3. HistoryInv'
  BY <1>1, HistoryKept DEF HistoryInv, HandoverInv
<1>4. PendingUnmet' /\ AnswerMarked' /\ RecordedIsReported'
  BY <1>1 DEF HandoverInv, PendingUnmet, AnswerMarked, RecordedIsReported,
     documents, workers
<1>5. ListensToFresh'
  BY <1>1 DEF HandoverInv, TypeOK, ListensToFresh, ListenedTo, documents, workers
<1>6. ReportsAgree'
  BY <1>1, ReportFields DEF HandoverInv, TypeOK, ReportsAgree, Agrees, documents, workers
<1> QED
  BY <1>2, <1>3, <1>4, <1>5, <1>6 DEF HandoverInv, HistoryInv

(* The types of the queue and its inductive invariant hold of the whole    *)
(* life of a device, through check-outs, wipes and re-enrolments.          *)
THEOREM DeviceInvariant == DeviceSpec => [](TypeOK /\ HandoverInv)
<1> USE QueueAssumption, DeviceAssumption
<1>1. DeviceInit => TypeOK /\ HandoverInv
  BY QueueInit DEF DeviceInit
<1>2. TypeOK /\ HandoverInv /\ [DeviceNext]_deviceVars => (TypeOK /\ HandoverInv)'
  <2> SUFFICES ASSUME TypeOK, HandoverInv, [DeviceNext]_deviceVars
               PROVE  TypeOK' /\ HandoverInv'
    OBVIOUS
  <2>1. CASE [StayingNext]_vars
    BY <2>1, StayingIsNext, TypeKept, HandoverKept
  <2>2. CASE \E w \in Workers : DieInCheckIn(w)
    BY <2>2, DieInCheckInKeeps
  <2>3. CASE Depart
    BY <2>3, DepartKeeps
  <2>4. CASE AbandonPoll
    BY <2>4, AbandoningIsNext, TypeKept, HandoverKept
  <2> QED BY <2>1, <2>2, <2>3, <2>4, DeviceSteps
<1> QED
  BY <1>1, <1>2, PTL DEF DeviceSpec

(* An EraseDevice is not repeated to the device it has erased: through     *)
(* wipes and re-enrolments no command is handed over a second time.        *)
THEOREM OnceInALifetime == DeviceSpec => []HandedOverOnce
<1>1. TypeOK /\ HandoverInv => HandedOverOnce
  BY DEF HandoverInv
<1> QED BY <1>1, DeviceInvariant, PTL

(* Nor do departures and check-ins touch the order of the queue.           *)
LEMMA LeavingKeepsOrder ==
  ASSUME QueueAssumption, DeviceAssumption, Typed, OrderInv,
         Depart \/ \E w \in Workers : DieInCheckIn(w)
  PROVE  OrderInv'
<1>1. /\ UNCHANGED <<status, created, ahead, handled, held, request>>
      /\ connection' \in {connection, [connection EXCEPT ![Device] = None]}
  BY DEF Depart, DieInCheckIn, Enrollment!Crash, queue, documents, workers, devices
<1>2. \A d \in Devices, w \in Workers : connection'[d] = w => connection[d] = w
  BY <1>1 DEF Typed, TypeOK, QueueAssumption
<1> QED BY <1>1, <1>2, NothingNew

(* So the order in which commands wait is kept through all lives.          *)
THEOREM DeviceOrderInvariant == DeviceSpec => []OrderInv
<1> USE QueueAssumption, DeviceAssumption
<1>1. DeviceInit => OrderInv
  BY OrderInitially DEF DeviceInit
<1>2. TypeOK /\ HandoverInv /\ OrderInv /\ [DeviceNext]_deviceVars => OrderInv'
  BY DeviceSteps, StayingIsNext, AbandoningIsNext, OrderKept, LeavingKeepsOrder DEF Typed
<1> QED BY <1>1, <1>2, DeviceInvariant, PTL DEF DeviceSpec

(* A device that leaves and comes back, or gives up polls, still gets its  *)
(* commands in order, as far as the clocks have put them in order.         *)
THEOREM FirstComeThroughLives == DeviceSpec => []RespectsEnqueueOrder
<1>1. OrderInv => RespectsEnqueueOrder
  BY DEF OrderInv
<1> QED BY <1>1, DeviceOrderInvariant, PTL

(* Through all its lives the commands of a device go one way, from queued  *)
(* to taken to handed over, and only the record of a result may be lost:   *)
(* enrolment, departures and pushes do not appear in the abstract queue.   *)
THEOREM DeviceImplementsRetriedLifecycle == DeviceSpec => ImplementsRetriedLifecycle
<1> USE QueueAssumption, DeviceAssumption
<1>1. DeviceInit => Lifecycle!LifecycleInit
  BY LifecycleInitially DEF DeviceInit
<1>2. TypeOK /\ HandoverInv /\ OrderInv /\ [DeviceNext]_deviceVars
        => [Lifecycle!RetriedNext]_(Lifecycle!abstractVars)
  <2>1. ASSUME Depart \/ \E w \in Workers : DieInCheckIn(w)
        PROVE  UNCHANGED Lifecycle!abstractVars
    <3>1. UNCHANGED <<status, outcome>>
      BY <2>1 DEF Depart, DieInCheckIn, queue, documents, devices
    <3> QED BY <3>1, StageKept DEF Lifecycle!abstractVars
  <2> QED BY <2>1, DeviceSteps, StayingIsNext, AbandoningIsNext, StepOfRetriedLifecycle DEF Typed
<1> QED
  BY <1>1, <1>2, DeviceInvariant, DeviceOrderInvariant, PTL
  DEF DeviceSpec, ImplementsRetriedLifecycle, Lifecycle!RetriedSpec

----------------------------------------------------------------------------
(* Counting what departures and given-up polls cost.                       *)

(* Why ResultsAccounted holds: a departure costs the report the device     *)
(* takes with it or leaves a thread behind, a given-up poll leaves one     *)
(* behind, and such a thread costs one result at most: the one it should   *)
(* record, or the one it writes "sent" over.                               *)
Recoverable(c) ==
  \/ connection[Device] = None /\ report[Device].cmd = c
  \/ \E w \in Workers : step[w] \in {"touch", "ack"} /\ request[w].say.cmd = c

Doomed == {c \in Commands :
  outcome[c] # None /\ status[c] # outcome[c] /\ ~Recoverable(c)}

LeftBehind == {w \in Workers :
  connection[Device] # w /\ step[w] \in {"touch", "ack", "dequeue", "mark"}}

Leavings == departures + givenUp

LeavingInv ==
  /\ \A w \in Workers : connection[Device] = w => request[w].say = report[Device]
  /\ IsFiniteSet(Doomed) /\ IsFiniteSet(LeftBehind)
  /\ departures \in Nat /\ givenUp \in Nat
  /\ Cardinality(Doomed) + Cardinality(LeftBehind) <= Leavings

(* Nothing is owed for this command, or somebody still has its report.     *)
Settled(c) == outcome[c] = None \/ status[c] = outcome[c] \/ Recoverable(c)

LEMMA DoomedOrSettled ==
  /\ Doomed = {c \in Commands : ~ Settled(c)}
  /\ Doomed' = {c \in Commands : ~ Settled(c)'}
BY DEF Doomed, Settled

(* The one device makes every request.                                     *)
LEMMA OneDevice ==
  ASSUME DeviceAssumption, Typed
  PROVE  /\ Device \in Devices
         /\ \A d \in Devices : d = Device
         /\ \A w \in Workers : step[w] # "idle" => request[w].device = Device
         /\ connection[Device] # None => connection[Device] \in Workers
BY DEF DeviceAssumption, Typed, TypeOK, WorkerOK

(* The thread a device waits for has its report.                           *)
SaysItsReport == \A w \in Workers : connection[Device] = w => request[w].say = report[Device]

(* A step of a thread that ends its request: what it still had to record   *)
(* is lost only if it was left behind.                                     *)
LEMMA EndCosts ==
  ASSUME QueueAssumption, DeviceAssumption, Typed, SaysItsReport, NEW w \in Workers,
         step[w] # "idle", Release(w), UNCHANGED <<status, outcome, report>>,
         HangUp(w) \/ (UNCHANGED connection /\ connection[Device] # w)
  PROVE  /\ SaysItsReport'
         /\ \/ Doomed' \subseteq Doomed /\ LeftBehind' \subseteq LeftBehind
            \/ /\ w \in LeftBehind /\ LeftBehind' \subseteq LeftBehind \ {w}
               /\ Doomed' \subseteq Doomed \cup {request[w].say.cmd}
<1>1. /\ step'[w] = "idle"
      /\ \A v \in Workers \ {w} : step'[v] = step[v] /\ request'[v] = request[v]
  BY DEF Release, Goto, Typed, TypeOK
<1>2. connection'[Device] = IF connection[Device] = w THEN None ELSE connection[Device]
  BY OneDevice DEF HangUp, Typed, TypeOK
<1>3. SaysItsReport'
  BY <1>1, <1>2 DEF SaysItsReport, QueueAssumption
<1>4. LeftBehind' \subseteq LeftBehind \ {w}
  BY <1>1, <1>2 DEF LeftBehind
<1>5. ASSUME NEW c \in Commands, Settled(c),
             ~ (connection[Device] # w /\ step[w] \in {"touch", "ack"} /\ request[w].say.cmd = c)
      PROVE  Settled(c)'
  <2>1. CASE \E v \in Workers : step[v] \in {"touch", "ack"} /\ request[v].say.cmd = c
    <3>1. PICK v \in Workers : step[v] \in {"touch", "ack"} /\ request[v].say.cmd = c
      BY <2>1
    <3>2. CASE v = w
      <4>1. connection[Device] = w
        BY <1>5, <3>1, <3>2
      <4>2. report[Device].cmd = c
        BY <3>1, <3>2, <4>1 DEF SaysItsReport
      <4> QED BY <1>2, <4>1, <4>2 DEF Settled, Recoverable
    <3>3. CASE v # w
      BY <1>1, <3>1, <3>3 DEF Settled, Recoverable
    <3> QED BY <3>2, <3>3
  <2>2. CASE connection[Device] = None /\ report[Device].cmd = c
    BY <1>2, <2>2 DEF Settled, Recoverable, QueueAssumption
  <2>3. CASE outcome[c] = None \/ status[c] = outcome[c]
    BY <2>3 DEF Settled
  <2> QED BY <1>5, <2>1, <2>2, <2>3 DEF Settled, Recoverable
<1>6. CASE connection[Device] # w /\ step[w] \in {"touch", "ack"}
  <2>1. w \in LeftBehind
    BY <1>6 DEF LeftBehind
  <2>2. Doomed' \subseteq Doomed \cup {request[w].say.cmd}
    BY <1>5, DoomedOrSettled
  <2> QED BY <1>3, <1>4, <2>1, <2>2
<1>7. CASE ~ (connection[Device] # w /\ step[w] \in {"touch", "ack"})
  <2>1. Doomed' \subseteq Doomed
    BY <1>5, <1>7, DoomedOrSettled
  <2> QED BY <1>3, <1>4, <2>1
<1> QED BY <1>6, <1>7

(* Steps of the queue that cost nothing, or the one result a thread left   *)
(* behind can cost.                                                        *)
Costs ==
  \/ Doomed' \subseteq Doomed /\ LeftBehind' \subseteq LeftBehind
  \/ \E w \in LeftBehind, x \in Commands \cup {None} :
       /\ LeftBehind' \subseteq LeftBehind \ {w}
       /\ Doomed' \subseteq Doomed \cup {x}

LEMMA QueueCosts ==
  ASSUME QueueAssumption, DeviceAssumption, Typed, SaysItsReport, StayingNext
  PROVE  SaysItsReport' /\ Costs
<1> USE DEF documents, workers, devices
<1>0. ASSUME NEW w \in Workers PROVE request[w].say.cmd \in Commands \cup {None}
  BY ReportFields DEF Typed, TypeOK
<1>1. ASSUME NEW c \in Commands, Stamp(c) \/ Enqueue(c) PROVE SaysItsReport' /\ Costs
  <2>1. UNCHANGED <<step, request, connection, report, outcome>>
    BY <1>1 DEF Stamp, Enqueue
  <2>2. \A x \in Commands : outcome[x] # None => status'[x] = status[x]
    BY <1>1 DEF Stamp, Enqueue, Typed, TypeOK, HandoverInv, PendingUnmet
  <2>3. Doomed' \subseteq Doomed /\ LeftBehind' \subseteq LeftBehind
    BY <2>1, <2>2 DEF Doomed, Recoverable, LeftBehind
  <2> QED BY <2>1, <2>3 DEF SaysItsReport, Costs
<1>2. ASSUME NEW d \in Devices, NEW w \in Workers, Poll(d, w) PROVE SaysItsReport' /\ Costs
  <2>1. /\ connection[Device] = None /\ step[w] = "idle"
        /\ connection'[Device] = w /\ step'[w] = "touch"
        /\ request'[w].say = report[Device]
        /\ \A v \in Workers \ {w} : step'[v] = step[v] /\ request'[v] = request[v]
        /\ UNCHANGED <<status, report, outcome>>
    BY <1>2, OneDevice DEF Poll, Goto, Typed, TypeOK
  <2>2. SaysItsReport'
    BY <2>1 DEF SaysItsReport
  <2>3. LeftBehind' \subseteq LeftBehind
    BY <2>1 DEF LeftBehind, QueueAssumption
  <2>4. ASSUME NEW c \in Commands, Recoverable(c) PROVE Recoverable(c)'
    BY <2>1, <2>4 DEF Recoverable
  <2> QED BY <2>1, <2>2, <2>3, <2>4 DEF Doomed, Costs
<1>3. ASSUME NEW w \in Workers, UNCHANGED <<request, connection, report, outcome>>,
             \A v \in Workers \ {w} : step'[v] = step[v],
             step[w] \in {"touch", "ack", "dequeue", "mark"},
             \A c \in Commands :
               outcome[c] # None => status'[c] = status[c] \/ status'[c] = outcome[c],
             step[w] \in {"touch", "ack"} /\ step'[w] \notin {"touch", "ack"} =>
               \A c \in Commands : request[w].say.cmd = c => status'[c] = outcome[c]
      PROVE  SaysItsReport' /\ Costs
  <2>1. LeftBehind' \subseteq LeftBehind
    BY <1>3 DEF LeftBehind
  <2>2. ASSUME NEW c \in Commands, Settled(c) PROVE Settled(c)'
    BY <1>3, <2>2 DEF Settled, Recoverable
  <2> QED BY <1>3, <2>1, <2>2, DoomedOrSettled DEF Costs, SaysItsReport
<1>4. ASSUME NEW w \in Workers, Touch(w) PROVE SaysItsReport' /\ Costs
  <2>1. /\ step[w] = "touch" /\ step'[w] \in {"ack", "dequeue"}
        /\ step'[w] = "dequeue" => request[w].say.cmd = None
        /\ \A v \in Workers \ {w} : step'[v] = step[v]
    BY <1>4 DEF Touch, Goto, Typed, TypeOK
  <2> QED BY <1>3, <1>4, <2>1 DEF Touch, QueueAssumption
<1>5. ASSUME NEW w \in Workers, Ack(w) PROVE SaysItsReport' /\ Costs
  <2>1. /\ step[w] = "ack" /\ step'[w] = "dequeue"
        /\ \A v \in Workers \ {w} : step'[v] = step[v]
    BY <1>5 DEF Ack, Goto, Typed, TypeOK
  <2>2. /\ request[w].say.cmd \in Commands
        /\ outcome[request[w].say.cmd] = request[w].say.result
    BY <1>5, ReportedExist DEF Ack, Typed, TypeOK, WorkerOK
  <2>3. \A c \in Commands : status'[c] = status[c] \/ status'[c] = outcome[c]
    BY <1>5, <2>2 DEF Ack, Typed, TypeOK
  <2>4. status'[request[w].say.cmd] = outcome[request[w].say.cmd]
    BY <1>5, <2>2 DEF Ack, Typed, TypeOK
  <2> QED BY <1>3, <1>5, <2>1, <2>3, <2>4 DEF Ack
<1>6. ASSUME NEW w \in Workers, Dequeue(w) PROVE SaysItsReport' /\ Costs
  <2>1. UNCHANGED <<request, connection, report, outcome, status>> /\ step[w] = "dequeue"
    BY <1>6, DequeueEffect DEF Typed
  <2>2. \A v \in Workers \ {w} : step'[v] = step[v]
    <3>1. \E t \in {"answer", "mark"} : step' = [step EXCEPT ![w] = t]
      BY <1>6, DequeueEffect DEF Typed
    <3> QED BY <3>1 DEF Typed, TypeOK
  <2>3. LeftBehind' \subseteq LeftBehind
    BY <2>1, <2>2 DEF LeftBehind
  <2>4. \A c \in Commands : Recoverable(c) => Recoverable(c)'
    BY <2>1, <2>2 DEF Recoverable
  <2> QED BY <2>1, <2>3, <2>4 DEF Doomed, SaysItsReport, Costs
<1>7. ASSUME NEW w \in Workers, Mark(w) PROVE SaysItsReport' /\ Costs
  <2> DEFINE x == held[w]
  <2>1. /\ x \in Commands /\ step[w] = "mark" /\ step'[w] = "answer"
        /\ \A v \in Workers \ {w} : step'[v] = step[v]
        /\ \A c \in Commands \ {x} : status'[c] = status[c]
        /\ UNCHANGED <<request, connection, report, outcome>>
    BY <1>7 DEF Mark, Goto, Typed, TypeOK, WorkerOK
  <2>2. CASE connection[Device] = w
    <3>1. outcome[x] = None
      BY <2>1, <2>2, OneDevice
      DEF Typed, HandoverInv, ListensToFresh, ListenedTo, QueueAssumption
    <3> QED BY <1>3, <2>1, <3>1
  <2>3. CASE connection[Device] # w
    <3>1. w \in LeftBehind /\ LeftBehind' \subseteq LeftBehind \ {w}
      BY <2>1, <2>3 DEF LeftBehind
    <3>2. \A c \in Commands : Recoverable(c) => Recoverable(c)'
      BY <2>1 DEF Recoverable
    <3>3. Doomed' \subseteq Doomed \cup {x}
      BY <2>1, <3>2 DEF Doomed
    <3> QED BY <2>1, <3>1, <3>3 DEF Costs, SaysItsReport
  <2> QED BY <2>2, <2>3
<1>8. ASSUME NEW w \in Workers, AnswerLost(w) \/ BuildFails(w) \/ Crash(w)
      PROVE  SaysItsReport' /\ Costs
  <2>1. /\ step[w] # "idle" /\ Release(w) /\ UNCHANGED <<status, outcome, report>>
        /\ AnswerLost(w) => request[w].device = Device
    BY <1>8, OneDevice DEF AnswerLost, BuildFails, Crash
  <2>2. HangUp(w) \/ (UNCHANGED connection /\ connection[Device] # w)
    BY <1>8, <2>1 DEF AnswerLost, BuildFails, Crash
  <2> QED BY <1>0, <2>1, <2>2, EndCosts DEF Costs
<1>9. ASSUME NEW w \in Workers, AnswerEmpty(w) \/ AnswerCommand(w)
      PROVE  SaysItsReport' /\ Costs
  <2>1. /\ step[w] = "answer" /\ step'[w] = "idle"
        /\ \A v \in Workers \ {w} : step'[v] = step[v] /\ request'[v] = request[v]
        /\ UNCHANGED status
    BY <1>9 DEF AnswerEmpty, AnswerCommand, Release, Goto, Typed, TypeOK
  <2>2. /\ connection'[Device] = IF connection[Device] = w THEN None ELSE connection[Device]
        /\ connection[Device] # w => report'[Device] = report[Device]
    BY <1>9, OneDevice, <2>1 DEF AnswerEmpty, AnswerCommand, HangUp, Typed, TypeOK
  <2>3. SaysItsReport'
    BY <2>1, <2>2 DEF SaysItsReport, QueueAssumption
  <2>4. LeftBehind' \subseteq LeftBehind
    BY <2>1, <2>2 DEF LeftBehind
  <2>5. ASSUME NEW c \in Commands, Recoverable(c) PROVE Recoverable(c)'
    <3>1. CASE connection[Device] = None /\ report[Device].cmd = c
      BY <2>2, <3>1 DEF Recoverable, QueueAssumption
    <3>2. CASE \E v \in Workers : step[v] \in {"touch", "ack"} /\ request[v].say.cmd = c
      BY <2>1, <3>2 DEF Recoverable
    <3> QED BY <2>5, <3>1, <3>2 DEF Recoverable
  <2>6. ASSUME NEW c \in Commands PROVE outcome'[c] = outcome[c] \/ Recoverable(c)'
    <3>1. CASE AnswerEmpty(w)
      BY <3>1 DEF AnswerEmpty
    <3>2. CASE AnswerCommand(w)
      <4>1. /\ held[w] \in Commands /\ request[w].device = Device /\ connection[Device] = w
        BY <2>1, <3>2, OneDevice DEF AnswerCommand
      <4>2. report'[Device].cmd = held[w]
        BY <3>2, <4>1, OneDevice DEF AnswerCommand, Typed, TypeOK
      <4>3. c # held[w] => outcome'[c] = outcome[c]
        BY <3>2, <4>1 DEF AnswerCommand, Typed, TypeOK
      <4> QED BY <2>2, <4>1, <4>2, <4>3 DEF Recoverable
    <3> QED BY <1>9, <3>1, <3>2
  <2>7. Doomed' \subseteq Doomed
    BY <2>1, <2>5, <2>6 DEF Doomed
  <2> QED BY <2>3, <2>4, <2>7 DEF Costs
<1> QED
  BY <1>1, <1>2, <1>4, <1>5, <1>6, <1>7, <1>8, <1>9 DEF StayingNext, Handle

(* A departure drops one report, or leaves one thread behind.              *)
LEMMA DepartCosts ==
  ASSUME QueueAssumption, DeviceAssumption, Typed, SaysItsReport, Depart
  PROVE  /\ SaysItsReport'
         /\ departures' = departures + 1
         /\ \/ /\ LeftBehind' \subseteq LeftBehind
               /\ \E x \in Commands \cup {None} : Doomed' \subseteq Doomed \cup {x}
            \/ /\ Doomed' \subseteq Doomed
               /\ \E w \in Workers : LeftBehind' \subseteq LeftBehind \cup {w}
<1> DEFINE w == connection[Device]
<1>1. /\ connection'[Device] = None /\ report'[Device] = Idle
      /\ UNCHANGED <<status, step, request, outcome>>
      /\ departures' = departures + 1
  BY OneDevice DEF Depart, documents, workers, Typed, TypeOK
<1>2. SaysItsReport'
  BY <1>1 DEF SaysItsReport, QueueAssumption
<1>3. report[Device].cmd \in Commands \cup {None}
  BY OneDevice, ReportFields DEF Typed, TypeOK
<1>4. CASE w = None
  <2>1. LeftBehind' \subseteq LeftBehind
    BY <1>1, <1>4 DEF LeftBehind, QueueAssumption
  <2>2. Doomed' \subseteq Doomed \cup {report[Device].cmd}
    BY <1>1 DEF Doomed, Recoverable
  <2> QED BY <1>1, <1>2, <1>3, <2>1, <2>2
<1>5. CASE w # None
  <2>1. w \in Workers /\ LeftBehind' \subseteq LeftBehind \cup {w}
    BY <1>1, <1>5, OneDevice DEF LeftBehind
  <2>2. Doomed' \subseteq Doomed
    BY <1>1, <1>5 DEF Doomed, Recoverable
  <2> QED BY <1>1, <1>2, <2>1, <2>2
<1> QED BY <1>4, <1>5

(* A poll that is given up leaves one thread behind, and the report with   *)
(* the device.                                                             *)
LEMMA AbandonCosts ==
  ASSUME QueueAssumption, DeviceAssumption, Typed, SaysItsReport, AbandonPoll
  PROVE  /\ SaysItsReport'
         /\ givenUp' = givenUp + 1
         /\ Doomed' \subseteq Doomed
         /\ LeftBehind' \subseteq LeftBehind \cup {connection[Device]}
<1>1. /\ connection'[Device] = None
      /\ UNCHANGED <<status, step, request, outcome, report>>
      /\ givenUp' = givenUp + 1
  BY OneDevice DEF AbandonPoll, GiveUp, documents, workers, Typed, TypeOK
<1>2. SaysItsReport' /\ LeftBehind' \subseteq LeftBehind \cup {connection[Device]}
  BY <1>1 DEF SaysItsReport, LeftBehind, QueueAssumption
<1>3. Doomed' \subseteq Doomed
  BY <1>1 DEF Doomed, Recoverable
<1> QED BY <1>1, <1>2, <1>3

LEMMA SumOfNaturals == \A x, y \in Nat : x + y \in Nat
OBVIOUS

LEMMA LeavingKept ==
  ASSUME QueueAssumption, DeviceAssumption, Typed, LeavingInv, [DeviceNext]_deviceVars
  PROVE  LeavingInv'
<1>1. /\ SaysItsReport /\ IsFiniteSet(Doomed) /\ IsFiniteSet(LeftBehind)
      /\ departures \in Nat /\ givenUp \in Nat
  BY DEF LeavingInv, SaysItsReport
<1>2. ASSUME departures' \in Nat, givenUp' \in Nat, SaysItsReport',
             Covered(Doomed, LeftBehind, Doomed', LeftBehind', Leavings, Leavings')
      PROVE  LeavingInv'
  <2>1. Leavings \in Nat /\ Leavings' \in Nat
    BY <1>1, <1>2, SumOfNaturals, Zenon DEF Leavings
  <2>2. /\ IsFiniteSet(Doomed') /\ IsFiniteSet(LeftBehind')
        /\ Cardinality(Doomed') + Cardinality(LeftBehind') <= Leavings'
    BY <1>1, <1>2, <2>1, CountedPair DEF LeavingInv
  <2> QED BY <1>2, <2>2 DEF LeavingInv, SaysItsReport
<1>3. CASE [StayingNext]_vars /\ UNCHANGED <<departures, givenUp>>
  <2>1. SaysItsReport' /\ Costs
    <3>1. CASE UNCHANGED vars
      BY <1>1, <3>1 DEF vars, SaysItsReport, Costs, Doomed, Recoverable, LeftBehind
    <3>2. CASE StayingNext
      BY <1>1, <3>2, QueueCosts
    <3> QED BY <1>3, <3>1, <3>2
  <2>2. Leavings <= Leavings'
    BY <1>1, <1>3 DEF Leavings
  <2> QED BY <1>1, <1>2, <1>3, <2>1, <2>2 DEF Costs, Covered
<1>4. ASSUME NEW w \in Workers, DieInCheckIn(w) PROVE LeavingInv'
  <2>1. UNCHANGED <<status, outcome, step, request, report, connection, departures, givenUp>>
    BY <1>4 DEF DieInCheckIn, queue, documents, workers, devices, counts
  <2> QED BY <2>1 DEF LeavingInv, Leavings, Doomed, Recoverable, LeftBehind
<1>5. CASE AbandonPoll
  <2>1. departures' = departures /\ givenUp' = givenUp + 1
    BY <1>5 DEF AbandonPoll
  <2>2. departures' \in Nat /\ givenUp' \in Nat /\ Leavings + 1 <= Leavings'
    BY <1>1, <2>1 DEF Leavings
  <2> QED BY <1>1, <1>2, <1>5, <2>2, AbandonCosts DEF Covered
<1>6. CASE Depart
  <2>1. departures' = departures + 1 /\ givenUp' = givenUp
    BY <1>6 DEF Depart
  <2>2. departures' \in Nat /\ givenUp' \in Nat /\ Leavings + 1 <= Leavings'
    BY <1>1, <2>1 DEF Leavings
  <2> QED BY <1>1, <1>2, <1>6, <2>2, DepartCosts DEF Covered
<1> QED BY <1>3, <1>4, <1>5, <1>6, DeviceSteps

(* A device loses at most one of its results to each departure and to each *)
(* poll it gives up, whatever dies, is repeated, or goes on for a poll or  *)
(* a life of the device that is over.                                      *)
THEOREM OneResultPerLeaving == DeviceSpec => []ResultsAccounted
<1> USE QueueAssumption, DeviceAssumption
<1>1. DeviceInit => LeavingInv
  <2> SUFFICES ASSUME DeviceInit PROVE LeavingInv
    OBVIOUS
  <2>1. /\ Doomed = {} /\ LeftBehind = {} /\ departures = 0 /\ givenUp = 0
        /\ \A w \in Workers : connection[Device] # w
    BY DEF DeviceInit, Init, Doomed, LeftBehind
  <2> QED BY <2>1, FS_EmptySet DEF LeavingInv, Leavings
<1>2. TypeOK /\ HandoverInv /\ LeavingInv /\ [DeviceNext]_deviceVars => LeavingInv'
  BY LeavingKept DEF Typed
<1>3. LeavingInv => ResultsAccounted
  <2> SUFFICES ASSUME LeavingInv PROVE Cardinality(Unreported) <= Leavings
    BY DEF ResultsAccounted, Leavings
  <2>1. Unreported \subseteq Doomed
    BY DEF Unreported, UnderWay, Doomed, Recoverable, DeviceAssumption
  <2>2. /\ IsFiniteSet(Unreported)
        /\ Cardinality(Unreported) <= Cardinality(Doomed)
    BY <2>1, FS_Subset DEF LeavingInv
  <2>3. /\ Cardinality(Unreported) \in Nat /\ Cardinality(Doomed) \in Nat
        /\ Cardinality(LeftBehind) \in Nat
    BY <2>2, FS_CardinalityType DEF LeavingInv
  <2>4. Leavings \in Nat /\ Cardinality(Doomed) + Cardinality(LeftBehind) <= Leavings
    BY SumOfNaturals, Zenon DEF LeavingInv, Leavings
  <2> QED BY <2>2, <2>3, <2>4
<1> QED BY <1>1, <1>2, <1>3, DeviceInvariant, PTL DEF DeviceSpec

----------------------------------------------------------------------------
(* The enrolment half: the proofs about check-ins, on the queue's threads. *)
CheckIns == INSTANCE AppleEnrollment_proofs
  WITH Threads <- Workers, status <- enrollment, handled <- written

(* The step of a check-in, in the words of either module.                  *)
CheckInStep ==
  \/ \E m \in Enrollment!Messages : Enrollment!Compose(m)
  \/ Enrollment!Wipe \/ Enrollment!GiveUp
  \/ \E w \in Workers : \/ Enrollment!Send(w) \/ Enrollment!Upsert(w)
                        \/ Enrollment!Answer(w) \/ Enrollment!Crash(w)

CheckInOK == CheckIns!TypeOK /\ CheckIns!EnrollmentInv

LEMMA CheckInNames ==
  /\ CheckIns!TypeOK <=> Enrollment!TypeOK
  /\ CheckIns!StatusTracksDevice <=> Enrollment!StatusTracksDevice
  /\ CheckIns!PushDataKept <=> Enrollment!PushDataKept
  /\ Enrollment!Init => CheckIns!Init
  /\ CheckIns!Messages = Enrollment!Messages
  /\ \A m : Enrollment!Compose(m) <=> CheckIns!Compose(m)
  /\ Enrollment!Wipe <=> CheckIns!Wipe
  /\ Enrollment!GiveUp <=> CheckIns!GiveUp
  /\ \A w : /\ Enrollment!Send(w) <=> CheckIns!Send(w)
            /\ Enrollment!Upsert(w) <=> CheckIns!Upsert(w)
            /\ Enrollment!Answer(w) <=> CheckIns!Answer(w)
            /\ Enrollment!Crash(w) <=> CheckIns!Crash(w)
<1> USE DEF Enrollment!Messages, CheckIns!Messages, Enrollment!Phases, CheckIns!Phases,
            Enrollment!Statuses, CheckIns!Statuses, Enrollment!doc, CheckIns!doc,
            Enrollment!device, CheckIns!device, Enrollment!StatusFor, CheckIns!StatusFor,
            Enrollment!PhaseAfter, CheckIns!PhaseAfter, Enrollment!Release, CheckIns!Release
<1>1. /\ CheckIns!TypeOK <=> Enrollment!TypeOK
      /\ Enrollment!Init => CheckIns!Init
      /\ CheckIns!Messages = Enrollment!Messages
  BY DEF Enrollment!TypeOK, CheckIns!TypeOK, Enrollment!Init, CheckIns!Init
<1>2. /\ CheckIns!StatusTracksDevice <=> Enrollment!StatusTracksDevice
      /\ CheckIns!PushDataKept <=> Enrollment!PushDataKept
  BY DEF Enrollment!StatusTracksDevice, CheckIns!StatusTracksDevice,
         Enrollment!PushDataKept, CheckIns!PushDataKept
<1>3. /\ \A m : Enrollment!Compose(m) <=> CheckIns!Compose(m)
      /\ Enrollment!Wipe <=> CheckIns!Wipe
      /\ Enrollment!GiveUp <=> CheckIns!GiveUp
  BY DEF Enrollment!Compose, CheckIns!Compose, Enrollment!Wipe, CheckIns!Wipe,
         Enrollment!GiveUp, CheckIns!GiveUp
<1>4. ASSUME NEW w
      PROVE  /\ Enrollment!Send(w) <=> CheckIns!Send(w)
             /\ Enrollment!Answer(w) <=> CheckIns!Answer(w)
             /\ Enrollment!Crash(w) <=> CheckIns!Crash(w)
  BY DEF Enrollment!Send, CheckIns!Send, Enrollment!Answer, CheckIns!Answer,
         Enrollment!Crash, CheckIns!Crash
<1>5. ASSUME NEW w PROVE Enrollment!Upsert(w) <=> CheckIns!Upsert(w)
  BY DEF Enrollment!Upsert, CheckIns!Upsert, Enrollment!StatusAfter, CheckIns!StatusAfter,
         Enrollment!PushAfter, CheckIns!PushAfter, Enrollment!Written, CheckIns!Written
<1> QED BY <1>1, <1>2, <1>3, <1>4, <1>5

LEMMA CheckInAssumed ==
  ASSUME QueueAssumption, DeviceAssumption PROVE CheckIns!EnrollmentAssumption
BY DEF QueueAssumption, DeviceAssumption, CheckIns!EnrollmentAssumption,
   Enrollment!Messages, CheckIns!Messages

LEMMA CheckInStepKeeps ==
  ASSUME QueueAssumption, DeviceAssumption, CheckInOK, CheckInStep
  PROVE  CheckInOK'
<1> USE CheckInAssumed, CheckInNames DEF CheckInOK
<1>1. CASE \/ \E m \in Enrollment!Messages : Enrollment!Compose(m)
           \/ Enrollment!Wipe \/ Enrollment!GiveUp
  BY <1>1, CheckIns!DeviceKeeps
<1>2. ASSUME NEW w \in Workers, Enrollment!Send(w) PROVE CheckInOK'
  BY <1>2, CheckIns!DeviceKeeps
<1>3. ASSUME NEW w \in Workers, Enrollment!Upsert(w) PROVE CheckInOK'
  BY <1>3, CheckIns!UpsertKeeps
<1>4. ASSUME NEW w \in Workers, Enrollment!Answer(w) PROVE CheckInOK'
  BY <1>4, CheckIns!AnswerKeeps
<1>5. ASSUME NEW w \in Workers, Enrollment!Crash(w) PROVE CheckInOK'
  BY <1>5, CheckIns!CrashKeeps
<1> QED BY <1>1, <1>2, <1>3, <1>4, <1>5 DEF CheckInStep

(* A thread serves one request, and the device is at one endpoint.         *)
OneEndpoint ==
  /\ \A w \in Workers : step[w] = "idle" \/ handling[w] = None
  /\ message # None => connection[Device] = None

PushOK == awake \in BOOLEAN /\ pushing \in 0..MaxTokens

LifeInv == CheckInOK /\ OneEndpoint /\ PushOK

LEMMA QueueStepKeepsLife ==
  ASSUME QueueAssumption, DeviceAssumption, Typed, LifeInv, UNCHANGED <<checkins, pushing>>,
         awake' \in BOOLEAN,
         \A w \in Workers : step[w] = "idle" => step'[w] = "idle" \/ handling[w] = None,
         connection'[Device] = None \/ connection'[Device] = connection[Device] \/ message = None
  PROVE  LifeInv'
<1>1. CheckInOK'
  BY DEF LifeInv, CheckInOK, checkins, CheckIns!TypeOK, CheckIns!EnrollmentInv, CheckIns!Carries, CheckIns!DeliversNewest,
     CheckIns!Delivered, CheckIns!StatusTracksDevice, CheckIns!PushDataKept, CheckIns!EnrolledCanBeWoken
<1>2. OneEndpoint'
  BY DEF LifeInv, OneEndpoint, checkins
<1> QED BY <1>1, <1>2 DEF LifeInv, PushOK

LEMMA ServeKeepsLife ==
  ASSUME QueueAssumption, DeviceAssumption, Typed, LifeInv, NEW w \in Workers,
         Serve(w) \/ Die(w)
  PROVE  LifeInv'
<1>1. /\ UNCHANGED <<checkins, pushing>>
      /\ step[w] # "idle"
      /\ \E s : step' = [step EXCEPT ![w] = s]
      /\ connection' = connection \/ HangUp(w)
  BY DEF Serve, Die, Touch, Ack, Dequeue, Mark, AnswerCommand, AnswerLost, AnswerEmpty,
     BuildFails, Crash, Goto, Release, devices
<1>2. awake' \in BOOLEAN
  BY DEF Serve, Die, MaySleep, LifeInv, PushOK
<1>3. \A x \in Workers : step[x] = "idle" => step'[x] = "idle"
  BY <1>1 DEF Typed, TypeOK
<1>4. connection'[Device] \in {None, connection[Device]}
  BY <1>1, OneDevice DEF HangUp
<1> QED BY <1>1, <1>2, <1>3, <1>4, QueueStepKeepsLife

LEMMA PollKeepsLife ==
  ASSUME QueueAssumption, DeviceAssumption, Typed, LifeInv, NEW w \in Workers, PollAwake(w)
  PROVE  LifeInv'
<1>1. /\ UNCHANGED <<checkins, waking>>
      /\ handling[w] = None /\ message = None
      /\ step' = [step EXCEPT ![w] = "touch"]
  BY DEF PollAwake, Poll, Goto
<1>2. \A x \in Workers : step[x] = "idle" => step'[x] = "idle" \/ handling[x] = None
  BY <1>1 DEF Typed, TypeOK
<1> QED BY <1>1, <1>2, QueueStepKeepsLife DEF waking, LifeInv, PushOK

LEMMA PushKeepsLife ==
  ASSUME QueueAssumption, DeviceAssumption, Typed, LifeInv,
         \/ \E c \in Commands : SendCommand(c) \/ Add(c)
         \/ ReadPushData \/ Push \/ LosePush
  PROVE  LifeInv'
<1>0. UNCHANGED <<checkins, step, connection>>
  BY DEF SendCommand, Add, ReadPushData, Push, LosePush, Stamp, Enqueue, queue, workers, devices
<1>1. awake' \in BOOLEAN /\ pushing' \in 0..MaxTokens
  <2>1. CASE Push
    BY <2>1, DeviceAssumption DEF Push, LifeInv, PushOK
  <2>2. CASE ReadPushData
    BY <2>2 DEF ReadPushData, LifeInv, PushOK, CheckInOK, CheckIns!TypeOK
  <2>3. CASE LosePush \/ \E c \in Commands : SendCommand(c) \/ Add(c)
    BY <2>3, DeviceAssumption DEF LosePush, SendCommand, Add, waking, LifeInv, PushOK, DeviceAssumption
  <2> QED BY <2>1, <2>2, <2>3
<1>2. CheckInOK'
  BY <1>0 DEF LifeInv, CheckInOK, checkins, CheckIns!TypeOK, CheckIns!EnrollmentInv, CheckIns!Carries, CheckIns!DeliversNewest,
     CheckIns!Delivered, CheckIns!StatusTracksDevice, CheckIns!PushDataKept, CheckIns!EnrolledCanBeWoken
<1>3. OneEndpoint'
  BY <1>0 DEF LifeInv, OneEndpoint, checkins
<1> QED BY <1>0, <1>1, <1>2, <1>3 DEF LifeInv, PushOK

LEMMA AbandonKeepsLife ==
  ASSUME QueueAssumption, DeviceAssumption, Typed, LifeInv, AbandonPoll
  PROVE  LifeInv'
<1>1. /\ UNCHANGED <<checkins, pushing, step>>
      /\ connection'[Device] = None
      /\ awake' \in {awake, FALSE}
  BY OneDevice DEF AbandonPoll, GiveUp, workers, Typed, TypeOK
<1>2. awake' \in BOOLEAN
  BY <1>1 DEF LifeInv, PushOK
<1> QED BY <1>1, <1>2, QueueStepKeepsLife

LEMMA CheckInKeepsLife ==
  ASSUME QueueAssumption, DeviceAssumption, Typed, LifeInv,
         \/ CheckIn \/ Depart \/ AbandonCheckIn
         \/ \E w \in Workers : SendCheckIn(w) \/ ServeCheckIn(w) \/ DieInCheckIn(w)
  PROVE  LifeInv'
<1>0. /\ message # None => connection[Device] = None
      /\ \A w \in Workers : step[w] = "idle" \/ handling[w] = None
      /\ handling \in [Workers -> CheckIns!Messages \cup {None}]
  BY DEF LifeInv, OneEndpoint, CheckInOK, CheckIns!TypeOK
<1>1. CheckInOK'
  <2>1. CheckInStep
    BY DEF CheckIn, Depart, AbandonCheckIn, SendCheckIn, ServeCheckIn, DieInCheckIn,
       CheckInStep, Enrollment!Serve
  <2> QED BY <2>1, CheckInStepKeeps DEF LifeInv
<1>2. PushOK'
  BY DEF CheckIn, Depart, AbandonCheckIn, SendCheckIn, ServeCheckIn, DieInCheckIn,
     waking, LifeInv, PushOK
<1>3. OneEndpoint'
  <2>1. CASE CheckIn
    BY <1>0, <2>1 DEF CheckIn, Enrollment!Compose, queue, workers, devices, OneEndpoint
  <2>2. CASE Depart
    BY <1>0, <2>2, OneDevice DEF Depart, Enrollment!Compose, Enrollment!Wipe, workers, OneEndpoint, Typed, TypeOK
  <2>3. CASE AbandonCheckIn
    BY <1>0, <2>3 DEF AbandonCheckIn, Enrollment!GiveUp, Enrollment!device, queue, workers, devices, OneEndpoint
  <2>4. ASSUME NEW w \in Workers, SendCheckIn(w) PROVE OneEndpoint'
    BY <1>0, <2>4 DEF SendCheckIn, Enrollment!Send, Enrollment!device, queue, workers, devices, OneEndpoint
  <2>5. ASSUME NEW w \in Workers, Enrollment!Upsert(w), ServeCheckIn(w) PROVE OneEndpoint'
    BY <1>0, <2>5 DEF ServeCheckIn, Enrollment!Upsert, Enrollment!device, queue, workers, devices, OneEndpoint
  <2>6. ASSUME NEW w \in Workers, Enrollment!Answer(w), ServeCheckIn(w) PROVE OneEndpoint'
    BY <1>0, <2>6 DEF ServeCheckIn, Enrollment!Answer, Enrollment!Release, Enrollment!device, queue, workers, devices, OneEndpoint
  <2>7. ASSUME NEW w \in Workers, DieInCheckIn(w) PROVE OneEndpoint'
    BY <1>0, <2>7 DEF DieInCheckIn, Enrollment!Crash, Enrollment!Release, Enrollment!device, queue, workers, devices, OneEndpoint
  <2> QED BY <2>1, <2>2, <2>3, <2>4, <2>5, <2>6, <2>7 DEF ServeCheckIn, Enrollment!Serve
<1> QED BY <1>1, <1>2, <1>3 DEF LifeInv

LEMMA LifeKept ==
  ASSUME QueueAssumption, DeviceAssumption, Typed, LifeInv, [DeviceNext]_deviceVars
  PROVE  LifeInv'
<1>1. CASE UNCHANGED deviceVars
  <2>1. UNCHANGED <<checkins, awake, pushing, step, connection>>
    BY <1>1 DEF deviceVars, vars, waking
  <2>2. awake' \in BOOLEAN
    BY <2>1 DEF LifeInv, PushOK
  <2> QED BY <2>1, <2>2, QueueStepKeepsLife
<1> QED
  BY <1>1, ServeKeepsLife, PollKeepsLife, PushKeepsLife, AbandonKeepsLife, CheckInKeepsLife
  DEF DeviceNext

(* The enrolment half of the composition is inductive next to the queue.   *)
THEOREM LifeInvariant == DeviceSpec => []LifeInv
<1> USE QueueAssumption, DeviceAssumption
<1>1. DeviceInit => LifeInv
  <2> SUFFICES ASSUME DeviceInit PROVE LifeInv
    OBVIOUS
  <2>1. CheckIns!Init
    BY CheckInNames DEF DeviceInit
  <2>2. CheckInOK
    BY <2>1, CheckInAssumed, CheckIns!EnrollmentInitially DEF CheckInOK
  <2>3. OneEndpoint
    BY <2>1 DEF CheckIns!Init, OneEndpoint
  <2>4. PushOK
    <3>1. awake = FALSE /\ pushing = 0
      BY DEF DeviceInit
    <3>2. 0 \in 0..MaxTokens
      BY DEF DeviceAssumption
    <3> QED BY <3>1, <3>2 DEF PushOK
  <2> QED BY <2>2, <2>3, <2>4 DEF LifeInv
<1>2. TypeOK /\ HandoverInv /\ LifeInv /\ [DeviceNext]_deviceVars => LifeInv'
  BY LifeKept DEF Typed
<1> QED BY <1>1, <1>2, DeviceInvariant, PTL DEF DeviceSpec

----------------------------------------------------------------------------
(* The bound on everything that goes wrong.                                *)

CountsOK ==
  /\ departures \in Nat /\ givenUp \in Nat /\ missed \in Nat
  /\ Mishaps <= MaxMishaps

(* One of the four grows by one, below the bound.                          *)
LEMMA OneMishapMore ==
  ASSUME NEW n \in Nat, NEW a \in Nat, NEW b \in Nat, NEW c \in Nat, NEW d \in Nat,
         a + b + c + d < n
  PROVE  (a + 1) + b + c + d <= n /\ a + (b + 1) + c + d <= n
         /\ a + b + (c + 1) + d <= n /\ a + b + c + (d + 1) <= n
OBVIOUS

LEMMA CountsKept ==
  ASSUME QueueAssumption, DeviceAssumption, Typed, CountsOK, [DeviceNext]_deviceVars
  PROVE  CountsOK'
<1>1. CASE UNCHANGED <<crashes, counts>>
  BY <1>1 DEF counts, CountsOK, Mishaps
<1>2. crashes \in Nat /\ MaxMishaps \in Nat
  BY DEF Typed, TypeOK, QueueAssumption, DeviceAssumption
<1>3. ASSUME Bounded, crashes' = crashes + 1, UNCHANGED counts PROVE CountsOK'
  BY <1>2, <1>3, OneMishapMore DEF Bounded, Mishaps, counts, CountsOK
<1>4. ASSUME AbandonPoll PROVE CountsOK'
  <2>1. Bounded /\ givenUp' = givenUp + 1 /\ UNCHANGED <<crashes, departures, missed>>
    BY <1>4 DEF AbandonPoll, GiveUp
  <2> QED BY <1>2, <2>1, OneMishapMore DEF Bounded, Mishaps, CountsOK
<1>5. ASSUME AbandonCheckIn PROVE CountsOK'
  <2>1. Bounded /\ missed' = missed + 1 /\ UNCHANGED <<crashes, departures, givenUp>>
    BY <1>5 DEF AbandonCheckIn, Enrollment!GiveUp
  <2> QED BY <1>2, <2>1, OneMishapMore DEF Bounded, Mishaps, CountsOK
<1>6. ASSUME Depart PROVE CountsOK'
  <2>1. Bounded /\ departures' = departures + 1 /\ UNCHANGED <<crashes, givenUp, missed>>
    BY <1>6 DEF Depart, Enrollment!Wipe, Enrollment!Compose
  <2> QED BY <1>2, <2>1, OneMishapMore DEF Bounded, Mishaps, CountsOK
<1>7. ASSUME NEW w \in Workers, Die(w) \/ DieInCheckIn(w) PROVE CountsOK'
  BY <1>3, <1>7 DEF Die, DieInCheckIn, Crash, Enrollment!Crash
<1>8. ASSUME NEW w \in Workers, PollAwake(w) \/ Serve(w) \/ SendCheckIn(w) \/ ServeCheckIn(w)
      PROVE  UNCHANGED <<crashes, counts>>
  BY <1>8 DEF PollAwake, Poll, Serve, Touch, Ack, Dequeue, Mark, AnswerCommand, AnswerLost,
     AnswerEmpty, BuildFails, SendCheckIn, Enrollment!Send, ServeCheckIn, Enrollment!Serve,
     Enrollment!Upsert, Enrollment!Answer
<1>9. ASSUME \/ \E c \in Commands : SendCommand(c) \/ Add(c)
             \/ ReadPushData \/ Push \/ LosePush \/ CheckIn
      PROVE  UNCHANGED <<crashes, counts>>
  BY <1>9 DEF SendCommand, Stamp, Add, Enqueue, ReadPushData, Push, LosePush, CheckIn,
     Enrollment!Compose
<1> QED
  BY <1>1, <1>4, <1>5, <1>6, <1>7, <1>8, <1>9 DEF DeviceNext, deviceVars, vars

THEOREM CountsInvariant == DeviceSpec => []CountsOK
<1> USE QueueAssumption, DeviceAssumption
<1>1. DeviceInit => CountsOK
  <2> SUFFICES ASSUME DeviceInit PROVE CountsOK
    OBVIOUS
  <2>1. crashes = 0 /\ departures = 0 /\ givenUp = 0 /\ missed = 0
    BY DEF DeviceInit, Init
  <2> QED BY <2>1 DEF CountsOK, Mishaps, DeviceAssumption
<1>2. TypeOK /\ HandoverInv /\ CountsOK /\ [DeviceNext]_deviceVars => CountsOK'
  BY CountsKept DEF Typed
<1> QED BY <1>1, <1>2, DeviceInvariant, PTL DEF DeviceSpec

(* Both halves keep their types: a thread serves a poll or a check-in and  *)
(* never both, and the device waits at one endpoint at a time, also when   *)
(* it gives requests up at either.                                         *)
THEOREM DeviceTypeCorrect == DeviceSpec => []DeviceTypeOK
<1>1. TypeOK /\ LifeInv /\ CountsOK => DeviceTypeOK
  BY CheckInNames
  DEF LifeInv, CheckInOK, OneEndpoint, PushOK, CountsOK, DeviceTypeOK, CheckIns!TypeOK
<1> QED BY <1>1, DeviceInvariant, LifeInvariant, CountsInvariant, PTL

(* A push that is sent as soon as the push data are read goes to the       *)
(* newest token of an enrolled device that is not checking in, whatever it *)
(* has been through; and the status in the document is never one of a      *)
(* former life. Excepted are fields that a handler the device had given up *)
(* wrote last, and push data that were incomplete.                         *)
DocumentCurrent ==
  /\ phase = "in" /\ message = None /\ token # 0 /\ "push" \notin late => push = newest
  /\ message = None /\ "status" \notin late => enrollment = Enrollment!StatusFor[phase]

(* Through departures, re-enrolments, renewed tokens, died and given-up    *)
(* requests at both endpoints, the document is up to date with a device    *)
(* that has nothing to say, unless a given-up handler wrote it last.       *)
THEOREM DocumentIsCurrent == DeviceSpec => []DocumentCurrent
<1>1. LifeInv => DocumentCurrent
  BY CheckInNames
  DEF LifeInv, CheckInOK, DocumentCurrent, CheckIns!EnrollmentInv, CheckIns!DeliversNewest,
      CheckIns!StatusTracksDevice, CheckIns!PushDataKept,
      CheckIns!StatusFor, Enrollment!StatusFor
<1> QED BY <1>1, LifeInvariant, PTL

----------------------------------------------------------------------------
(* Counting the commands a device never gets.                              *)

(* Threads at work on a request that was given up or is of a former life:  *)
(* a time-out or departure leaves one behind at most, and such a thread    *)
(* loses one command at most.                                              *)
Astray == {w \in Workers : step[w] # "idle" /\ connection[Device] # w}

Causes == crashes + Leavings

AstrayInv ==
  /\ IsFiniteSet(LostToCrashes) /\ IsFiniteSet(Astray)
  /\ Cardinality(LostToCrashes) + Cardinality(Astray) <= Causes

(* A thread that ends its request strays no longer, and no other begins to.*)
LEMMA EndStraysNot ==
  ASSUME QueueAssumption, DeviceAssumption, Typed, NEW w \in Workers, Release(w),
         HangUp(w) \/ (UNCHANGED connection /\ connection[Device] # w)
  PROVE  Astray' \subseteq Astray \ {w}
<1>1. /\ step'[w] = "idle"
      /\ \A v \in Workers \ {w} : step'[v] = step[v]
  BY DEF Release, Goto, Typed, TypeOK
<1>2. connection'[Device] = IF connection[Device] = w THEN None ELSE connection[Device]
  BY OneDevice DEF HangUp, Typed, TypeOK
<1> QED BY <1>1, <1>2 DEF Astray

(* No step of the queue makes a thread stray.                              *)
LEMMA NoneStrays ==
  ASSUME QueueAssumption, DeviceAssumption, Typed, StayingNext
  PROVE  /\ Astray' \subseteq Astray
         /\ \A w \in Workers : AnswerLost(w) => w \in Astray /\ Astray' \subseteq Astray \ {w}
<1> USE DEF documents, workers, devices
<1>1. ASSUME UNCHANGED connection,
             \A v \in Workers : step'[v] # "idle" => step[v] # "idle"
      PROVE  Astray' \subseteq Astray
  BY <1>1 DEF Astray
<1>2. ASSUME NEW c \in Commands, Stamp(c) \/ Enqueue(c) PROVE Astray' \subseteq Astray
  BY <1>1, <1>2 DEF Stamp, Enqueue
<1>3. ASSUME NEW d \in Devices, NEW w \in Workers, Poll(d, w) PROVE Astray' \subseteq Astray
  <2>1. /\ connection[Device] = None /\ connection'[Device] = w
        /\ \A v \in Workers \ {w} : step'[v] = step[v]
    BY <1>3, OneDevice DEF Poll, Goto, Typed, TypeOK
  <2> QED BY <2>1 DEF Astray, QueueAssumption
<1>4. ASSUME NEW w \in Workers, Touch(w) \/ Ack(w) \/ Dequeue(w) \/ Mark(w)
      PROVE  Astray' \subseteq Astray
  <2>1. /\ UNCHANGED connection /\ step[w] # "idle"
        /\ \E s : step' = [step EXCEPT ![w] = s]
    BY <1>4 DEF Touch, Ack, Dequeue, Mark, Goto
  <2> QED BY <1>1, <2>1 DEF Typed, TypeOK
<1>5. ASSUME NEW w \in Workers, AnswerEmpty(w) \/ AnswerCommand(w) \/ BuildFails(w) \/ Crash(w)
      PROVE  Astray' \subseteq Astray
  BY <1>5, EndStraysNot DEF AnswerEmpty, AnswerCommand, BuildFails, Crash
<1>6. ASSUME NEW w \in Workers, AnswerLost(w)
      PROVE  w \in Astray /\ Astray' \subseteq Astray \ {w}
  <2>1. step[w] # "idle" /\ Release(w) /\ UNCHANGED connection /\ connection[Device] # w
    BY <1>6, OneDevice DEF AnswerLost
  <2> QED BY <2>1, EndStraysNot DEF Astray
<1> QED BY <1>2, <1>3, <1>4, <1>5, <1>6 DEF StayingNext, Handle

LEMMA AstrayKept ==
  ASSUME QueueAssumption, DeviceAssumption, Typed, CountsOK, AstrayInv, [DeviceNext]_deviceVars
  PROVE  AstrayInv'
<1>1. /\ crashes \in Nat /\ departures \in Nat /\ givenUp \in Nat
      /\ IsFiniteSet(LostToCrashes) /\ IsFiniteSet(Astray)
      /\ Cardinality(LostToCrashes) + Cardinality(Astray) <= Causes
  BY DEF AstrayInv, Typed, TypeOK, QueueAssumption, CountsOK
<1>2. ASSUME crashes' \in Nat, departures' \in Nat, givenUp' \in Nat,
             Covered(LostToCrashes, Astray, LostToCrashes', Astray', Causes, Causes')
      PROVE  AstrayInv'
  <2>1. Leavings \in Nat /\ Leavings' \in Nat
    BY <1>1, <1>2, SumOfNaturals, Zenon DEF Leavings
  <2>2. Causes \in Nat /\ Causes' \in Nat
    BY <1>1, <1>2, <2>1, SumOfNaturals, Zenon DEF Causes
  <2>3. /\ IsFiniteSet(LostToCrashes') /\ IsFiniteSet(Astray')
        /\ Cardinality(LostToCrashes') + Cardinality(Astray') <= Causes'
    BY <1>1, <1>2, <2>2, CountedPair
  <2> QED BY <2>3 DEF AstrayInv
<1>3. CASE UNCHANGED <<vars, departures, givenUp>>
  BY <1>3 DEF vars, Causes, Leavings, AstrayInv, Astray, LostToCrashes, Lost
<1>4. ASSUME NEW w \in Workers, StayingNext, Crash(w), UNCHANGED <<departures, givenUp>>
      PROVE  AstrayInv'
  <2>1. crashes' = crashes + 1 /\ crashes' \in Nat
    BY <1>1, <1>4 DEF Crash
  <2>2. Causes + 1 <= Causes'
    BY <1>1, <1>4, <2>1 DEF Causes, Leavings
  <2>3. LostToCrashes' \subseteq LostToCrashes \cup {held[w]} /\ Astray' \subseteq Astray
    BY <1>4, RequestLosesOne, NoneStrays
  <2> QED BY <1>1, <1>2, <1>4, <2>1, <2>2, <2>3 DEF Covered
<1>5. ASSUME NEW w \in Workers, StayingNext, AnswerLost(w), UNCHANGED <<departures, givenUp>>
      PROVE  AstrayInv'
  <2>1. crashes' = crashes
    BY <1>5 DEF AnswerLost
  <2>2. Causes <= Causes'
    BY <1>1, <1>5, <2>1 DEF Causes, Leavings
  <2>3. /\ LostToCrashes' \subseteq LostToCrashes \cup {held[w]}
        /\ w \in Astray /\ Astray' \subseteq Astray \ {w}
    BY <1>5, RequestLosesOne, NoneStrays
  <2> QED BY <1>1, <1>2, <1>5, <2>1, <2>2, <2>3 DEF Covered
<1>6. ASSUME StayingNext, \A w \in Workers : ~ Crash(w) /\ ~ AnswerLost(w),
             UNCHANGED <<departures, givenUp>>
      PROVE  AstrayInv'
  <2>1. crashes' = crashes
    BY <1>6 DEF StayingNext, Handle, Stamp, Enqueue, Poll, Touch, Ack, Dequeue, Mark,
       AnswerEmpty, AnswerCommand, BuildFails
  <2>2. Causes <= Causes'
    BY <1>1, <1>6, <2>1 DEF Causes, Leavings
  <2>3. LostToCrashes' \subseteq LostToCrashes /\ Astray' \subseteq Astray
    BY <1>6, OnlyTheseLose, NoneStrays DEF StayingNext, Next
  <2> QED BY <1>1, <1>2, <1>6, <2>1, <2>2, <2>3 DEF Covered
<1>7. ASSUME NEW w \in Workers, DieInCheckIn(w) PROVE AstrayInv'
  <2>1. /\ UNCHANGED <<status, outcome, held, step, connection, departures, givenUp>>
        /\ crashes' = crashes + 1
    BY <1>7 DEF DieInCheckIn, Enrollment!Crash, queue, documents, workers, devices, counts
  <2>2. Causes <= Causes' /\ crashes' \in Nat
    BY <1>1, <2>1 DEF Causes, Leavings
  <2>3. LostToCrashes' \subseteq LostToCrashes /\ Astray' \subseteq Astray
    BY <2>1 DEF LostToCrashes, Lost, Astray
  <2> QED BY <1>1, <1>2, <2>1, <2>2, <2>3 DEF Covered
<1>8. CASE AbandonPoll \/ Depart
  <2>1. /\ UNCHANGED <<status, outcome, held, step, crashes>>
        /\ connection' = [connection EXCEPT ![Device] = None]
    BY <1>8 DEF AbandonPoll, GiveUp, Depart, Enrollment!Wipe, Enrollment!Compose,
       documents, workers, devices
  <2>2. \/ departures' = departures + 1 /\ givenUp' = givenUp
        \/ departures' = departures /\ givenUp' = givenUp + 1
    BY <1>8 DEF AbandonPoll, Depart
  <2>3. Causes + 1 <= Causes' /\ departures' \in Nat /\ givenUp' \in Nat
    BY <1>1, <2>1, <2>2 DEF Causes, Leavings
  <2>4. LostToCrashes' \subseteq LostToCrashes /\ Astray' \subseteq Astray \cup {connection[Device]}
    BY <2>1 DEF LostToCrashes, Lost, Astray
  <2> QED BY <1>1, <1>2, <2>1, <2>3, <2>4 DEF Covered
<1> QED BY <1>3, <1>4, <1>5, <1>6, <1>7, <1>8, DeviceSteps

(* Through all lives of a device, every command that was taken from the    *)
(* queue and will not reach it, though a plist can hold it, has a cause of *)
(* its own: a died request, a poll given up or a departure.                *)
THEOREM EveryLossHasACause == DeviceSpec => []LossesThroughLives
<1> USE QueueAssumption, DeviceAssumption
<1>1. DeviceInit => AstrayInv
  <2> SUFFICES ASSUME DeviceInit PROVE AstrayInv
    OBVIOUS
  <2>1. /\ LostToCrashes = {} /\ Astray = {}
        /\ crashes = 0 /\ departures = 0 /\ givenUp = 0
    BY DEF DeviceInit, Init, LostToCrashes, Lost, Astray
  <2> QED BY <2>1, FS_EmptySet DEF AstrayInv, Causes, Leavings
<1>2. TypeOK /\ HandoverInv /\ CountsOK /\ AstrayInv /\ [DeviceNext]_deviceVars => AstrayInv'
  BY AstrayKept DEF Typed
<1>3. TypeOK /\ CountsOK /\ AstrayInv => LossesThroughLives
  <2> SUFFICES ASSUME TypeOK, CountsOK, AstrayInv PROVE LossesThroughLives
    OBVIOUS
  <2>1. /\ Cardinality(LostToCrashes) \in Nat /\ Cardinality(Astray) \in Nat
        /\ crashes \in Nat /\ departures \in Nat /\ givenUp \in Nat
    BY FS_CardinalityType DEF AstrayInv, TypeOK, QueueAssumption, CountsOK
  <2>2. Cardinality(LostToCrashes) + Cardinality(Astray) <= crashes + (departures + givenUp)
    BY DEF AstrayInv, Causes, Leavings
  <2>3. Cardinality(LostToCrashes) <= crashes + departures + givenUp
    BY <2>1, <2>2
  <2> QED BY <2>3 DEF LossesThroughLives, LostToCrashes
<1> QED BY <1>1, <1>2, <1>3, DeviceInvariant, CountsInvariant, PTL DEF DeviceSpec
============================================================================
