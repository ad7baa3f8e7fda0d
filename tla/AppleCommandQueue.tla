------------------------- MODULE AppleCommandQueue -------------------------
(***************************************************************************)
(* The Apple command queue of Falko MDM: an administrator queues commands  *)
(* (app/admin.py send_command, app/db.py enqueue_command), a device polls  *)
(* PUT /mdm (app/mdm.py mdm), reports the result of its previous command   *)
(* and is handed the next one.                                             *)
(*                                                                         *)
(* mdm() is a sequence of separate Firestore calls with no transaction, so *)
(* each call is one step here and the steps of different gunicorn threads  *)
(* (and Cloud Run instances) interleave.                                   *)
(*                                                                         *)
(* The device is not part of the repository: it holds one connection at a  *)
(* time and repeats its report until that is answered.                     *)
(***************************************************************************)
EXTENDS Naturals, Sequences, FiniteSets

CONSTANTS
  Devices,      \* the UDIDs
  Commands,     \* the command documents that will be created
  Target,       \* Target[c]: the device whose sub-collection holds command c
  Workers,      \* the request threads of all server instances
  Outcomes,     \* the results devices come to report, already lower-cased
  Unencodable,  \* commands whose JSON payload no plist can hold (a null)
  Stamps,       \* the readings of the servers' clocks
  CanGiveUp,    \* may a device abandon a request the server still handles?
  MaxCrashes,   \* bound on the requests that die half-way
  None

Results == {"acknowledged", "error", "commandformaterror", "notnow"}
Statuses == {"absent", "pending", "sent"} \cup Results
Steps == {"idle", "touch", "ack", "dequeue", "mark", "answer"}

ASSUME QueueAssumption ==
  /\ Target \in [Commands -> Devices]
  /\ Outcomes \subseteq Results
  /\ Unencodable \subseteq Commands
  /\ Stamps \subseteq Nat \ {0}
  /\ CanGiveUp \in BOOLEAN
  /\ MaxCrashes \in Nat
  /\ None \notin Commands \cup Workers \cup Results

VARIABLES
  status,       \* the status field of each command document
  created,      \* its created_at, stamped before the write (0: not yet)
  lastStatus,   \* last_status of each device document
  step,         \* what each worker does next
  request,      \* the request each worker handles
  held,         \* the command each worker has dequeued
  connection,   \* the worker each device waits for
  report,       \* what each device puts into its next request
  outcome,      \* the result with which the device met each command
  crashes,
  ahead,        \* history: pairs of commands, the second of which was stamped
                \* after the first could be read, and with a later time
  handled       \* history: the commands each device was handed, in order

documents == <<status, created, lastStatus>>
workers == <<step, request, held>>
devices == <<connection, report, outcome, handled>>
vars == <<status, created, lastStatus, step, request, held, connection,
          report, outcome, crashes, ahead, handled>>

Idle == [cmd |-> None, result |-> None]
Reports == {Idle} \cup [cmd : Commands, result : Outcomes]
NoRequest == [device |-> None, say |-> Idle]

Init ==
  /\ status = [c \in Commands |-> "absent"]
  /\ created = [c \in Commands |-> 0]
  /\ lastStatus = [d \in Devices |-> None]
  /\ step = [w \in Workers |-> "idle"]
  /\ request = [w \in Workers |-> NoRequest]
  /\ held = [w \in Workers |-> None]
  /\ connection = [d \in Devices |-> None]
  /\ report = [d \in Devices |-> Idle]
  /\ outcome = [c \in Commands |-> None]
  /\ handled = [d \in Devices |-> <<>>]
  /\ crashes = 0
  /\ ahead = {}

----------------------------------------------------------------------------
(* send_command: created_at is stamped in the handler, by the clock of the *)
(* instance it runs on: two readings may be equal, and a later one less.   *)
(* The document is written by a later call, and administrators interleave. *)

Stamp(c) ==
  /\ created[c] = 0
  /\ \E t \in Stamps :
       /\ created' = [created EXCEPT ![c] = t]
       /\ ahead' = ahead \cup
            {<<b, c>> : b \in {x \in Commands : status[x] # "absent" /\ created[x] < t}}
  /\ UNCHANGED <<status, lastStatus, workers, devices, crashes>>

Enqueue(c) ==
  /\ created[c] # 0
  /\ status[c] = "absent"
  /\ status' = [status EXCEPT ![c] = "pending"]
  /\ UNCHANGED <<created, lastStatus, workers, devices, crashes, ahead>>

----------------------------------------------------------------------------
(* One request to PUT /mdm.                                                *)

Goto(w, s) == step' = [step EXCEPT ![w] = s]

Release(w) ==
  /\ Goto(w, "idle")
  /\ request' = [request EXCEPT ![w] = NoRequest]
  /\ held' = [held EXCEPT ![w] = None]

HangUp(w) == connection' = [d \in Devices |->
                IF connection[d] = w THEN None ELSE connection[d]]

(* A device with no open connection sends its report to a free thread.     *)
Poll(d, w) ==
  /\ connection[d] = None
  /\ step[w] = "idle"
  /\ connection' = [connection EXCEPT ![d] = w]
  /\ request' = [request EXCEPT ![w] = [device |-> d, say |-> report[d]]]
  /\ Goto(w, "touch")
  /\ UNCHANGED <<documents, held, report, outcome, handled, crashes, ahead>>

(* Mutant: the "if cmd_uuid" guard of the acknowledgement is dropped.      *)
TouchUnguarded(w) ==
  /\ step[w] = "touch"
  /\ lastStatus' = [lastStatus EXCEPT ![request[w].device] = request[w].say.result]
  /\ Goto(w, "ack")
  /\ UNCHANGED <<status, created, request, held, devices, crashes, ahead>>

(* upsert_device with last_seen and last_status.                           *)
Touch(w) ==
  /\ step[w] = "touch"
  /\ lastStatus' = [lastStatus EXCEPT ![request[w].device] = request[w].say.result]
  /\ Goto(w, IF request[w].say.cmd # None THEN "ack" ELSE "dequeue")
  /\ UNCHANGED <<status, created, request, held, devices, crashes, ahead>>

(* Mutant: ack_command is called with its default status.                  *)
AckDefault(w) ==
  /\ step[w] = "ack"
  /\ status' = [status EXCEPT ![request[w].say.cmd] = "acknowledged"]
  /\ Goto(w, "dequeue")
  /\ UNCHANGED <<created, lastStatus, request, held, devices, crashes, ahead>>

(* ack_command with the reported result.                                   *)
Ack(w) ==
  /\ step[w] = "ack"
  /\ status' = [status EXCEPT ![request[w].say.cmd] = request[w].say.result]
  /\ Goto(w, "dequeue")
  /\ UNCHANGED <<created, lastStatus, request, held, devices, crashes, ahead>>

(* Mutants: the query offers sent commands again in case their answer was  *)
(* lost, or forgets the sort direction.                                    *)
QueueOfSent(d) == {c \in Commands : Target[c] = d /\ status[c] \in {"pending", "sent"}}
NewestIn(Q) == {c \in Q : \A x \in Q : created[c] >= created[x]}

Queue(d) == {c \in Commands : Target[c] = d /\ status[c] = "pending"}
OldestIn(Q) == {c \in Q : \A x \in Q : created[c] <= created[x]}

(* dequeue_command: a query that changes nothing in Firestore.             *)
Dequeue(w) ==
  /\ step[w] = "dequeue"
  /\ LET Q == Queue(request[w].device)
     IN  \/ /\ Q = {}
            /\ Goto(w, "answer")
            /\ UNCHANGED held
         \/ /\ \E c \in OldestIn(Q) : held' = [held EXCEPT ![w] = c]
            /\ Goto(w, "mark")
  /\ UNCHANGED <<documents, request, devices, crashes, ahead>>

(* Mutants: the write is forgotten, or covers the device's whole queue.    *)
MarkNothing(w) ==
  /\ step[w] = "mark"
  /\ Goto(w, "answer")
  /\ UNCHANGED <<documents, request, held, devices, crashes, ahead>>

MarkAll(w) ==
  /\ step[w] = "mark"
  /\ status' = [c \in Commands |->
       IF c \in Queue(request[w].device) THEN "sent" ELSE status[c]]
  /\ Goto(w, "answer")
  /\ UNCHANGED <<created, lastStatus, request, held, devices, crashes, ahead>>

(* Mutant: the answer is built before the mark, so its exception comes     *)
(* first and the command stays at the head of the queue.                   *)
MarkBuilt(w) ==
  /\ step[w] = "mark"
  /\ IF held[w] \in Unencodable
     THEN HangUp(w) /\ Release(w) /\ UNCHANGED status
     ELSE /\ status' = [status EXCEPT ![held[w]] = "sent"]
          /\ Goto(w, "answer")
          /\ UNCHANGED <<request, held, connection>>
  /\ UNCHANGED <<created, lastStatus, report, outcome, handled, crashes, ahead>>

(* ack_command(udid, cmd_id, "sent"), before the answer leaves.            *)
Mark(w) ==
  /\ step[w] = "mark"
  /\ status' = [status EXCEPT ![held[w]] = "sent"]
  /\ Goto(w, "answer")
  /\ UNCHANGED <<created, lastStatus, request, held, devices, crashes, ahead>>

(* The answer reaches the device that still waits for this thread.         *)
AnswerEmpty(w) ==
  /\ step[w] = "answer"
  /\ held[w] = None
  /\ report' = [d \in Devices |-> IF connection[d] = w THEN Idle ELSE report[d]]
  /\ HangUp(w)
  /\ Release(w)
  /\ UNCHANGED <<documents, outcome, handled, crashes, ahead>>

AnswerCommand(w) ==
  LET c == held[w]
      d == request[w].device
  IN  /\ step[w] = "answer"
      /\ c \in Commands \ Unencodable
      /\ connection[d] = w
      /\ \E r \in Outcomes :
           /\ outcome' = [outcome EXCEPT ![c] = r]
           /\ report' = [report EXCEPT ![d] = [cmd |-> c, result |-> r]]
      /\ handled' = [handled EXCEPT ![d] = Append(@, c)]
      /\ HangUp(w)
      /\ Release(w)
      /\ UNCHANGED <<documents, crashes, ahead>>

(* Nobody is listening any more: the command was marked for nothing.       *)
AnswerLost(w) ==
  /\ step[w] = "answer"
  /\ held[w] \in Commands \ Unencodable
  /\ connection[request[w].device] # w
  /\ Release(w)
  /\ UNCHANGED <<documents, devices, crashes, ahead>>

(* _build_command_plist raises: the device gets a 500.                     *)
BuildFails(w) ==
  /\ step[w] = "answer"
  /\ held[w] \in Unencodable
  /\ HangUp(w)
  /\ Release(w)
  /\ UNCHANGED <<documents, report, outcome, handled, crashes, ahead>>

(* The worker dies, a Firestore call raises or the response is lost.       *)
Crash(w) ==
  /\ step[w] # "idle"
  /\ crashes < MaxCrashes
  /\ crashes' = crashes + 1
  /\ HangUp(w)
  /\ Release(w)
  /\ UNCHANGED <<documents, report, outcome, handled, ahead>>

GiveUp(d) ==
  /\ CanGiveUp
  /\ connection[d] # None
  /\ connection' = [connection EXCEPT ![d] = None]
  /\ UNCHANGED <<documents, workers, report, outcome, handled, crashes, ahead>>

Handle(w) ==
  \/ Touch(w) \/ Ack(w) \/ Dequeue(w) \/ Mark(w)
  \/ AnswerEmpty(w) \/ AnswerCommand(w) \/ AnswerLost(w) \/ BuildFails(w)

Next ==
  \/ \E c \in Commands : Stamp(c) \/ Enqueue(c)
  \/ \E d \in Devices, w \in Workers : Poll(d, w)
  \/ \E w \in Workers : Handle(w) \/ Crash(w)
  \/ \E d \in Devices : GiveUp(d)

Spec == Init /\ [][Next]_vars

----------------------------------------------------------------------------
(* Properties.                                                             *)

(* A thread acknowledges only if it was given a CommandUUID, and holds a   *)
(* command only while it marks it or answers with it.                      *)
WorkerOK(w) ==
  /\ step[w] # "idle" => request[w].device \in Devices
  /\ step[w] = "ack" => request[w].say.cmd # None
  /\ step[w] \notin {"mark", "answer"} => held[w] = None
  /\ step[w] = "mark" => held[w] # None
  /\ held[w] # None => Target[held[w]] = request[w].device

(* Every variable keeps its type, and the threads theirs (WorkerOK).       *)
TypeOK ==
  /\ status \in [Commands -> Statuses]
  /\ created \in [Commands -> Nat]
  /\ lastStatus \in [Devices -> Outcomes \cup {None}]
  /\ step \in [Workers -> Steps]
  /\ request \in [Workers -> [device : Devices \cup {None}, say : Reports]]
  /\ held \in [Workers -> Commands \cup {None}]
  /\ connection \in [Devices -> Workers \cup {None}]
  /\ report \in [Devices -> Reports]
  /\ outcome \in [Commands -> Outcomes \cup {None}]
  /\ handled \in [Devices -> Seq(Commands)]
  /\ crashes \in 0..MaxCrashes
  /\ ahead \subseteq Commands \X Commands
  /\ \A w \in Workers : WorkerOK(w)

(* However threads, retries and crashes interleave, no device is handed    *)
(* the same command twice (an EraseDevice is not repeated): a device hears *)
(* one answer at a time, and a command it has met is never pending again,  *)
(* even when a late thread writes "sent" over its result.                  *)
HandedOverOnce == \A d \in Devices : \A i, j \in DOMAIN handled[d] :
  handled[d][i] = handled[d][j] => i = j

(* A device is handed only commands of its own sub-collection.             *)
HandedToTarget == \A d \in Devices : \A i \in DOMAIN handled[d] :
  Target[handled[d][i]] = d

(* A result in Firestore is the one the device reported for that command,  *)
(* even when the report was repeated or handled by several threads.        *)
RecordedIsReported == \A c \in Commands :
  status[c] \in Results => status[c] = outcome[c]

(* dequeue_command is FIFO for requests that did not overlap, as far as    *)
(* the servers' clocks are: a command whose send_command ended before      *)
(* another's began, and that has the earlier created_at, never comes after *)
(* it. Of commands with equal times either may come first.                 *)
RespectsEnqueueOrder == \A d \in Devices : \A i, j \in DOMAIN handled[d] :
  i < j => <<handled[d][j], handled[d][i]>> \notin ahead

(* Why the first three of these hold: a command was met only after it      *)
(* left "pending"; the thread a device listens to holds no command the     *)
(* device has met; reports on their way agree with what the device met.    *)
PendingUnmet == \A c \in Commands :
  status[c] \in {"absent", "pending"} => outcome[c] = None

AnswerMarked == \A w \in Workers :
  step[w] = "answer" /\ held[w] # None
    => status[held[w]] \notin {"absent", "pending"}

ListenedTo(w, d) ==
  /\ step[w] # "idle"
  /\ request[w].device = d
  /\ held[w] # None => outcome[held[w]] = None

ListensToFresh == \A d \in Devices :
  connection[d] # None => ListenedTo(connection[d], d)

Agrees(r) == r.cmd # None => outcome[r.cmd] = r.result

ReportsAgree ==
  /\ \A d \in Devices : Agrees(report[d])
  /\ \A w \in Workers : Agrees(request[w].say)

HandedWereMet == \A d \in Devices : \A i \in DOMAIN handled[d] :
  outcome[handled[d][i]] # None

HandoverInv ==
  /\ PendingUnmet /\ AnswerMarked /\ ListensToFresh /\ ReportsAgree
  /\ HandedWereMet /\ HandedToTarget /\ HandedOverOnce /\ RecordedIsReported

(* Commands marked sent that no open request can bring to the device.      *)
Lost == {c \in Commands : /\ status[c] = "sent"
                          /\ outcome[c] = None
                          /\ \A w \in Workers : held[w] # c}

(* With devices that wait for their answers, only a died request or a      *)
(* payload that cannot be encoded loses a command.                         *)
LossesAreAccounted ==
  ~CanGiveUp => Cardinality(Lost) <= crashes + Cardinality(Unencodable)

(* A report is on its way while the device repeats it or a thread may      *)
(* still write it.                                                         *)
UnderWay(c) ==
  \/ \E d \in Devices : report[d].cmd = c
  \/ \E w \in Workers : step[w] \in {"touch", "ack"} /\ request[w].say.cmd = c

(* Threads run their handlers to the end, and a device sends what it has   *)
(* to report as soon as it can.                                            *)
FairSpec ==
  /\ Spec
  /\ \A w \in Workers : WF_vars(Handle(w))
  /\ \A d \in Devices : WF_vars(report[d] # Idle /\ \E w \in Workers : Poll(d, w))

(* A report is answered in the end, though the request that carries it     *)
(* dies and is repeated, and though the command its answer would bring     *)
(* cannot be encoded.                                                      *)
ReportsArrive == \A c \in Commands : UnderWay(c) ~> ~UnderWay(c)

(* The queue implements the abstract lifecycle.                            *)
Stage == [c \in Commands |->
  CASE status[c] = "absent" -> "new"
    [] status[c] = "pending" -> "queued"
    [] status[c] = "sent" -> IF outcome[c] = None THEN "taken" ELSE "handed"
    [] OTHER -> "settled"]

Lifecycle == INSTANCE CommandLifecycle WITH stage <- Stage, result <- outcome

(* With devices that wait for their answers, every step of the handlers is *)
(* a step of the abstract command lifecycle or leaves it alone.            *)
ImplementsLifecycle == Lifecycle!LifecycleSpec

(* With devices that give requests up, the one thing more that can happen  *)
(* to a command is that a thread its device has left writes "sent" over    *)
(* the result: no command is queued, taken or handed over again.           *)
ImplementsRetriedLifecycle == Lifecycle!RetriedSpec

(* db.py: status is pending, sent, acknowledged or error.                  *)
DocumentedStatuses == \A c \in Commands :
  status[c] \in {"absent", "pending", "sent", "acknowledged", "error"}

============================================================================
