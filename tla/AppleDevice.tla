---------------------------- MODULE AppleDevice ----------------------------
(***************************************************************************)
(* One Apple device and the whole of what Falko MDM does for it: enrolment *)
(* (AppleEnrollment), its command queue (AppleCommandQueue) and the push   *)
(* that makes it poll (app/admin.py trigger_push), on the same request     *)
(* threads. The two components touch in these places: send_command and     *)
(* trigger_push read the device document the check-ins write; a push wakes *)
(* the device only if the token it reads there is the one the device has;  *)
(* and a device that leaves drops its connection and the report it had.    *)
(* At either endpoint it may give up a request the server still handles.   *)
(*                                                                         *)
(* The device polls only while it is enrolled and awake, or to repeat a    *)
(* report; it checks in and polls one after the other. What ApnsPush says  *)
(* of trigger_push (provider tokens, clients, answers) is one step here,   *)
(* and the administrators' requests take no thread from the device's.      *)
(***************************************************************************)
EXTENDS AppleCommandQueue

CONSTANTS
  Device,         \* the device
  MaxTokens,      \* bound on the push tokens it gets
  MaxMishaps      \* bound on departures, deaths and time-outs together

VARIABLES
  enrollment, push,                  \* its document: status and push data
  phase, newest, token, message,     \* the device: AppleEnrollment
  waiting, handling, written,        \* its check-ins and their threads
  late, lacking,
  awake,         \* has a push made it poll until there is no command left?
  pushing,       \* the token a running trigger_push has read (0: none runs)
  departures,
  givenUp,       \* the polls and
  missed         \* the check-ins it has given up

Enrollment == INSTANCE AppleEnrollment
  WITH Threads <- Workers, status <- enrollment, handled <- written

ASSUME DeviceAssumption ==
  /\ Devices = {Device}
  /\ MaxTokens \in Nat /\ MaxMishaps \in Nat
  /\ None \notin Enrollment!Messages

queue == <<documents, workers, devices, ahead>>
checkins == <<enrollment, push, phase, newest, token, message,
              waiting, handling, written, late, lacking>>
waking == <<awake, pushing>>
counts == <<departures, givenUp, missed>>
deviceVars == <<vars, checkins, waking, counts>>

DeviceInit ==
  /\ Init
  /\ Enrollment!Init
  /\ awake = FALSE /\ pushing = 0
  /\ departures = 0 /\ givenUp = 0 /\ missed = 0

----------------------------------------------------------------------------
(* The administrator.                                                      *)

(* get_device, or 404; then created_at.                                    *)
SendCommand(c) ==
  /\ enrollment # "absent"
  /\ Stamp(c)
  /\ UNCHANGED <<checkins, waking, counts>>

Add(c) == Enqueue(c) /\ UNCHANGED <<checkins, waking, counts>>

(* trigger_push reads the document: 404 and 400 if there is no push data.  *)
ReadPushData ==
  /\ pushing = 0 /\ push # 0
  /\ pushing' = push
  /\ UNCHANGED <<queue, crashes, checkins, awake, counts>>

(* Apple accepts the newest token only.                                    *)
Wakes == pushing = newest /\ phase = "in"

(* send_push, long after the read: the device hears it if it still has     *)
(* that token.                                                             *)
Push ==
  /\ pushing # 0
  /\ pushing' = 0
  /\ awake' = (awake \/ Wakes)
  /\ UNCHANGED <<queue, crashes, checkins, counts>>

(* APNs drops it, Apple answers with an error, or the thread dies.         *)
LosePush ==
  /\ pushing # 0
  /\ pushing' = 0
  /\ UNCHANGED <<queue, crashes, checkins, awake, counts>>

----------------------------------------------------------------------------
(* The device at PUT /mdm.                                                 *)

PollAwake(w) ==
  /\ phase = "in" /\ message = None
  /\ awake \/ report[Device] # Idle
  /\ handling[w] = None
  /\ Poll(Device, w)
  /\ UNCHANGED <<checkins, waking, counts>>

Mishaps == crashes + departures + givenUp + missed
Bounded == Mishaps < MaxMishaps

(* A request that fails may put the device to sleep.                       *)
MaySleep(w) == awake' \in {awake, awake /\ connection[Device] # w}

(* An empty answer does.                                                   *)
Serve(w) ==
  /\ \/ (Touch(w) \/ Ack(w) \/ Dequeue(w) \/ Mark(w)) /\ UNCHANGED awake
     \/ (AnswerCommand(w) \/ AnswerLost(w)) /\ UNCHANGED awake
     \/ AnswerEmpty(w) /\ awake' = (awake /\ connection[Device] # w)
     \/ BuildFails(w) /\ MaySleep(w)
  /\ UNCHANGED <<checkins, pushing, counts>>

Die(w) ==
  /\ Bounded
  /\ Crash(w)
  /\ MaySleep(w)
  /\ UNCHANGED <<checkins, pushing, counts>>

----------------------------------------------------------------------------
(* The device at PUT /checkin.                                             *)

CheckIn ==
  /\ connection[Device] = None
  /\ \E m \in Enrollment!Messages :
       m.kind \in {"Authenticate", "TokenUpdate"} /\ Enrollment!Compose(m)
  /\ UNCHANGED <<queue, waking, counts>>

SendCheckIn(w) ==
  /\ step[w] = "idle"
  /\ Enrollment!Send(w)
  /\ UNCHANGED <<queue, waking, counts>>

ServeCheckIn(w) == Enrollment!Serve(w) /\ UNCHANGED <<queue, waking, counts>>

DieInCheckIn(w) == Bounded /\ Enrollment!Crash(w) /\ UNCHANGED <<queue, waking, counts>>

----------------------------------------------------------------------------
(* The device's time-outs, and its departures.                             *)

(* It gives up a poll whose thread goes on, and may sleep as after a       *)
(* request that failed.                                                    *)
AbandonPoll ==
  /\ Bounded
  /\ givenUp' = givenUp + 1
  /\ GiveUp(Device)
  /\ awake' \in {awake, FALSE}
  /\ UNCHANGED <<checkins, pushing, departures, missed>>

AbandonCheckIn ==
  /\ Bounded
  /\ missed' = missed + 1
  /\ Enrollment!GiveUp
  /\ UNCHANGED <<queue, waking, departures, givenUp>>

(* The profile is removed or the device is wiped: what it was about to     *)
(* report is gone, and the thread that was to answer it goes on alone.     *)
Depart ==
  /\ Bounded
  /\ departures' = departures + 1
  /\ \/ Enrollment!Wipe
     \/ \E m \in Enrollment!Messages : m.kind = "CheckOut" /\ Enrollment!Compose(m)
  /\ connection' = [connection EXCEPT ![Device] = None]
  /\ report' = [report EXCEPT ![Device] = Idle]
  /\ awake' = FALSE
  /\ UNCHANGED <<documents, workers, outcome, handled, ahead, pushing, givenUp, missed>>

----------------------------------------------------------------------------

DeviceNext ==
  \/ \E c \in Commands : SendCommand(c) \/ Add(c)
  \/ ReadPushData \/ Push \/ LosePush
  \/ CheckIn \/ AbandonPoll \/ AbandonCheckIn \/ Depart
  \/ \E w \in Workers : \/ PollAwake(w) \/ Serve(w) \/ Die(w)
                        \/ SendCheckIn(w) \/ ServeCheckIn(w) \/ DieInCheckIn(w)

DeviceSpec == DeviceInit /\ [][DeviceNext]_deviceVars

Waiting == Queue(Device) # {}

(* Threads run their handlers to the end and are free again and again; a   *)
(* started send_command and a started trigger_push finish. The device      *)
(* sends what it has to send, and does not time out for ever (MaxMishaps). *)
(* While commands wait, the administrator pushes again and again, and not  *)
(* every push that can wake the device is lost.                            *)
DeviceFairness ==
  /\ \A w \in Workers : WF_deviceVars(Serve(w) \/ ServeCheckIn(w))
  /\ WF_deviceVars(\E w \in Workers : PollAwake(w))
  /\ WF_deviceVars(\E w \in Workers : SendCheckIn(w))
  /\ WF_deviceVars(Waiting /\ ReadPushData)
  /\ WF_deviceVars(Push \/ LosePush)
  /\ SF_deviceVars(Wakes /\ Push)

FairDeviceSpec == DeviceSpec /\ DeviceFairness

----------------------------------------------------------------------------
(* Properties.                                                             *)

(* The types of both components, and a thread serves one request.          *)
DeviceTypeOK ==
  /\ TypeOK /\ Enrollment!TypeOK
  /\ awake \in BOOLEAN /\ pushing \in 0..MaxTokens
  /\ departures \in Nat /\ givenUp \in Nat /\ missed \in Nat
  /\ Mishaps <= MaxMishaps
  /\ \A w \in Workers : step[w] = "idle" \/ handling[w] = None
  /\ waiting = None \/ connection[Device] = None

(* Results that no request and no report under way will write any more.    *)
Unreported == {c \in Commands :
  outcome[c] # None /\ status[c] # outcome[c] /\ ~UnderWay(c)}

(* Whatever dies and is repeated on the way, a result the device had is    *)
(* lost to Firestore only when the device departs or gives up a poll, and  *)
(* then at most one: the report it took with it, or the one that the       *)
(* thread it left behind wrote "sent" over.                                *)
ResultsAccounted == Cardinality(Unreported) <= departures + givenUp

(* A command that was taken from the queue and will not reach the device,  *)
(* though a plist can hold it, is explained by a died request, by a poll   *)
(* given up or by a departure, and each of them loses one at most.         *)
LossesThroughLives ==
  Cardinality(Lost \ Unencodable) <= crashes + departures + givenUp

(* A command queued for a device that is enrolled again and again, or      *)
(* stays so, is taken in the end: the push data in the document can wake   *)
(* the device, though it has got new tokens, left and come back, though    *)
(* pushes go to tokens it no longer has, and though the command before     *)
(* this one cannot be encoded. Excepted are a device whose last            *)
(* TokenUpdate lacked something, and one whose document was last written   *)
(* by a handler of a TokenUpdate that it had given up.                     *)
WokenDeviceDrains ==
  Waiting ~> ~Waiting \/ [](phase # "in" \/ token = 0 \/ "push" \in late)
============================================================================
