----------------------- MODULE AppleEnrollment_proofs -----------------------
(***************************************************************************)
(* Proofs about AppleEnrollment for every number of threads, push tokens   *)
(* and died requests, with and without devices that give up.               *)
(***************************************************************************)
EXTENDS AppleEnrollment, TLAPS

(* Why these hold: a TokenUpdate carries push data, unless the device has  *)
(* sent an incomplete one, and once the thread the device waits for has    *)
(* written, the document says what the device's message says, unless a     *)
(* late thread has written since.                                          *)
Carries(m) == m # None /\ m.kind = "TokenUpdate" => m.token # 0 \/ lacking # {}

Delivered ==
  waiting # None /\ waiting \in handled =>
    /\ status = StatusAfter(message) \/ "status" \in late
    /\ message.kind = "TokenUpdate" => push = message.token \/ "push" \in late

(* The push data the device has delivered last, or delivers now, are those *)
(* of the newest token, if they are complete.                              *)
DeliversNewest ==
  LET delivering == message # None /\ message.kind = "TokenUpdate"
  IN  /\ delivering => message.token \in {0, newest}
      /\ ~delivering => token \in {0, newest}

EnrollmentInv ==
  /\ DeliversNewest
  /\ Carries(message) /\ \A t \in Threads : Carries(handling[t])
  /\ Delivered /\ StatusTracksDevice /\ PushDataKept /\ EnrolledCanBeWoken

(* There is no document, and the device is new.                            *)
LEMMA EnrollmentInitially ==
  ASSUME EnrollmentAssumption, Init PROVE TypeOK /\ EnrollmentInv
BY DEF Init, TypeOK, Statuses, Phases, EnrollmentInv, DeliversNewest, Carries, Delivered,
   StatusTracksDevice, StatusFor, PushDataKept, EnrolledCanBeWoken, EnrollmentAssumption

(* The steps of the device that leave the document alone.                  *)
LEMMA DeviceKeeps ==
  ASSUME EnrollmentAssumption, TypeOK, EnrollmentInv,
         \/ \E m \in Messages : Compose(m)
         \/ Wipe \/ GiveUp \/ \E t \in Threads : Send(t)
  PROVE  TypeOK' /\ EnrollmentInv'
<1> USE DEF doc, device
<1>1. ASSUME NEW m \in Messages, Compose(m) PROVE TypeOK' /\ EnrollmentInv'
  <2>1. /\ message = None /\ message' = m /\ waiting = None
        /\ UNCHANGED <<doc, phase, token, waiting, handling, handled, crashes, late>>
    BY <1>1 DEF Compose, TypeOK
  <2>2. Carries(m)'
    BY <1>1 DEF Compose, Carries, TypeOK
  <2>3. newest' \in 0..MaxTokens /\ lacking' \subseteq 1..MaxTokens /\ lacking \subseteq lacking'
    <3>1. CASE UNCHANGED <<newest, lacking>>
      BY <3>1 DEF TypeOK
    <3>2. CASE /\ newest < MaxTokens /\ newest' = newest + 1
               /\ lacking' = lacking \cup {t \in {newest'} : m.token = 0}
      <4>1. newest' \in 1..MaxTokens
        BY <3>2 DEF TypeOK, EnrollmentAssumption
      <4>2. lacking' \subseteq lacking \cup {newest'} /\ lacking \subseteq lacking'
        BY <3>2
      <4> QED BY <4>1, <4>2 DEF TypeOK, EnrollmentAssumption
    <3> QED BY <1>1, <3>1, <3>2 DEF Compose
  <2>4. TypeOK'
    BY <2>1, <2>3 DEF TypeOK
  <2>5. DeliversNewest'
    <3>1. m.kind = "TokenUpdate" => m.token \in {0, newest'}
      BY <1>1 DEF Compose
    <3>2. m.kind # "TokenUpdate" => newest' = newest /\ token \in {0, newest}
      BY <1>1, <2>1 DEF Compose, EnrollmentInv, DeliversNewest
    <3>3. token' = token /\ message' = m /\ m # None
      BY <2>1 DEF EnrollmentAssumption
    <3> QED BY <3>1, <3>2, <3>3 DEF DeliversNewest
  <2> QED
    BY <2>1, <2>2, <2>3, <2>4, <2>5 DEF EnrollmentInv, Carries, Delivered, StatusTracksDevice,
       PushDataKept, EnrolledCanBeWoken
<1>2. CASE Wipe
  BY <1>2 DEF Wipe, TypeOK, Phases, EnrollmentInv, DeliversNewest, Carries, Delivered, StatusTracksDevice,
     StatusFor, PushDataKept, EnrolledCanBeWoken
<1>3. CASE GiveUp
  BY <1>3 DEF GiveUp, TypeOK, EnrollmentInv, DeliversNewest, Carries, Delivered, StatusTracksDevice,
     PushDataKept, EnrolledCanBeWoken
<1>4. ASSUME NEW t \in Threads, Send(t) PROVE TypeOK' /\ EnrollmentInv'
  <2>1. TypeOK' /\ t \notin handled
    BY <1>4 DEF Send, TypeOK
  <2> QED
    BY <1>4, <2>1 DEF Send, TypeOK, EnrollmentInv, DeliversNewest, Carries, Delivered, StatusTracksDevice,
       PushDataKept, EnrolledCanBeWoken
<1> QED BY <1>1, <1>2, <1>3, <1>4

(* The status a handler writes is the one for the phase its answer brings. *)
LEMMA StatusByPhase ==
  \A m \in Messages : StatusAfter(m) = StatusFor[PhaseAfter(m.kind)]
BY DEF Messages, StatusAfter, StatusFor, PhaseAfter

LEMMA UpsertKeeps ==
  ASSUME EnrollmentAssumption, TypeOK, EnrollmentInv, NEW t \in Threads, Upsert(t)
  PROVE  TypeOK' /\ EnrollmentInv'
<1> USE DEF device
<1> DEFINE m == handling[t]
<1>1. /\ m \in Messages /\ m # None /\ Carries(m)
      /\ status' = StatusAfter(m) /\ push' = PushAfter(m)
      /\ handled' = handled \cup {t}
      /\ UNCHANGED <<phase, newest, token, message, lacking, waiting, handling, crashes>>
  BY DEF Upsert, TypeOK, EnrollmentInv
<1>2. late' = IF waiting = t THEN late \ Written(m) ELSE late \cup Written(m)
  BY DEF Upsert
<1> HIDE DEF m
<1>3. status' \in Statuses /\ push' \in 0..MaxTokens
  BY <1>1 DEF TypeOK, Messages, StatusAfter, PushAfter, Statuses
<1>4. TypeOK'
  BY <1>1, <1>3 DEF TypeOK, m
<1>5. EnrolledCanBeWoken'
  BY <1>1 DEF EnrollmentInv, EnrolledCanBeWoken, Carries, StatusAfter, PushAfter, Messages
<1>6. DeliversNewest'
  BY <1>1 DEF EnrollmentInv, DeliversNewest
<1>7. CASE waiting = t
  <2>1. m = message
    BY <1>7, <1>1 DEF TypeOK, EnrollmentAssumption, m
  <2>2. Delivered' /\ StatusTracksDevice' /\ PushDataKept'
    BY <1>1, <1>2, <1>7, <2>1, StatusByPhase
       DEF EnrollmentInv, Delivered, StatusTracksDevice, PushDataKept, PushAfter, Written
  <2>3. Carries(message)' /\ \A x \in Threads : Carries(handling[x])'
    BY <1>1 DEF EnrollmentInv, Carries
  <2> QED BY <1>4, <1>5, <1>6, <2>2, <2>3 DEF EnrollmentInv
<1>8. CASE waiting # t
  BY <1>1, <1>2, <1>4, <1>5, <1>8, <1>6
     DEF EnrollmentInv, Delivered, StatusTracksDevice, PushDataKept, PushAfter, Written, Carries
<1> QED BY <1>7, <1>8

(* The answer: the device takes the step its message was for.              *)
LEMMA AnswerKeeps ==
  ASSUME EnrollmentAssumption, TypeOK, EnrollmentInv, NEW t \in Threads, Answer(t)
  PROVE  TypeOK' /\ EnrollmentInv'
<1> USE DEF device, doc
<1>1. /\ t \in handled /\ handling[t] \in Messages
      /\ handling' = [handling EXCEPT ![t] = None] /\ handled' = handled \ {t}
      /\ UNCHANGED <<status, push, crashes, late>>
  BY DEF Answer, Release, TypeOK
<1>2. CASE waiting # t
  <2>1. UNCHANGED <<phase, newest, token, message, lacking, waiting>>
    BY <1>2 DEF Answer
  <2>2. TypeOK'
    BY <1>1, <2>1, <1>2 DEF TypeOK
  <2>3. \A x \in Threads : handling'[x] \in {handling[x], None}
    BY <1>1 DEF TypeOK
  <2>4. Carries(message)' /\ \A x \in Threads : Carries(handling[x])'
    BY <2>1, <2>3 DEF EnrollmentInv, Carries
  <2> QED
    BY <1>1, <2>1, <2>2, <2>4 DEF EnrollmentInv, DeliversNewest, Delivered, StatusTracksDevice,
       PushDataKept, EnrolledCanBeWoken
<1>3. CASE waiting = t
  <2>1. message = handling[t] /\ message # None
    BY <1>1, <1>3 DEF TypeOK, EnrollmentAssumption
  <2>2. /\ phase' = PhaseAfter(message.kind) /\ message' = None /\ waiting' = None
        /\ UNCHANGED <<newest, lacking>>
        /\ token' = IF message.kind = "TokenUpdate" THEN message.token ELSE token
    BY <1>3, <2>1 DEF Answer
  <2>3. phase' \in Phases /\ token' \in 0..MaxTokens
    BY <1>1, <2>1, <2>2 DEF TypeOK, Messages, PhaseAfter, Phases
  <2>4. TypeOK'
    BY <1>1, <2>2, <2>3 DEF TypeOK
  <2>5. StatusTracksDevice' /\ PushDataKept'
    BY <1>1, <1>3, <2>1, <2>2, StatusByPhase
       DEF EnrollmentInv, Delivered, StatusTracksDevice, PushDataKept, EnrollmentAssumption
  <2>6. DeliversNewest'
    BY <2>1, <2>2 DEF EnrollmentInv, DeliversNewest
  <2> QED
    BY <1>1, <2>2, <2>4, <2>5, <2>6
       DEF TypeOK, EnrollmentInv, Carries, Delivered, EnrolledCanBeWoken
<1> QED BY <1>2, <1>3

LEMMA CrashKeeps ==
  ASSUME EnrollmentAssumption, TypeOK, EnrollmentInv, NEW t \in Threads, Crash(t)
  PROVE  TypeOK' /\ EnrollmentInv'
BY DEF Crash, Release, doc, device, TypeOK, EnrollmentInv, DeliversNewest, Carries, Delivered,
   StatusTracksDevice, PushDataKept, EnrolledCanBeWoken

(* All properties of enrolment at once, whatever dies, is lost or late.    *)
THEOREM EnrollmentInvariant == Spec => [](TypeOK /\ EnrollmentInv)
<1> USE EnrollmentAssumption
<1>1. ASSUME Init PROVE TypeOK /\ EnrollmentInv
  BY <1>1, EnrollmentInitially
<1>2. ASSUME TypeOK, EnrollmentInv, [Next]_vars PROVE TypeOK' /\ EnrollmentInv'
  <2>1. CASE UNCHANGED vars
    BY <1>2, <2>1 DEF vars, doc, device, TypeOK, EnrollmentInv, DeliversNewest, Carries, Delivered,
       StatusTracksDevice, PushDataKept, EnrolledCanBeWoken
  <2> QED
    BY <1>2, <2>1, DeviceKeeps, UpsertKeeps, AnswerKeeps, CrashKeeps DEF Next, Serve
<1> QED BY <1>1, <1>2, PTL DEF Spec

(* The status follows the device, except for what a thread it had left     *)
(* wrote late.                                                             *)
THEOREM StatusTracked == Spec => []StatusTracksDevice
<1>1. EnrollmentInv => StatusTracksDevice
  BY DEF EnrollmentInv
<1> QED BY <1>1, EnrollmentInvariant, PTL

(* The push data last delivered stays, with the same exception.            *)
THEOREM PushKept == Spec => []PushDataKept
<1>1. EnrollmentInv => PushDataKept
  BY DEF EnrollmentInv
<1> QED BY <1>1, EnrollmentInvariant, PTL

(* No handler, however late, leaves a device enrolled without push data    *)
(* that has always sent them complete.                                     *)
THEOREM EnrolledWakes == Spec => []EnrolledCanBeWoken
<1>1. EnrollmentInv => EnrolledCanBeWoken
  BY DEF EnrollmentInv
<1> QED BY <1>1, EnrollmentInvariant, PTL
============================================================================
