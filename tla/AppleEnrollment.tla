--------------------------- MODULE AppleEnrollment ---------------------------
(***************************************************************************)
(* Enrolment of an Apple device: the check-in handler (app/checkin.py) and *)
(* the fields it merges into the device document (app/db.py                *)
(* upsert_device). A request is handled by one of the server's threads; it *)
(* may die, its answer may be lost, and the device may give it up while    *)
(* the thread goes on.                                                     *)
(*                                                                         *)
(* The device is external: it authenticates, delivers its push token,      *)
(* delivers later ones, checks out or is wiped, and repeats a message      *)
(* until it is answered. Of a TokenUpdate that lacks its Token, PushMagic  *)
(* or Topic the handler stores the missing one as empty, and answers 200.  *)
(***************************************************************************)
EXTENDS Naturals

CONSTANTS
  Threads,
  MaxTokens,    \* bound on the push tokens the device is given
  MaxCrashes,   \* bound on the requests that die
  CanGiveUp,    \* may the device give up a request?
  None

Phases == {"new", "authenticated", "in", "left", "wiped"}
Statuses == {"absent", "authenticating", "enrolled", "unenrolled"}

(* A TokenUpdate names its push data by the token; 0 if a part is missing. *)
Messages == [kind : {"Authenticate", "TokenUpdate", "CheckOut"}, token : 0..MaxTokens]

ASSUME EnrollmentAssumption ==
  /\ MaxTokens \in Nat /\ MaxCrashes \in Nat
  /\ CanGiveUp \in BOOLEAN
  /\ None \notin Threads \cup Messages

VARIABLES
  status,    \* field of the device document ("absent": no document)
  push,      \* its push data: the token's number, 0 if any of it is empty
  phase,     \* where the device is by the answers it has got
  newest,    \* the push token it was given last
  token,     \* the push data of its last TokenUpdate that was answered
  message,   \* what it has to send, until answered; or None
  waiting,   \* the thread it waits for, or None
  handling,  \* the message each thread handles, or None
  handled,   \* threads that have written the document
  crashes,
  late,      \* history: fields last written by a thread the device had left
  lacking    \* history: the tokens it was given and sent without the rest

doc == <<status, push>>
device == <<phase, newest, token, message, lacking>>
vars == <<doc, device, waiting, handling, handled, crashes, late>>

Init ==
  /\ status = "absent" /\ push = 0
  /\ phase = "new" /\ newest = 0 /\ token = 0 /\ message = None
  /\ lacking = {}
  /\ waiting = None
  /\ handling = [t \in Threads |-> None] /\ handled = {}
  /\ crashes = 0 /\ late = {}

----------------------------------------------------------------------------
(* The device.                                                             *)

Compose(m) ==
  /\ message = None
  /\ \/ /\ m.kind = "Authenticate" /\ phase \in {"new", "left", "wiped"} /\ m.token = 0
        /\ UNCHANGED <<newest, lacking>>
     \/ /\ m.kind = "TokenUpdate" /\ phase \in {"authenticated", "in"}
        /\ newest < MaxTokens /\ newest' = newest + 1
        /\ m.token \in {0, newest'}
        /\ lacking' = lacking \cup {t \in {newest'} : m.token = 0}
     \/ /\ m.kind = "CheckOut" /\ phase = "in" /\ m.token = 0
        /\ UNCHANGED <<newest, lacking>>
  /\ message' = m
  /\ UNCHANGED <<doc, phase, token, waiting, handling, handled, crashes, late>>

Wipe ==
  /\ message = None /\ phase = "in"
  /\ phase' = "wiped"
  /\ UNCHANGED <<doc, newest, token, message, lacking, waiting, handling, handled, crashes, late>>

PhaseAfter(kind) == CASE kind = "Authenticate" -> "authenticated"
                      [] kind = "TokenUpdate" -> "in"
                      [] kind = "CheckOut" -> "left"

Send(t) ==
  /\ message # None /\ waiting = None /\ handling[t] = None
  /\ waiting' = t
  /\ handling' = [handling EXCEPT ![t] = message]
  /\ UNCHANGED <<doc, device, handled, crashes, late>>

GiveUp ==
  /\ CanGiveUp /\ waiting # None
  /\ waiting' = None
  /\ UNCHANGED <<doc, device, handling, handled, crashes, late>>

----------------------------------------------------------------------------
(* The handler.                                                            *)

(* Mutant: check-out also removes the push data.                           *)
PushAfterClean(m) == IF m.kind = "Authenticate" THEN push ELSE m.token

(* Mutant: only the first token is stored.                                 *)
PushAfterFirst(m) == IF m.kind = "TokenUpdate" /\ push = 0 THEN m.token ELSE push

PushAfter(m) == IF m.kind = "TokenUpdate" THEN m.token ELSE push

(* Mutant: the message's type is stored as it came.                        *)
StatusRaw(m) == m.kind

(* Mutant: a device counts as enrolled as soon as it authenticates.        *)
StatusEarly(m) == IF m.kind = "CheckOut" THEN "unenrolled" ELSE "enrolled"

StatusAfter(m) == CASE m.kind = "Authenticate" -> "authenticating"
                    [] m.kind = "TokenUpdate" -> "enrolled"
                    [] m.kind = "CheckOut" -> "unenrolled"

Written(m) == IF m.kind = "TokenUpdate" THEN {"status", "push"} ELSE {"status"}

(* upsert_device: set(..., merge=True) of the message's fields.            *)
Upsert(t) ==
  /\ handling[t] # None /\ t \notin handled
  /\ status' = StatusAfter(handling[t])
  /\ push' = PushAfter(handling[t])
  /\ handled' = handled \cup {t}
  /\ late' = IF waiting = t THEN late \ Written(handling[t])
                           ELSE late \cup Written(handling[t])
  /\ UNCHANGED <<device, waiting, handling, crashes>>

Release(t) == /\ handling' = [handling EXCEPT ![t] = None]
              /\ handled' = handled \ {t}

(* 200, if the device still waits for it.                                  *)
Answer(t) ==
  /\ t \in handled
  /\ Release(t)
  /\ IF waiting = t
     THEN /\ phase' = PhaseAfter(handling[t].kind)
          /\ token' = IF handling[t].kind = "TokenUpdate" THEN handling[t].token ELSE token
          /\ message' = None /\ waiting' = None
          /\ UNCHANGED <<newest, lacking>>
     ELSE UNCHANGED <<device, waiting>>
  /\ UNCHANGED <<doc, crashes, late>>

(* The thread dies, Firestore fails, or the answer is lost.                *)
Crash(t) ==
  /\ handling[t] # None /\ crashes < MaxCrashes
  /\ crashes' = crashes + 1
  /\ Release(t)
  /\ waiting' = IF waiting = t THEN None ELSE waiting
  /\ UNCHANGED <<doc, device, late>>

Serve(t) == Upsert(t) \/ Answer(t)

Next ==
  \/ (\E m \in Messages : Compose(m)) \/ Wipe \/ GiveUp
  \/ \E t \in Threads : Send(t) \/ Serve(t) \/ Crash(t)

Spec == Init /\ [][Next]_vars

----------------------------------------------------------------------------
(* Properties.                                                             *)

StatusFor == [new |-> "absent", authenticated |-> "authenticating",
              in |-> "enrolled", left |-> "unenrolled", wiped |-> "enrolled"]

(* Types; the device waits for a thread that handles its message.          *)
TypeOK ==
  /\ status \in Statuses /\ push \in 0..MaxTokens
  /\ phase \in Phases /\ newest \in 0..MaxTokens /\ token \in 0..MaxTokens
  /\ lacking \subseteq 1..MaxTokens
  /\ message \in Messages \cup {None}
  /\ handling \in [Threads -> Messages \cup {None}]
  /\ \A t \in handled : handling[t] # None
  /\ waiting # None => handling[waiting] = message /\ message # None

(* The comment "authenticating until the TokenUpdate arrives": the status  *)
(* is the one the device has reached, or is already that of the message    *)
(* the device is still sending because an answer was lost. The one         *)
(* exception is a status written by a handler the device had left.         *)
StatusTracksDevice ==
  \/ status = StatusFor[phase]
  \/ message # None /\ status = StatusFor[PhaseAfter(message.kind)]
  \/ "status" \in late

(* Authenticate and CheckOut merge: the document keeps the push data last  *)
(* delivered, through check-outs, wipes, re-enrolments and lost answers,   *)
(* with the same exception.                                                *)
PushDataKept ==
  \/ push = token
  \/ message # None /\ message.kind = "TokenUpdate" /\ push = message.token
  \/ "push" \in late

(* Whatever handlers are late, in any order, a device counts as enrolled   *)
(* without push data (so that trigger_push refuses it) only if it has sent *)
(* a TokenUpdate that lacked some of them.                                 *)
EnrolledCanBeWoken == status = "enrolled" /\ push = 0 => lacking # {}
============================================================================
