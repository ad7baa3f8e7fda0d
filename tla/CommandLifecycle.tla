-------------------------- MODULE CommandLifecycle --------------------------
(***************************************************************************)
(* What a command queue promises, whatever the transport does: a command   *)
(* is queued, taken out of the queue once, handed to the device it is      *)
(* addressed to at most once, and its result is recorded for good.         *)
(* Nothing is said about how requests, threads or retries achieve that.    *)
(***************************************************************************)
CONSTANTS Commands, Outcomes, None

VARIABLES
  stage,   \* how far each command has come
  result   \* the result its device met it with

abstractVars == <<stage, result>>

Stages == {"new", "queued", "taken", "handed", "settled"}

LifecycleTypeOK ==
  /\ stage \in [Commands -> Stages]
  /\ result \in [Commands -> Outcomes \cup {None}]

LifecycleInit ==
  /\ stage = [c \in Commands |-> "new"]
  /\ result = [c \in Commands |-> None]

Move(c, from, to) ==
  /\ stage[c] = from
  /\ stage' = [stage EXCEPT ![c] = to]

Submit(c) == Move(c, "new", "queued") /\ UNCHANGED result
Take(c) == Move(c, "queued", "taken") /\ UNCHANGED result

HandOver(c) ==
  /\ Move(c, "taken", "handed")
  /\ \E r \in Outcomes : result' = [result EXCEPT ![c] = r]

Settle(c) == Move(c, "handed", "settled") /\ UNCHANGED result

LifecycleNext == \E c \in Commands :
  Submit(c) \/ Take(c) \/ HandOver(c) \/ Settle(c)

LifecycleSpec == LifecycleInit /\ [][LifecycleNext]_abstractVars

(* A weaker promise: the record that a command is settled may be lost      *)
(* again, though its result and its place in the order of stages are not.  *)
Unsettle(c) == Move(c, "settled", "handed") /\ UNCHANGED result

RetriedNext == LifecycleNext \/ \E c \in Commands : Unsettle(c)

RetriedSpec == LifecycleInit /\ [][RetriedNext]_abstractVars
============================================================================
