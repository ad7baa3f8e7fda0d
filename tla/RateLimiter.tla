----------------------------- MODULE RateLimiter -----------------------------
(***************************************************************************)
(* The sliding-window rate limiter of Falko MDM (app/middleware.py         *)
(* _is_rate_limited), as one process runs it: every request thread reads   *)
(* the clock first and only then waits for _rate_lock, so that the threads *)
(* may come to the lock in another order than that of their clock          *)
(* readings. All that is done under the lock is one step.                  *)
(*                                                                         *)
(* Requests for /healthz never get here. The clock does not go backwards.  *)
(***************************************************************************)
EXTENDS Integers, Sequences

CONSTANTS
  Threads,    \* request threads of the process
  Ips,        \* client addresses
  Limit,      \* _RATE_LIMIT_REQUESTS
  Window,     \* _RATE_LIMIT_WINDOW
  MaxWait,    \* longest time from reading the clock to the end of the check
  MaxTime,    \* bound on the clock
  None

ASSUME LimiterAssumption ==
  /\ Limit \in Nat \ {0} /\ Window \in Nat
  /\ MaxWait \in Nat /\ MaxTime \in Nat
  /\ None \notin Ips

VARIABLES
  clock,
  counts,    \* _request_counts (a missing key is an empty deque)
  asking,    \* the address each thread checks, or None
  now,       \* its reading of the clock
  log        \* history: the readings of all accepted requests, per address

vars == <<clock, counts, asking, now, log>>

Init ==
  /\ clock = 0
  /\ counts = [ip \in Ips |-> <<>>] /\ log = counts
  /\ asking = [t \in Threads |-> None]
  /\ now = [t \in Threads |-> 0]

Tick ==
  /\ clock < MaxTime
  /\ \A t \in Threads : asking[t] # None => clock - now[t] < MaxWait
  /\ clock' = clock + 1
  /\ UNCHANGED <<counts, asking, now, log>>

Arrive(t, ip) ==
  /\ asking[t] = None
  /\ asking' = [asking EXCEPT ![t] = ip]
  /\ now' = [now EXCEPT ![t] = clock]
  /\ UNCHANGED <<clock, counts, log>>

(* Mutant: an entry exactly Window old is dropped.                         *)
ExpiredEarly(stamp, n) == n - stamp >= Window

Expired(stamp, n) == n - stamp > Window

(* The number of entries popleft removes: the expired ones before the      *)
(* first that is not.                                                      *)
Purgeable(q, n) == CHOOSE k \in 0..Len(q) :
  /\ \A i \in 1..k : Expired(q[i], n)
  /\ k = Len(q) \/ ~ Expired(q[k + 1], n)

(* Mutant: nothing is removed.                                             *)
Unpurged(q, n) == q

Purged(q, n) == SubSeq(q, Purgeable(q, n) + 1, Len(q))

(* Mutant: the limit is off by one.                                        *)
FullLate(q) == Len(q) > Limit

Full(q) == Len(q) >= Limit

(* Under the lock; one request in a hundred also sweeps all addresses.     *)
Check(t) == \E swept \in {{asking[t]}, Ips} :
  LET ip == asking[t]
      left == [x \in Ips |-> IF x \in swept THEN Purged(counts[x], now[t])
                                            ELSE counts[x]]
  IN  /\ ip # None
      /\ asking' = [asking EXCEPT ![t] = None]
      /\ \/ /\ Full(left[ip])
            /\ counts' = left
            /\ UNCHANGED log
         \/ /\ ~ Full(left[ip])
            /\ counts' = [left EXCEPT ![ip] = Append(left[ip], now[t])]
            /\ log' = [log EXCEPT ![ip] = Append(log[ip], now[t])]
      /\ UNCHANGED <<clock, now>>

Next ==
  \/ Tick
  \/ \E t \in Threads : Check(t) \/ \E ip \in Ips : Arrive(t, ip)

Spec == Init /\ [][Next]_vars

----------------------------------------------------------------------------
(* Properties.                                                             *)

(* Types; a deque never holds more than Limit entries.                     *)
TypeOK ==
  /\ clock \in Nat
  /\ counts \in [Ips -> Seq(Nat)] /\ log \in [Ips -> Seq(Nat)]
  /\ asking \in [Threads -> Ips \cup {None}]
  /\ now \in [Threads -> Nat]
  /\ \A ip \in Ips : Len(counts[ip]) <= Limit

(* Of any Limit + 1 requests accepted from an address, the first and the   *)
(* last are more than Window - MaxWait apart: whatever the order in which  *)
(* the threads get the lock, and whichever thread sweeps, the window is    *)
(* cut short by the waiting time at most.                                  *)
AtMostLimitPerWindow == \A ip \in Ips : \A i, j \in 1..Len(log[ip]) :
  j - i >= Limit => log[ip][j] - log[ip][i] > Window - MaxWait

Answered(t) == asking[t] # None /\ asking'[t] = None
Refused(t) == Answered(t) /\ log' = log

(* Nobody is refused without having had Limit requests accepted in the     *)
(* last Window + MaxWait.                                                  *)
RefusedRightly == [][\A t \in Threads : Refused(t) =>
  LET l == log[asking[t]]
  IN  /\ Len(l) >= Limit
      /\ \A i \in 1..Limit :
           now[t] - l[Len(l) - Limit + i] <= Window + MaxWait]_vars

============================================================================
