------------------------------ MODULE ApnsPush ------------------------------
(***************************************************************************)
(* What the threads of one process share when they wake devices: the       *)
(* handler trigger_push (app/admin.py), with the Firestore client of       *)
(* get_db (app/db.py), and the provider token and HTTP/2 client of         *)
(* send_push (app/apns.py). Reads of the module globals and of the clock   *)
(* are steps of their own, because threads may be switched between them.   *)
(*                                                                         *)
(* A token is the time in its iat claim. The clock does not go backwards.  *)
(***************************************************************************)
EXTENDS Integers, FiniteSets

CONSTANTS
  Threads,
  Ttl,          \* _TOKEN_TTL_SECONDS
  MaxWait,      \* longest time from reading the clock to the end of the push
  MaxTime,      \* bound on the clock
  MaxRequests,  \* bound on the requests
  None

ASSUME PushAssumption ==
  /\ IsFiniteSet(Threads)
  /\ Ttl \in Nat \ {0} /\ MaxWait \in Nat
  /\ MaxTime \in Nat /\ MaxRequests \in Nat
  /\ None \notin Int /\ None \notin Threads

Steps == {"idle", "db", "newdb", "device", "clock", "fast", "take", "lock",
          "recheck", "mint", "client", "newclient", "post"}

VARIABLES
  clock,
  requests,    \* number of requests so far
  databases,   \* number of Firestore clients made; _db is set once there is one
  clients,     \* number of HTTP clients made; likewise _http_client
  cache,       \* _apns_token_cache: the token it holds, or None
  lock,        \* the thread that holds _token_lock, or None
  step,        \* what each thread does next
  now,         \* its reading of the clock
  token        \* the token it is going to send

vars == <<clock, requests, databases, clients, cache, lock, step, now, token>>

Init ==
  /\ clock = 0 /\ requests = 0 /\ databases = 0 /\ clients = 0
  /\ cache = None /\ lock = None
  /\ step = [t \in Threads |-> "idle"]
  /\ now = [t \in Threads |-> 0]
  /\ token = [t \in Threads |-> None]

Goto(t, s) == step' = [step EXCEPT ![t] = s]

(* Threads between ReadClock and Post.                                     *)
Pushing(t) == step[t] \notin {"idle", "db", "newdb", "device", "clock"}

Tick ==
  /\ clock < MaxTime
  /\ \A t \in Threads : Pushing(t) => clock - now[t] < MaxWait
  /\ clock' = clock + 1
  /\ UNCHANGED <<requests, databases, clients, cache, lock, step, now, token>>

Request(t) ==
  /\ step[t] = "idle" /\ requests < MaxRequests
  /\ requests' = requests + 1
  /\ Goto(t, "db")
  /\ UNCHANGED <<clock, databases, clients, cache, lock, now, token>>

----------------------------------------------------------------------------
(* get_db and the device record.                                           *)

(* Mutant: the client that is there is not used.                           *)
GetDbAlways(t) ==
  /\ step[t] = "db"
  /\ Goto(t, "newdb")
  /\ UNCHANGED <<clock, requests, databases, clients, cache, lock, now, token>>

GetDb(t) ==
  /\ step[t] = "db"
  /\ Goto(t, IF databases = 0 THEN "newdb" ELSE "device")
  /\ UNCHANGED <<clock, requests, databases, clients, cache, lock, now, token>>

NewDb(t) ==
  /\ step[t] = "newdb"
  /\ databases' = databases + 1
  /\ Goto(t, "device")
  /\ UNCHANGED <<clock, requests, clients, cache, lock, now, token>>

(* No such device (404), no push data (400), or on to send_push.           *)
ReadDevice(t) ==
  /\ step[t] = "device"
  /\ Goto(t, "idle") \/ Goto(t, "clock")
  /\ UNCHANGED <<clock, requests, databases, clients, cache, lock, now, token>>

----------------------------------------------------------------------------
(* _get_apns_token.                                                        *)

ReadClock(t) ==
  /\ step[t] = "clock"
  /\ now' = [now EXCEPT ![t] = clock]
  /\ Goto(t, "fast")
  /\ UNCHANGED <<clock, requests, databases, clients, cache, lock, token>>

(* Mutant: a token exactly Ttl old counts as fresh.                        *)
FreshLate(c, n) == c # None /\ n - c <= Ttl

Fresh(c, n) == c # None /\ n - c < Ttl

FastPath(t) ==
  /\ step[t] = "fast"
  /\ Goto(t, IF Fresh(cache, now[t]) THEN "take" ELSE "lock")
  /\ UNCHANGED <<clock, requests, databases, clients, cache, lock, now, token>>

(* The global is read again: a renewal may have come between.              *)
TakeCached(t) ==
  /\ step[t] = "take"
  /\ token' = [token EXCEPT ![t] = cache]
  /\ Goto(t, "client")
  /\ UNCHANGED <<clock, requests, databases, clients, cache, lock, now>>

Acquire(t) ==
  /\ step[t] = "lock" /\ lock = None
  /\ lock' = t
  /\ Goto(t, "recheck")
  /\ UNCHANGED <<clock, requests, databases, clients, cache, now, token>>

(* Mutant: no second look under the lock.                                  *)
RecheckBlind(t) ==
  /\ step[t] = "recheck"
  /\ Goto(t, "mint")
  /\ UNCHANGED <<clock, requests, databases, clients, cache, lock, now, token>>

Recheck(t) ==
  /\ step[t] = "recheck"
  /\ \/ /\ Fresh(cache, now[t])
        /\ token' = [token EXCEPT ![t] = cache]
        /\ lock' = None
        /\ Goto(t, "client")
     \/ /\ ~ Fresh(cache, now[t])
        /\ Goto(t, "mint")
        /\ UNCHANGED <<lock, token>>
  /\ UNCHANGED <<clock, requests, databases, clients, cache, now>>

(* Mutant: the lock stays taken when signing fails.                        *)
FailKeepsLock(t) == Goto(t, "idle") /\ UNCHANGED <<cache, lock, token>>

(* Missing settings or a bad key: the with statement lets go of the lock,  *)
(* send_push answers False and trigger_push 502.                           *)
Fail(t) == Goto(t, "idle") /\ lock' = None /\ UNCHANGED <<cache, token>>

(* A new token carries the time read before the wait for the lock.         *)
Mint(t) ==
  /\ step[t] = "mint"
  /\ \/ /\ cache' = now[t]
        /\ token' = [token EXCEPT ![t] = now[t]]
        /\ lock' = None
        /\ Goto(t, "client")
     \/ Fail(t)
  /\ UNCHANGED <<clock, requests, databases, clients, now>>

----------------------------------------------------------------------------
(* _get_http_client and the request to Apple.                              *)

GetClient(t) ==
  /\ step[t] = "client"
  /\ Goto(t, IF clients = 0 THEN "newclient" ELSE "post")
  /\ UNCHANGED <<clock, requests, databases, clients, cache, lock, now, token>>

(* Mutant: no second look under _http_lock.                                *)
ClientsAfterBlind == clients + 1

ClientsAfter == IF clients = 0 THEN clients + 1 ELSE clients

(* All that is done under _http_lock.                                      *)
NewClient(t) ==
  /\ step[t] = "newclient"
  /\ clients' = ClientsAfter
  /\ Goto(t, "post")
  /\ UNCHANGED <<clock, requests, databases, cache, lock, now, token>>

Post(t) ==
  /\ step[t] = "post"
  /\ token' = [token EXCEPT ![t] = None]
  /\ Goto(t, "idle")
  /\ UNCHANGED <<clock, requests, databases, clients, cache, lock, now>>

Handle(t) ==
  \/ GetDb(t) \/ NewDb(t) \/ ReadDevice(t)
  \/ ReadClock(t) \/ FastPath(t) \/ TakeCached(t)
  \/ Acquire(t) \/ Recheck(t) \/ Mint(t)
  \/ GetClient(t) \/ NewClient(t) \/ Post(t)

Next == Tick \/ \E t \in Threads : Request(t) \/ Handle(t)

Spec == Init /\ [][Next]_vars

(* A thread that can go on does; nothing makes the device be asked again.  *)
FairSpec == Spec /\ \A t \in Threads : WF_vars(Handle(t))

----------------------------------------------------------------------------
(* Properties.                                                             *)

(* Types; the lock is held exactly while a thread is under it.             *)
TypeOK ==
  /\ clock \in Nat /\ requests \in Nat /\ databases \in Nat /\ clients \in Nat
  /\ cache \in Nat \cup {None}
  /\ lock \in Threads \cup {None}
  /\ step \in [Threads -> Steps]
  /\ now \in [Threads -> Nat]
  /\ token \in [Threads -> Nat \cup {None}]
  /\ \A t \in Threads : step[t] \in {"recheck", "mint"} <=> lock = t

(* The comment "Apple limits how often the token is renewed": consecutive  *)
(* tokens are dated at least Ttl apart, however many threads find the old  *)
(* one expired at once and whenever they read the clock.                   *)
RenewalsApart == [][cache' # cache /\ cache # None => cache' - cache >= Ttl]_vars

(* Every push carries a token, and the token is younger than Ttl + MaxWait *)
(* when it is sent, however long the thread waited for locks in between:   *)
(* Apple's hour is kept if MaxWait is below the ten minutes' margin.       *)
TokenStillValid == \A t \in Threads : step[t] \in {"client", "newclient", "post"} =>
  token[t] # None /\ clock - token[t] < Ttl + MaxWait

(* _get_http_client: all threads share one HTTP/2 client.                  *)
OneHttpClient == clients <= 1

(* get_db takes no lock, so requests that find _db unset at once make a    *)
(* client each; but however many requests come, the clients made are no    *)
(* more than the threads.                                                  *)
ClientPerThread == databases <= Cardinality(Threads)

(* No failure leaves the lock taken: every request ends.                   *)
EveryPushEnds == \A t \in Threads : step[t] # "idle" ~> step[t] = "idle"
============================================================================
