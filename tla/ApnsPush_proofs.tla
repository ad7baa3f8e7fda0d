-------------------------- MODULE ApnsPush_proofs --------------------------
(***************************************************************************)
(* The provider token is renewed Ttl apart and never sent too old, and     *)
(* there is one HTTP client and no more Firestore clients than threads, for*)
(* any number of threads.                                                  *)
(***************************************************************************)
EXTENDS ApnsPush, FiniteSetTheorems, TLAPS

Sending(t) == step[t] \in {"client", "newclient", "post"}

(* What is known of each thread's reading and token, and of the cache.     *)
ClockInv ==
  /\ cache # None => cache <= clock
  /\ \A t \in Threads : Pushing(t) => now[t] <= clock /\ clock - now[t] <= MaxWait

(* A thread that takes the cached token found it fresh, one that mints did *)
(* not; a fresh token stays fresh, because renewals only make it younger.  *)
FreshInv == \A t \in Threads :
  /\ step[t] = "take" => Fresh(cache, now[t])
  /\ step[t] = "mint" => ~ Fresh(cache, now[t])
  /\ Sending(t) => token[t] # None /\ now[t] - token[t] < Ttl

Inv == TypeOK /\ ClockInv /\ FreshInv /\ OneHttpClient

----------------------------------------------------------------------------
LEMMA InitInv == Init => Inv
BY PushAssumption
DEF Init, Inv, TypeOK, Steps, ClockInv, Pushing, FreshInv, Sending, OneHttpClient

(* Apart from Mint and Tick, no step touches the clock or the cache.       *)
LEMMA QuietInv ==
  ASSUME Inv, NEW t \in Threads,
         \/ Request(t) \/ GetDb(t) \/ NewDb(t) \/ ReadDevice(t) \/ ReadClock(t)
         \/ FastPath(t) \/ TakeCached(t) \/ Acquire(t) \/ Recheck(t)
         \/ GetClient(t) \/ NewClient(t) \/ Post(t)
  PROVE  Inv'
<1> USE PushAssumption DEF Inv
<1>1. CASE Request(t) \/ GetDb(t) \/ NewDb(t) \/ ReadDevice(t)
  BY <1>1 DEF Request, GetDb, NewDb, ReadDevice, Goto, TypeOK, Steps, ClockInv,
              Pushing, FreshInv, Sending, OneHttpClient, Fresh
<1>2. CASE ReadClock(t)
  BY <1>2 DEF ReadClock, Goto, TypeOK, Steps, ClockInv, Pushing, FreshInv,
              Sending, OneHttpClient, Fresh
<1>3. CASE FastPath(t)
  BY <1>3 DEF FastPath, Goto, TypeOK, Steps, ClockInv, Pushing, FreshInv,
              Sending, OneHttpClient, Fresh
<1>4. CASE TakeCached(t)
  BY <1>4 DEF TakeCached, Goto, TypeOK, Steps, ClockInv, Pushing, FreshInv,
              Sending, OneHttpClient, Fresh
<1>5. CASE Acquire(t)
  BY <1>5 DEF Acquire, Goto, TypeOK, Steps, ClockInv, Pushing, FreshInv,
              Sending, OneHttpClient, Fresh
<1>6. CASE Recheck(t)
  BY <1>6 DEF Recheck, Goto, TypeOK, Steps, ClockInv, Pushing, FreshInv,
              Sending, OneHttpClient, Fresh
<1>7. CASE GetClient(t) \/ Post(t)
  BY <1>7 DEF GetClient, Post, Goto, TypeOK, Steps, ClockInv, Pushing, FreshInv,
              Sending, OneHttpClient, Fresh
<1>8. CASE NewClient(t)
  BY <1>8 DEF NewClient, ClientsAfter, Goto, TypeOK, Steps, ClockInv, Pushing,
              FreshInv, Sending, OneHttpClient, Fresh
<1> QED
  BY <1>1, <1>2, <1>3, <1>4, <1>5, <1>6, <1>7, <1>8

(* The new token is younger than the one it replaces by Ttl at least, so   *)
(* what other threads found fresh stays fresh.                             *)
LEMMA MintInv ==
  ASSUME Inv, NEW t \in Threads, Mint(t)
  PROVE  /\ Inv'
         /\ cache' # cache /\ cache # None => cache' - cache >= Ttl
<1> USE PushAssumption DEF Inv
<1>1. /\ lock = t /\ now[t] \in Nat /\ now[t] <= clock
      /\ cache # None => cache \in Nat /\ now[t] - cache >= Ttl
  BY DEF Mint, TypeOK, FreshInv, Fresh, ClockInv, Pushing
<1>2. CASE cache' = now[t] /\ token' = [token EXCEPT ![t] = now[t]]
           /\ lock' = None /\ Goto(t, "client")
  <2>1. TypeOK' /\ OneHttpClient'
    BY <1>1, <1>2 DEF Mint, Goto, TypeOK, Steps, OneHttpClient
  <2>2. ClockInv'
    BY <1>1, <1>2 DEF Mint, Goto, TypeOK, ClockInv, Pushing
  <2>3. FreshInv'
    BY <1>1, <1>2 DEF Mint, Goto, TypeOK, FreshInv, Fresh, Sending
  <2> QED
    BY <1>1, <1>2, <2>1, <2>2, <2>3
<1>3. CASE Fail(t)
  BY <1>1, <1>3 DEF Mint, Fail, Goto, TypeOK, Steps, ClockInv, Pushing, FreshInv,
                    Fresh, Sending, OneHttpClient
<1> QED
  BY <1>2, <1>3 DEF Mint

LEMMA NextInv ==
  ASSUME Inv, [Next]_vars
  PROVE  /\ Inv'
         /\ cache' # cache /\ cache # None => cache' - cache >= Ttl
<1>1. CASE Tick
  BY <1>1, PushAssumption DEF Tick, Inv, TypeOK, ClockInv, Pushing, FreshInv, Fresh,
                              Sending, OneHttpClient
<1>2. CASE \E t \in Threads : Mint(t)
  BY <1>2, MintInv
<1>3. ASSUME NEW t \in Threads, Request(t) \/ Handle(t), ~ Mint(t)
      PROVE  Inv' /\ cache' = cache
  <2>1. Inv'
    BY <1>3, QuietInv DEF Handle
  <2>2. cache' = cache
    BY <1>3 DEF Handle, Request, GetDb, NewDb, ReadDevice, ReadClock, FastPath,
                TakeCached, Acquire, Recheck, GetClient, NewClient, Post
  <2> QED  BY <2>1, <2>2
<1>4. CASE UNCHANGED vars
  BY <1>4 DEF vars, Inv, TypeOK, ClockInv, Pushing, FreshInv, Fresh, Sending,
              OneHttpClient
<1> QED
  BY <1>1, <1>2, <1>3, <1>4 DEF Next

(* The invariant the other theorems come from.                             *)
THEOREM PushInvariant == Spec => []Inv
<1>1. Inv /\ [Next]_vars => Inv'
  BY NextInv
<1> QED
  BY InitInv, <1>1, PTL DEF Spec

(* Types, and _token_lock is held exactly while a thread is under it.      *)
THEOREM TypeCorrect == Spec => []TypeOK
<1>1. Inv => TypeOK
  BY DEF Inv
<1> QED
  BY <1>1, PushInvariant, PTL

(* Consecutive provider tokens are dated at least Ttl apart.               *)
THEOREM TokensApart == Spec => RenewalsApart
<1>1. Inv /\ [Next]_vars =>
        [cache' # cache /\ cache # None => cache' - cache >= Ttl]_vars
  BY NextInv
<1> QED
  BY <1>1, PushInvariant, PTL DEF Spec, RenewalsApart

(* No push carries a token older than Ttl + MaxWait.                       *)
THEOREM TokensValid == Spec => []TokenStillValid
<1>1. Inv => TokenStillValid
  <2> SUFFICES ASSUME Inv, NEW t \in Threads, Sending(t)
               PROVE  token[t] # None /\ clock - token[t] < Ttl + MaxWait
    BY DEF TokenStillValid, Sending
  <2>1. token[t] \in Nat /\ now[t] \in Nat /\ clock \in Nat
    BY DEF Inv, TypeOK, FreshInv
  <2>2. now[t] - token[t] < Ttl /\ clock - now[t] <= MaxWait
    BY DEF Inv, FreshInv, ClockInv, Pushing, Sending
  <2> QED
    BY <2>1, <2>2, PushAssumption
<1> QED
  BY <1>1, PushInvariant, PTL

(* All threads share one HTTP/2 client.                                    *)
THEOREM ClientShared == Spec => []OneHttpClient
<1>1. Inv => OneHttpClient
  BY DEF Inv
<1> QED
  BY <1>1, PushInvariant, PTL

----------------------------------------------------------------------------
(* Firestore clients. A thread about to make one found none, and there are *)
(* no more such threads than threads that have not made one.               *)
Making == {t \in Threads : step[t] = "newdb"}
DbInv == databases + Cardinality(Making) <= Cardinality(Threads)

LEMMA MakingFinite ==
  /\ IsFiniteSet(Making)
  /\ Cardinality(Making) \in Nat /\ Cardinality(Threads) \in Nat
  /\ Cardinality(Making) <= Cardinality(Threads)
<1>1. IsFiniteSet(Threads)
  BY PushAssumption
<1>2. Making \in SUBSET Threads
  BY DEF Making
<1>3. IsFiniteSet(Making) /\ Cardinality(Making) <= Cardinality(Threads)
  BY <1>1, <1>2, FS_Subset
<1> QED
  BY <1>1, <1>3, FS_CardinalityType

(* Only GetDb and NewDb have to do with Firestore clients.                 *)
LEMMA DbInvKept ==
  ASSUME TypeOK, DbInv, [Next]_vars
  PROVE  DbInv'
<1>1. databases \in Nat
  BY DEF TypeOK
<1>2. ASSUME UNCHANGED databases, Making' = Making PROVE DbInv'
  BY <1>2 DEF DbInv
<1>3. ASSUME NEW t \in Threads, GetDb(t), databases = 0 PROVE DbInv'
  <2>1. databases' = 0
    BY <1>3 DEF GetDb
  <2>2. Cardinality(Making)' \in Nat /\ Cardinality(Making)' <= Cardinality(Threads)
    <3>1. IsFiniteSet(Threads) /\ Making' \in SUBSET Threads
      BY PushAssumption DEF Making
    <3> QED
      BY <3>1, FS_Subset, FS_CardinalityType
  <2> QED
    BY <2>1, <2>2 DEF DbInv
<1>4. ASSUME NEW t \in Threads, NewDb(t) PROVE DbInv'
  <2>1. t \in Making /\ Making' = Making \ {t} /\ databases' = databases + 1
    BY <1>4 DEF NewDb, Goto, Making, TypeOK
  <2>2. Cardinality(Making') = Cardinality(Making) - 1
    BY <2>1, MakingFinite, FS_RemoveElement
  <2> QED
    BY <1>1, <2>1, <2>2, MakingFinite DEF DbInv
<1>5. ASSUME NEW t \in Threads, Request(t) \/ Handle(t), ~ NewDb(t),
             ~ (GetDb(t) /\ databases = 0)
      PROVE  UNCHANGED databases /\ Making' = Making
  BY <1>5 DEF Request, Handle, GetDb, ReadDevice, ReadClock, FastPath, TakeCached,
     Acquire, Recheck, Mint, Fail, GetClient, NewClient, Post, Goto, Making, TypeOK
<1>6. ASSUME Tick \/ UNCHANGED vars PROVE UNCHANGED databases /\ Making' = Making
  BY <1>6 DEF Tick, vars, Making
<1> QED
  BY <1>2, <1>3, <1>4, <1>5, <1>6 DEF Next

(* However many requests come, a process makes no more Firestore clients   *)
(* than it has threads.                                                    *)
THEOREM DatabasesFew == Spec => []ClientPerThread
<1>1. Init => DbInv
  BY MakingFinite DEF Init, DbInv
<1>2. TypeOK /\ DbInv /\ [Next]_vars => DbInv'
  BY DbInvKept
<1>3. TypeOK /\ DbInv => ClientPerThread
  BY MakingFinite DEF TypeOK, DbInv, ClientPerThread
<1> QED
  BY <1>1, <1>2, <1>3, TypeCorrect, PTL DEF Spec
============================================================================
