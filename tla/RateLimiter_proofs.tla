------------------------- MODULE RateLimiter_proofs -------------------------
(***************************************************************************)
(* The rate limiter keeps its window for every number of threads and       *)
(* addresses and every limit, window and waiting time.                     *)
(***************************************************************************)
EXTENDS RateLimiter, TLAPS, WellFoundedInduction, SequenceTheorems

(* What a deque q is to the readings l accepted so far, at time c: their   *)
(* newest part, from which only expired readings are missing. Readings     *)
(* enter out of order by MaxWait at most.                                  *)
Account(q, l, c) ==
  /\ q \in Seq(Nat) /\ l \in Seq(Nat)
  /\ Len(q) <= Limit /\ Len(q) <= Len(l)
  /\ \A i \in 1..Len(q) : q[i] = l[Len(l) - Len(q) + i]
  /\ \A i \in 1..Len(l) : l[i] <= c
  /\ \A i, j \in 1..Len(l) : i <= j => l[i] - l[j] <= MaxWait
  /\ \A i \in 1..(Len(l) - Len(q)) : c - l[i] > Window
  /\ \A i, j \in 1..Len(l) : j - i >= Limit => l[j] - l[i] > Window - MaxWait

Inv ==
  /\ TypeOK
  /\ \A t \in Threads : /\ now[t] <= clock
                        /\ asking[t] # None => clock - now[t] <= MaxWait
  /\ \A ip \in Ips : Account(counts[ip], log[ip], clock)

----------------------------------------------------------------------------
(* The loop that purges a deque removes its expired head and stops at the  *)
(* first entry that is not expired.                                        *)
LEMMA PurgeEffect ==
  ASSUME NEW q \in Seq(Nat), NEW n \in Nat
  PROVE  LET k == Purgeable(q, n)
         IN  /\ k \in 0..Len(q)
             /\ \A i \in 1..k : Expired(q[i], n)
             /\ k = Len(q) \/ ~ Expired(q[k + 1], n)
<1> DEFINE Stops(k) == /\ \A i \in 1..k : Expired(q[i], n)
                       /\ k = Len(q) \/ ~ Expired(q[k + 1], n)
           Live == {k \in 0..Len(q) : k = Len(q) \/ ~ Expired(q[k + 1], n)}
<1>1. PICK k \in Live : \A y \in Live : ~ (y < k)
  <2>1. Live # {} /\ Live \subseteq Nat
    <3>1. Len(q) \in Live
      BY LenProperties
    <3> QED  BY <3>1
  <2>2. IsWellFoundedOn(OpToRel(<, Nat), Nat)
    BY NatLessThanWellFounded
  <2>3. PICK k \in Live : \A y \in Live : ~ (<<y, k>> \in OpToRel(<, Nat))
    BY <2>1, <2>2, WFMin
  <2> QED
    BY <2>1, <2>3 DEF OpToRel
<1>2. \A i \in 1..k : Expired(q[i], n)
  <2> SUFFICES ASSUME NEW i \in 1..k PROVE Expired(q[i], n)
    OBVIOUS
  <2>1. i - 1 \in 0..Len(q) /\ i - 1 < k /\ i - 1 # Len(q) /\ (i - 1) + 1 = i
    BY LenProperties
  <2> QED
    BY <1>1, <2>1
<1>3. \E m \in 0..Len(q) : Stops(m)
  BY <1>1, <1>2
<1> QED
  BY <1>3 DEF Purgeable

(* The sequences and numbers of an account.                                *)
LEMMA AccountFacts ==
  ASSUME NEW q, NEW l, NEW c, Account(q, l, c)
  PROVE  /\ q \in Seq(Nat) /\ l \in Seq(Nat)
         /\ Len(q) \in Nat /\ Len(l) \in Nat /\ Len(q) <= Len(l)
         /\ \A i \in 1..Len(q) : q[i] \in Nat
         /\ \A i \in 1..Len(l) : l[i] \in Nat
BY DEF Account

(* Index arithmetic: dropping k entries moves both ends alike.             *)
LEMMA SameReading ==
  ASSUME NEW a \in Int, NEW b \in Int, NEW d \in Int,
         NEW k \in Int, NEW i \in Int, d = b - k
  PROVE  a - b + (k + i) = a - d + i
OBVIOUS

(* Not more than a bound is at most the bound.                             *)
LEMMA AtMost ==
  ASSUME NEW a \in Int, NEW b \in Int, NEW d \in Int, ~ (a - b > d)
  PROVE  a - b <= d
OBVIOUS

(* Of two places a distance apart, the last is the end of the sequence or  *)
(* both are in front of it.                                                *)
LEMMA InFront ==
  ASSUME NEW a \in Nat, NEW i \in 1..(a + 1), NEW j \in 1..(a + 1), NEW d \in Nat,
         j - i >= d, j # a + 1
  PROVE  i \in 1..a /\ j \in 1..a
OBVIOUS

(* Purging at a time that is not in the future keeps the account.          *)
LEMMA PurgeKeeps ==
  ASSUME NEW q, NEW l, NEW c \in Nat, NEW n \in Nat, n <= c, Account(q, l, c),
         NEW p, p = Purged(q, n)
  PROVE  /\ Account(p, l, c)
         /\ Len(p) >= 1 => n - p[1] <= Window
<1>k. PICK k \in 0..Len(q) : /\ k = Purgeable(q, n)
                             /\ \A i \in 1..k : Expired(q[i], n)
                             /\ k = Len(q) \/ ~ Expired(q[k + 1], n)
  BY PurgeEffect, AccountFacts
<1>p. p = SubSeq(q, k + 1, Len(q))
  BY <1>k DEF Purged
<1>1. /\ q \in Seq(Nat) /\ l \in Seq(Nat)
      /\ Len(q) \in Nat /\ Len(l) \in Nat /\ Len(q) <= Len(l)
      /\ \A i \in 1..Len(q) : q[i] \in Nat
      /\ \A i \in 1..Len(l) : l[i] \in Nat
      /\ Window \in Nat /\ MaxWait \in Nat /\ Limit \in Nat
  BY AccountFacts, LimiterAssumption
<1>2. /\ p \in Seq(Nat) /\ Len(p) = Len(q) - k
      /\ \A i \in 1..Len(p) : p[i] = q[k + i]
  <2>1. k + 1 \in 1..(Len(q) + 1) /\ Len(q) \in 0..Len(q)
    BY <1>1
  <2>2. \A i \in (k + 1)..Len(q) : q[i] \in Nat
    BY <1>1
  <2> QED
    BY <1>1, <1>p, <2>1, <2>2, SubSeqProperties
<1>n. /\ Len(q) \in Nat /\ Len(l) \in Nat /\ Len(q) <= Len(l)
      /\ k \in Nat /\ k <= Len(q) /\ Len(p) = Len(q) - k
  BY <1>1, <1>2
<1>3. \A i \in 1..Len(p) : p[i] = l[Len(l) - Len(p) + i]
  <2> SUFFICES ASSUME NEW i \in 1..Len(p)
               PROVE  p[i] = l[Len(l) - Len(p) + i]
    OBVIOUS
  <2>1. k + i \in 1..Len(q)
    BY <1>n
  <2>2. Len(l) - Len(q) + (k + i) = Len(l) - Len(p) + i
    BY <1>n, SameReading
  <2> QED
    BY <1>2, <2>1, <2>2 DEF Account
<1>4. \A i \in 1..(Len(l) - Len(p)) : c - l[i] > Window
  <2> SUFFICES ASSUME NEW i \in 1..(Len(l) - Len(p)) PROVE c - l[i] > Window
    OBVIOUS
  <2>1. CASE i <= Len(l) - Len(q)
    BY <1>1, <2>1 DEF Account
  <2>2. CASE i > Len(l) - Len(q)
    <3>1. PICK d \in 1..k : i = Len(l) - Len(q) + d
      <4>1. i - (Len(l) - Len(q)) \in 1..k
        BY <1>n, <2>2
      <4>2. i = Len(l) - Len(q) + (i - (Len(l) - Len(q)))
        BY <1>n
      <4> QED  BY <4>1, <4>2
    <3>2. d \in 1..Len(q) /\ i \in 1..Len(l)
      BY <1>n, <3>1
    <3>3. q[d] = l[i]
      BY <3>1, <3>2 DEF Account
    <3>4. n - l[i] > Window
      BY <1>k, <3>1, <3>3 DEF Expired
    <3>5. l[i] \in Nat /\ Window \in Nat
      BY <1>1, <3>2
    <3> QED
      BY <3>4, <3>5
  <2> QED
    BY <1>n, <2>1, <2>2
<1>5. Len(p) <= Limit /\ Len(p) <= Len(l)
  BY <1>1, <1>2 DEF Account
<1>6. Account(p, l, c)
  BY <1>1, <1>2, <1>3, <1>4, <1>5 DEF Account
<1>7. ASSUME Len(p) >= 1 PROVE n - p[1] <= Window
  <2>1. k # Len(q) /\ k + 1 \in 1..Len(q)
    BY <1>n, <1>7
  <2>2. q[k + 1] \in Nat
    BY <1>1, <2>1
  <2>3. p[1] = q[k + 1]
    <3>1. 1 \in 1..Len(p)
      BY <1>n, <1>7
    <3> QED  BY <1>2, <3>1
  <2>4. ~ (n - q[k + 1] > Window)
    BY <1>k, <2>1 DEF Expired
  <2>5. n - q[k + 1] <= Window
    BY <1>1, <2>2, <2>4, AtMost
  <2> QED
    BY <2>3, <2>5
<1> QED
  BY <1>6, <1>7

(* So does accepting a request that read the clock MaxWait ago at most.    *)
LEMMA AcceptKeeps ==
  ASSUME NEW q, NEW l, NEW c \in Nat, NEW n \in Nat,
         n <= c, c - n <= MaxWait, Account(q, l, c), ~ Full(q),
         NEW p, p = Append(q, n), NEW m, m = Append(l, n)
  PROVE  Account(p, m, c)
<1>1. /\ p \in Seq(Nat) /\ m \in Seq(Nat)
      /\ Len(p) = Len(q) + 1 /\ Len(m) = Len(l) + 1
      /\ \A i \in 1..Len(q) : p[i] = q[i]
      /\ \A i \in 1..Len(l) : m[i] = l[i] /\ l[i] \in Nat
      /\ p[Len(q) + 1] = n /\ m[Len(l) + 1] = n
      /\ Len(q) \in Nat /\ Len(l) \in Nat /\ Len(q) < Limit /\ Len(q) <= Len(l)
      /\ Limit \in Nat /\ MaxWait \in Nat /\ Window \in Nat
  BY AccountFacts, LimiterAssumption DEF Full
<1>n. /\ Len(q) \in Nat /\ Len(l) \in Nat /\ Len(q) < Limit /\ Len(q) <= Len(l)
      /\ Len(p) = Len(q) + 1 /\ Len(m) = Len(l) + 1
      /\ Limit \in Nat /\ MaxWait \in Nat /\ Window \in Nat
  BY <1>1
<1>2. \A i \in 1..Len(p) : p[i] = m[Len(m) - Len(p) + i]
  <2> SUFFICES ASSUME NEW i \in 1..Len(p)
               PROVE  p[i] = m[Len(m) - Len(p) + i]
    OBVIOUS
  <2>1. CASE i = Len(q) + 1
    <3>1. Len(m) - Len(p) + i = Len(l) + 1
      BY <1>n, <2>1
    <3> QED  BY <1>1, <2>1, <3>1
  <2>2. CASE i # Len(q) + 1
    <3>1. i \in 1..Len(q) /\ Len(l) - Len(q) + i \in 1..Len(l)
      BY <1>n, <2>2
    <3>2. Len(m) - Len(p) + i = Len(l) - Len(q) + i
      BY <1>n
    <3> QED  BY <1>1, <3>1, <3>2 DEF Account
  <2> QED  BY <2>1, <2>2
<1>3. \A i \in 1..Len(m) : m[i] <= c
  BY <1>1 DEF Account
<1>4. \A i, j \in 1..Len(m) : i <= j => m[i] - m[j] <= MaxWait
  <2> SUFFICES ASSUME NEW i \in 1..Len(m), NEW j \in 1..Len(m), i <= j
               PROVE  m[i] - m[j] <= MaxWait
    OBVIOUS
  <2>1. CASE j = Len(l) + 1
    BY <1>1, <1>3, <2>1
  <2>2. CASE j # Len(l) + 1
    BY <1>1, <2>2 DEF Account
  <2> QED  BY <2>1, <2>2
<1>5. \A i \in 1..(Len(m) - Len(p)) : c - m[i] > Window
  BY <1>1 DEF Account
<1>6. \A i, j \in 1..Len(m) : j - i >= Limit => m[j] - m[i] > Window - MaxWait
  <2> SUFFICES ASSUME NEW i \in 1..Len(m), NEW j \in 1..Len(m), j - i >= Limit
               PROVE  m[j] - m[i] > Window - MaxWait
    OBVIOUS
  <2>1. CASE j = Len(l) + 1
    <3>1. i \in 1..(Len(l) - Len(q)) /\ i \in 1..Len(l)
      BY <1>n, <2>1
    <3>2. c - l[i] > Window
      BY <3>1 DEF Account
    <3>3. m[i] = l[i] /\ m[i] \in Nat /\ m[j] = n
      BY <1>1, <2>1, <3>1
    <3> QED  BY <1>n, <3>2, <3>3
  <2>2. CASE j # Len(l) + 1
    <3>1. i \in 1..Len(l) /\ j \in 1..Len(l)
      BY <1>n, <2>2, InFront
    <3>2. l[j] - l[i] > Window - MaxWait
      BY <3>1 DEF Account
    <3> QED  BY <1>1, <3>1, <3>2
  <2> QED  BY <2>1, <2>2
<1>7. Len(p) <= Limit /\ Len(p) <= Len(m)
  BY <1>n
<1> QED
  BY <1>1, <1>2, <1>3, <1>4, <1>5, <1>6, <1>7 DEF Account

----------------------------------------------------------------------------
(* What a check finds after its purge, whichever addresses it swept.       *)
LEMMA SweepKeeps ==
  ASSUME Inv, NEW t \in Threads, asking[t] \in Ips,
         NEW swept \in {{asking[t]}, Ips}, NEW left,
         left = [x \in Ips |-> IF x \in swept THEN Purged(counts[x], now[t])
                                              ELSE counts[x]]
  PROVE  /\ \A x \in Ips : Account(left[x], log[x], clock)
         /\ left[asking[t]] = Purged(counts[asking[t]], now[t])
<1>1. now[t] \in Nat /\ now[t] <= clock /\ clock \in Nat
  BY DEF Inv, TypeOK
<1>2. \A x \in Ips : Account(Purged(counts[x], now[t]), log[x], clock)
  BY <1>1, PurgeKeeps DEF Inv
<1> QED
  BY <1>2 DEF Inv

(* The last Limit readings behind a full deque whose head is fresh are     *)
(* MaxWait older than the window at most.                                  *)
LEMMA BackedBy ==
  ASSUME NEW p, NEW l, NEW c, Account(p, l, c), Full(p),
         NEW n \in Nat, Len(p) >= 1 => n - p[1] <= Window
  PROVE  /\ Len(l) >= Limit
         /\ \A i \in 1..Limit : n - l[Len(l) - Limit + i] <= Window + MaxWait
<1>1. /\ Len(p) >= Limit /\ Len(p) \in Nat /\ Len(l) \in Nat
      /\ Len(p) <= Len(l) /\ Limit \in Nat \ {0}
      /\ Window \in Nat /\ MaxWait \in Nat
      /\ \A i \in 1..Len(l) : l[i] \in Nat
  BY AccountFacts, LimiterAssumption DEF Full
<1>n. /\ Len(p) >= Limit /\ Len(p) \in Nat /\ Len(l) \in Nat
      /\ Len(p) <= Len(l) /\ Limit \in Nat \ {0}
  BY <1>1
<1>2. ASSUME NEW i \in 1..Limit
      PROVE  n - l[Len(l) - Limit + i] <= Window + MaxWait
  <2>1. PICK m \in 1..Len(l) : m = Len(l) - Limit + i
    <3>1. Len(l) - Limit + i \in 1..Len(l)
      BY <1>n
    <3> QED  BY <3>1
  <2>2. PICK first \in 1..Len(l) : first = Len(l) - Len(p) + 1 /\ first <= m
    <3>1. Len(l) - Len(p) + 1 \in 1..Len(l) /\ Len(l) - Len(p) + 1 <= m
      BY <1>n, <2>1
    <3> QED  BY <3>1
  <2>3. 1 \in 1..Len(p)
    BY <1>1
  <2>4. p[1] = l[first]
    BY <2>2, <2>3 DEF Account
  <2>5. l[first] - l[m] <= MaxWait
    BY <2>2 DEF Account
  <2>6. p[1] \in Nat /\ l[m] \in Nat /\ n - p[1] <= Window
    BY <1>1, <2>3, <2>4
  <2>7. n - l[m] <= Window + MaxWait
    BY <2>4, <2>5, <2>6, LimiterAssumption
  <2> QED
    BY <2>1, <2>7
<1> QED
  BY <1>1, <1>2

LEMMA InitInv == Init => Inv
<1> SUFFICES ASSUME Init PROVE Inv
  OBVIOUS
<1>1. TypeOK
  BY LimiterAssumption DEF Init, TypeOK
<1>2. \A ip \in Ips : Account(counts[ip], log[ip], clock)
  BY LimiterAssumption DEF Init, Account
<1> QED
  BY <1>1, <1>2 DEF Init, Inv

LEMMA CheckInv ==
  ASSUME Inv, NEW t \in Threads, Check(t)
  PROVE  Inv'
<1> DEFINE ip == asking[t]
<1>1. PICK swept \in {{ip}, Ips} :
        LET left == [x \in Ips |-> IF x \in swept THEN Purged(counts[x], now[t])
                                                  ELSE counts[x]]
        IN  /\ ip # None
            /\ asking' = [asking EXCEPT ![t] = None]
            /\ \/ Full(left[ip]) /\ counts' = left /\ UNCHANGED log
               \/ /\ ~ Full(left[ip])
                  /\ counts' = [left EXCEPT ![ip] = Append(left[ip], now[t])]
                  /\ log' = [log EXCEPT ![ip] = Append(log[ip], now[t])]
            /\ UNCHANGED <<clock, now>>
  BY DEF Check
<1> DEFINE left == [x \in Ips |-> IF x \in swept THEN Purged(counts[x], now[t])
                                                 ELSE counts[x]]
<1>2. ip \in Ips
  BY <1>1 DEF Inv, TypeOK
<1>3. \A x \in Ips : Account(left[x], log[x], clock)
  BY <1>2, SweepKeeps
<1>4. left = [x \in Ips |-> left[x]]
  OBVIOUS
<1> HIDE DEF left
<1>5. now[t] \in Nat /\ clock \in Nat /\ now[t] <= clock /\ clock - now[t] <= MaxWait
  BY <1>1 DEF Inv, TypeOK
<1>6. \A x \in Ips : Account(counts'[x], log'[x], clock)
  <2>1. CASE Full(left[ip]) /\ counts' = left /\ UNCHANGED log
    BY <1>3, <2>1
  <2>2. CASE /\ ~ Full(left[ip])
             /\ counts' = [left EXCEPT ![ip] = Append(left[ip], now[t])]
             /\ log' = [log EXCEPT ![ip] = Append(log[ip], now[t])]
    <3>1. Account(Append(left[ip], now[t]), Append(log[ip], now[t]), clock)
      BY <1>2, <1>3, <1>5, <2>2, AcceptKeeps
    <3>2. log = [x \in Ips |-> log[x]]
      BY DEF Inv, TypeOK
    <3> SUFFICES ASSUME NEW x \in Ips PROVE Account(counts'[x], log'[x], clock)
      OBVIOUS
    <3>3. CASE x = ip
      <4>1. /\ counts'[x] = Append(left[ip], now[t])
            /\ log'[x] = Append(log[ip], now[t])
        BY <1>2, <1>4, <2>2, <3>2, <3>3
      <4> QED  BY <3>1, <4>1
    <3>4. CASE x # ip
      <4>1. counts'[x] = left[x] /\ log'[x] = log[x]
        BY <1>4, <2>2, <3>2, <3>4
      <4> QED  BY <1>3, <4>1
    <3> QED  BY <3>3, <3>4
  <2> QED
    BY <1>1, <2>1, <2>2 DEF left
<1>7. DOMAIN counts' = Ips /\ DOMAIN log' = Ips /\ counts' = [x \in Ips |-> counts'[x]]
                           /\ log' = [x \in Ips |-> log'[x]]
  BY <1>1, <1>4 DEF left, Inv, TypeOK
<1>8. TypeOK'
  BY <1>1, <1>6, <1>7 DEF Inv, TypeOK, Account
<1>9. \A u \in Threads : /\ now'[u] <= clock'
                         /\ asking'[u] # None => clock' - now'[u] <= MaxWait
  BY <1>1 DEF Inv, TypeOK
<1> QED
  BY <1>1, <1>6, <1>8, <1>9 DEF Inv

LEMMA NextInv == Inv /\ [Next]_vars => Inv'
<1> SUFFICES ASSUME Inv, [Next]_vars PROVE Inv'
  OBVIOUS
<1>1. CASE Tick
  <2>1. TypeOK' /\ clock \in Nat
    BY <1>1 DEF Inv, TypeOK, Tick
  <2>2. \A t \in Threads : /\ now'[t] <= clock'
                           /\ asking'[t] # None => clock' - now'[t] <= MaxWait
    BY <1>1, LimiterAssumption DEF Inv, TypeOK, Tick
  <2>3. \A ip \in Ips : Account(counts[ip], log[ip], clock + 1)
    <3> SUFFICES ASSUME NEW q, NEW l, Account(q, l, clock)
                 PROVE  Account(q, l, clock + 1)
      BY DEF Inv
    <3>1. \A i \in 1..Len(l) : l[i] \in Nat /\ l[i] <= clock + 1
      BY <2>1 DEF Account
    <3>2. \A i \in 1..(Len(l) - Len(q)) : (clock + 1) - l[i] > Window
      <4> SUFFICES ASSUME NEW i \in 1..(Len(l) - Len(q))
                   PROVE  (clock + 1) - l[i] > Window
        OBVIOUS
      <4>1. i \in 1..Len(l) /\ clock - l[i] > Window
        BY DEF Account
      <4> QED  BY <2>1, <3>1, <4>1, LimiterAssumption
    <3> QED  BY <3>1, <3>2 DEF Account
  <2> QED
    BY <1>1, <2>1, <2>2, <2>3 DEF Inv, Tick
<1>2. CASE \E t \in Threads : Check(t)
  BY <1>2, CheckInv
<1>3. CASE \E t \in Threads, ip \in Ips : Arrive(t, ip)
  BY <1>3, LimiterAssumption DEF Inv, TypeOK, Arrive
<1>4. CASE UNCHANGED vars
  BY <1>4 DEF Inv, TypeOK, vars
<1> QED
  BY <1>1, <1>2, <1>3, <1>4 DEF Next

(* The invariant the other theorems come from.                             *)
THEOREM LimiterInvariant == Spec => []Inv
BY InitInv, NextInv, PTL DEF Spec

(* Types, and no deque ever holds more than Limit entries.                 *)
THEOREM TypeCorrect == Spec => []TypeOK
<1>1. Inv => TypeOK
  BY DEF Inv
<1> QED
  BY <1>1, LimiterInvariant, PTL

(* No address gets more than Limit requests accepted in                    *)
(* Window - MaxWait, however threads overtake each other.                  *)
THEOREM WindowKept == Spec => []AtMostLimitPerWindow
<1>1. Inv => AtMostLimitPerWindow
  BY DEF Inv, Account, AtMostLimitPerWindow
<1> QED
  BY <1>1, LimiterInvariant, PTL

(* A refusal is backed by Limit acceptances in the last Window + MaxWait.  *)
THEOREM RefusalsBacked == Spec => RefusedRightly
<1>1. ASSUME Inv, [Next]_vars, NEW t \in Threads, Refused(t)
      PROVE  LET l == log[asking[t]]
             IN  /\ Len(l) >= Limit
                 /\ \A i \in 1..Limit :
                      now[t] - l[Len(l) - Limit + i] <= Window + MaxWait
  <2> DEFINE ip == asking[t]
             l == log[ip]
             p == Purged(counts[ip], now[t])
  <2>1. ip \in Ips /\ Check(t)
    <3>1. ip # None /\ asking'[t] = None
      BY <1>1 DEF Refused, Answered
    <3>2. ip \in Ips
      BY <1>1, <3>1 DEF Inv, TypeOK
    <3>3. ~ Tick /\ ~ UNCHANGED vars
      BY <3>1 DEF Tick, vars
    <3>4. \A u \in Threads, x \in Ips : ~ Arrive(u, x)
      BY <1>1, <3>1, LimiterAssumption DEF Arrive, Inv, TypeOK
    <3>5. \A u \in Threads : Check(u) => u = t
      BY <1>1, <3>1 DEF Check, Inv, TypeOK
    <3> QED  BY <1>1, <3>2, <3>3, <3>4, <3>5 DEF Next
  <2>2. Full(p)
    <3>1. PICK swept \in {{ip}, Ips} :
            LET left == [x \in Ips |-> IF x \in swept THEN Purged(counts[x], now[t])
                                                      ELSE counts[x]]
            IN  \/ Full(left[ip])
                \/ log' = [log EXCEPT ![ip] = Append(log[ip], now[t])]
      BY <2>1 DEF Check
    <3>2. log' # [log EXCEPT ![ip] = Append(log[ip], now[t])]
      <4>1. log \in [Ips -> Seq(Nat)] /\ now[t] \in Nat /\ l \in Seq(Nat)
        BY <1>1, <2>1 DEF Inv, TypeOK
      <4>2. Append(l, now[t]) # l
        BY <4>1, Len(Append(l, now[t])) = Len(l) + 1
      <4> QED  BY <1>1, <2>1, <4>1, <4>2 DEF Refused
    <3> QED  BY <2>1, <3>1, <3>2
  <2>3. Account(p, l, clock) /\ (Len(p) >= 1 => now[t] - p[1] <= Window)
    BY <1>1, <2>1, PurgeKeeps DEF Inv, TypeOK
  <2>4. now[t] \in Nat
    BY <1>1 DEF Inv, TypeOK
  <2> QED
    BY <2>2, <2>3, <2>4, BackedBy
<1>2. Inv /\ [Next]_vars => [\A t \in Threads : Refused(t) =>
        LET l == log[asking[t]]
        IN  /\ Len(l) >= Limit
            /\ \A i \in 1..Limit :
                 now[t] - l[Len(l) - Limit + i] <= Window + MaxWait]_vars
  BY <1>1
<1> QED
  BY <1>2, LimiterInvariant, PTL DEF Spec, RefusedRightly
============================================================================
