------------------------ MODULE DeviceListing_proofs ------------------------
(***************************************************************************)
(* Proofs about DeviceListing for every set of devices, all page sizes and *)
(* every number of enrolments during a walk.                               *)
(***************************************************************************)
EXTENDS DeviceListing, WellFoundedInduction, TLAPS

(* Why these hold: between two pages the client stands at the last device  *)
(* it has got, and has got every one in front of it.                       *)
Position == IF listed = <<>> THEN start ELSE Last(listed)

ListingInv ==
  /\ ListedInOrder /\ NothingMissed
  /\ initial \subseteq devices
  /\ Members(listed) \subseteq {d \in devices : d > start}
  /\ step = "idle" => listed = <<>>
  /\ step = "lookup" /\ listed # <<>> => cursor = Last(listed)
  /\ step = "query" => after = Position
  /\ step \in {"lookup", "query"} /\ listed # <<>> =>
       \A d \in initial : start < d /\ d <= Last(listed) => d \in Members(listed)

(* What a page shows of the devices it was taken from.                     *)
LEMMA PageFacts ==
  ASSUME ListingAssumption, TypeOK, NEW a \in Devices \cup {0}, NEW n \in 1..MaxPage,
         NEW p \in Pages(a, n)
  PROVE  /\ p \in Seq(devices) /\ p \in Seq(Devices)
         /\ Ascending(p)
         /\ \A i \in DOMAIN p : p[i] \in devices /\ p[i] > a
         /\ \A d \in Following(a) \ Members(p) : p # <<>> /\ Len(p) = n /\ Last(p) < d
<1>1. PICK m \in 0..n : p \in [1..m -> Following(a)]
  BY DEF Pages
<1>2. m \in Nat /\ n \in Nat /\ n >= 1
  BY DEF ListingAssumption
<1>3. /\ p \in Seq(Following(a)) /\ Len(p) = m /\ DOMAIN p = 1..m
  BY <1>1, <1>2
<1>4. Following(a) \subseteq devices /\ \A d \in Following(a) : d > a
  BY DEF Following
<1>5. p \in Seq(devices) /\ p \in Seq(Devices)
  <2>1. p \in [1..m -> devices]
    BY <1>1, <1>4
  <2>2. p \in [1..m -> Devices]
    BY <2>1 DEF TypeOK
  <2> QED BY <1>2, <2>1, <2>2
<1>6. Ascending(p) /\ \A d \in Following(a) \ Members(p) : Len(p) = n /\ Last(p) < d
  BY DEF Pages
<1>7. Len(p) = n => p # <<>>
  BY <1>2, <1>3
<1> QED BY <1>1, <1>3, <1>4, <1>5, <1>6, <1>7

(* A sequence that goes on behind its last member stays in order.          *)
LEMMA Longer ==
  ASSUME NEW s \in Seq(Nat), NEW p \in Seq(Nat), Ascending(s), Ascending(p),
         \A i \in DOMAIN p : s # <<>> => p[i] > Last(s)
  PROVE  /\ Ascending(s \o p)
         /\ Members(s \o p) = Members(s) \cup Members(p)
         /\ p # <<>> => s \o p # <<>> /\ Last(s \o p) = Last(p)
         /\ p = <<>> => s \o p = s
<1> DEFINE t == s \o p
<1>1. /\ t \in Seq(Nat) /\ Len(t) = Len(s) + Len(p)
      /\ \A i \in 1..Len(t) : t[i] = IF i <= Len(s) THEN s[i] ELSE p[i - Len(s)]
  OBVIOUS
<1>2. /\ DOMAIN s = 1..Len(s) /\ DOMAIN p = 1..Len(p) /\ DOMAIN t = 1..Len(t)
      /\ Len(s) \in Nat /\ Len(p) \in Nat
  BY <1>1
<1> HIDE DEF t
<1>3. ASSUME NEW i \in DOMAIN s PROVE i \in DOMAIN t /\ t[i] = s[i]
  BY <1>1, <1>2, <1>3
<1>4. ASSUME NEW i \in DOMAIN p PROVE Len(s) + i \in DOMAIN t /\ t[Len(s) + i] = p[i]
  <2>1. /\ i \in Nat /\ 1 <= i /\ i <= Len(p)
        /\ Len(s) \in Nat /\ Len(p) \in Nat /\ Len(t) = Len(s) + Len(p)
    BY <1>1, <1>2, <1>4
  <2>2. Len(s) + i \in 1..Len(t) /\ ~(Len(s) + i <= Len(s)) /\ (Len(s) + i) - Len(s) = i
    BY <2>1
  <2>3. t[Len(s) + i] = p[(Len(s) + i) - Len(s)]
    BY <1>1, <2>2
  <2> QED BY <1>2, <2>2, <2>3
<1>5. ASSUME NEW i \in DOMAIN t
      PROVE  \/ i \in DOMAIN s /\ t[i] = s[i]
             \/ i - Len(s) \in DOMAIN p /\ i > Len(s) /\ t[i] = p[i - Len(s)]
  BY <1>1, <1>2, <1>5
<1>6. Members(t) = Members(s) \cup Members(p)
  <2>1. Members(t) \subseteq Members(s) \cup Members(p)
    BY <1>5 DEF Members
  <2>2. Members(s) \cup Members(p) \subseteq Members(t)
    BY <1>3, <1>4 DEF Members
  <2> QED BY <2>1, <2>2
<1>7. ASSUME NEW i \in DOMAIN s PROVE s[i] <= Last(s) /\ s # <<>> /\ s[i] \in Nat /\ Last(s) \in Nat
  <2>1. i \in 1..Len(s) /\ Len(s) \in DOMAIN s /\ s[i] \in Nat /\ s[Len(s)] \in Nat
    BY <1>2, <1>7
  <2> QED BY <1>2, <2>1 DEF Ascending, Last
<1>8. ASSUME NEW i \in DOMAIN t, NEW j \in DOMAIN t, i < j PROVE t[i] < t[j]
  <2>1. CASE j \in DOMAIN s
    <3>1. i \in DOMAIN s
      BY <1>2, <1>8, <2>1
    <3> QED BY <1>3, <1>8, <2>1, <3>1 DEF Ascending
  <2>2. CASE i \in DOMAIN s /\ j \notin DOMAIN s
    <3>1. j - Len(s) \in DOMAIN p /\ t[j] = p[j - Len(s)] /\ t[i] = s[i]
      BY <1>3, <1>5, <2>2
    <3>2. p[j - Len(s)] > Last(s) /\ p[j - Len(s)] \in Nat
      BY <1>2, <1>7, <2>2, <3>1
    <3> QED BY <1>7, <2>2, <3>1, <3>2
  <2>3. CASE i \notin DOMAIN s
    <3>1. /\ i - Len(s) \in DOMAIN p /\ t[i] = p[i - Len(s)]
          /\ j - Len(s) \in DOMAIN p /\ t[j] = p[j - Len(s)]
          /\ i - Len(s) < j - Len(s)
      BY <1>2, <1>5, <1>8, <2>3
    <3> QED BY <3>1 DEF Ascending
  <2> QED BY <2>1, <2>2, <2>3
<1>9. p # <<>> => t # <<>> /\ Last(t) = Last(p)
  <2>1. ASSUME p # <<>> PROVE Len(p) \in DOMAIN p
    BY <1>2, <2>1
  <2>2. ASSUME p # <<>> PROVE t # <<>> /\ t[Len(t)] = p[Len(p)]
    <3>1. Len(s) + Len(p) \in DOMAIN t /\ t[Len(s) + Len(p)] = p[Len(p)]
      BY <1>4, <2>1, <2>2
    <3>2. Len(t) \in DOMAIN t /\ t[Len(t)] = p[Len(p)]
      BY <1>1, <3>1
    <3>3. t # <<>>
      BY <3>2
    <3> QED BY <3>2, <3>3
  <2> QED BY <2>2 DEF Last
<1>10. p = <<>> => t = s
  BY DEF t
<1> QED BY <1>6, <1>8, <1>9, <1>10 DEF Ascending, t

Inv == TypeOK /\ ListingInv

(* Before the walk there is nothing listed.                                *)
LEMMA InvInit == ASSUME ListingAssumption, Init PROVE Inv
BY DEF ListingAssumption, Init, Inv, TypeOK, ListingInv, ListedInOrder, NothingMissed,
       Ascending, Members, Position

(* A device that enrols leaves the pages so far alone.                     *)
LEMMA EnrolKeeps ==
  ASSUME ListingAssumption, Inv, NEW d \in Devices, Enrol(d)
  PROVE  Inv'
<1>1. TypeOK'
  BY DEF Inv, TypeOK, Enrol
<1>2. ListingInv'
  BY DEF Inv, ListingInv, Enrol, ListedInOrder, NothingMissed, Ascending, Members, Position, Last
<1> QED BY <1>1, <1>2 DEF Inv

(* A walk begins with the devices there are.                               *)
LEMMA BeginKeeps ==
  ASSUME ListingAssumption, Inv, NEW n \in Sizes, NEW c \in Devices \cup {None}, Begin(n, c)
  PROVE  Inv'
<1>1. listed = <<>> /\ listed' = <<>> /\ step' \in {"lookup", "refused"}
  BY DEF Inv, ListingInv, Begin, Request
<1>2. TypeOK'
  BY <1>1 DEF Inv, TypeOK, ListingAssumption, Begin, Request, Valid
<1>3. ListingInv'
  BY <1>1 DEF Inv, TypeOK, ListingInv, Begin, ListedInOrder, NothingMissed, Ascending, Members
<1> QED BY <1>2, <1>3 DEF Inv

(* The last device listed exists: its document is where the query starts.  *)
LEMMA LookupKeeps ==
  ASSUME ListingAssumption, Inv, Lookup
  PROVE  Inv'
<1>1. TypeOK'
  BY DEF Inv, TypeOK, Lookup
<1>2. CASE listed = <<>>
  <2>1. Members(listed) = {} /\ ListedInOrder
    BY <1>2 DEF Members, ListedInOrder, Ascending
  <2> QED BY <1>1, <1>2, <2>1 DEF Inv, ListingInv, Lookup, ListedInOrder, NothingMissed, Position
<1>3. CASE listed # <<>>
  <2>1. Last(listed) \in Members(listed)
    BY <1>3 DEF Inv, TypeOK, Members, Last
  <2>2. cursor = Last(listed) /\ cursor \in devices
    BY <1>3, <2>1 DEF Inv, ListingInv, Lookup
  <2>3. after' = Last(listed) /\ start' = start
    BY <1>3, <2>2 DEF Lookup
  <2> QED BY <1>1, <1>3, <2>3 DEF Inv, ListingInv, Lookup, ListedInOrder, NothingMissed, Position
<1> QED BY <1>2, <1>3

(* A page goes on where the client stands, and skips nothing.              *)
LEMMA QueryKeeps ==
  ASSUME ListingAssumption, Inv, Query
  PROVE  Inv'
<1>1. PICK p \in Pages(after, size) :
        LET next == NextCursor(p, size)
        IN  /\ listed' = listed \o p
            /\ \/ next # None /\ Request(size, next)
               \/ next = None /\ step' = "ended" /\ cursor' = None /\ UNCHANGED size
  BY DEF Query
<1>2. /\ step = "query" /\ size \in 1..MaxPage /\ after = Position
      /\ after \in Devices \cup {0} /\ start \in Nat /\ Devices \subseteq Nat
      /\ UNCHANGED <<devices, after, start, initial>>
  BY DEF Query, Inv, TypeOK, ListingInv, ListingAssumption
<1>3. /\ p \in Seq(devices) /\ p \in Seq(Devices) /\ Ascending(p)
      /\ \A i \in DOMAIN p : p[i] \in devices /\ p[i] > after
      /\ \A d \in Following(after) \ Members(p) : p # <<>> /\ Len(p) = size /\ Last(p) < d
  BY <1>2, PageFacts DEF Inv
<1>4. /\ listed \in Seq(Nat) /\ p \in Seq(Nat) /\ Ascending(listed)
      /\ Members(listed) \subseteq {d \in devices : d > start}
  <2>1. ASSUME NEW s \in Seq(Devices) PROVE s \in Seq(Nat)
    <3>1. Len(s) \in Nat /\ DOMAIN s = 1..Len(s) /\ s \in [1..Len(s) -> Devices]
      OBVIOUS
    <3>2. s \in [1..Len(s) -> Nat]
      BY <1>2, <3>1
    <3> QED BY <3>1, <3>2
  <2> QED BY <1>3, <2>1 DEF Inv, TypeOK, ListingInv, ListedInOrder
<1>5. listed # <<>> => Last(listed) \in Members(listed) /\ after = Last(listed)
  BY <1>2, <1>4 DEF Members, Last, Position
<1>6. after >= start /\ after \in Nat
  BY <1>2, <1>4, <1>5 DEF Position
<1>7. /\ Ascending(listed')
      /\ Members(listed') = Members(listed) \cup Members(p)
      /\ p # <<>> => listed' # <<>> /\ Last(listed') = Last(p)
      /\ p = <<>> => listed' = listed
  BY <1>1, <1>3, <1>4, <1>5, Longer
<1>8. Members(listed') \subseteq {d \in devices : d > start}
  <2>1. \A d \in Members(p) : d \in devices /\ d > after /\ d \in Nat
    BY <1>3, <1>4 DEF Members
  <2> QED BY <1>2, <1>4, <1>6, <1>7, <2>1
<1>9. ASSUME NEW d \in initial, d > start, d \notin Members(listed')
      PROVE  d \in Following(after) \ Members(p)
  <2>1. d \in devices /\ d \in Nat
    BY <1>2 DEF Inv, TypeOK, ListingInv
  <2>2. d > after
    BY <1>2, <1>5, <1>6, <1>7, <1>9, <2>1 DEF Inv, ListingInv, Position
  <2> QED BY <1>7, <1>9, <2>1, <2>2 DEF Following
<1>10. p # <<>> => Last(p) \in Devices
  BY <1>3 DEF Last
<1>11. CASE NextCursor(p, size) # None
  <2>1. p # <<>> /\ NextCursor(p, size) = Last(p)
    BY <1>11 DEF NextCursor
  <2>2. step' = "lookup" /\ size' = size /\ cursor' = Last(p)
    BY <1>1, <1>2, <1>11, <2>1 DEF Request, Valid, ListingAssumption
  <2>3. TypeOK'
    BY <1>1, <1>2, <1>3, <1>10, <2>1, <2>2 DEF Inv, TypeOK
  <2>4. \A d \in initial : start < d /\ d <= Last(listed') => d \in Members(listed')
    <3> SUFFICES ASSUME NEW d \in initial, start < d, d \notin Members(listed')
                 PROVE  ~(d <= Last(listed'))
      OBVIOUS
    <3>1. Last(p) < d /\ Last(listed') = Last(p)
      BY <1>3, <1>7, <1>9, <2>1
    <3>2. d \in Nat /\ Last(p) \in Nat
      BY <1>2, <1>10, <2>1 DEF Inv, TypeOK
    <3> QED BY <3>1, <3>2
  <2> QED BY <1>2, <1>7, <1>8, <2>1, <2>2, <2>3, <2>4
          DEF Inv, ListingInv, ListedInOrder, NothingMissed
<1>12. CASE NextCursor(p, size) = None
  <2>1. step' = "ended" /\ size' = size /\ cursor' = None
    BY <1>1, <1>12
  <2>2. TypeOK'
    BY <1>1, <1>2, <1>3, <2>1 DEF Inv, TypeOK
  <2>3. ~(p # <<>> /\ Len(p) = size)
    BY <1>2, <1>10, <1>12 DEF NextCursor, ListingAssumption
  <2>4. {d \in initial : d > start} \subseteq Members(listed')
    BY <1>3, <1>9, <2>3
  <2> QED BY <1>2, <1>7, <1>8, <2>1, <2>2, <2>4
          DEF Inv, ListingInv, ListedInOrder, NothingMissed
<1> QED BY <1>11, <1>12

(* However many devices enrol, between the pages and between the two calls *)
(* of one page, the client stands at the last device it was given and has  *)
(* been given every device in front of it.                                 *)
THEOREM ListingInvariant == Spec => []Inv
<1>1. ListingAssumption /\ Init => Inv
  BY InvInit
<1>2. ListingAssumption /\ Inv /\ [Next]_vars => Inv'
  <2> SUFFICES ASSUME ListingAssumption, Inv, [Next]_vars PROVE Inv'
    OBVIOUS
  <2>1. CASE UNCHANGED vars
    BY <2>1 DEF vars, Inv, TypeOK, ListingInv, ListedInOrder, NothingMissed, Ascending,
                Members, Position, Last
  <2>2. CASE Next
    BY <2>2, EnrolKeeps, BeginKeeps, LookupKeeps, QueryKeeps DEF Next, Serve
  <2> QED BY <2>1, <2>2
<1> QED BY <1>1, <1>2, ListingAssumption, PTL DEF Spec

(* list_devices never hands a client a device twice or out of order.       *)
THEOREM ListsInOrder == Spec => []ListedInOrder
<1>1. Inv => ListedInOrder
  BY DEF Inv, ListingInv
<1> QED BY <1>1, ListingInvariant, PTL

(* A walk that ends has listed every device that was there when it began,  *)
(* however list_devices was interleaved with check-ins, and also when the  *)
(* number of devices is a multiple of the page size.                       *)
THEOREM MissesNothing == Spec => []NothingMissed
<1>1. Inv => NothingMissed
  BY DEF Inv, ListingInv
<1> QED BY <1>1, ListingInvariant, PTL

(* The types, and that only a valid page size is ever served.              *)
THEOREM TypeCorrect == Spec => []TypeOK
<1>1. Inv => TypeOK
  BY DEF Inv
<1> QED BY <1>1, ListingInvariant, PTL

----------------------------------------------------------------------------
(* Pages(a, n) stands for one answer of Firestore. It has exactly one      *)
(* member, so that no query of the model is stuck and none has a choice.   *)

(* What Firestore's ordering rests on: among numbers there is a first.     *)
LEMMA LeastNat ==
  ASSUME NEW S \in SUBSET Nat, S # {}
  PROVE  \E m \in S : \A k \in S : m <= k
<1>1. IsWellFoundedOn(OpToRel(<, Nat), Nat)
  BY NatLessThanWellFounded
<1>2. PICK m \in S : \A k \in S : ~ (<<k, m>> \in OpToRel(<, Nat))
  BY <1>1, WFMin
<1>3. \A k \in S : ~ (k < m)
  BY <1>2 DEF OpToRel
<1>4. \A k \in S : m <= k
  BY <1>3
<1> QED BY <1>4

(* The pages of size n, the empty one of size 0 among them.                *)
IsPage(p, a, n) ==
  /\ Len(p) <= n
  /\ Ascending(p)
  /\ \A d \in Following(a) \ Members(p) : Len(p) = n /\ (p # <<>> => Last(p) < d)

(* There is one of every size: the next device in order makes it longer.   *)
LEMMA PageOfEverySize ==
  ASSUME devices \subseteq Nat, NEW a \in Nat, NEW n \in Nat
  PROVE  \E p \in Seq(Following(a)) : IsPage(p, a, n)
<1> DEFINE F == Following(a)
           Without == {k \in Nat : ~ \E p \in Seq(F) : IsPage(p, a, k)}
<1>1. F \in SUBSET Nat
  BY DEF Following
<1> HIDE DEF F
<1>2. ASSUME Without # {} PROVE FALSE
  <2>1. PICK k \in Without : \A j \in Without : k <= j
    BY <1>2, LeastNat
  <2>2. k # 0
    <3>1. <<>> \in Seq(F) /\ IsPage(<<>>, a, 0)
      BY DEF IsPage, Ascending
    <3> QED BY <2>1, <3>1
  <2>3. k - 1 \in Nat /\ k - 1 \notin Without
    BY <2>1, <2>2
  <2>4. PICK p \in Seq(F) : IsPage(p, a, k - 1)
    BY <2>3
  <2>5. Len(p) \in Nat /\ Len(p) <= k /\ k \in Nat
    BY <2>1, <2>4 DEF IsPage
  <2>6. CASE F \ Members(p) = {}
    <3>1. IsPage(p, a, k)
      BY <2>4, <2>5, <2>6 DEF IsPage, F
    <3> QED BY <2>1, <3>1
  <2>7. CASE F \ Members(p) # {}
    <3>1. PICK d \in F \ Members(p) : \A e \in F \ Members(p) : d <= e
      <4>1. F \ Members(p) \in SUBSET Nat
        BY <1>1
      <4> QED BY <2>7, <4>1, LeastNat
    <3>2. Len(p) = k - 1 /\ (p # <<>> => Last(p) < d)
      BY <2>4, <3>1 DEF IsPage, F
    <3>3. p \in Seq(Nat) /\ <<d>> \in Seq(Nat) /\ d \in Nat
      <4>1. Len(p) \in Nat /\ p \in [1..Len(p) -> F]
        OBVIOUS
      <4>2. p \in [1..Len(p) -> Nat]
        BY <1>1, <4>1
      <4> QED BY <1>1, <3>1, <4>1, <4>2
    <3>4. /\ Ascending(<<d>>) /\ Members(<<d>>) = {d} /\ Last(<<d>>) = d
          /\ \A i \in DOMAIN <<d>> : p # <<>> => <<d>>[i] > Last(p)
      <4>1. p # <<>> => Last(p) \in Nat
        BY <3>3 DEF Last
      <4> QED BY <3>2, <3>3, <4>1 DEF Ascending, Members, Last
    <3> DEFINE q == p \o <<d>>
    <3>5. /\ Ascending(q) /\ Members(q) = Members(p) \cup {d}
          /\ q # <<>> /\ Last(q) = d
      BY <2>4, <3>3, <3>4, Longer DEF IsPage
    <3>6. q \in Seq(F) /\ Len(q) = k
      BY <2>4, <2>5, <3>1, <3>2
    <3> HIDE DEF q
    <3>7. \A e \in F \ Members(q) : d < e
      BY <1>1, <3>1, <3>5
    <3>8. IsPage(q, a, k)
      BY <2>5, <3>5, <3>6, <3>7 DEF IsPage, F
    <3> QED BY <2>1, <3>6, <3>8
  <2> QED BY <2>6, <2>7
<1> QED BY <1>2 DEF F

(* So Firestore has an answer to every query.                              *)
LEMMA PageIsThere ==
  ASSUME devices \subseteq Nat, NEW a \in Nat, NEW n \in Nat, n > 0
  PROVE  Pages(a, n) # {}
<1>1. PICK p \in Seq(Following(a)) : IsPage(p, a, n)
  BY PageOfEverySize
<1>2. Len(p) \in 0..n /\ p \in [1..Len(p) -> Following(a)]
  BY <1>1 DEF IsPage
<1>3. Len(p) = n => p # <<>>
  BY <1>1
<1>4. p \in Pages(a, n)
  BY <1>1, <1>2, <1>3 DEF IsPage, Pages
<1> QED BY <1>4

(* Of two numbers.                                                         *)
LEMMA Compared == \A x, y \in Nat : x < y \/ x = y \/ x > y
OBVIOUS

(* r is in order, and of F it leaves out only what comes behind n members; *)
(* i is the first place where r has something that s has not.              *)
Selects(r, F, n) ==
  /\ Len(r) <= n /\ Ascending(r)
  /\ \A k \in DOMAIN r : r[k] \in F
  /\ \A d \in F \ Members(r) : Len(r) = n /\ Last(r) < d

Before(r, s, i) ==
  /\ i \in 1..Len(s) => r[i] < s[i]
  /\ \A j \in 1..(i - 1) : j \in 1..Len(s) /\ r[j] = s[j]

(* What r has there would be left out of s, before the end of s.           *)
LEMMA NoDifference ==
  ASSUME NEW F \in SUBSET Nat, NEW n \in Nat, NEW r \in Seq(Nat), NEW s \in Seq(Nat),
         Selects(r, F, n), Selects(s, F, n), NEW i \in 1..Len(r)
  PROVE  ~ Before(r, s, i)
<1>1. /\ Len(r) \in Nat /\ DOMAIN r = 1..Len(r)
      /\ Len(s) \in Nat /\ DOMAIN s = 1..Len(s)
      /\ i \in Nat /\ i >= 1
      /\ \A k \in 1..Len(r) : r[k] \in Nat
      /\ \A k \in 1..Len(s) : s[k] \in Nat
  OBVIOUS
<1>2. i <= n /\ r[i] \in F /\ Ascending(r) /\ Ascending(s)
  <2>1. Len(r) <= n /\ (\A k \in DOMAIN r : r[k] \in F) /\ Ascending(r) /\ Ascending(s)
    BY Zenon DEF Selects
  <2>2. i <= n
    BY <1>1, <2>1
  <2>3. r[i] \in F
    BY <1>1, <2>1
  <2> QED BY <2>1, <2>2, <2>3
<1> SUFFICES ASSUME Before(r, s, i) PROVE FALSE
  OBVIOUS
<1>3. ASSUME NEW k \in 1..Len(s), s[k] = r[i] PROVE FALSE
  <2>1. CASE k < i
    <3>1. k \in 1..(i - 1) /\ k \in 1..Len(r)
      BY <1>1, <2>1
    <3>2. r[k] = s[k]
      BY <3>1 DEF Before
    <3>3. r[k] < r[i]
      BY <1>1, <1>2, <2>1, <3>1 DEF Ascending
    <3> QED BY <1>1, <1>3, <3>1, <3>2, <3>3
  <2>2. CASE k >= i
    <3>1. i \in 1..Len(s)
      BY <1>1, <2>2
    <3>2. k = i \/ s[i] < s[k]
      <4>1. k = i \/ i < k
        BY <1>1, <2>2
      <4>2. i \in DOMAIN s /\ k \in DOMAIN s
        BY <1>1, <3>1
      <4>3. i < k => s[i] < s[k]
        BY <1>2, <4>2 DEF Ascending
      <4> QED BY <4>1, <4>3
    <3>3. r[i] < s[i] /\ r[i] \in Nat /\ s[i] \in Nat /\ s[k] \in Nat
      BY <1>1, <3>1 DEF Before
    <3> QED BY <1>3, <3>2, <3>3
  <2> QED BY <1>1, <2>1, <2>2
<1>4. r[i] \in F \ Members(s)
  BY <1>1, <1>2, <1>3 DEF Members
<1>5. Len(s) = n /\ Last(s) < r[i]
  BY <1>4 DEF Selects
<1>6. i \in 1..Len(s) /\ Len(s) \in 1..Len(s)
  BY <1>1, <1>2, <1>5
<1>7. i = Len(s) \/ s[i] < s[Len(s)]
  <2>1. ~ (i > Len(s))
    BY <1>6
  <2>2. i \in DOMAIN s /\ Len(s) \in DOMAIN s
    BY <1>1, <1>6
  <2>3. i < Len(s) => s[i] < s[Len(s)]
    BY <1>2, <2>2, Zenon DEF Ascending
  <2> QED BY <1>1, <2>1, <2>3, Compared, Zenon
<1>8. r[i] < s[i] /\ r[i] \in Nat /\ s[i] \in Nat /\ s[Len(s)] \in Nat
  BY <1>1, <1>6 DEF Before
<1> QED BY <1>5, <1>7, <1>8 DEF Last

(* So there is no place where two of them differ.                          *)
LEMMA SamePage ==
  ASSUME NEW F \in SUBSET Nat, NEW n \in Nat, NEW p \in Seq(Nat), NEW q \in Seq(Nat),
         Selects(p, F, n), Selects(q, F, n)
  PROVE  p = q
<1> DEFINE Both == 1..Len(p) \cup 1..Len(q)
           Agree(i) == i \in 1..Len(p) /\ i \in 1..Len(q) /\ p[i] = q[i]
           Differ == {i \in Both : ~ Agree(i)}
<1>1. /\ Len(p) \in Nat /\ DOMAIN p = 1..Len(p)
      /\ Len(q) \in Nat /\ DOMAIN q = 1..Len(q)
      /\ \A k \in 1..Len(p) : p[k] \in Nat
      /\ \A k \in 1..Len(q) : q[k] \in Nat
  OBVIOUS
<1>2. ASSUME Differ # {} PROVE FALSE
  <2>1. Differ \in SUBSET Nat
    BY <1>1
  <2>2. PICK i \in Differ : \A j \in Differ : i <= j
    BY <1>2, <2>1, LeastNat
  <2>3. i \in Nat /\ i >= 1 /\ i \in Both
    BY <1>1
  <2>4. \A j \in 1..(i - 1) : j \in 1..Len(p) /\ j \in 1..Len(q) /\ p[j] = q[j]
    <3> TAKE j \in 1..(i - 1)
    <3>1. j \in Both /\ ~ (i <= j)
      BY <1>1, <2>3
    <3> QED BY <2>2, <3>1
  <2>5. ~ (i \in 1..Len(p) /\ (i \in 1..Len(q) => p[i] < q[i]))
    <3> SUFFICES ASSUME i \in 1..Len(p), i \in 1..Len(q) => p[i] < q[i] PROVE FALSE
      OBVIOUS
    <3>1. Before(p, q, i)
      BY <2>4 DEF Before
    <3> QED BY <3>1, NoDifference
  <2>6. ~ (i \in 1..Len(q) /\ (i \in 1..Len(p) => q[i] < p[i]))
    <3> SUFFICES ASSUME i \in 1..Len(q), i \in 1..Len(p) => q[i] < p[i] PROVE FALSE
      OBVIOUS
    <3>1. Before(q, p, i)
      BY <2>4 DEF Before
    <3> QED BY <3>1, NoDifference
  <2>7. i \in 1..Len(p) /\ i \in 1..Len(q) => p[i] # q[i]
    BY <2>2
  <2> QED BY <1>1, <2>3, <2>5, <2>6, <2>7
<1>3. /\ \A k \in 1..Len(p) : k \in 1..Len(q) /\ p[k] = q[k]
      /\ \A k \in 1..Len(q) : k \in 1..Len(p)
  BY <1>2
<1>4. Len(p) = Len(q)
  <2>1. ASSUME Len(p) > Len(q) PROVE FALSE
    <3>1. Len(p) \in 1..Len(p) /\ Len(p) \notin 1..Len(q)
      BY <1>1, <2>1
    <3> QED BY <1>3, <3>1
  <2>2. ASSUME Len(q) > Len(p) PROVE FALSE
    <3>1. Len(q) \in 1..Len(q) /\ Len(q) \notin 1..Len(p)
      BY <1>1, <2>2
    <3> QED BY <1>3, <3>1
  <2> QED BY <1>1, <2>1, <2>2, Compared, Zenon
<1>5. \A k \in 1..Len(p) : p[k] = q[k]
  BY <1>3
<1> QED BY <1>1, <1>4, <1>5

(* And Firestore has only one answer to a query.                           *)
LEMMA PageOnce ==
  ASSUME devices \subseteq Nat, NEW a \in Nat, NEW n \in Nat, n > 0,
         NEW p \in Pages(a, n), NEW q \in Pages(a, n)
  PROVE  p = q
<1>1. Following(a) \in SUBSET Nat
  BY DEF Following
<1>2. ASSUME NEW r \in Pages(a, n) PROVE r \in Seq(Nat) /\ Selects(r, Following(a), n)
  <2>1. PICK m \in 0..n : r \in [1..m -> Following(a)]
    BY DEF Pages
  <2>2. m \in Nat /\ m <= n /\ r \in [1..m -> Nat] /\ DOMAIN r = 1..m
    BY <1>1, <2>1
  <2>3. r \in Seq(Nat) /\ Len(r) = m
    BY <2>2
  <2>4. \A k \in DOMAIN r : r[k] \in Following(a)
    BY <2>1
  <2> QED BY <2>2, <2>3, <2>4 DEF Pages, Selects
<1> QED BY <1>1, <1>2, SamePage

(* A request that has reached the query is always answered, with the one   *)
(* page that order_by("__name__").limit(n) determines.                     *)
THEOREM OnePage ==
  Spec => [](step = "query" => \E p : Pages(after, size) = {p})
<1>1. ASSUME ListingAssumption, Inv, step = "query"
      PROVE  \E p : Pages(after, size) = {p}
  <2>1. /\ devices \subseteq Nat /\ after \in Nat
        /\ size \in Nat /\ size > 0
    BY <1>1 DEF Inv, TypeOK, ListingAssumption
  <2>2. PICK p : p \in Pages(after, size)
    BY <2>1, PageIsThere
  <2>3. \A q \in Pages(after, size) : q = p
    BY <2>1, <2>2, PageOnce
  <2> QED BY <2>2, <2>3
<1>2. ListingAssumption /\ Inv => (step = "query" => \E p : Pages(after, size) = {p})
  BY <1>1
<1> QED BY <1>2, ListingAssumption, ListingInvariant, PTL
============================================================================
