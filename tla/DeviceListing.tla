---------------------------- MODULE DeviceListing ----------------------------
(***************************************************************************)
(* Listing the Apple devices page by page: list_all_devices                *)
(* (app/admin.py) and list_devices (app/db.py), called by a client that    *)
(* follows next_cursor, while devices enrol. Devices are numbers in the    *)
(* order of their document names. Looking up the cursor's document and     *)
(* running the query are two Firestore calls.                              *)
(***************************************************************************)
EXTENDS Integers, Sequences

CONSTANTS
  Devices,     \* possible devices, positive numbers
  MaxPage,     \* the largest page_size accepted (500 in the code)
  Sizes,       \* page sizes a client asks for
  None

ASSUME ListingAssumption ==
  /\ Devices \subseteq Nat \ {0}
  /\ MaxPage \in Nat \ {0} /\ Sizes \subseteq Int
  /\ None \notin Nat

VARIABLES
  devices,   \* the device documents
  step,      \* "idle", "lookup", "query", "ended" or "refused"
  size,      \* page_size of the walk
  cursor,    \* the cursor of the next request, or None
  after,     \* where the query starts; 0: at the first device
  listed,    \* the devices of the pages so far
  start,     \* history: where the walk's first page starts
  initial    \* history: the devices there were when it started

vars == <<devices, step, size, cursor, after, listed, start, initial>>

Init ==
  /\ devices \in SUBSET Devices
  /\ step = "idle" /\ size = 1 /\ cursor = None /\ after = 0
  /\ listed = <<>> /\ start = 0 /\ initial = {}

(* A check-in makes a device document.                                     *)
Enrol(d) ==
  /\ d \notin devices
  /\ devices' = devices \cup {d}
  /\ UNCHANGED <<step, size, cursor, after, listed, start, initial>>

(* Mutant: only the upper bound is checked.                                *)
ValidAny(n) == n <= MaxPage

Valid(n) == 1 <= n /\ n <= MaxPage

(* Each page is a new request of the same client.                          *)
Request(n, c) ==
  /\ step' = IF Valid(n) THEN "lookup" ELSE "refused"
  /\ size' = n /\ cursor' = c

(* A client starts a walk, at the beginning or at a UDID it remembers.     *)
Begin(n, c) ==
  /\ step = "idle"
  /\ Request(n, c)
  /\ initial' = devices
  /\ UNCHANGED <<devices, after, listed, start>>

(* A cursor nobody knows is ignored.                                       *)
Lookup ==
  /\ step = "lookup"
  /\ after' = IF cursor \in devices THEN cursor ELSE 0
  /\ step' = "query"
  /\ start' = IF listed = <<>> THEN after' ELSE start
  /\ UNCHANGED <<devices, size, cursor, listed, initial>>

(* Mutant: the query starts at the cursor instead of after it.             *)
FollowingInclusive(a) == {d \in devices : d >= a}

Following(a) == {d \in devices : d > a}

(* order_by("__name__").limit(n): in order, and only what comes behind a   *)
(* full page is left out. (There is exactly one such page.)                *)
Ascending(p) == \A i, j \in DOMAIN p : i < j => p[i] < p[j]
Members(p) == {p[i] : i \in DOMAIN p}
Last(p) == p[Len(p)]

Pages(a, n) == {p \in UNION {[1..m -> Following(a)] : m \in 0..n} :
  /\ Ascending(p)
  /\ \A d \in Following(a) \ Members(p) : Len(p) = n /\ Last(p) < d}

(* Mutant: a full page is taken for the last one.                          *)
NextCursorEarly(page, n) == IF Len(page) > n THEN Last(page) ELSE None

(* Mutant: an empty page repeats the cursor it was asked with.             *)
NextCursorKept(page, n) == IF page # <<>> THEN Last(page) ELSE cursor

NextCursor(page, n) == IF page # <<>> /\ Len(page) = n THEN Last(page) ELSE None

Query ==
  /\ step = "query"
  /\ \E page \in Pages(after, size) :
       LET next == NextCursor(page, size)
       IN  /\ listed' = listed \o page
           /\ \/ /\ next # None
                 /\ Request(size, next)
              \/ /\ next = None
                 /\ step' = "ended" /\ cursor' = None
                 /\ UNCHANGED size
  /\ UNCHANGED <<devices, after, start, initial>>

Serve == Lookup \/ Query

Next ==
  \/ \E d \in Devices : Enrol(d)
  \/ \E n \in Sizes, c \in Devices \cup {None} : Begin(n, c)
  \/ Serve

Spec == Init /\ [][Next]_vars
FairSpec == Spec /\ WF_vars(Serve)

----------------------------------------------------------------------------
(* Properties.                                                             *)

(* Types; only a valid page size is ever served.                           *)
TypeOK ==
  /\ devices \subseteq Devices
  /\ step \in {"idle", "lookup", "query", "ended", "refused"}
  /\ step \in {"lookup", "query", "ended"} => size \in 1..MaxPage
  /\ cursor \in Devices \cup {None} /\ after \in Devices \cup {0}
  /\ listed \in Seq(Devices)
  /\ start \in Devices \cup {0} /\ initial \subseteq Devices

(* No device is listed twice, and all come in the order of their names,    *)
(* whatever enrols between the pages or between the two calls of one.      *)
ListedInOrder == Ascending(listed)

(* A walk that has ended has listed every device there was behind its      *)
(* start when it began, and none that does not exist.                      *)
NothingMissed == step = "ended" =>
  /\ {d \in initial : d > start} \subseteq Members(listed)
  /\ Members(listed) \subseteq {d \in devices : d > start}

(* Following next_cursor comes to an end, even if the last page is full.   *)
WalkEnds == step \in {"lookup", "query"} ~> step = "ended"

============================================================================
