# Falko MDM in TLA+

Falko MDM is a small server for managing Apple and Linux devices: a Flask
application behind gunicorn on Cloud Run, with all durable state in Firestore,
and an agent that runs on each Linux device. This directory holds TLA+ models of
its stateful parts, the TLC configurations that check them, and theorems about
them that TLAPS proves.

Why model it at all: the server runs one gunicorn worker with eight threads per
instance, and Cloud Run may start several instances. No handler uses a Firestore
transaction, so each handler is a sequence of separate reads and writes that
interleave with those of every other handler. On top of that devices time out
and repeat requests, threads die half-way, answers get lost, and the Linux agent
is stopped and restarted. The unit tests call one handler at a time against
mocks; none of that is in their reach.

## 1. Inventory

| Component | Source | State it keeps | Operations | Model |
|---|---|---|---|---|
| Apple command queue | `app/mdm.py`, `app/db.py` 122-168, `app/admin.py` 333-378 | `devices/{udid}/commands/*`: `status`, `created_at`, ...; `last_status` of the device | `send_command`, `PUT /mdm` (upsert, ack, dequeue, mark, answer) | `AppleCommandQueue`, `CommandLifecycle`, `AppleDevice` |
| Apple check-in | `app/checkin.py`, `upsert_device` | `devices/{udid}`: `status`, push token and magic | Authenticate, TokenUpdate, CheckOut | `AppleEnrollment`, `AppleDevice` |
| Push and APNs | `app/apns.py`, `trigger_push`, `get_db` | globals `_apns_token_cache`, `_http_client`, `_db` and two locks | `trigger_push`, `send_push` | `ApnsPush`, `AppleDevice` |
| Admin API: access | `app/admin.py` 138-236, 333-378, 419-470; `app/db.py` 173-246 | `users/{email}`: `status`, `role` | log-in, authorize, deny, queue a command | `UserAccess` |
| Admin API: listing | `app/admin.py` 239-265, `list_devices` | none of its own; a client's cursor | a walk over pages | `DeviceListing` |
| Rate limiter | `app/middleware.py` 26-87 | `_request_counts`: a deque per address, per process | `_is_rate_limited` | `RateLimiter` |
| Linux endpoints | `app/linux_checkin.py`, `app/linux_mdm.py`, `app/linux_common.py`, `app/db.py` 251-310 | `linux_devices/{id}`, its `commands/*`, token hash | check-in, poll | `LinuxAgent`, `CommandExecution` |
| Linux agent | `agent/agent.py`, `agent/executor.py` | in memory: token, `last_result`; on disk: the token file | start, check in, poll, dispatch, stop | `LinuxAgent`, `CommandExecution` |
| Security headers, application factory, agent inventory and configuration, Terraform, DLP, scripts | | no run-time state that changes | | not modelled, see section 7 |

How they interact. Administrators call the admin API, which passes the rate
limiter, then `require_auth` (which itself writes the user document), then the
endpoint; `send_command` writes into the command queue, and `trigger_push` asks
Apple to wake the device. A woken device sends `PUT /mdm`: the request carries the
result of the previous command, and its answer the next one. Check-in messages
write the same device document that `/mdm` touches. The Linux agent polls with
the same piggy-backing of results. Components never call one another's handlers:
what they share is Firestore documents and, inside a process, module globals.

What is hard, and what makes each part right:

- **Command queue**: two threads may hold the same pending command at once,
  because `dequeue_command` only reads, and the `sent` mark is a later blind write.
  Right means: no device is given a command twice (some erase the device), never
  another device's, in the order of `created_at` as far as the servers' clocks make one, with the
  reported result recorded, and with every loss explained.
- **Check-in**: repeated messages and late handlers write in any order.
- **A whole device**: it enrols, leaves, is wiped and comes back while commands
  queued for it wait, reports are under way and pushes are sent to a token it may no
  longer have. Right means: no command reaches it a second time in any of its lives, whatever it
  gives up half-way, every lost result and command has a cause, and what waits for it is fetched in the end as long as
  the record holds the push data the device has.
- **APNs**: a stampede when the token expires, stale clock readings, and a
  failure while the lock is held. Apple objects both to old tokens and to frequent
  renewals.
- **Access**: a read-then-write of the user document on every log-in races with
  decisions of administrators about the same document.
- **Rate limiter**: the clock is read before the lock is taken.
- **Listing**: devices enrol between the pages.
- **Linux agent**: commands stay pending until their result is reported, and
  the result lives in memory only. What prevents a second execution is
  the order of things in two programs at once.

`PROJECT.json` lists the hazards at their lines, with the property that would
show each going wrong.

## 2. Modules

| Module | Role |
|---|---|
| `CommandLifecycle` | abstract specification: new, queued, taken, handed, settled; and a weaker one in which a settled command may fall back to handed |
| `AppleCommandQueue` | the queue in detail; maps to `CommandLifecycle`, to the weaker one when devices give up |
| `AppleCommandQueue_proofs` | at most once, right device, right results; order, refinement of both lifecycles, counted losses |
| `AppleEnrollment`, `AppleEnrollment_proofs` | check-in of one Apple device, theorems |
| `AppleDevice`, `AppleDevice_proofs` | composition: `AppleCommandQueue`, `AppleEnrollment` and the push that wakes the device; theorems |
| `CommandExecution` | abstract specification: remote execution of commands |
| `LinuxAgent`, `LinuxAgent_proofs` | one agent with the server's two Linux endpoints; implements `CommandExecution`; theorems |
| `UserAccess`, `UserAccess_proofs` | user documents, authorization, decisions, role check, theorems |
| `ApnsPush`, `ApnsPush_proofs` | shared token and clients of a process, theorems |
| `RateLimiter`, `RateLimiter_proofs` | sliding window, theorems |
| `DeviceListing`, `DeviceListing_proofs` | pagination, theorems |
| `MC*` | small instances for TLC |

Conventions shared by all modules:

- **A step is one Firestore call**, one read or write of a shared global, or what
  is done under one lock. A thread's position in its handler is its `step`;
  `Goto`, `Release` and `Finish` are the bookkeeping of that position. A handler's
  guards and early returns are the conditions of its `Goto`.
- **Threads** are the request threads of all instances together, since
  instances share nothing but Firestore. In `ApnsPush` and `RateLimiter`,
  whose state is in memory, they are the threads of one process.
- **Failures**: a thread dies, a Firestore call raises or an answer is lost in
  `Crash` and `Die`, at any step. A device that times out while the handler goes
  on is `GiveUp`.
- **History variables** are marked `history` where they are declared; no guard
  reads them.
- **Mutants**: an operator with a comment "Mutant: ..." is a plausible bug, placed
  before the definition it would replace. The specification never uses
  it; it shows what the property would catch.
- **Invariants of the proofs** (their names end in `Inv`, most of them) stand with the theorem they serve, in the `_proofs`
  modules; the modules of the components hold the model and the properties worth stating of it. Every one of them was
  first checked by TLC on the instance of its component.

### AppleCommandQueue

`Stamp` and `Enqueue` are the two halves of `send_command` (the time is taken
before the write). `Poll` is a device's request; `Touch`, `Ack`, `Dequeue`,
`Mark` and the answers are `mdm()` line by line. `AnswerCommand` is an answer that
reaches the device, which then meets the command with some outcome and will
report it; `AnswerLost` is one to a connection the device has left; `BuildFails` is
the exception of `_build_command_plist` on a payload no plist can hold. A device
holds one connection at a time and repeats its report until it is answered.
`status` carries the results lower-cased, as `mdm.py` line 110 writes them.

`created_at` is `datetime.now()` of the instance that handles the `send_command` (`admin.py:370`), so `Stamp` takes
any reading of `Stamps`: two commands may have the same time, and a later one an earlier time. The history `ahead` holds the pairs
whose order is beyond dispute: the first could be read before the second was stamped, and has the earlier time.
`RespectsEnqueueOrder` is about those. Of commands with equal times Firestore may return either first.

### AppleDevice

Extends the queue with one device's enrolment (`Enrollment == INSTANCE AppleEnrollment`,
its threads the queue's workers) and with `trigger_push`. `SendCommand` and `Add` are
`send_command` with its 404 for an unknown device; `ReadPushData` and `Push` are `trigger_push` before and
after its slow part, so the token it sends to may be stale (`Wakes`); `LosePush`
is every way a push comes to nothing. The device polls (`PollAwake`) while it is enrolled and
awake, or to repeat a report; an empty answer lets it sleep. It checks in and polls one after the other.

`AbandonPoll` and `AbandonCheckIn` are the time-outs of the two components: the device gives up a request whose thread goes on, and
repeats it, so late marks, unheard answers and late TokenUpdates occur without any departure. `Depart`
is a check-out or a wipe: the connection and the report are gone, and the thread that served it goes on alone.
`crashes`, `departures`, `givenUp` and `missed` count what goes wrong, and `MaxMishaps` bounds them together.

### LinuxAgent

`Start` is `main`, `Send` a check-in or poll, `Finish` the end of `dispatch`. The
server's thread runs `Authenticate`, then `Upsert` or `Touch`, `Ack`, `Dequeue`; the
agent's side of the answer is `Answer`, `Reject` or `Drop`. Nothing in the
repository queues Linux commands, registers a device or installs its token: `Queue`,
`Register`, `InstallToken` and `Relaunch` stand for the operator. Note that `Relaunch`
is needed: an agent without a token exits with 0, and `Restart=on-failure` does
not bring it back. `goingDown` says that `systemctl` has accepted a
reboot or a shutdown. `poll_loop` then sleeps `poll_interval` (900 s unless configured) before it would report
(`agent.py:128-129`, `164`), far longer than a machine takes to go down: so `Send` waits while `goingDown`, and fairness makes the
stop happen (`goingDown /\ Stop`). A device without a token hash is answered 404, or 401 if
somebody has made its document without one (`Verdicts`). `lastSeen` is the field the check-in
overwrites with an empty string. The refinement to `CommandExecution` maps `begun` to the
length of the history `started` and the other variables to themselves: a handed-out command is a
`Begin`, the end of `dispatch` an `End`, the server's write a
`Record`, a stop `Forget`; every other step stutters.

### UserAccess

`Arrive` is a request that reaches `require_auth`, `Verify` the verification of its token, which
for a dangerous command happens a second time and may then fail.
`Lookup`, `Create`, `Login`, `Reread` are `upsert_user` call by call (get; set; update; get).
`Admit` is the decision of `_check_user_access`, `Endpoint` to `Enqueue` the endpoints:
looking up the user to decide about (404), `update_user_status`, and the second
role check for dangerous commands. `judged`, `ever` and `barred` are histories.
`EntryByDecision` compares the moment a request is let in with the last decision about its sender.

### AppleEnrollment

`Compose` to `GiveUp` are the device, which the repository does not contain; `Upsert` and `Answer`
are the handler. A TokenUpdate may lack its Token, PushMagic or Topic (token 0): `checkin.py:79-85` stores the missing part as empty
and records the device as enrolled, which `tests/test_checkin.py:105-117` asserts. `newest` is the token the device was given last, `token`
the push data of its last answered TokenUpdate, and the history `lacking` the tokens it sent incompletely. `late` marks fields last
written by a thread that the device had left: the one circumstance in which the record may differ from what the device said.

### ApnsPush

A request first gets a Firestore client (`get_db`, which takes no lock: `databases` counts those made)
and the device, then the clock. A token is the time in its `iat` claim. The two unlocked reads of the cache in the fast path
(`FastPath`, `TakeCached`) are separate steps. `Mint` happens under the lock, with
the clock reading taken before the wait for it. `Fail` is an exception while signing.

### RateLimiter

`Arrive` reads the clock, `Check` is everything under `_rate_lock`, for the
asking address alone or, one time in a hundred in the code and at any time here,
for all addresses.

### DeviceListing

Devices are numbered in document-name order. `Lookup` finds the cursor's
document, or starts at the first page if there is none; `Query` runs the query and hands out the next cursor, and the client goes
on until there is none. `Pages` describes a page by what the query promises: in order, and nothing left out but behind a full page.

## 3. Runs

| Run | Instance | Checks | States |
|---|---|---|---|
| `AppleQueue_serial` | 2 devices, 3 commands (1 unencodable), 2 threads, 1 crash, patient devices, fairness | `TypeOK`, `LossesAreAccounted`, `ImplementsLifecycle`, `ReportsArrive` | 31,000 |
| `AppleQueue_retry` | 1 device that gives up at will, 2 commands, 2 clock readings, 3 threads, 1 crash | `RespectsEnqueueOrder`, `RecordedIsReported`, `HandoverInv` (`HandedOverOnce` and `HandedToTarget` are parts of it), `ImplementsRetriedLifecycle` | 748,000 |
| `AppleQueue_notnow` | 1 device, 1 command | `DocumentedStatuses`: violated | |
| `AppleDevice` | 2 commands, 2 threads, 2 push tokens, 1 mishap (crash, departure, or poll or check-in given up), fairness | `DeviceTypeOK`, `HandedOverOnce`, `ResultsAccounted`, `LossesThroughLives`, `WokenDeviceDrains` | 217,000 |
| `LinuxAgent` | 2 commands (the second a reboot), 2 threads, 1 fault, 1 stop, 1 rotation, fairness | `TypeOK`, `RunsInOrder`, `ImplementsExecution`, `EveryCommandSettles`, `DeviceIsSeen` | 285,000 |
| `LinuxAgent_power` | 1 reboot command | `AckedBeforeGoingDown`: violated | |
| `UserAccess` | an administrator and a user, 2 threads, 1 command | `TypeOK`, `AdminsAreBootstrap`, `DangerByAdmins`, `DeniedStayOut`, `EntryByDecision` | 871,000 |
| `UserAccess_firstlogin` | the same without commands | `DecisionsStand`: violated | |
| `AppleEnrollment` | 3 push tokens, 3 threads, 2 crashes, giving up, incomplete TokenUpdates | `TypeOK`, `StatusTracksDevice`, `PushDataKept`, `EnrolledCanBeWoken` | 328,000 |
| `ApnsPush` | 2 threads, 4 pushes, life 2, waits of 1, 5 ticks, fairness | `TypeOK`, `TokenStillValid`, `OneHttpClient`, `ClientPerThread`, `RenewalsApart`, `EveryPushEnds` | 65,000 |
| `RateLimiter` | 2 threads, 2 addresses, limit 2, window 2, waits of 1, 5 ticks | `TypeOK`, `AtMostLimitPerWindow`, `RefusedRightly` | 287,000 |
| `DeviceListing` | 6 devices, page sizes 0 to 4 of which 1 to 3 are valid | `TypeOK`, `ListedInOrder`, `NothingMissed`, `WalkEnds` | 125,000 |

What they show, in words: a device is never handed a command twice, not even when it abandons requests that go on in
other threads, and not in a second life after a check-out or a wipe either. Two commands reach it in the order of
their times if the first could be read before the second was stamped; between overlapping requests, or on clocks that
disagree, no order is promised.
With devices that wait for their answers the handlers implement the abstract
life cycle, and the only commands lost are those whose request died or whose
payload cannot be encoded; what is reported arrives. A device loses no more results than it has departed or given up a poll,
and no more encodable commands than those and the died requests together. A device that stays enrolled, with
an administrator who keeps pushing, fetches what waits for it, unless its last TokenUpdate lacked something or a handler it had given up was the last
to write its push data. The Linux agent and its server implement the abstract
remote execution: only a stop of the agent repeats a command, and only real results are recorded. A Linux command is settled in the
end unless it is an accepted reboot or shutdown, or is queued behind one: such a command is never reported, and runs again at every boot
(`LinuxAgent_power`). A device that does not go down again and again shows as seen after each check-in. No race gives anybody else
the admin role, a request is let in only on a standing decision, and a denied
user starts nothing new. A device counts as enrolled without push data only if it has sent a TokenUpdate that lacked some. Tokens are
renewed neither too often nor too late, and `get_db` without its lock makes no more clients than there are
threads. The limiter is exact up to the waiting time of a
thread. A walk lists each device once and misses none.

Why the bounds are enough. Two threads make every pairwise race and three make a
late handler race with two newer ones; two commands make order and
repetition visible and a third belongs to the other device; one crash shows every
place where one may happen, and with two the retry can fail as well. Two readings of the clock
let stamps tie and run backwards; a run without `RespectsEnqueueOrder` needs one reading only, which leaves the query its choice.
In `AppleDevice` two commands make the counting bounds bite: with no mishap nothing may be lost, and with one, one of two. Its two push tokens
let a push go to a token the device no longer has, and the one mishap is in turn a death, a departure that leaves a thread behind,
and a time-out at either endpoint. (With a single command, two mishaps and two crashes were checked too,
with the liveness property, and with two commands and two mishaps the invariants: 310,000 and 2.4 million states.) All its results are NotNow,
which the queue treats as it treats the others; unencodable commands and `ReportsArrive` are in `AppleQueue_serial`. In
`LinuxAgent` one fault may be a time-out whose handler runs on, or a death; the one stop may fall
at any phase, or be that of the reboot. (Two stops, with no rotation, were checked too: 234,000 states.) In `ApnsPush` five ticks with a life of two
make two expiries, and four pushes let both threads meet each of them. In `RateLimiter`
five ticks with a window of two let entries enter, expire and enter again in the
order of another thread's reading. Six devices make two full pages of three, the case with
the cursor on the last device. Bounds in guards are `MaxCrashes`, `MaxToken`,
`MaxFaults`, `MaxStops`, `MaxTokens`, `MaxMishaps`, `MaxCommands`, `MaxTime`, `MaxRequests`: each limits
failures, the environment or the clock, never a handler's own steps, with one
exception: `UserAccess`'s `Enqueue` waits when `MaxCommands` is reached, and the thread
can then only die, which changes nothing another thread sees.
`MaxWait` is not a bound of the checking but an assumption on scheduling, and appears in the
properties. Symmetry among threads (and addresses) is used only in runs without liveness.

Deadlock is checked in the runs of `AppleCommandQueue`. It is not in the others, which come to rest
when their bounds are used up (the clock stops, all devices have enrolled, the
push tokens are used).

## 4. Fairness

- A request thread runs its handler to the end: weak fairness of `Handle` or `Serve`.
  Gunicorn's threads are operating-system threads and every outside call has a
  time-out, after which the handler goes on or raises.
- In `AppleDevice` the device sends what it has to send, and some thread takes it: weak
  fairness of a poll and of a check-in by any thread. Gunicorn's listen queue lets waiting requests in, and Apple
  devices repeat unanswered requests. Nothing forces a device to enrol again, which is why
  `WokenDeviceDrains` excepts devices that stay away.
- The administrator pushes again while commands wait (weak fairness of `ReadPushData`), and a started
  `trigger_push` ends. Not every push that could wake the device is lost: strong fairness of `Wakes /\ Push`,
  the one strong fairness in the project. It is an assumption about APNs, without which no
  command would ever have to be fetched.
- In `AppleQueue_serial` (`FairSpec`) a device sends what it has to report as soon as it can, for the same reason.
- The Linux agent's loop goes on, `dispatch` ends (its subprocesses have time-outs), a machine that has accepted to go down
  does, before the next poll (its `poll_interval` is minutes; `goingDown /\ Stop`), systemd
  restarts a killed agent; the operator registers the device, installs each new token and relaunches
  an agent that had exited for want of one. Without that operator `EveryCommandSettles` would be false.
- No fairness is given to crashes, giving up, departures, rotations or new requests. They are finitely many in each
  instance, by their bounds: a device that times out for ever is promised nothing.
- In `ApnsPush` weak fairness is enough for the lock, because the requests that compete
  for it are finitely many in the instance.

## 5. Disagreements found

Each of these has a run in which TLC finds the violation.

- `AppleQueue_notnow`. A device that answers NotNow asks for the command later.
  `mdm.py:110` stores `notnow`, which no query selects again, and which is none of the
  statuses `db.py:5` lists; the comment at `mdm.py:107` speaks of the sent state.
- `LinuxAgent_power`. `executor.py:25` says its delay gives `poll_loop()` the time to send the
  acknowledgement before the machine goes down. The delay is in the same thread as
  `poll_loop`, which reports only with its next request: the machine goes down first, the command is still
  pending, and after the boot the agent runs it again, for ever. `EveryCommandSettles` therefore leaves out accepted power
  commands and what is queued behind one (`Blocked`).
- `UserAccess_firstlogin`. `db.py:192` says an existing user keeps status and role.
  Two overlapping first requests and a decision between the second's read and its `ref.set` reset
  the decision to pending.

Noticed while modelling, without a run of their own:

- `mdm.py:119`: the blind `sent` mark of a slow thread can overwrite the result another
  thread recorded, when the device gave up a poll and repeated it, or departed meanwhile. The device is not given the
  command again, but the record says `sent` for ever. (This is why `ImplementsLifecycle`
  is checked and proved for devices that wait, and why `ResultsAccounted` allows one lost result for each departure and each poll given up.
  `ImplementsRetriedLifecycle`, checked and proved without that condition, says that nothing else goes wrong: a mark that is late can
  take a recorded result back, but never puts a command back into the queue, hands it over again or changes its outcome.)
- `mdm.py:119` and `124`: the mark precedes the answer, so a lost answer is never
  repeated; a payload with a JSON null is marked sent and then answered with 500.
- `linux_mdm.py:74`: the Linux endpoint never sets `sent`, though `LINUX.md` line 110 lists that status.
- `linux_checkin.py:69`: each check-in writes an empty `last_seen`, because the inventory has none;
  `DeviceIsSeen` shows that the polls that follow repair it.
- `checkin.py:67`: a late Authenticate puts an enrolled device back to authenticating
  until its next TokenUpdate. Likewise a late TokenUpdate (`checkin.py:79-85`), whose device had given it up and
  sent a newer one, puts the older push data back: pushes then go to a token the device no longer has, until its next
  TokenUpdate, and commands wait. `WokenDeviceDrains` and `DocumentIsCurrent` except that state.
- `checkin.py:79-85` records a device as enrolled whose TokenUpdate lacked its PushMagic, Token or Topic, and stores the missing part empty
  (`tests/test_checkin.py:105-117` asserts the acceptance); `admin.py:407` then answers every push with 400. The comment at `admin.py:405-406`
  takes missing push data for an enrolment that is not finished, yet the record says enrolled. `EnrolledCanBeWoken` says that nothing else leads there.
- `admin.py:370`: commands are ordered by the wall clocks of the instances. Two commands sent one after the other may come
  out in the other order if the clocks differ by more than the time between.
- `db.py:43`: `get_db` is not synchronised, so two first requests may make two clients; `ClientPerThread`
  bounds how many.
- `middleware.py:63`: an expired entry behind a younger one is not removed, because the loop stops at the
  first entry that is not expired. The proof shows how little that matters (`RefusalsBacked`).
- `db.py:115`: a full last page comes with a cursor, which leads to an empty page.

## 6. Proofs

All for every value of the constants that satisfies the module's named assumption
(`QueueAssumption`, `DeviceAssumption`, `EnrollmentAssumption`, `AgentAssumption`, `AccessAssumption`, `PushAssumption`,
`LimiterAssumption`, `ListingAssumption`: sets and numbers are what their names say, and `None` is none of them). Some
theorems have a hypothesis of their own, stated in them: `~ CanGiveUp` (devices wait for their answers: `PatientInvariant`,
`QueueImplementsLifecycle`, `LossesExplained`) and a finite number of unencodable commands (`LossesExplained`, which counts them). The theorems are about `Spec`; no fairness is used.

**AppleCommandQueue_proofs**: `TypeCorrect`, `HandoverInvariant`, `AtMostOnce`,
`OnlyToTarget`, `RecordsAreReports`. `HandedOverOnce` alone is not inductive. The
mark does not keep two threads from holding the same command, so what does? The
device hears one connection at a time. The invariant `HandoverInv` says: a
command was met only after it left "pending" (`PendingUnmet`); an answer on its way holds
a marked command (`AnswerMarked`); the thread a device listens to holds no command the
device has met (`ListensToFresh`); reports under way agree with the outcomes (`ReportsAgree`); what was
handed over was met (`HandedWereMet`). A thread that dequeues finds the command
pending, so unmet; while the device listens to that thread no other can hand it
over; when the answer arrives, every other holder has lost the device's ear. The induction
(`HandoverKept`) has a step for each action. Giving up and crashes are covered:
no bound on them is used. `TypeCorrect` includes `WorkerOK`, the small invariant of each thread, on which
the others rest.

The second half of the module shows what `HandoverInv` does not give.

- `FirstComeFirstServed` (`RespectsEnqueueOrder`, with devices that give up too). `OrderInv` relates what still waits to what was
  taken: nothing pending is `ahead` of anything already handed over, or now
  held for the same device (`WaitingBehind`), and the same holds of what the thread the device listens to
  brings (`ComingBehind`). A pair enters `ahead` only when its second command is stamped, which is then neither held nor handed over;
  a dequeue takes a command with the least time, and the first of a pair has the lesser one (`TimesOK`); and a poll begins with empty hands.
  Nothing is assumed of the clocks.
- `PatientInvariant`, for devices that wait: whoever is at work is the thread its device
  waits for, so two threads work for two devices (`Alone`), and the status of a command somebody holds is
  "pending" at the mark and "sent" at the answer. It is not true of devices that give up.
- `QueueImplementsLifecycle`: under `Stage`, `Enqueue` is `Submit`, `Mark` is `Take` (the status is pending by
  `PatientInv`), `AnswerCommand` is `HandOver` (not met before, by `HandoverInv`), and `Ack` is `Settle`, or a
  repetition that writes what is there already (`RecordedIsReported`). All else stutters.
- `QueueImplementsRetriedLifecycle`, with devices that give up too: the same argument (`LifecycleSteps`) without `PatientInv`. An `Enqueue`, a
  dequeue or an answer needs no more than `HandoverInv`; a `Mark` may then meet a command whose result is on record, and that step
  is `Unsettle`. Nothing else can be out of turn.
- `OrderInvariant` is a theorem of its own because the composition cites it. `SomethingIsOldest`: the query of `dequeue_command` has an answer
  whenever something is pending, so no handler of the model is stuck there.
- `LossesExplained` (`LossesAreAccounted`): `LossInv` counts the lost commands other than the unencodable;
  only `Crash` adds to them, and at most the one its thread held (`OnlyCrashesLose`, `CrashLosesOne`).

**AppleDevice_proofs**: `DeviceInvariant`, `OnceInALifetime`, `FirstComeThroughLives`, `DeviceImplementsRetriedLifecycle`,
`OneResultPerLeaving`, `EveryLossHasACause`, `LifeInvariant`, `DeviceTypeCorrect`, `DocumentIsCurrent`. A step of the composition is a
step of the queue, a poll given up among them, leaves the queue alone, is a thread that dies in a check-in, or is a departure (`DeviceSteps`).
A departing device drops its connection and its report, and `HandoverInv` asks nothing of a device that listens to nobody
and reports nothing, so the queue's lemmas carry over, those about the order (`OrderInv`) too. `OneResultPerLeaving` (`ResultsAccounted`)
needs `LeavingInv`: every result that is lost, or may still be lost, is counted, and so is every thread that works for a poll
the device has left and may still overwrite one (`LeftBehind`). A departure drops the device's report or leaves one thread, never
both; a time-out leaves one thread, and the report with the device. That thread costs one result at most: it overwrites one, or dies with
the report it carried. No thread the device still listens to costs any, so no hypothesis about deaths is needed.
`EveryLossHasACause` (`LossesThroughLives`) counts likewise, for commands: those lost otherwise than by their payload, and the threads
that work for a connection the device has left (`Astray`, each of which may lose the command it holds), are together no more than the deaths, departures
and polls given up so far (`AstrayInv`). Only a departure or a time-out makes a thread stray, and the device has one connection to leave.
Neither argument uses a bound on the mishaps; `CountsInvariant` shows that the bound of the model is respected.
The enrolment half is brought in by `CheckIns`, the check-in module read with the composition's variables: `LifeInvariant`
says that its types and its `EnrollmentInv` hold while the queue uses the same threads, because a thread serves one request at a time.
`DeviceTypeCorrect` follows, and so does `DocumentIsCurrent`: the record of a device
with nothing to say is up to date unless a check-in it had given up wrote last. A TokenUpdate always speaks of the newest token (`DeliversNewest`), so
what the device was answered last is that token, if it was complete, and so is what the document holds.

**LinuxAgent_proofs**: `AgentInvariant`, `AgentImplementsExecution`, `InOrder`, `RecordedWasProduced`, `RepeatedOnlyByStops`. `ExecutionInv` says that what
the process has run is recorded, is running, or is the report it carries (`RanIsSettled`); that every report under way is of a result the
command really had (`ReportsTrue`); that what was begun had nothing unrecorded before it (`BegunInOrder`); and that the thread
the agent waits for carries its report, has recorded it before it reads the queue, and brings something fresh (`Serves`).
Threads the agent gave up may do what they like: they only record true results, and nobody hears their answers.
`RecordedWasProduced` follows from `ReportsTrue`; `RepeatedOnlyByStops` counts how often a command was begun (`RepeatsInv`: not more often than there were stops
before the present process, and once more by this one). `OneIsFirst` shows that `dequeue_linux_command` has exactly one answer.

**UserAccess_proofs**: `AccessInvariant`, `RolesAreFixed`, `OnlyAdmins`, `OnlyAuthorized`, `DenialsHold`, `ChainOfTrust`,
`DecisionsStandAfterLogin`. `AccessInv` ties a thread's position
to what has been decided (`RequestOK`), a document that lets its user in to a decision that still stands (`DocumentsOK`), and a request that came after a
denial to that denial still standing (`BarredOK`). A late `ref.set` of a first log-in may undo a decision (section 5), but
only towards pending, and only a bootstrap administrator's goes further: that is the argument, and `OnlyAuthorized` (`EntryByDecision`) follows at the
two steps that let a request in (`EntryStep`).
`ChainOfTrust` is an action property: a step that makes a user authorized for the first time is a decision of a bootstrap administrator or of somebody
authorized before.
`DecisionsStandAfterLogin` delimits the violation of `UserAccess_firstlogin`: once the user's document is there and no thread is about to create it
(`FirstLoginOver`), a decision that stands goes on standing as the last decision made.

**AppleEnrollment_proofs**: `EnrollmentInvariant`, `StatusTracked`, `PushKept`, `EnrolledWakes`. A TokenUpdate carries a token, or one that lacked something has been sent
(`Carries`); it speaks of the newest token (`DeliversNewest`);
once the thread the device waits for has written, the record says what the message says, unless a left thread has written since (`Delivered`).

**RateLimiter_proofs**: `LimiterInvariant`, `TypeCorrect`, `WindowKept`, `RefusalsBacked`.
The invariant `Account(q, l, c)` relates a deque to the log of accepted readings: it is
the newest part of the log, everything missing from it has expired by the clock, and
readings are out of order by at most `MaxWait`. `PurgeEffect` shows what the
purging loop leaves, `PurgeKeeps` that purging with a stale reading keeps the account,
and `AcceptKeeps` that an acceptance does.

**ApnsPush_proofs**: `PushInvariant`, `TypeCorrect`, `TokensApart`, `TokensValid`,
`ClientShared`, `DatabasesFew`. The type invariant ties the lock to the one thread under it; `FreshInv`
says that a thread about to take the cached token found it fresh, and that it stays so,
because renewals only make it younger; a thread about to mint did not find it fresh, and it stays so because it
holds the lock. The claim of `RenewalsApart` follows at `Mint`. For `DatabasesFew` the clients made and the threads
about to make one together are never more than the threads.

**DeviceListing_proofs**: `ListingInvariant`, `TypeCorrect`, `ListsInOrder`, `MissesNothing`, `OnePage`. `ListingInv` says where the client stands:
the query starts at the last device listed (`Position`), which exists, so its lookup succeeds; and every device there was at the
beginning, between the start and that one, has been listed. `PageFacts` says what a page contains, `Longer` that a page
which goes on behind the last device keeps the list in order. A device that enrols behind the client may be listed, one in front of it
is not among those that were there.
`OnePage` shows that `Pages` says what a query returns and no more: it has exactly one member. There is one because a page of n devices that leaves something out is
lengthened by the next device in order (`PageOfEverySize`; the least size without a page would contradict that), and two of them cannot
differ, because the first difference would be a device that one of them leaves out before its end (`NoDifference`).

**Model-checked only**: liveness (`WokenDeviceDrains`, `ReportsArrive`, `EveryCommandSettles`, `DeviceIsSeen`, `EveryPushEnds`,
`WalkEnds`), which this prover does not reach. Every invariant, action property and refinement of the passing runs is a theorem.
The three violated properties are false, so there is nothing to prove.

## 7. Not modelled

- Verification of Google's tokens (`admin.py` 96-135): a library; a request carries a verified address.
- Input validation that answers 400 and changes nothing, formatting of plists and JSON, logging, audit lines.
- Security headers, application factory, `/healthz`: no state that changes after start-up.
- The agent's inventory and configuration: reading and formatting.
- The back-off of `poll_loop`: it only delays the next poll.
- Terraform, Cloud Build, DLP templates and scripts.
- Several processes in the rate limiter: each counts for itself, as `middleware.py:32` says.
- Deletion of documents: nothing in the code deletes any, so a cursor whose device is gone (`db.py:111`) is
  only a cursor that never was one, which `DeviceListing` has.
- In `AppleDevice`, what `ApnsPush` and `UserAccess` say of the administrator's requests: each of
  those is one or two steps there.

## 8. Plan

Done: the command queue with its abstract life cycle, the Linux loop, access, check-in, push, limiter and
listing; their composition around one device; the abstract remote execution; and proofs of every safety property the passing runs check.

What would come next, in this order:

1. `ApnsPush` in the place of the two steps `ReadPushData` and `Push` of `AppleDevice`.
2. The back-off of `poll_loop` as a function of the failures, when a property about its delays is wanted.
