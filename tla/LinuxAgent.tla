----------------------------- MODULE LinuxAgent -----------------------------
(***************************************************************************)
(* One Linux device of Falko MDM: the agent's loop (agent/agent.py,        *)
(* agent/executor.py), the server's two handlers (app/linux_checkin.py,    *)
(* app/linux_mdm.py) and the command documents in app/db.py.               *)
(*                                                                         *)
(* Every Firestore call of a handler is a step; a handler whose agent      *)
(* timed out runs on. Sleeps and the back-off between polls only delay a   *)
(* poll and are left out, but for one thing: an accepted reboot takes the  *)
(* machine down within the poll_interval that the agent sleeps before it   *)
(* would report. Nothing in the repository queues Linux commands  *)
(* or registers the device: Queue and Register stand for the operator.     *)
(***************************************************************************)
EXTENDS Naturals, Sequences

CONSTANTS
  Commands,      \* 1..N, numbered by created_at
  Power,         \* the RebootDevice and ShutDownDevice commands among them
  Workers,       \* request threads of the server
  MaxToken,      \* bound on token rotations
  MaxFaults,     \* bound on requests that time out or die
  MaxStops,      \* bound on stops of the agent process, reboots included
  None

Results == {"acknowledged", "error"}
Reports == [cmd : Commands, result : Results]

ASSUME AgentAssumption ==
  /\ Commands \subseteq Nat \ {0}
  /\ Power \subseteq Commands
  /\ None \notin Commands \cup Workers \cup Reports
  /\ MaxToken \in Nat \ {0} /\ MaxFaults \in Nat /\ MaxStops \in Nat

Phases == {"stopped", "checkin", "polling", "waiting", "executing", "exited"}
Steps == {"idle", "auth", "upsert", "touch", "ack", "dequeue", "answer", "401", "404"}

VARIABLES
  status,        \* status of each command document
  lastSeen,      \* last_seen of the device document: absent, "" or a time
  serverToken,   \* the token whose hash the server stores (0: none)
  fileToken,     \* /etc/falko/device.token (0: missing)
  phase, token, lastResult, running,   \* the agent process
  goingDown,     \* systemctl has accepted a reboot or poweroff
  connection,    \* the thread the agent waits for
  step, request, got,                  \* the request threads
  faults, stops,
  started,       \* history: the commands the agent began to run, in order
  ran,           \* history: those of them the present process began
  produced       \* history: the results each command has had

server == <<status, lastSeen>>
tokens == <<serverToken, fileToken>>
agent == <<phase, token, lastResult, running, goingDown, connection>>
threads == <<step, request, got>>
counters == <<faults, stops>>
history == <<started, ran, produced>>
vars == <<server, tokens, agent, threads, counters, history>>

NoRequest == [kind |-> None, token |-> 0, result |-> None]

Init ==
  /\ status = [c \in Commands |-> "absent"]
  /\ lastSeen = "absent"
  /\ serverToken \in {0, 1}
  /\ fileToken \in {0, 1}
  /\ phase = "stopped" /\ token = 0 /\ lastResult = None /\ running = None
  /\ goingDown = FALSE /\ connection = None
  /\ step = [w \in Workers |-> "idle"]
  /\ request = [w \in Workers |-> NoRequest]
  /\ got = [w \in Workers |-> None]
  /\ faults = 0 /\ stops = 0
  /\ started = <<>> /\ ran = {}
  /\ produced = [c \in Commands |-> {}]

----------------------------------------------------------------------------
(* The operator.                                                           *)

Queue(c) ==
  /\ status[c] = "absent"
  /\ \A b \in Commands : b < c => status[b] # "absent"
  /\ status' = [status EXCEPT ![c] = "pending"]
  /\ UNCHANGED <<lastSeen, tokens, agent, threads, counters, history>>

(* Registers the device or rotates its token on the server.                *)
Register ==
  /\ serverToken < MaxToken
  /\ serverToken' = serverToken + 1
  /\ UNCHANGED <<fileToken, server, agent, threads, counters, history>>

InstallToken ==
  /\ fileToken < serverToken
  /\ fileToken' = serverToken
  /\ UNCHANGED <<serverToken, server, agent, threads, counters, history>>

(* Restart=on-failure does not bring an agent back that exited with 0.     *)
Relaunch ==
  /\ phase = "exited" /\ fileToken # 0
  /\ phase' = "stopped"
  /\ UNCHANGED <<token, lastResult, running, goingDown, connection, server,
                 tokens, threads, counters, history>>

----------------------------------------------------------------------------
(* The agent.                                                              *)

(* main: without a token the process ends, with exit status 0.             *)
Start ==
  /\ phase = "stopped"
  /\ token' = fileToken
  /\ phase' = IF fileToken = 0 THEN "exited" ELSE "checkin"
  /\ UNCHANGED <<lastResult, running, goingDown, connection, server, tokens,
                 threads, counters, history>>

(* checkin, and the request that opens an iteration of poll_loop, for      *)
(* which an agent whose machine goes down does not wake up any more.       *)
Send(w) ==
  /\ phase \in {"checkin", "polling"} /\ ~goingDown
  /\ step[w] = "idle"
  /\ request' = [request EXCEPT ![w] = [kind |-> phase, token |-> token,
                   result |-> IF phase = "polling" THEN lastResult ELSE None]]
  /\ step' = [step EXCEPT ![w] = "auth"]
  /\ phase' = "waiting"
  /\ connection' = w
  /\ UNCHANGED <<token, lastResult, running, goingDown, got, server, tokens,
                 counters, history>>

(* dispatch returns. A power command it reports as acknowledged has only   *)
(* been accepted by systemctl: the machine goes down a little later.       *)
Finish ==
  /\ phase = "executing"
  /\ \E r \in Results :
       /\ lastResult' = [cmd |-> running, result |-> r]
       /\ produced' = [produced EXCEPT ![running] = @ \cup {r}]
       /\ goingDown' = (goingDown \/ (running \in Power /\ r = "acknowledged"))
  /\ phase' = "polling"
  /\ running' = None
  /\ UNCHANGED <<token, connection, started, ran, server, tokens, threads, counters>>

(* The process is killed, by a crash or by the machine going down; systemd *)
(* starts it again, at once or with the machine, with nothing remembered.  *)
Stop ==
  /\ phase \notin {"stopped", "exited"}
  /\ stops < MaxStops
  /\ stops' = stops + 1
  /\ phase' = "stopped" /\ token' = 0 /\ lastResult' = None /\ running' = None
  /\ goingDown' = FALSE /\ connection' = None
  /\ ran' = {}
  /\ UNCHANGED <<faults, started, produced, server, tokens, threads>>

(* Mutant: the result to report is forgotten when a request fails.         *)
GiveUpForgets ==
  /\ phase = "waiting"
  /\ faults < MaxFaults
  /\ faults' = faults + 1
  /\ phase' = "polling" /\ connection' = None /\ lastResult' = None
  /\ UNCHANGED <<token, running, goingDown, stops, server, tokens,
                 threads, history>>

(* The request times out or its connection breaks: the result is kept.     *)
GiveUp ==
  /\ phase = "waiting"
  /\ faults < MaxFaults
  /\ faults' = faults + 1
  /\ phase' = "polling" /\ connection' = None
  /\ UNCHANGED <<token, lastResult, running, goingDown, stops, server, tokens,
                 threads, history>>

----------------------------------------------------------------------------
(* The server's handlers.                                                  *)

(* get_linux_device and the comparison of the token's hash. Without a hash *)
(* there is no document (404), or it has none (401).                       *)
Verdicts(r) ==
  IF serverToken = 0 THEN {"404", "401"}
  ELSE IF r.token # serverToken THEN {"401"}
  ELSE IF r.kind = "checkin" THEN {"upsert"} ELSE {"touch"}

Authenticate(w) ==
  /\ step[w] = "auth"
  /\ \E s \in Verdicts(request[w]) : step' = [step EXCEPT ![w] = s]
  /\ UNCHANGED <<request, got, server, tokens, agent, counters, history>>

(* linux_checkin stores the inventory; collect() has no last_seen, so the  *)
(* handler writes its default, "".                                         *)
Upsert(w) ==
  /\ step[w] = "upsert"
  /\ lastSeen' = ""
  /\ step' = [step EXCEPT ![w] = "answer"]
  /\ UNCHANGED <<status, request, got, tokens, agent, counters, history>>

(* Mutant: last_seen is written only with a result.                        *)
TouchReports(w) ==
  /\ step[w] = "touch"
  /\ lastSeen' = IF request[w].result = None THEN lastSeen ELSE "time"
  /\ step' = [step EXCEPT ![w] = IF request[w].result = None THEN "dequeue" ELSE "ack"]
  /\ UNCHANGED <<status, request, got, tokens, agent, counters, history>>

(* upsert_linux_device with last_seen only; a result is acknowledged next. *)
Touch(w) ==
  /\ step[w] = "touch"
  /\ lastSeen' = "time"
  /\ step' = [step EXCEPT ![w] = IF request[w].result = None THEN "dequeue" ELSE "ack"]
  /\ UNCHANGED <<status, request, got, tokens, agent, counters, history>>

(* Mutant: ack_linux_command is called with its default status.            *)
AckDefault(w) ==
  /\ step[w] = "ack"
  /\ status' = [status EXCEPT ![request[w].result.cmd] = "acknowledged"]
  /\ step' = [step EXCEPT ![w] = "dequeue"]
  /\ UNCHANGED <<lastSeen, request, got, tokens, agent, counters, history>>

Ack(w) ==
  /\ step[w] = "ack"
  /\ status' = [status EXCEPT ![request[w].result.cmd] = request[w].result.result]
  /\ step' = [step EXCEPT ![w] = "dequeue"]
  /\ UNCHANGED <<lastSeen, request, got, tokens, agent, counters, history>>

Pending == {c \in Commands : status[c] = "pending"}

(* Mutant: the query sorts the newest command first.                       *)
NewestInQueue == {c \in Pending : \A b \in Pending : c >= b}

FirstInQueue == {c \in Pending : \A b \in Pending : c <= b}

(* dequeue_linux_command; the command's status is left as it is.           *)
Dequeue(w) ==
  /\ step[w] = "dequeue"
  /\ step' = [step EXCEPT ![w] = "answer"]
  /\ \/ Pending = {} /\ UNCHANGED got
     \/ \E c \in FirstInQueue : got' = [got EXCEPT ![w] = c]
  /\ UNCHANGED <<request, server, tokens, agent, counters, history>>

Release(w) ==
  /\ step' = [step EXCEPT ![w] = "idle"]
  /\ request' = [request EXCEPT ![w] = NoRequest]
  /\ got' = [got EXCEPT ![w] = None]

(* Mutant: last_result is not reset on a 200.                              *)
KeptResult(w) == lastResult

(* poll_loop resets last_result on a 200; checkin has none to reset.       *)
ResultAfter(w) == IF request[w].kind = "polling" THEN None ELSE lastResult

(* 200. The agent drops the result it had to report and runs the command.  *)
Answer(w) ==
  /\ step[w] = "answer"
  /\ connection = w
  /\ connection' = None
  /\ lastResult' = ResultAfter(w)
  /\ running' = got[w]
  /\ IF got[w] = None
     THEN phase' = "polling" /\ UNCHANGED <<started, ran>>
     ELSE /\ phase' = "executing"
          /\ started' = Append(started, got[w])
          /\ ran' = ran \cup {got[w]}
  /\ Release(w)
  /\ UNCHANGED <<token, goingDown, produced, server, tokens, counters>>

(* Mutant: a 401 does not make the agent read its token file again.        *)
RejectNoReread(w) ==
  /\ step[w] \in {"401", "404"}
  /\ connection = w
  /\ phase' = "polling" /\ connection' = None
  /\ Release(w)
  /\ UNCHANGED <<token, lastResult, running, goingDown, server, tokens, counters, history>>

(* 401 or 404. A poll answered with 401 reads the token file again.        *)
Reject(w) ==
  /\ step[w] \in {"401", "404"}
  /\ connection = w
  /\ token' = IF step[w] = "401" /\ request[w].kind = "polling" /\ fileToken # 0
              THEN fileToken ELSE token
  /\ phase' = "polling" /\ connection' = None
  /\ Release(w)
  /\ UNCHANGED <<lastResult, running, goingDown, server, tokens, counters, history>>

(* An answer to a connection the agent has left.                           *)
Drop(w) ==
  /\ step[w] \in {"answer", "401", "404"}
  /\ connection # w
  /\ Release(w)
  /\ UNCHANGED <<server, tokens, agent, counters, history>>

(* The handler dies or raises (500): the agent keeps its result.           *)
Die(w) ==
  /\ step[w] # "idle"
  /\ faults < MaxFaults
  /\ faults' = faults + 1
  /\ IF connection = w THEN phase' = "polling" /\ connection' = None
                       ELSE UNCHANGED <<phase, connection>>
  /\ Release(w)
  /\ UNCHANGED <<token, lastResult, running, goingDown, stops, server, tokens, history>>

Handle(w) ==
  \/ Authenticate(w) \/ Upsert(w) \/ Touch(w) \/ Ack(w) \/ Dequeue(w)
  \/ Answer(w) \/ Reject(w) \/ Drop(w)

Next ==
  \/ \E c \in Commands : Queue(c)
  \/ Register \/ InstallToken \/ Relaunch \/ Start \/ Finish \/ Stop \/ GiveUp
  \/ \E w \in Workers : Send(w) \/ Handle(w) \/ Die(w)

Spec == Init /\ [][Next]_vars

(* Threads run their handlers to the end; the loop and its commands go on; *)
(* a machine that goes down does so, and comes up again (until MaxStops);  *)
(* systemd starts a killed agent; the operator registers the device,       *)
(* installs each new token and relaunches an agent that exited without one.*)
(* (No two steps of the agent, and none of the operator, are enabled at    *)
(* once, so one condition for each of the two says it for every step.)     *)
AgentGoesOn ==
  \/ Start \/ Finish \/ Relaunch \/ (goingDown /\ Stop)
  \/ \E w \in Workers : Send(w)
OperatorGoesOn == InstallToken \/ (serverToken = 0 /\ Register)

Fairness ==
  /\ \A w \in Workers : WF_vars(Handle(w))
  /\ WF_vars(AgentGoesOn) /\ WF_vars(OperatorGoesOn)

FairSpec == Spec /\ Fairness

----------------------------------------------------------------------------
(* Properties.                                                             *)

AgentOK ==
  /\ phase \in Phases /\ token \in 0..MaxToken /\ goingDown \in BOOLEAN
  /\ running \in Commands \cup {None} /\ lastResult \in Reports \cup {None}
  /\ connection \in Workers \cup {None}
  /\ phase = "waiting" <=> connection # None
  /\ phase = "executing" <=> running # None
  /\ lastResult # None => running = None

Requests == [kind : {"checkin", "polling", None}, token : 0..MaxToken,
             result : Reports \cup {None}]

ServerOK ==
  /\ status \in [Commands -> {"absent", "pending"} \cup Results]
  /\ lastSeen \in {"absent", "", "time"}
  /\ serverToken \in 0..MaxToken /\ fileToken \in 0..MaxToken
  /\ step \in [Workers -> Steps] /\ request \in [Workers -> Requests]
  /\ got \in [Workers -> Commands \cup {None}]
  /\ \A w \in Workers : /\ step[w] # "answer" => got[w] = None
                        /\ step[w] = "ack" => request[w].result # None
                        /\ step[w] = "upsert" => request[w].kind = "checkin"

HistoryOK ==
  /\ faults \in 0..MaxFaults /\ stops \in 0..MaxStops
  /\ started \in Seq(Commands) /\ ran \subseteq Commands
  /\ produced \in [Commands -> SUBSET Results]

(* Types, and who waits for what.                                          *)
TypeOK ==
  /\ AgentOK /\ ServerOK /\ HistoryOK
  /\ connection # None => step[connection] # "idle"
  /\ running # None => running \in ran

(* The agent runs commands in queue order and does not start the next one  *)
(* before the previous one's result is recorded, by whatever process.      *)
RunsInOrder == \A i, j \in DOMAIN started :
  i < j => /\ started[i] <= started[j]
           /\ started[i] < started[j] => status[started[i]] \in Results

(* The agent and its server implement the abstract remote execution: lost  *)
(* answers, dying handlers, time-outs and token rotations never make a     *)
(* process repeat a command, though the server keeps it pending until it   *)
(* is told, and a late handler records only what the command really had.   *)
Execution == INSTANCE CommandExecution WITH begun <- Len(started)

ImplementsExecution == Execution!ExecutionSpec

(* A device whose agent runs on is seen in the end: the polls write        *)
(* last_seen again over the empty string every check-in leaves, though the *)
(* check-in of the start-up may fail or come after polls. Excepted is a    *)
(* device that goes down again and again.                                  *)
DeviceIsSeen == <>[](lastSeen = "time") \/ []<>goingDown

(* A queued command is executed and its result recorded in the end,        *)
(* through token rotations, time-outs and restarts: unless it is, or waits *)
(* behind, a reboot or shutdown that systemctl has accepted. Such a        *)
(* command goes unreported and stays first in the queue for every life of  *)
(* the machine.                                                            *)
Blocked(c) == \E p \in Power : p <= c /\ "acknowledged" \in produced[p]

EveryCommandSettles == \A c \in Commands :
  status[c] = "pending" ~> status[c] \in Results \/ Blocked(c)

(* agent/executor.py: the delay before a reboot gives poll_loop the time   *)
(* to send the acknowledgement before the process goes down.               *)
AckedBeforeGoingDown == [][
  goingDown /\ phase' = "stopped" /\ lastResult # None
    => status[lastResult.cmd] = lastResult.result]_vars

============================================================================
