------------------------- MODULE LinuxAgent_proofs -------------------------
(***************************************************************************)
(* Proofs about LinuxAgent for every number of commands, request threads,  *)
(* token rotations, failing requests and stops of the agent.               *)
(***************************************************************************)
EXTENDS LinuxAgent, FiniteSetTheorems, WellFoundedInduction, TLAPS

(* Why RunsInOrder and ImplementsExecution hold. What the process has run  *)
(* is recorded, except what it runs now or still has to report.            *)
RanIsSettled == \A c \in ran :
  /\ status[c] # "absent"
  /\ \/ status[c] \in Results
     \/ running = c
     \/ lastResult # None /\ lastResult.cmd = c

Truthful(r) == r # None => r.result \in produced[r.cmd]

ReportsTrue ==
  /\ Truthful(lastResult)
  /\ \A w \in Workers : Truthful(request[w].result)
  /\ \A c \in Commands : produced[c] # {} => status[c] # "absent"

(* What was begun had nothing unrecorded before it in the queue.           *)
BegunInOrder ==
  /\ \A b, c \in Commands : b < c /\ status[c] # "absent" => status[b] # "absent"
  /\ \A i \in DOMAIN started : \A c \in Commands :
       c < started[i] => status[c] \in Results

Fresh(c) ==
  /\ status[c] # "absent" /\ c \notin ran
  /\ \A b \in Commands : b < c => status[b] \in Results
  /\ \A i \in DOMAIN started : started[i] <= c

(* The thread the agent waits for carries its report, has recorded it      *)
(* before it reads the queue, and brings a command the process is to run.  *)
Serves(w) ==
  /\ request[w].result = lastResult
  /\ request[w].kind # "polling" => lastResult = None
  /\ step[w] \in {"dequeue", "answer"} /\ lastResult # None
       => status[lastResult.cmd] \in Results
  /\ got[w] # None => Fresh(got[w])

ExecutionInv ==
  /\ RanIsSettled /\ ReportsTrue /\ BegunInOrder
  /\ connection # None => Serves(connection)
  /\ phase \in {"stopped", "checkin", "exited"}
       => lastResult = None /\ running = None /\ ran = {}

LEMMA NoRequestTyped == ASSUME AgentAssumption PROVE NoRequest \in Requests
BY DEF AgentAssumption, NoRequest, Requests

(* The types hold of the initial states.                                   *)
LEMMA InitTypes == ASSUME AgentAssumption, Init PROVE TypeOK
<1>1. AgentOK
  <2>1. token \in 0..MaxToken
    BY DEF AgentAssumption, Init
  <2>2. goingDown \in BOOLEAN
    BY Zenon DEF Init
  <2> QED BY <2>1, <2>2 DEF Init, AgentOK, Phases
<1>2. ServerOK
  BY NoRequestTyped DEF AgentAssumption, Init, ServerOK, Steps
<1>3. HistoryOK
  BY DEF AgentAssumption, Init, HistoryOK
<1> QED
  BY <1>1, <1>2, <1>3 DEF Init, TypeOK

(* What a thread leaves behind when it ends its request.                   *)
LEMMA ReleaseTypes ==
  ASSUME AgentAssumption, ServerOK, NEW w \in Workers, Release(w),
         UNCHANGED <<server, tokens>>
  PROVE  ServerOK' /\ \A v \in Workers \ {w} : step'[v] = step[v]
BY NoRequestTyped DEF ServerOK, Release, Steps, server, tokens

(* What authentication decides.                                            *)
LEMMA AuthenticateEffect ==
  ASSUME NEW w \in Workers, Authenticate(w), ServerOK
  PROVE  /\ UNCHANGED <<request, got, server, tokens, agent, counters, history>>
         /\ step' \in [Workers -> Steps]
         /\ step[w] = "auth" /\ step'[w] \in {"404", "401", "upsert", "touch"}
         /\ step'[w] = "upsert" => request[w].kind = "checkin"
         /\ \A v \in Workers \ {w} : step'[v] = step[v]
<1>1. PICK s \in Verdicts(request[w]) : step' = [step EXCEPT ![w] = s]
  BY DEF Authenticate
<1>2. s \in {"404", "401", "upsert", "touch"} /\ (s = "upsert" => request[w].kind = "checkin")
  BY DEF Verdicts
<1>3. step \in [Workers -> Steps]
  BY DEF ServerOK
<1> QED BY <1>1, <1>2, <1>3 DEF Authenticate, Steps

(* Every step preserves the types. (That an agent that runs a command has  *)
(* nothing to report rests on the rest of the invariant.)                  *)
LEMMA TypeKept ==
  ASSUME AgentAssumption, TypeOK, ExecutionInv, [Next]_vars
  PROVE  TypeOK'
<1> USE DEF server, tokens, agent, threads, counters, history
<1>1. ASSUME NEW c \in Commands, Queue(c) PROVE TypeOK'
  BY <1>1 DEF Queue, TypeOK, AgentOK, ServerOK, HistoryOK
<1>2. CASE Register \/ InstallToken
  <2>1. serverToken' \in 0..MaxToken /\ fileToken' \in 0..MaxToken
    <3> serverToken \in 0..MaxToken /\ fileToken \in 0..MaxToken
      BY DEF TypeOK, ServerOK
    <3>1. CASE Register
      BY <3>1 DEF Register, AgentAssumption
    <3>2. CASE InstallToken
      BY <3>2 DEF InstallToken
    <3> QED BY <1>2, <3>1, <3>2
  <2>2. UNCHANGED <<server, agent, threads, counters, history>>
    BY <1>2 DEF Register, InstallToken
  <2> QED
    BY <2>1, <2>2 DEF TypeOK, AgentOK, ServerOK, HistoryOK
<1>3. CASE Relaunch \/ Start
  BY <1>3 DEF Relaunch, Start, TypeOK, AgentOK, ServerOK, HistoryOK, Phases
<1>4. CASE Finish
  <2>1. PICK r \in Results :
          /\ lastResult' = [cmd |-> running, result |-> r]
          /\ produced' = [produced EXCEPT ![running] = @ \cup {r}]
          /\ goingDown' = (goingDown \/ (running \in Power /\ r = "acknowledged"))
    BY <1>4 DEF Finish
  <2>2. running \in Commands
    BY <1>4 DEF Finish, TypeOK, AgentOK
  <2>3. lastResult' \in Reports /\ goingDown' \in BOOLEAN
    BY <2>1, <2>2 DEF Reports
  <2>4. AgentOK'
    BY <1>4, <2>3 DEF Finish, TypeOK, AgentOK, Phases
  <2>5. HistoryOK'
    BY <1>4, <2>1, <2>2 DEF Finish, TypeOK, HistoryOK
  <2> QED BY <1>4, <2>4, <2>5 DEF Finish, TypeOK, ServerOK, AgentOK
<1>5. CASE Stop
  <2>1. stops' \in 0..MaxStops
    BY <1>5 DEF Stop, TypeOK, HistoryOK, AgentAssumption
  <2>2. token' \in 0..MaxToken
    BY <1>5 DEF Stop, AgentAssumption
  <2>3. goingDown' \in BOOLEAN
    BY <1>5, Zenon DEF Stop
  <2>4. AgentOK'
    BY <1>5, <2>2, <2>3 DEF Stop, AgentOK, Phases
  <2> QED BY <1>5, <2>1, <2>4 DEF Stop, TypeOK, ServerOK, HistoryOK
<1>6. CASE GiveUp
  <2>1. faults' \in 0..MaxFaults
    BY <1>6 DEF GiveUp, TypeOK, HistoryOK, AgentAssumption
  <2> QED
    BY <1>6, <2>1 DEF GiveUp, TypeOK, AgentOK, ServerOK, HistoryOK, Phases
<1>7. ASSUME NEW w \in Workers, Send(w) PROVE TypeOK'
  <2>1. AgentOK'
    BY <1>7 DEF Send, TypeOK, AgentOK, Phases, AgentAssumption
  <2>2. request' \in [Workers -> Requests]
    BY <1>7 DEF Send, TypeOK, AgentOK, ServerOK, Requests
  <2>3. ServerOK'
    BY <1>7, <2>2 DEF Send, TypeOK, ServerOK, Steps
  <2> QED BY <1>7, <2>1, <2>3 DEF Send, TypeOK, ServerOK, HistoryOK
<1>8. ASSUME NEW w \in Workers, Authenticate(w) \/ Upsert(w) \/ Touch(w) PROVE TypeOK'
  <2>1. ServerOK'
    <3>1. CASE Authenticate(w)
      <4>1. ServerOK
        BY DEF TypeOK
      <4>2. /\ UNCHANGED <<request, got, server, tokens>>
            /\ step' \in [Workers -> Steps]
            /\ step'[w] \in {"404", "401", "upsert", "touch"}
            /\ step[w] = "auth"
            /\ step'[w] = "upsert" => request[w].kind = "checkin"
            /\ \A v \in Workers \ {w} : step'[v] = step[v]
        BY <3>1, <4>1, AuthenticateEffect
      <4> QED BY <4>1, <4>2 DEF ServerOK
    <3>2. CASE Upsert(w) \/ Touch(w)
      BY <3>2 DEF Upsert, Touch, TypeOK, ServerOK, Steps
    <3> QED BY <1>8, <3>1, <3>2
  <2>2. connection' # None => step'[connection'] # "idle"
    <3>1. step'[w] # "idle" /\ \A v \in Workers \ {w} : step'[v] = step[v]
      BY <1>8, AuthenticateEffect DEF Upsert, Touch, TypeOK, ServerOK
    <3>2. connection' = connection
      BY <1>8 DEF Authenticate, Upsert, Touch
    <3> QED BY <3>1, <3>2 DEF TypeOK, AgentOK
  <2> QED BY <1>8, <2>1, <2>2 DEF Authenticate, Upsert, Touch, TypeOK, AgentOK, HistoryOK
<1>9. ASSUME NEW w \in Workers, Ack(w) PROVE TypeOK'
  <2>1. request[w].result \in Reports
    <3>1. step[w] = "ack"
      BY <1>9 DEF Ack
    <3>2. request[w].result # None
      BY <3>1 DEF TypeOK, ServerOK
    <3>3. request[w] \in Requests
      BY DEF TypeOK, ServerOK
    <3> QED BY <3>2, <3>3 DEF Requests
  <2>2. ServerOK'
    BY <1>9, <2>1 DEF Ack, TypeOK, ServerOK, Steps, Reports
  <2> QED BY <1>9, <2>2 DEF Ack, TypeOK, AgentOK, ServerOK, HistoryOK
<1>10. ASSUME NEW w \in Workers, Dequeue(w) PROVE TypeOK'
  <2>1. /\ step[w] = "dequeue" /\ step' = [step EXCEPT ![w] = "answer"]
        /\ UNCHANGED <<status, lastSeen, tokens, request>>
    BY <1>10 DEF Dequeue
  <2>2. \/ got' = got
        \/ \E c \in Commands : got' = [got EXCEPT ![w] = c]
    BY <1>10 DEF Dequeue, FirstInQueue, Pending
  <2>3. /\ step' \in [Workers -> Steps]
        /\ got' \in [Workers -> Commands \cup {None}]
        /\ \A v \in Workers \ {w} : step'[v] = step[v] /\ got'[v] = got[v]
        /\ step'[w] = "answer"
    BY <2>1, <2>2 DEF TypeOK, ServerOK, Steps
  <2>4. ServerOK'
    BY <2>1, <2>3 DEF TypeOK, ServerOK
  <2> QED BY <1>10, <2>4 DEF Dequeue, TypeOK, AgentOK, ServerOK, HistoryOK
<1>11. ASSUME NEW w \in Workers, Answer(w) PROVE TypeOK'
  <2>1. ServerOK'
    BY <1>11, ReleaseTypes DEF Answer, TypeOK
  <2>2. running' \in Commands \cup {None} /\ lastResult' \in Reports \cup {None}
    BY <1>11 DEF Answer, ResultAfter, TypeOK, AgentOK, ServerOK
  <2>3. lastResult' # None => running' = None
    <3>1. request[w].kind # "polling" => lastResult = None
      BY <1>11 DEF Answer, ExecutionInv, Serves, TypeOK, AgentOK, AgentAssumption
    <3> QED BY <1>11, <3>1 DEF Answer, ResultAfter
  <2>4. AgentOK'
    BY <1>11, <2>2, <2>3 DEF Answer, TypeOK, AgentOK, Phases, AgentAssumption
  <2>5. HistoryOK' /\ (running' # None => running' \in ran')
    <3>1. CASE got[w] = None
      BY <1>11, <3>1 DEF Answer, TypeOK, HistoryOK
    <3>2. CASE got[w] # None
      <4>1. got[w] \in Commands
        BY <3>2 DEF TypeOK, ServerOK
      <4>2. ran' \subseteq Commands /\ running' \in ran'
        BY <1>11, <3>2, <4>1 DEF Answer, TypeOK, HistoryOK
      <4>3. started' \in Seq(Commands)
        BY <1>11, <3>2, <4>1 DEF Answer, TypeOK, HistoryOK
      <4> QED BY <1>11, <4>2, <4>3 DEF Answer, TypeOK, HistoryOK
    <3> QED BY <3>1, <3>2
  <2> QED
    BY <1>11, <2>1, <2>4, <2>5 DEF Answer, TypeOK
<1>12. ASSUME NEW w \in Workers, Reject(w) \/ Drop(w) PROVE TypeOK'
  <2>1. ServerOK' /\ \A v \in Workers \ {w} : step'[v] = step[v]
    BY <1>12, ReleaseTypes DEF Reject, Drop, TypeOK
  <2> QED
    BY <1>12, <2>1 DEF Reject, Drop, TypeOK, AgentOK, ServerOK, HistoryOK, Phases
<1>13. ASSUME NEW w \in Workers, Die(w) PROVE TypeOK'
  <2>1. ServerOK' /\ \A v \in Workers \ {w} : step'[v] = step[v]
    BY <1>13, ReleaseTypes DEF Die, TypeOK
  <2> QED
    BY <1>13, <2>1 DEF Die, TypeOK, AgentOK, HistoryOK, Phases, AgentAssumption
<1>14. CASE UNCHANGED vars
  BY <1>14 DEF vars, TypeOK, AgentOK, ServerOK, HistoryOK
<1> QED
  BY <1>1, <1>2, <1>3, <1>4, <1>5, <1>6, <1>7, <1>8, <1>9, <1>10, <1>11, <1>12,
     <1>13, <1>14 DEF Next, Handle

(* Recording a result, or queueing a command, disturbs nothing the         *)
(* invariant says of commands that are recorded or have been begun.        *)
LEMMA Advances ==
  ASSUME AgentAssumption, TypeOK, ExecutionInv, UNCHANGED <<agent, history>>,
         \A c \in Commands : /\ status[c] # "absent" => status'[c] # "absent"
                             /\ status[c] \in Results => status'[c] \in Results
  PROVE  /\ RanIsSettled'
         /\ \A c \in Commands : produced'[c] # {} => status'[c] # "absent"
         /\ \A i \in DOMAIN started' : \A c \in Commands :
              c < started'[i] => status'[c] \in Results
         /\ \A c \in Commands : Fresh(c) => Fresh(c)'
<1> USE DEF agent, history
<1>1. RanIsSettled'
  BY DEF ExecutionInv, RanIsSettled, TypeOK, HistoryOK
<1>2. \A c \in Commands : produced'[c] # {} => status'[c] # "absent"
  BY DEF ExecutionInv, ReportsTrue
<1>3. \A i \in DOMAIN started' : \A c \in Commands :
        c < started'[i] => status'[c] \in Results
  BY DEF ExecutionInv, BegunInOrder
<1>4. \A c \in Commands : Fresh(c) => Fresh(c)'
  BY DEF Fresh
<1> QED BY <1>1, <1>2, <1>3, <1>4

(* The agent's own steps.                                                  *)
LEMMA AgentKeeps ==
  ASSUME AgentAssumption, TypeOK, ExecutionInv,
         Relaunch \/ Start \/ Finish \/ Stop \/ GiveUp \/ \E w \in Workers : Send(w)
  PROVE  ExecutionInv'
<1> USE DEF server, tokens, agent, threads, counters, history
<1>1. CASE Relaunch \/ Start
  BY <1>1 DEF Relaunch, Start, ExecutionInv, RanIsSettled, ReportsTrue, Truthful,
     BegunInOrder, TypeOK, AgentOK
<1>2. CASE Finish
  <2>1. PICK r \in Results :
          /\ lastResult' = [cmd |-> running, result |-> r]
          /\ produced' = [produced EXCEPT ![running] = @ \cup {r}]
    BY <1>2 DEF Finish
  <2>2. running \in Commands /\ running \in ran
    BY <1>2 DEF Finish, TypeOK, AgentOK
  <2>3. /\ UNCHANGED <<status, started, ran, request, step, got, connection>>
        /\ connection = None /\ phase' = "polling" /\ running' = None
    BY <1>2 DEF Finish, TypeOK, AgentOK
  <2>4. lastResult' # None
    BY <2>1, <2>2 DEF AgentAssumption, Reports
  <2>5. RanIsSettled'
    BY <2>1, <2>2, <2>3, <2>4 DEF ExecutionInv, RanIsSettled, TypeOK, AgentOK
  <2>6. Truthful(lastResult)'
    BY <2>1, <2>2 DEF Truthful, TypeOK, HistoryOK
  <2>7. \A w \in Workers : Truthful(request[w].result)'
    BY <2>1, <2>2, <2>3 DEF ExecutionInv, ReportsTrue, Truthful, TypeOK, HistoryOK,
               ServerOK, Requests, Reports
  <2>8. \A c \in Commands : produced'[c] # {} => status'[c] # "absent"
    BY <2>1, <2>2, <2>3 DEF ExecutionInv, ReportsTrue, RanIsSettled, TypeOK, HistoryOK
  <2> QED
    BY <2>3, <2>5, <2>6, <2>7, <2>8 DEF ExecutionInv, ReportsTrue, BegunInOrder
<1>3. CASE Stop
  BY <1>3 DEF Stop, ExecutionInv, RanIsSettled, ReportsTrue, Truthful, BegunInOrder
<1>4. CASE GiveUp
  BY <1>4 DEF GiveUp, ExecutionInv, RanIsSettled, ReportsTrue, Truthful, BegunInOrder
<1>5. ASSUME NEW w \in Workers, Send(w) PROVE ExecutionInv'
  <2>1. /\ UNCHANGED <<server, got, history, lastResult, running>>
        /\ connection' = w /\ phase' = "waiting" /\ step'[w] = "auth"
        /\ got[w] = None
    BY <1>5 DEF Send, TypeOK, ServerOK
  <2>2. /\ request'[w].result = lastResult
        /\ request'[w].kind # "polling" => lastResult = None
        /\ \A v \in Workers \ {w} : request'[v] = request[v]
    BY <1>5 DEF Send, TypeOK, ServerOK, ExecutionInv
  <2>3. ReportsTrue'
    BY <2>1, <2>2 DEF ExecutionInv, ReportsTrue, Truthful
  <2>4. RanIsSettled' /\ BegunInOrder'
    BY <2>1 DEF ExecutionInv, RanIsSettled, BegunInOrder
  <2>5. Serves(connection)'
    BY <2>1, <2>2 DEF Serves
  <2> QED BY <2>1, <2>3, <2>4, <2>5 DEF ExecutionInv
<1> QED BY <1>1, <1>2, <1>3, <1>4, <1>5

(* The server's steps before the answer.                                   *)
LEMMA ServerKeeps ==
  ASSUME AgentAssumption, TypeOK, ExecutionInv, NEW w \in Workers,
         Authenticate(w) \/ Upsert(w) \/ Touch(w) \/ Ack(w) \/ Dequeue(w)
  PROVE  ExecutionInv'
<1> USE DEF server, tokens, agent, threads, counters, history
<1>1. CASE Authenticate(w) \/ Upsert(w) \/ Touch(w)
  <2>1. UNCHANGED <<status, agent, request, got, history>>
    BY <1>1 DEF Authenticate, Upsert, Touch
  <2>2. /\ step'[w] = "dequeue" => request[w].result = None
        /\ step'[w] = "answer" => request[w].kind # "polling"
        /\ \A v \in Workers \ {w} : step'[v] = step[v]
    <3>1. CASE Authenticate(w)
      BY <3>1, AuthenticateEffect DEF TypeOK
    <3>2. CASE Upsert(w)
      BY <3>2 DEF Upsert, TypeOK, ServerOK
    <3>3. CASE Touch(w)
      BY <3>3 DEF Touch, TypeOK, ServerOK
    <3> QED BY <1>1, <3>1, <3>2, <3>3
  <2>3. connection' # None => Serves(connection)'
    BY <2>1, <2>2 DEF ExecutionInv, Serves, TypeOK, AgentOK, Fresh
  <2> QED
    BY <2>1, <2>3 DEF ExecutionInv, RanIsSettled, ReportsTrue, Truthful, BegunInOrder
<1>2. CASE Ack(w)
  <2> DEFINE r == request[w].result
  <2>1. r \in Reports /\ r # None
    <3>1. step[w] = "ack"
      BY <1>2 DEF Ack
    <3> QED BY <3>1 DEF TypeOK, ServerOK, Requests
  <2>2. /\ status' = [status EXCEPT ![r.cmd] = r.result]
        /\ UNCHANGED <<agent, request, got, history>>
        /\ \A v \in Workers \ {w} : step'[v] = step[v]
        /\ got[w] = None
    BY <1>2 DEF Ack, TypeOK, ServerOK
  <2>3. r.cmd \in Commands /\ r.result \in Results
    BY <2>1 DEF Reports
  <2>4. status[r.cmd] # "absent"
    BY <2>1, <2>3 DEF ExecutionInv, ReportsTrue, Truthful
  <2>5. \A c \in Commands : /\ status[c] # "absent" => status'[c] # "absent"
                            /\ status[c] \in Results => status'[c] \in Results
                            /\ status[c] = "absent" => status'[c] = "absent"
    BY <2>2, <2>3, <2>4 DEF TypeOK, ServerOK, Results
  <2>6. RanIsSettled' /\ ReportsTrue' /\ BegunInOrder'
    BY <2>2, <2>5, Advances DEF ExecutionInv, ReportsTrue, Truthful, BegunInOrder
  <2>7. ASSUME connection' # None PROVE Serves(connection)'
    <3>1. CASE connection = w
      BY <2>2, <2>3, <3>1 DEF ExecutionInv, Serves, TypeOK, AgentOK, ServerOK, AgentAssumption
    <3>2. CASE connection # w
      <4>1. connection \in Workers \ {w} /\ Serves(connection)
        BY <2>2, <2>7, <3>2 DEF ExecutionInv, TypeOK, AgentOK
      <4>2. lastResult # None /\ status[lastResult.cmd] \in Results
              => status'[lastResult.cmd] \in Results
        BY <2>5 DEF TypeOK, AgentOK, Reports
      <4>3. got[connection] # None => Fresh(got[connection])'
        <5>1. got[connection] \in Commands \cup {None}
          BY <4>1 DEF TypeOK, ServerOK
        <5>2. \A c \in Commands : Fresh(c) => Fresh(c)'
          BY <2>2, <2>5, Advances
        <5> QED BY <2>2, <4>1, <5>1, <5>2 DEF Serves, Fresh
      <4> QED BY <2>2, <4>1, <4>2, <4>3 DEF Serves
    <3> QED BY <3>1, <3>2
  <2> QED BY <2>2, <2>6, <2>7 DEF ExecutionInv
<1>3. CASE Dequeue(w)
  <2>1. /\ UNCHANGED <<status, agent, request, history>>
        /\ step[w] = "dequeue" /\ got[w] = None
        /\ \A v \in Workers \ {w} : step'[v] = step[v] /\ got'[v] = got[v]
    BY <1>3 DEF Dequeue, TypeOK, ServerOK
  <2>2. ASSUME connection = w PROVE got'[w] # None => Fresh(got'[w])
    <3>1. CASE got' = got
      BY <2>1, <3>1
    <3>2. ASSUME NEW c \in FirstInQueue, got' = [got EXCEPT ![w] = c]
          PROVE  Fresh(got'[w])
      <4>1. /\ c \in Commands /\ got'[w] = c /\ status[c] = "pending"
            /\ \A b \in Commands : status[b] = "pending" => c <= b
        BY <3>2 DEF FirstInQueue, Pending, TypeOK, ServerOK
      <4>2. \A b \in ran : status[b] \in Results
        <5>1. connection # None /\ Serves(w)
          BY <2>2 DEF ExecutionInv, AgentAssumption
        <5>2. running = None
          BY <5>1 DEF TypeOK, AgentOK
        <5>3. lastResult # None => status[lastResult.cmd] \in Results
          BY <2>1, <5>1 DEF Serves
        <5>4. None \notin ran
          BY DEF TypeOK, HistoryOK, AgentAssumption
        <5> QED BY <5>2, <5>3, <5>4 DEF ExecutionInv, RanIsSettled
      <4>3. c \notin ran
        BY <4>1, <4>2 DEF Results
      <4>4. \A b \in Commands : b < c => status[b] \in Results
        <5> TAKE b \in Commands
        <5> HAVE b < c
        <5>1. status[b] # "absent"
          BY <4>1 DEF ExecutionInv, BegunInOrder
        <5>2. status[b] # "pending"
          BY <4>1 DEF AgentAssumption
        <5> QED BY <5>1, <5>2 DEF TypeOK, ServerOK
      <4>5. \A i \in DOMAIN started : started[i] <= c
        <5> TAKE i \in DOMAIN started
        <5>1. started[i] \in Nat /\ c \in Nat
          <6>1. started[i] \in Commands
            BY DEF TypeOK, HistoryOK
          <6> QED BY <4>1, <6>1 DEF AgentAssumption
        <5>2. ~ (c < started[i])
          BY <4>1 DEF ExecutionInv, BegunInOrder, Results
        <5> QED BY <5>1, <5>2
      <4> QED BY <4>1, <4>3, <4>4, <4>5 DEF Fresh
    <3> QED BY <1>3, <3>1, <3>2 DEF Dequeue
  <2>3. connection' # None => Serves(connection)'
    BY <2>1, <2>2 DEF ExecutionInv, Serves, TypeOK, AgentOK, Fresh
  <2> QED
    BY <2>1, <2>3 DEF ExecutionInv, RanIsSettled, ReportsTrue, Truthful, BegunInOrder
<1> QED BY <1>1, <1>2, <1>3

(* The answer: the process begins a command it has not run, with all the   *)
(* commands before it recorded, and forgets only a report on record.       *)
LEMMA AnswerKeeps ==
  ASSUME AgentAssumption, TypeOK, ExecutionInv, NEW w \in Workers, Answer(w)
  PROVE  ExecutionInv'
<1> USE DEF server, tokens, agent, threads, counters, history
<1>1. /\ step[w] = "answer" /\ connection = w /\ connection # None
      /\ connection' = None /\ lastResult' = ResultAfter(w) /\ running' = got[w]
      /\ phase' \in {"polling", "executing"}
      /\ UNCHANGED <<status, produced>>
      /\ running = None
  BY DEF Answer, TypeOK, AgentOK, AgentAssumption
<1>2. Serves(w)
  BY <1>1 DEF ExecutionInv
<1>3. lastResult' \in {None, lastResult}
  BY <1>1 DEF ResultAfter
<1>4. lastResult # None => status[lastResult.cmd] \in Results
  BY <1>1, <1>2 DEF Serves
<1>5. \A b \in ran : status[b] \in Results
  <2>1. None \notin ran
    BY DEF TypeOK, HistoryOK, AgentAssumption
  <2> QED BY <1>1, <1>4, <2>1 DEF ExecutionInv, RanIsSettled
<1>6. \A v \in Workers : request'[v] \in {request[v], NoRequest}
  BY DEF Answer, Release, TypeOK, ServerOK
<1>7. ReportsTrue'
  <2>1. Truthful(lastResult)'
    BY <1>1, <1>3 DEF ExecutionInv, ReportsTrue, Truthful
  <2>2. \A v \in Workers : Truthful(request[v].result)'
    BY <1>1, <1>6 DEF ExecutionInv, ReportsTrue, Truthful, NoRequest
  <2> QED BY <1>1, <2>1, <2>2 DEF ExecutionInv, ReportsTrue
<1>8. RanIsSettled' /\ BegunInOrder'
  <2>1. CASE got[w] = None
    BY <1>1, <1>5, <2>1 DEF Answer, ExecutionInv, RanIsSettled, BegunInOrder
  <2>2. CASE got[w] # None
    <3>1. got[w] \in Commands
      BY <2>2 DEF TypeOK, ServerOK
    <3>2. Fresh(got[w])
      BY <1>2, <2>2 DEF Serves
    <3>3. ran' = ran \cup {got[w]} /\ started' = Append(started, got[w])
      BY <2>2 DEF Answer
    <3>4. RanIsSettled'
      BY <1>1, <1>5, <3>2, <3>3 DEF ExecutionInv, RanIsSettled, Fresh
    <3>5. \A i \in DOMAIN started' : \A c \in Commands :
            c < started'[i] => status'[c] \in Results
      <4> TAKE i \in DOMAIN started'
      <4>1. started \in Seq(Commands)
        BY DEF TypeOK, HistoryOK
      <4>2. CASE i \in DOMAIN started
        <5>1. started'[i] = started[i]
          BY <3>1, <3>3, <4>1, <4>2
        <5> QED BY <1>1, <4>2, <5>1 DEF ExecutionInv, BegunInOrder
      <4>3. CASE i \notin DOMAIN started
        <5>1. started'[i] = got[w]
          BY <3>1, <3>3, <4>1, <4>3
        <5> QED BY <1>1, <3>2, <5>1 DEF Fresh
      <4> QED BY <4>2, <4>3
    <3> QED BY <1>1, <3>4, <3>5 DEF ExecutionInv, BegunInOrder
  <2> QED BY <2>1, <2>2
<1> QED BY <1>1, <1>7, <1>8 DEF ExecutionInv

(* A thread that ends its request otherwise, or dies.                      *)
LEMMA EndKeeps ==
  ASSUME AgentAssumption, TypeOK, ExecutionInv, NEW w \in Workers,
         Reject(w) \/ Drop(w) \/ Die(w)
  PROVE  ExecutionInv'
<1> USE DEF server, tokens, agent, threads, counters, history
<1>1. UNCHANGED <<status, lastResult, running, history>>
  BY DEF Reject, Drop, Die
<1>2. \A v \in Workers : request'[v] \in {request[v], NoRequest}
  BY DEF Reject, Drop, Die, Release, TypeOK, ServerOK
<1>3. ReportsTrue'
  BY <1>1, <1>2 DEF ExecutionInv, ReportsTrue, Truthful, NoRequest
<1>4. RanIsSettled' /\ BegunInOrder'
  BY <1>1 DEF ExecutionInv, RanIsSettled, BegunInOrder
<1>5. \/ connection' = None /\ phase' = "polling"
      \/ connection' = connection /\ connection # w /\ phase' = phase
  BY DEF Reject, Drop, Die
<1>6. ASSUME connection' # None PROVE Serves(connection)'
  <2>1. /\ connection' = connection /\ connection \in Workers \ {w}
        /\ Serves(connection)
    BY <1>5, <1>6 DEF ExecutionInv, TypeOK, AgentOK
  <2>2. \A v \in Workers \ {w} : /\ step'[v] = step[v] /\ request'[v] = request[v]
                                 /\ got'[v] = got[v]
    BY DEF Reject, Drop, Die, Release, TypeOK, ServerOK
  <2> QED BY <1>1, <2>1, <2>2 DEF Serves, Fresh
<1> QED BY <1>1, <1>3, <1>4, <1>5, <1>6 DEF ExecutionInv

(* The whole invariant, by actions.                                        *)
LEMMA ExecutionKept ==
  ASSUME AgentAssumption, TypeOK, ExecutionInv, [Next]_vars
  PROVE  ExecutionInv'
<1> USE DEF server, tokens, agent, threads, counters, history
<1>1. ASSUME NEW c \in Commands, Queue(c) PROVE ExecutionInv'
  <2>1. /\ status[c] = "absent" /\ status' = [status EXCEPT ![c] = "pending"]
        /\ \A b \in Commands : b < c => status[b] # "absent"
        /\ UNCHANGED <<agent, step, request, got, history>>
    BY <1>1 DEF Queue
  <2>2. \A b \in Commands : /\ status[b] # "absent" => status'[b] # "absent"
                            /\ status[b] \in Results => status'[b] \in Results
                            /\ status'[b] # "absent" => b = c \/ status[b] # "absent"
    BY <2>1 DEF TypeOK, ServerOK, Results
  <2>3. RanIsSettled' /\ ReportsTrue' /\ BegunInOrder'
    <3>1. \A a, b \in Commands : a < b /\ status'[b] # "absent" => status'[a] # "absent"
      BY <2>1, <2>2 DEF ExecutionInv, BegunInOrder
    <3> QED
      BY <2>1, <2>2, <3>1, Advances DEF ExecutionInv, ReportsTrue, Truthful, BegunInOrder
  <2>4. ASSUME connection' # None PROVE Serves(connection)'
    <3>1. connection \in Workers /\ Serves(connection) /\ connection' = connection
      BY <2>1, <2>4 DEF ExecutionInv, TypeOK, AgentOK
    <3>2. lastResult # None /\ status[lastResult.cmd] \in Results
            => status'[lastResult.cmd] \in Results
      BY <2>2 DEF TypeOK, AgentOK, Reports
    <3>3. got[connection] \in Commands \cup {None}
      BY <3>1 DEF TypeOK, ServerOK
    <3>4. \A b \in Commands : Fresh(b) => Fresh(b)'
      BY <2>1, <2>2, Advances
    <3>5. got[connection] # None => Fresh(got[connection])'
      BY <2>1, <3>1, <3>3, <3>4 DEF Serves, Fresh
    <3> QED BY <2>1, <3>1, <3>2, <3>5 DEF Serves
  <2> QED BY <2>1, <2>3, <2>4 DEF ExecutionInv
<1>2. CASE Register \/ InstallToken \/ UNCHANGED vars
  <2>1. UNCHANGED <<server, agent, threads, history>>
    BY <1>2 DEF Register, InstallToken, vars
  <2> QED
    BY <2>1 DEF ExecutionInv, RanIsSettled, ReportsTrue, Truthful, BegunInOrder, Serves, Fresh
<1> QED
  BY <1>1, <1>2, AgentKeeps, ServerKeeps, AnswerKeeps, EndKeeps DEF Next, Handle

(* The types and the reasons for what follows hold in every behaviour,     *)
(* whatever is queued, rotated, timed out, killed or stopped.              *)
THEOREM AgentInvariant == Spec => [](TypeOK /\ ExecutionInv)
<1> USE AgentAssumption
<1>1. ASSUME Init PROVE TypeOK /\ ExecutionInv
  <2>1. ExecutionInv
    BY <1>1 DEF Init, ExecutionInv, RanIsSettled, ReportsTrue, Truthful, BegunInOrder,
       NoRequest
  <2> QED BY <1>1, <2>1, InitTypes
<1>2. TypeOK /\ ExecutionInv /\ [Next]_vars => (TypeOK /\ ExecutionInv)'
  BY TypeKept, ExecutionKept
<1> QED BY <1>1, <1>2, PTL DEF Spec

(* What each step does to the variables of CommandExecution: an answer     *)
(* that brings a command begins it, an acknowledgement records a result    *)
(* the command had, and only a stop forgets.                               *)
LEMMA StepExecutes ==
  ASSUME AgentAssumption, TypeOK, ExecutionInv, [Next]_vars
  PROVE  [Execution!ExecutionNext]_(Execution!executionVars)
<1> USE DEF server, tokens, agent, threads, counters, history
<1>1. ASSUME NEW c \in Commands, Queue(c) PROVE Execution!Submit(c)
  BY <1>1 DEF Queue, Execution!Submit
<1>2. CASE Finish
  <2>1. running \in Commands /\ running \in ran
    BY <1>2 DEF Finish, TypeOK, AgentOK
  <2>2. Execution!End(running)
    BY <1>2, <2>1 DEF Finish, Execution!End
  <2> QED BY <2>1, <2>2 DEF Execution!ExecutionNext
<1>3. CASE Stop
  BY <1>3 DEF Stop, Execution!ExecutionNext, Execution!Forget
<1>4. ASSUME NEW w \in Workers, Ack(w) PROVE Execution!ExecutionNext
  <2>1. request[w].result \in Reports /\ request[w].result # None
    <3>1. step[w] = "ack"
      BY <1>4 DEF Ack
    <3> QED BY <3>1 DEF TypeOK, ServerOK, Requests
  <2>2. request[w].result.cmd \in Commands
    BY <2>1 DEF Reports
  <2>3. request[w].result.result \in produced[request[w].result.cmd]
    BY <2>1 DEF ExecutionInv, ReportsTrue, Truthful
  <2>4. Execution!Record(request[w].result.cmd)
    BY <1>4, <2>3 DEF Ack, Execution!Record
  <2> QED BY <2>2, <2>4 DEF Execution!ExecutionNext
<1>5. ASSUME NEW w \in Workers, Answer(w), got[w] # None PROVE Execution!ExecutionNext
  <2>1. got[w] \in Commands /\ started \in Seq(Commands)
    BY <1>5 DEF TypeOK, ServerOK, HistoryOK
  <2>2. connection = w /\ connection # None /\ step[w] = "answer"
    BY <1>5 DEF Answer, AgentAssumption
  <2>3. Serves(w)
    BY <2>2 DEF ExecutionInv
  <2>4. running = None /\ None \notin ran
    BY <2>2 DEF TypeOK, AgentOK, HistoryOK, AgentAssumption
  <2>5. \A b \in ran : status[b] \in Results
    BY <2>2, <2>3, <2>4 DEF ExecutionInv, RanIsSettled, Serves
  <2>6. Len(started') = Len(started) + 1
    BY <1>5, <2>1 DEF Answer
  <2>7. Execution!Begin(got[w])
    BY <1>5, <2>3, <2>5, <2>6 DEF Answer, Serves, Fresh, Execution!Begin
  <2> QED BY <2>1, <2>7 DEF Execution!ExecutionNext
<1>6. ASSUME NEW w \in Workers, Answer(w), got[w] = None
      PROVE  UNCHANGED Execution!executionVars
  BY <1>6 DEF Answer, Execution!executionVars
<1>7. CASE Register \/ InstallToken \/ Relaunch \/ Start \/ GiveUp \/ UNCHANGED vars
  BY <1>7 DEF Register, InstallToken, Relaunch, Start, GiveUp, vars, Execution!executionVars
<1>8. ASSUME NEW w \in Workers,
             \/ Send(w) \/ Authenticate(w) \/ Upsert(w) \/ Touch(w) \/ Dequeue(w)
             \/ Reject(w) \/ Drop(w) \/ Die(w)
      PROVE  UNCHANGED Execution!executionVars
  BY <1>8 DEF Send, Authenticate, Upsert, Touch, Dequeue, Reject, Drop, Die,
     Execution!executionVars
<1> QED
  BY <1>1, <1>2, <1>3, <1>4, <1>5, <1>6, <1>7, <1>8
     DEF Next, Handle, Execution!ExecutionNext

(* The agent and its server implement the abstract remote execution, for   *)
(* any number of commands and threads, and whatever fails how often.       *)
THEOREM AgentImplementsExecution == Spec => ImplementsExecution
<1> USE AgentAssumption
<1>1. Init => Execution!ExecutionInit
  BY DEF Init, Execution!ExecutionInit
<1>2. TypeOK /\ ExecutionInv /\ [Next]_vars
        => [Execution!ExecutionNext]_(Execution!executionVars)
  BY StepExecutes
<1> QED
  BY <1>1, <1>2, AgentInvariant, PTL DEF Spec, ImplementsExecution, Execution!ExecutionSpec

(* Commands run in the order of the queue, and none is begun before the    *)
(* result of the one before it is on record.                               *)
THEOREM InOrder == Spec => []RunsInOrder
<1> USE AgentAssumption
<1> DEFINE Sorted == \A i, j \in DOMAIN started : i < j => started[i] <= started[j]
<1>1. Init => Sorted
  BY DEF Init
<1>2. ASSUME TypeOK, ExecutionInv, Sorted, [Next]_vars PROVE Sorted'
  <2> USE DEF server, tokens, agent, threads, counters, history
  <2>1. CASE UNCHANGED started
    BY <1>2, <2>1
  <2>2. ASSUME NEW w \in Workers, Answer(w), got[w] # None PROVE Sorted'
    <3>1. connection = w /\ connection # None
      BY <2>2 DEF Answer, AgentAssumption
    <3>2. Fresh(got[w]) /\ got[w] \in Commands /\ started \in Seq(Commands)
      BY <1>2, <2>2, <3>1 DEF ExecutionInv, Serves, TypeOK, ServerOK, HistoryOK
    <3>3. started' = Append(started, got[w])
      BY <2>2 DEF Answer
    <3>4. ASSUME NEW i \in DOMAIN started', NEW j \in DOMAIN started', i < j
          PROVE  started'[i] <= started'[j]
      <4>1. i \in DOMAIN started /\ started'[i] = started[i]
        BY <3>2, <3>3, <3>4
      <4>2. CASE j \in DOMAIN started
        <5>1. started'[j] = started[j]
          BY <3>2, <3>3, <4>2
        <5> QED BY <1>2, <3>4, <4>1, <4>2, <5>1
      <4>3. CASE j \notin DOMAIN started
        <5>1. started'[j] = got[w]
          BY <3>2, <3>3, <4>3
        <5> QED BY <3>2, <4>1, <5>1 DEF Fresh
      <4> QED BY <4>2, <4>3
    <3> QED BY <3>4
  <2>3. UNCHANGED started \/ \E w \in Workers : Answer(w) /\ got[w] # None
    BY <1>2 DEF Next, Handle, vars, Queue, Register, InstallToken, Relaunch, Start,
       Finish, Stop, GiveUp, Send, Authenticate, Upsert, Touch, Ack, Dequeue, Answer,
       Reject, Drop, Die
  <2> QED BY <2>1, <2>2, <2>3
<1>3. TypeOK /\ ExecutionInv /\ Sorted => RunsInOrder
  <2> SUFFICES ASSUME TypeOK, ExecutionInv, Sorted PROVE RunsInOrder
    OBVIOUS
  <2>1. \A i \in DOMAIN started : started[i] \in Commands
    BY DEF TypeOK, HistoryOK
  <2> QED BY <2>1 DEF ExecutionInv, BegunInOrder, RunsInOrder
<1> HIDE DEF Sorted
<1> QED BY <1>1, <1>2, <1>3, AgentInvariant, PTL DEF Spec

(* What is on record is a result the command had: linux_mdm never writes   *)
(* an outcome the agent has not come to.                                   *)
RecordsAreTrue == \A c \in Commands : status[c] \in Results => status[c] \in produced[c]

(* In every state of every behaviour: a handler that is late by any number *)
(* of requests writes a result the command really had.                     *)
THEOREM RecordedWasProduced == Spec => []RecordsAreTrue
<1> USE AgentAssumption
<1>1. Init => RecordsAreTrue
  BY DEF Init, RecordsAreTrue, Results
<1>2. ASSUME TypeOK, ExecutionInv, RecordsAreTrue, [Next]_vars PROVE RecordsAreTrue'
  <2> USE DEF server, tokens, agent, threads, counters, history
  <2>1. ASSUME NEW c \in Commands, Queue(c) PROVE RecordsAreTrue'
    BY <1>2, <2>1 DEF Queue, RecordsAreTrue, TypeOK, ServerOK, Results
  <2>2. CASE Finish
    <3>1. \A c \in Commands : produced[c] \subseteq produced'[c]
      BY <1>2, <2>2 DEF Finish, TypeOK, AgentOK, HistoryOK
    <3> QED BY <1>2, <2>2, <3>1 DEF Finish, RecordsAreTrue
  <2>3. ASSUME NEW w \in Workers, Ack(w) PROVE RecordsAreTrue'
    <3>1. request[w].result \in Reports /\ request[w].result # None
      BY <1>2, <2>3 DEF Ack, TypeOK, ServerOK, Requests
    <3>2. request[w].result.result \in produced[request[w].result.cmd]
      BY <1>2, <3>1 DEF ExecutionInv, ReportsTrue, Truthful
    <3> QED BY <1>2, <2>3, <3>1, <3>2 DEF Ack, RecordsAreTrue, TypeOK, ServerOK, Reports
  <2>4. UNCHANGED <<status, produced>> => RecordsAreTrue'
    BY <1>2 DEF RecordsAreTrue
  <2>5. \/ \E c \in Commands : Queue(c)
        \/ Finish
        \/ \E w \in Workers : Ack(w)
        \/ UNCHANGED <<status, produced>>
    BY <1>2 DEF Next, Handle, vars, Register, InstallToken, Relaunch, Start,
       Stop, GiveUp, Send, Authenticate, Upsert, Touch, Dequeue, Answer,
       Reject, Drop, Die
  <2> QED BY <2>1, <2>2, <2>3, <2>4, <2>5
<1> QED BY <1>1, <1>2, AgentInvariant, PTL DEF Spec

(* How often a command was begun, and how often it may have been.          *)
Times(c) == Cardinality({i \in DOMAIN started : started[i] = c})
RepeatsInv == \A c \in Commands :
  /\ Times(c) <= stops + 1
  /\ c \notin ran => Times(c) <= stops

(* The count is a number, and an answer adds one for its command.          *)
LEMMA TimesNat ==
  ASSUME started \in Seq(Commands), NEW c
  PROVE  IsFiniteSet({i \in DOMAIN started : started[i] = c}) /\ Times(c) \in Nat
<1>1. DOMAIN started = 1..Len(started) /\ Len(started) \in Nat
  OBVIOUS
<1>2. IsFiniteSet(DOMAIN started)
  BY <1>1, FS_Interval
<1>3. IsFiniteSet({i \in DOMAIN started : started[i] = c})
  BY <1>2, FS_Subset
<1> QED BY <1>3, FS_CardinalityType DEF Times

(* Of the others it is the same as before.                                 *)
LEMMA TimesAppend ==
  ASSUME started \in Seq(Commands), NEW a \in Commands, started' = Append(started, a)
  PROVE  /\ Times(a)' = Times(a) + 1
         /\ \A c \in Commands \ {a} : Times(c)' = Times(c)
<1> DEFINE At(c) == {i \in DOMAIN started : started[i] = c}
<1>1. /\ Len(started) \in Nat /\ DOMAIN started = 1..Len(started)
      /\ DOMAIN started' = 1..(Len(started) + 1)
      /\ \A i \in 1..Len(started) : started'[i] = started[i]
      /\ started'[Len(started) + 1] = a
  OBVIOUS
<1>2. ASSUME NEW c \in Commands \ {a} PROVE At(c)' = At(c)
  BY <1>1
<1>3. At(a)' = At(a) \cup {Len(started) + 1} /\ Len(started) + 1 \notin At(a)
  BY <1>1
<1>4. Cardinality(At(a) \cup {Len(started) + 1}) = Cardinality(At(a)) + 1
  <2>1. IsFiniteSet(At(a))
    BY TimesNat
  <2> HIDE DEF At
  <2> QED BY <1>3, <2>1, FS_AddElement
<1>5. Times(a)' = Times(a) + 1
  BY <1>3, <1>4 DEF Times
<1> QED BY <1>2, <1>5 DEF Times

(* A process begins only what it has not begun; a stop adds one for all.   *)
LEMMA RepeatsKept ==
  ASSUME AgentAssumption, TypeOK, ExecutionInv, RepeatsInv, [Next]_vars
  PROVE  RepeatsInv'
<1> USE DEF server, tokens, agent, threads, counters, history
<1>1. started \in Seq(Commands) /\ stops \in Nat /\ ran \subseteq Commands
  BY DEF TypeOK, HistoryOK
<1>2. \A c \in Commands : Times(c) \in Nat
  BY <1>1, TimesNat
<1>3. CASE Stop
  <2>1. stops' = stops + 1 /\ ran' = {} /\ started' = started
    BY <1>3 DEF Stop
  <2>2. \A c \in Commands : Times(c)' = Times(c)
    BY <2>1 DEF Times
  <2>3. ASSUME NEW c \in Commands PROVE Times(c) <= stops + 1 /\ Times(c) <= stops + 1 + 1
    <3>1. Times(c) <= stops + 1 /\ Times(c) \in Nat
      BY <1>2 DEF RepeatsInv
    <3> QED BY <1>1, <3>1
  <2> QED BY <2>1, <2>2, <2>3 DEF RepeatsInv
<1>4. ASSUME NEW w \in Workers, Answer(w), got[w] # None PROVE RepeatsInv'
  <2>1. PICK a \in Commands : a = got[w]
    BY <1>4 DEF TypeOK, ServerOK
  <2>2. connection = w /\ connection # None
    BY <1>4 DEF Answer, AgentAssumption
  <2>3. a \notin ran
    BY <1>4, <2>1, <2>2 DEF ExecutionInv, Serves, Fresh
  <2>4. stops' = stops /\ ran' = ran \cup {a} /\ started' = Append(started, a)
    BY <1>4, <2>1 DEF Answer
  <2>5. /\ Times(a)' = Times(a) + 1
        /\ \A c \in Commands \ {a} : Times(c)' = Times(c)
    BY <1>1, <2>4, TimesAppend
  <2>6. Times(a) <= stops /\ Times(a) \in Nat
    BY <1>2, <2>3 DEF RepeatsInv
  <2>7. Times(a) + 1 <= stops + 1
    BY <1>1, <2>6
  <2>8. ASSUME NEW c \in Commands
        PROVE  Times(c)' <= stops' + 1 /\ (c \notin ran' => Times(c)' <= stops')
    <3>1. CASE c = a
      BY <2>4, <2>5, <2>7, <3>1
    <3>2. CASE c # a
      BY <2>4, <2>5, <3>2 DEF RepeatsInv
    <3> QED BY <3>1, <3>2
  <2> QED BY <2>8 DEF RepeatsInv
<1>5. CASE UNCHANGED <<started, ran, stops>>
  BY <1>5 DEF RepeatsInv, Times
<1>6. \/ Stop
      \/ \E w \in Workers : Answer(w) /\ got[w] # None
      \/ UNCHANGED <<started, ran, stops>>
  BY DEF Next, Handle, vars, Queue, Register, InstallToken, Relaunch, Start, Finish,
     GiveUp, Send, Authenticate, Upsert, Touch, Ack, Dequeue, Answer, Reject, Drop, Die
<1> QED BY <1>3, <1>4, <1>5, <1>6

(* Only a stop of the agent lets a command run again: it is begun at most  *)
(* once more than the agent is stopped, whatever fails how often.          *)
THEOREM RepeatedOnlyByStops ==
  Spec => [](\A c \in Commands : Times(c) <= stops + 1)
<1> USE AgentAssumption
<1>1. Init => RepeatsInv
  <2>1. ASSUME Init, NEW c \in Commands PROVE Times(c) = 0 /\ stops = 0
    <3>1. {i \in DOMAIN started : started[i] = c} = {}
      BY <2>1 DEF Init
    <3> QED BY <2>1, <3>1, FS_EmptySet DEF Init, Times
  <2>2. ASSUME Init, NEW c \in Commands
        PROVE  Times(c) <= stops + 1 /\ (c \notin ran => Times(c) <= stops)
    BY <2>1, <2>2
  <2> QED BY <2>2 DEF RepeatsInv
<1>2. TypeOK /\ ExecutionInv /\ RepeatsInv /\ [Next]_vars => RepeatsInv'
  BY RepeatsKept
<1>3. RepeatsInv => \A c \in Commands : Times(c) <= stops + 1
  BY DEF RepeatsInv
<1> QED BY <1>1, <1>2, <1>3, AgentInvariant, PTL DEF Spec

(* The order_by("created_at").limit(1) of dequeue_linux_command has        *)
(* exactly one answer, so that a handler that comes to it is not stuck.    *)
LEMMA OneIsFirst ==
  ASSUME AgentAssumption, Pending # {}
  PROVE  \E c \in Commands : FirstInQueue = {c}
<1>1. Pending \subseteq Nat
  BY DEF Pending, AgentAssumption
<1>2. IsWellFoundedOn(OpToRel(<, Nat), Nat)
  BY NatLessThanWellFounded
<1>3. PICK c \in Pending : \A b \in Pending : ~ (<<b, c>> \in OpToRel(<, Nat))
  BY <1>1, <1>2, WFMin
<1>4. \A b \in Pending : ~ (b < c)
  BY <1>1, <1>3 DEF OpToRel
<1>5. \A b \in Pending : c <= b
  BY <1>1, <1>4
<1>6. c \in FirstInQueue /\ \A b \in FirstInQueue : b = c
  BY <1>1, <1>5 DEF FirstInQueue
<1>7. c \in Commands
  BY DEF Pending
<1> QED BY <1>6, <1>7
============================================================================
