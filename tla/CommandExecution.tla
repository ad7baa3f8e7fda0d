-------------------------- MODULE CommandExecution --------------------------
(***************************************************************************)
(* What remote execution of commands promises, whatever the transport      *)
(* does: a command is begun once in the life of a process, the next one    *)
(* only when the results of those before it are on record, and the record  *)
(* of a command is a result it really had. A process that is stopped       *)
(* forgets what it has begun; that alone can make it begin a command again.*)
(* Nothing is said about polls, threads, tokens or time-outs.              *)
(***************************************************************************)
EXTENDS Naturals

CONSTANTS Commands, Results

VARIABLES
  status,    \* "absent", "pending" or the result on record
  begun,     \* how many executions were begun
  ran,       \* the commands the present process has begun
  produced   \* the results each command has had

executionVars == <<status, begun, ran, produced>>

ExecutionInit ==
  /\ status = [c \in Commands |-> "absent"]
  /\ begun = 0 /\ ran = {}
  /\ produced = [c \in Commands |-> {}]

Submit(c) ==
  /\ status[c] = "absent"
  /\ status' = [status EXCEPT ![c] = "pending"]
  /\ UNCHANGED <<begun, ran, produced>>

Begin(c) ==
  /\ status[c] # "absent" /\ c \notin ran
  /\ \A b \in ran : status[b] \in Results
  /\ begun' = begun + 1
  /\ ran' = ran \cup {c}
  /\ UNCHANGED <<status, produced>>

End(c) ==
  /\ c \in ran
  /\ \E r \in Results : produced' = [produced EXCEPT ![c] = @ \cup {r}]
  /\ UNCHANGED <<status, begun, ran>>

Record(c) ==
  /\ \E r \in produced[c] : status' = [status EXCEPT ![c] = r]
  /\ UNCHANGED <<begun, ran, produced>>

Forget == ran' = {} /\ UNCHANGED <<status, begun, produced>>

ExecutionNext ==
  \/ \E c \in Commands : Submit(c) \/ Begin(c) \/ End(c) \/ Record(c)
  \/ Forget

ExecutionSpec == ExecutionInit /\ [][ExecutionNext]_executionVars
============================================================================
