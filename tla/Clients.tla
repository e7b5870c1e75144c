------------------------------- MODULE Clients --------------------------------
(***************************************************************************)
(* How the tests and benches use the operations: a thread reads its index, *)
(* picks the word of that index, and calls an operation with it; after an  *)
(* Abort it reads its index again.  It may be preempted and moved between  *)
(* any two of these steps.                                                 *)
(***************************************************************************)
EXTENDS CriticalSection

VARIABLES
  task,     \* what the thread is trying to get done
  at,       \* "pick", "call" or "settle": the step of its attempt
  picked    \* the index it has read

clientvars == <<task, at, picked>>

Acts(t) == Running(t) /\ ~Busy(t)

\* Words::get, for words at base, base + 1 ...
WordOf(base, kind, id) == [addr |-> base + id, kind |-> kind, key |-> id]

\* Thread::cpu_id or Thread::cid.
Pick(t, kind) ==
  /\ Acts(t) /\ at[t] = "pick"
  /\ picked' = [picked EXCEPT ![t] = index[t][kind]]
  /\ at' = [at EXCEPT ![t] = "call"]
  /\ UNCHANGED <<vars, task>>

\* The call of an operation.
Issue(t, c) ==
  /\ at[t] = "call" /\ Invoke(t, c)
  /\ at' = [at EXCEPT ![t] = "settle"]
  /\ UNCHANGED <<task, picked>>

\* The operation has returned; the thread looks at the result and goes on
\* with a task.
Returned(t) == Acts(t) /\ at[t] = "settle"

Turn(t, next) ==
  /\ task' = [task EXCEPT ![t] = next]
  /\ at' = [at EXCEPT ![t] = "pick"]
  /\ picked' = [picked EXCEPT ![t] = 0]
  /\ UNCHANGED vars

\* A success that the thread has not looked at yet.
Unsettled(t) == at[t] = "settle" /\ ~Busy(t) /\ ret[t].status = "Ok"

\* The kernel and the block of a thread, without signal handlers.
Machine(t) ==
  \/ Preempt(t)
  \/ \E c \in CPU, i \in CidSet : Resume(t, c, i)
  \/ Instruction(t)

ClientInit(first) ==
  /\ Init
  /\ task = [t \in Thread |-> first]
  /\ at = [t \in Thread |-> "pick"]
  /\ picked = [t \in Thread |-> 0]

=============================================================================
