------------------------------- MODULE FreeList -------------------------------
(***************************************************************************)
(* benches/freelist.rs, fanin_rseq: threads pop a node from the list of    *)
(* the CPU they are on and push it again.  The push is a store_if.  The    *)
(* pop reads the head and the link of its node outside a critical section  *)
(* and commits with a compare_exchange, each of them in a loop that        *)
(* follows the thread from CPU to CPU.                                     *)
(***************************************************************************)
EXTENDS Clients, FiniteSets

CONSTANTS
  Nodes,   \* the nodes, from 1 to n: a node's link is the word next[node]
  Next0,   \* address of next[0]
  Heads    \* address of the first head

EMPTY == 0

VARIABLES
  head,    \* the head that a thread has read
  nxt,     \* the link that a thread has read behind its head
  owned    \* the node that a thread has popped, or EMPTY

listvars == <<head, nxt, owned>>

\* What a thread has read is forgotten with its iteration.
Drop(t) ==
  /\ head' = [head EXCEPT ![t] = EMPTY]
  /\ nxt' = [nxt EXCEPT ![t] = EMPTY]

HeadWord(t) == WordOf(Heads, "cpu_id", picked[t])
LinkWord(t) == [addr |-> Next0 + owned[t], kind |-> "cpu_id", key |-> picked[t]]

\* The loops of a pop and a push: task "read" is add(.., 0), "take" is
\* cas(.., head, nxt), "push" and "store" are push_rseq.
PickCpu(t) == task[t] # "link" /\ Pick(t, "cpu_id") /\ UNCHANGED listvars

ReadHead(t) == task[t] = "read" /\ Issue(t, fetch_add(HeadWord(t), 0)) /\ UNCHANGED listvars

HeadRead(t) ==
  /\ task[t] = "read" /\ Returned(t)
  /\ Turn(t, IF ret[t].status = "Ok" /\ ret[t].value # EMPTY THEN "link" ELSE "read")
  /\ head' = [head EXCEPT ![t] = IF ret[t].status = "Ok" THEN ret[t].value ELSE @]
  /\ UNCHANGED <<nxt, owned>>

\* self.next[head].load
ReadLink(t) ==
  /\ Acts(t) /\ task[t] = "link"
  /\ Turn(t, "take")
  /\ nxt' = [nxt EXCEPT ![t] = mem[Next0 + head[t]]]
  /\ UNCHANGED <<head, owned>>

Take(t) ==
  /\ task[t] = "take" /\ Issue(t, compare_exchange(HeadWord(t), head[t], nxt[t]))
  /\ UNCHANGED listvars

Taken(t) ==
  /\ task[t] = "take" /\ Returned(t)
  /\ Turn(t, CASE ret[t].status = "Ok" -> "push"
               [] ret[t].status = "Miss" -> "read"
               [] OTHER -> "take")
  /\ owned' = [owned EXCEPT ![t] = IF ret[t].status = "Ok" THEN head[t] ELSE @]
  /\ IF ret[t].status = "Abort" THEN UNCHANGED <<head, nxt>> ELSE Drop(t)

\* push_rseq reads the head with a plain load before it calls store_if.
LoadHead(t) ==
  /\ Acts(t) /\ task[t] = "push" /\ at[t] = "call"
  /\ head' = [head EXCEPT ![t] = mem[HeadWord(t).addr]]
  /\ task' = [task EXCEPT ![t] = "store"]
  /\ UNCHANGED <<vars, at, picked, nxt, owned>>

StoreIf(t) ==
  /\ task[t] = "store"
  /\ Issue(t, store_if(HeadWord(t), head[t], owned[t], LinkWord(t), head[t]))
  /\ UNCHANGED listvars

Pushed(t) ==
  /\ task[t] = "store" /\ Returned(t)
  /\ Turn(t, IF ret[t].status = "Ok" THEN "read" ELSE "push")
  /\ owned' = [owned EXCEPT ![t] = IF ret[t].status = "Ok" THEN EMPTY ELSE @]
  /\ Drop(t)

Work(t) ==
  \/ PickCpu(t) \/ ReadHead(t) \/ HeadRead(t) \/ ReadLink(t)
  \/ Take(t) \/ Taken(t) \/ LoadHead(t) \/ StoreIf(t) \/ Pushed(t)

ListInit ==
  /\ ClientInit("read")
  /\ head = [t \in Thread |-> EMPTY]
  /\ nxt = [t \in Thread |-> EMPTY]
  /\ owned = [t \in Thread |-> EMPTY]

ListNext ==
  \E t \in Thread :
    Work(t) \/ (Machine(t) /\ UNCHANGED <<clientvars, listvars>>)

ListSpec == ListInit /\ [][ListNext]_<<vars, clientvars, listvars>>

-----------------------------------------------------------------------------
\* A thread owns the node it has popped until its push has committed.
Owns(t, n) == owned[t] = n /\ ~(task[t] = "store" /\ Unsettled(t))

\* The header of freelist.rs: push stores next on a thread-owned node.  A pop
\* whose thread is moved between its reads and its commit, or whose node is
\* popped and pushed by another thread meanwhile, installs a stale link:
\* then two threads own one node.
ThreadOwned ==
  \A t, u \in Thread, n \in Nodes : Owns(t, n) /\ Owns(u, n) => t = u

=============================================================================
