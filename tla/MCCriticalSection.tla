-------------------------- MODULE MCCriticalSection --------------------------
(***************************************************************************)
(* An instance of CriticalSectionSafety with operations on plain words.    *)
(***************************************************************************)
EXTENDS CriticalSectionSafety, TLC

CONSTANTS t1, t2

Threads2 == {t1, t2}
Symmetric == Permutations(Thread)
NoThreads == {}
Two == {0, 1}

\* The words of an instance have keys of one kind.  The other id of a thread
\* is then of no account, and the kernel gives it the id of its CPU.
OneIdNext ==
  /\ Next
  /\ \A t \in Thread : index'[t] = [k \in Kind |-> index'[t]["cpu_id"]]

OneIdSpec == Init /\ [][OneIdNext]_vars

CpuWord(addr, key) == [addr |-> addr, kind |-> "cpu_id", key |-> key]

\* A head and a side word of CPU 0, one word of CPU 1.
WordsAddr == 0 .. 2
WordsHome == [a \in WordsAddr |-> [kind |-> "cpu_id", key |-> IF a = 2 THEN 1 ELSE 0]]
WordsMem  == [a \in WordsAddr |-> 0]
WordsHolds == [a \in WordsAddr |-> Value]
WordsCalls ==
  LET head == CpuWord(0, 0)  side == CpuWord(1, 0)  far == CpuWord(2, 1) IN
  { compare_exchange(head, 0, 1),
    compare_exchange_if(head, 1, 0, side, 1),
    compare_exchange_if(head, 1, 0, head, 1),
    store_if(head, 0, 1, side, 1),
    store_if(head, 0, 1, far, 1),
    fetch_add(side, 1),
    fetch_add(far, 1) }

=============================================================================
