---------------------------- MODULE MCScheduling -----------------------------
(***************************************************************************)
(* Two CPUs, one thread in cas and one in add.                             *)
(***************************************************************************)
EXTENDS Scheduling, TLC

CONSTANTS t1, t2

SchedThreads == {t1, t2}
OneEach == [t \in SchedThreads |-> IF t = t1 THEN "cas" ELSE "add"]
SchedHandlers == {}
SchedCPU == {0, 1}

SchedAddr == 0 .. 1
SchedMem  == [a \in SchedAddr |-> 0]
SchedCalls ==
  LET words == { WordOf(Base, "cpu_id", id) : id \in SchedCPU } IN
  { fetch_add(word, 0) : word \in words } \cup { compare_exchange(word, 0, 1) : word \in words }

=============================================================================
