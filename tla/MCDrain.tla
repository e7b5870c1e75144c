------------------------------- MODULE MCDrain --------------------------------
(***************************************************************************)
(* Two adders and two CPUs.                                                *)
(***************************************************************************)
EXTENDS Drain, TLC

CONSTANTS t1, t2

DrainThreads == {t1, t2}
NoHandlers   == {}
DrainCPU     == {0, 1}

DrainAddr  == {0, 1}
DrainMem   == [a \in DrainAddr |-> 0]
DrainCalls == { fetch_add(WordOf(Base, "cpu_id", id), 1) : id \in DrainCPU }

=============================================================================
