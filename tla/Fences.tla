-------------------------------- MODULE Fences --------------------------------
(***************************************************************************)
(* Rseq::fence and fence_all beside threads that run blocks: the           *)
(* membarrier interrupts the thread of this process on one CPU, or on      *)
(* every CPU, one after the other in any order.  That the membarrier is    *)
(* registered and how it may fail is the matter of Membarrier.             *)
(***************************************************************************)
EXTENDS CriticalSection

VARIABLES
  pending,   \* the CPUs that the fence in progress has still to interrupt
  old        \* history: the threads still in an attempt that the last fence covers

fencevars == <<vars, pending, old>>

\* An attempt is over when its block is left or sent back to the abort label.
Forget == old' = { t \in old : call'[t] # Idle /\ ip'[t] # 1 }

\* Rseq::fence: threads that run a block for a word of CPU c.
Fence(c) ==
  /\ pending = {} /\ pending' = {c}
  /\ old' = { t \in Thread : InCS(t) /\ call[t].word.kind = "cpu_id" /\ call[t].word.key = c }
  /\ UNCHANGED vars

\* Fault: all CPUs are fenced, but the call covers only one of them.
FenceAll_OneCpu ==
  /\ pending = {} /\ \E c \in CPU : pending' = {c}
  /\ old' = { t \in Thread : InCS(t) }
  /\ UNCHANGED vars

\* Rseq::fence_all: a word of a concurrency id has no CPU.
FenceAll ==
  /\ pending = {} /\ pending' = CPU
  /\ old' = { t \in Thread : InCS(t) }
  /\ UNCHANGED vars

\* The interrupt reaches the CPU, and the thread that it runs.
Ipi(c) ==
  /\ c \in pending /\ pending' = pending \ {c}
  /\ IF \E t \in Thread : cpu[t] = c
     THEN \E t \in Thread : cpu[t] = c /\ Interrupt(t)
     ELSE UNCHANGED vars
  /\ Forget

\* A fence for a CPU beyond the count is refused before it reaches the kernel,
\* and changes nothing; CPU are the ones that exist.
FenceStep == FenceAll \/ \E c \in CPU : Fence(c) \/ Ipi(c)

FenceInit == Init /\ pending = {} /\ old = {}

FenceNext == FenceStep \/ (Next /\ Forget /\ UNCHANGED pending)

FenceSpec == FenceInit /\ [][FenceNext]_fencevars

-----------------------------------------------------------------------------
\* membarrier.rs: a fence aborts the blocks of its CPU, or of all CPUs.  When
\* it has returned, no attempt from before it stores to memory, whatever CPU
\* its thread was on meanwhile: what starts afterwards sees what the caller
\* of the fence wrote before.
FenceAborts ==
  [][\A t \in old : pending = {} /\ Instruction(t) => mem' = mem]_fencevars

=============================================================================
