------------------------------ MODULE FenceProofs ------------------------------
(***************************************************************************)
(* Proofs about Fences, for any number of threads, CPUs and calls.         *)
(***************************************************************************)
EXTENDS ConfirmingProofs, Fences

\* The interrupt of the fence has yet to reach the CPU that a thread is on,
\* or the thread has been moved away from the CPU of its word and is before
\* its check, which will fail.
Covered(t) ==
  Running(t) => \/ cpu[t] \in pending
                \/ call[t].word.kind = "cpu_id" /\ call[t].word.key # cpu[t]

Fencing == Confirming /\ old \subseteq Thread /\ \A t \in old : InCS(t) /\ Covered(t)

LEMMA FencingInit == FenceInit => Fencing
BY ConfirmingInit DEF FenceInit, Fencing

\* A step of a thread that leaves the kernel's interrupts to come as they are.
LEMMA FencingThread ==
  ASSUME Fencing, Next, Forget, UNCHANGED pending
  PROVE  Fencing'
<1>0. Shape /\ TypeOK
  BY DEF Fencing, Confirming, Shape
<1>1. Confirming' /\ (old \subseteq Thread)'
  BY ConfirmingStep DEF Fencing, Forget
<1>2. SUFFICES ASSUME NEW t \in old, call'[t] # Idle, ip'[t] # 1
               PROVE  InCS(t)' /\ Covered(t)'
  BY <1>1 DEF Fencing, Forget
<1>3. t \in Thread /\ InCS(t) /\ Busy(t) /\ Covered(t)
  BY DEF Fencing, InCS
<1>4. ASSUME UNCHANGED <<cpu[t], call[t], ip[t]>>
      PROVE  InCS(t)' /\ Covered(t)'
  BY <1>3, <1>4 DEF InCS, Busy, Covered, Running
<1>5. PICK u \in Thread : Kernel(u) \/ (\E c \in Calls : Invoke(u, c))
                            \/ PrepareUnload(u) \/ Instruction(u)
  BY DEF Next
<1>6. CASE Preempt(u)
  BY <1>6, <1>0, <1>3, <1>4 DEF Preempt, TypeOK, InCS, Busy, Covered, Running
<1>7. CASE \E c \in CPU, i \in CidSet : Resume(u, c, i)
  BY <1>7, <1>0, <1>2, <1>3, <1>4, FixUp DEF Resume, TypeOK
<1>8. CASE Interrupt(u)
  BY <1>8, <1>0, <1>2, <1>3, <1>4, FixUp DEF Interrupt, TypeOK
<1>9. CASE Signal(u)
  BY <1>9, <1>0, <1>2, <1>3, <1>4 DEF Signal, TypeOK
<1>10. CASE SignalReturn(u) \/ (\E c \in Calls : Invoke(u, c)) \/ PrepareUnload(u)
  BY <1>10, <1>0, <1>3, <1>4 DEF SignalReturn, Invoke, PrepareUnload, TypeOK
<1>11. CASE Instruction(u)
  <2>1. UNCHANGED cpu /\ (Continues(u) \/ Returns(u))
    BY <1>11, <1>0, InstructionShape
  <2>2. CASE Returns(u)
    BY <2>1, <2>2, <1>0, <1>2, <1>3, <1>4 DEF Returns, TypeOK
  <2>3. CASE Continues(u)
    BY <2>1, <2>3, <1>0, <1>3, <1>4
       DEF Continues, TypeOK, InCS, Busy, Covered, Running, Last
  <2>4. QED
    BY <2>1, <2>2, <2>3
<1>12. QED
  BY <1>5, <1>6, <1>7, <1>8, <1>9, <1>10, <1>11 DEF Kernel

LEMMA FencingIpi ==
  ASSUME Fencing, NEW c \in CPU, Ipi(c)
  PROVE  Fencing'
<1>0. Shape /\ TypeOK /\ c # Off
  BY ConstantsOK DEF Fencing, Confirming, Shape, Off
<1>1. CASE \E u \in Thread : cpu[u] = c
  <2>1. PICK u \in Thread : cpu[u] = c /\ Interrupt(u)
    BY <1>1 DEF Ipi
  <2>2. Confirming' /\ (old \subseteq Thread)'
    BY <2>1, ConfirmingStep DEF Fencing, Ipi, Forget, Next, Kernel
  <2>3. ASSUME NEW t \in old, ip'[t] # 1
        PROVE  InCS(t)' /\ Covered(t)'
    <3>1. t # u
      BY <2>1, <2>3, <1>0, FixUp DEF Interrupt, TypeOK
    <3>2. t \in Thread /\ (Running(t) => cpu[t] # c)
      BY <2>1, <3>1, <1>0 DEF Fencing, Confirming, IndicesDistinct, Running
    <3>3. UNCHANGED <<cpu, call, ip[t]>> /\ InCS(t) /\ Covered(t)
      BY <2>1, <3>1, <1>0 DEF Interrupt, TypeOK, Fencing
    <3>4. QED
      BY <3>2, <3>3 DEF Ipi, InCS, Busy, Covered, Running
  <2>4. QED
    BY <2>2, <2>3 DEF Fencing, Ipi, Forget
<1>2. CASE ~ \E u \in Thread : cpu[u] = c
  <2>1. UNCHANGED vars
    BY <1>2 DEF Ipi
  <2>2. Confirming' /\ (old \subseteq Thread)'
    BY <2>1, ConfirmingStep DEF Fencing, Ipi, Forget
  <2>3. ASSUME NEW t \in old
        PROVE  InCS(t)' /\ Covered(t)'
    BY <2>1, <1>2 DEF Fencing, Ipi, vars, InCS, Busy, Covered, Running
  <2>4. QED
    BY <2>2, <2>3 DEF Fencing, Ipi, Forget
<1>3. QED
  BY <1>1, <1>2

LEMMA FencingStep == Fencing /\ [FenceNext]_fencevars => Fencing'
<1> SUFFICES ASSUME Fencing, [FenceNext]_fencevars
             PROVE  Fencing'
  OBVIOUS
<1>0. TypeOK
  BY DEF Fencing, Confirming, Shape
<1>1. ASSUME UNCHANGED vars
      PROVE  Confirming'
  BY <1>1, ConfirmingStep DEF Fencing
<1>2. CASE FenceAll
  <2>1. \A t \in Thread : Running(t) => cpu[t] \in CPU
    BY <1>0 DEF TypeOK, Running
  <2>2. QED
    BY <1>1, <1>2, <2>1 DEF FenceAll, Fencing, vars, InCS, Busy, Covered, Running
<1>3. CASE \E c \in CPU : Fence(c)
  BY <1>1, <1>3 DEF Fence, Fencing, vars, InCS, Busy, Covered, Running
<1>4. CASE \E c \in CPU : Ipi(c)
  BY <1>4, FencingIpi
<1>5. CASE Next /\ Forget /\ UNCHANGED pending
  BY <1>5, FencingThread
<1>6. CASE UNCHANGED fencevars
  BY <1>1, <1>6 DEF fencevars, Fencing, vars, InCS, Busy, Covered, Running
<1>7. QED
  BY <1>2, <1>3, <1>4, <1>5, <1>6 DEF FenceNext, FenceStep

\* A fence of any threads on any CPUs, preempted and moved in any way while
\* the interrupts are on their way, ends the attempts it covers: once it has
\* returned, none of them stores.
THEOREM FencedBlocksEnd == FenceSpec => FenceAborts
<1>1. FenceSpec => []Fencing
  BY FencingInit, FencingStep, PTL DEF FenceSpec
<1>2. Fencing => [\A t \in old : pending = {} /\ Instruction(t) => mem' = mem]_fencevars
  <2>1. SUFFICES ASSUME Fencing, NEW t \in old, pending = {}, Instruction(t)
                 PROVE  mem' = mem
    OBVIOUS
  <2>2. t \in Thread /\ Shape /\ InCS(t) /\ Covered(t)
    BY <2>1 DEF Fencing, Confirming
  <2>3. Running(t)
    BY <2>1, <2>2, InstructionShape
  <2>4. ~Confirmed(t)
    BY <2>1, <2>2, <2>3 DEF Covered, Confirmed, Fencing, Confirming, IndicesDistinct
  <2>5. ip[t] \in {1, 2}
    BY <2>1, <2>2, <2>3, <2>4 DEF Fencing, Confirming, ConfirmedInCS, Shape, TypeOK
  <2>6. QED
    BY <2>1, <2>2, <2>5, NothingStored
<1>3. QED
  BY <1>1, <1>2, PTL DEF FenceAborts

=============================================================================
