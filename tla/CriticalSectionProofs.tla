------------------------ MODULE CriticalSectionProofs ------------------------
(***************************************************************************)
(* Proofs about CriticalSectionSafety, for any number of threads, CPUs,    *)
(* concurrency ids, words and calls of which every word has one index; at  *)
(* the end, that the operations of thread.rs, run instruction by           *)
(* instruction on a preemptive kernel, implement the atomic ones of        *)
(* WordOps.                                                                *)
(***************************************************************************)
EXTENDS CriticalSectionSafety, ConfirmingProofs

\* Two calls in progress on words of one index: at most one of their threads
\* is past its check.
LEMMA Exclusion == Confirming => OnePerIndex
<1> SUFFICES ASSUME Confirming, NEW t \in Thread, NEW u \in Thread,
                    Running(t), InCS(t), ip[t] > 2, Running(u), InCS(u), ip[u] > 2,
                    HomeOf(t) = HomeOf(u), t # u
             PROVE  FALSE
  BY DEF OnePerIndex
<1>1. Confirmed(t) /\ Confirmed(u)
  BY DEF Confirming, ConfirmedInCS
<1>2. call[t].word.kind \in Kind /\ AtHome(call[t].word) /\ AtHome(call[u].word)
  BY CallType, OneIndexPerWord DEF Confirming, Shape, InCS, Word
<1>3. /\ call[t].word.kind = call[u].word.kind
      /\ call[t].word.key = call[u].word.key
  <2>1. [kind |-> call[t].word.kind, key |-> call[t].word.key]
          = [kind |-> call[u].word.kind, key |-> call[u].word.key]
    BY <1>2 DEF HomeOf, AtHome
  <2>2. QED
    BY <2>1
<1>4. index[t][call[t].word.kind] = index[u][call[t].word.kind]
  BY <1>1, <1>3 DEF Confirmed
<1>5. QED
  BY <1>2, <1>4 DEF Confirming, IndicesDistinct, Kind

THEOREM ExclusionPerIndex == Spec => []OnePerIndex
<1>1. Spec => []Confirming
  BY ConfirmingInit, ConfirmingStep, PTL DEF Spec
<1>2. QED
  BY <1>1, Exclusion, PTL

-----------------------------------------------------------------------------
(* No commit acts on a stale read. *)

Stable == Confirming /\ KeysAgree /\ NothingStale

LEMMA KeysInit == Init => KeysAgree
BY DEF Init, KeysAgree, Busy

LEMMA KeysStep == Shape /\ KeysAgree /\ [Next]_vars => KeysAgree'
<1> SUFFICES ASSUME Shape, KeysAgree, [Next]_vars
             PROVE  KeysAgree'
  OBVIOUS
<1>0. TypeOK
  BY DEF Shape
<1>1. ASSUME NEW t \in Thread, Kernel(t)
      PROVE  KeysAgree'
  <2>1. CASE Preempt(t)
    BY <2>1 DEF Preempt, KeysAgree, Busy
  <2>2. ASSUME NEW c \in CPU, NEW i \in CidSet, Resume(t, c, i)
        PROVE  KeysAgree'
    BY <2>2 DEF Resume, KeysAgree, Busy
  <2>3. CASE Interrupt(t)
    BY <2>3 DEF Interrupt, KeysAgree, Busy
  <2>4. CASE Signal(t)
    BY <2>4, <1>0 DEF Signal, KeysAgree, Busy, TypeOK
  <2>5. CASE SignalReturn(t)
    BY <2>5, <1>0 DEF SignalReturn, KeysAgree, Busy, TypeOK
  <2>6. QED
    BY <1>1, <2>1, <2>2, <2>3, <2>4, <2>5 DEF Kernel
<1>2. ASSUME NEW t \in Thread, NEW c \in Calls, Invoke(t, c)
      PROVE  KeysAgree'
  BY <1>2, <1>0 DEF Invoke, KeysAgree, Busy, TypeOK
<1>3. ASSUME NEW t \in Thread, PrepareUnload(t)
      PROVE  KeysAgree'
  BY <1>3 DEF PrepareUnload, KeysAgree, Busy
<1>4. ASSUME NEW t \in Thread, Instruction(t)
      PROVE  KeysAgree'
  BY <1>4, <1>0, InstructionShape DEF Continues, Returns, KeysAgree, Busy, TypeOK
<1>5. CASE UNCHANGED vars
  BY <1>5 DEF vars, KeysAgree, Busy
<1>6. QED
  BY <1>1, <1>2, <1>3, <1>4, <1>5 DEF Next

\* The words of a call are of one index.
LEMMA WordsAtHome ==
  ASSUME Shape, KeysAgree, NEW t \in Thread, Busy(t)
  PROVE  /\ call[t].word.addr \in Addr /\ call[t].other.addr \in Addr
         /\ call[t].op \in Paired => Home[call[t].other.addr] = HomeOf(t)
         /\ call[t].op = "store_if" => call[t].other.addr # call[t].word.addr
<1>1. call[t] \in Calls /\ call[t].word \in Word /\ call[t].other \in Word
  BY CallType DEF Shape
<1>2. /\ AtHome(call[t].word) /\ AtHome(call[t].other)
      /\ call[t].op = "store_if" => call[t].other.addr # call[t].word.addr
      /\ call[t].other.kind = call[t].word.kind
  BY <1>1, OneIndexPerWord, OneKindPerCall
<1>3. call[t].op \in Paired => call[t].other.key = call[t].word.key
  BY DEF KeysAgree, KeysDiffer
<1>4. QED
  BY <1>1, <1>2, <1>3 DEF HomeOf, AtHome, Word

\* A store goes to an address of the index of its call, past the check.
LEMMA Writes ==
  ASSUME Confirming, KeysAgree, ChaseContract,
         NEW u \in Thread, Instruction(u), NEW a \in Addr, mem'[a] # mem[a]
  PROVE  Running(u) /\ InCS(u) /\ ip[u] > 2 /\ Home[a] = HomeOf(u)
<1>0. Shape /\ TypeOK /\ Running(u) /\ Busy(u)
  BY InstructionShape DEF Confirming, Shape
<1>1. ASSUME NEW label, At(u, label), label \notin {"arm", "check"}
      PROVE  InCS(u) /\ ip[u] > 2
  BY <1>0, <1>1, Position, BlockShape DEF InCS, Last
<1>2. CASE StoreSide(u)
  <2>1. At(u, "store_side") /\ a = call[u].other.addr
    BY <1>2, <1>0 DEF StoreSide, TypeOK
  <2>2. call[u].op \in Paired
    BY <2>1, <1>0, Position, LabelOp DEF Paired
  <2>3. QED
    BY <1>0, <1>1, <2>1, <2>2, WordsAtHome
<1>3. CASE StoreNew(u)
  <2>1. At(u, "store_new") /\ a = call[u].word.addr
    BY <1>3, <1>0 DEF StoreNew, Commit, TypeOK
  <2>2. QED
    BY <1>0, <1>1, <2>1 DEF HomeOf
<1>4. CASE StoreChased(u)
  <2>1. At(u, "store_chased") /\ a = call[u].word.addr
    BY <1>4, <1>0 DEF StoreChased, Commit, TypeOK
  <2>2. QED
    BY <1>0, <1>1, <2>1 DEF HomeOf
<1>5. CASE StoreSum(u)
  <2>1. At(u, "store_sum") /\ a = Target(u)
    BY <1>5, <1>0 DEF StoreSum, Commit, TypeOK
  <2>2. Home[Target(u)] = HomeOf(u)
    BY <2>1, <1>0 DEF ChaseContract, SlotLegal, Target, HomeOf
  <2>3. QED
    BY <1>0, <1>1, <2>1, <2>2
<1>6. QED
  BY <1>2, <1>3, <1>4, <1>5
     DEF Instruction, Arm, Check, LoadEq, LoadOtherEq, LoadNe, Chase, LoadBase, LoadSlot,
         LoadPrev

\* While a thread is past its check, nobody else writes to its index.
LEMMA Isolation ==
  ASSUME Confirming, KeysAgree, ChaseContract,
         NEW t \in Thread, Running(t), InCS(t), ip[t] > 2,
         NEW u \in Thread, u # t, Instruction(u),
         NEW a \in Addr, Home[a] = HomeOf(t)
  PROVE  mem'[a] = mem[a]
BY Writes, Exclusion DEF OnePerIndex

\* An instruction establishes what the next one relies on.
LEMMA OwnStep ==
  ASSUME Stable, ChaseContract, NEW t \in Thread, Instruction(t), Continues(t)
  PROVE  Established(t)'
<1> DEFINE op == call[t].op
           next == Program[op][ip[t] + 1]
<1>0. /\ Shape /\ TypeOK /\ KeysAgree /\ Confirming /\ Running(t) /\ Busy(t)
      /\ op \in Op /\ Established(t) /\ reg[t] \in Reg
  BY InstructionShape, CallType DEF Stable, Confirming, Shape, NothingStale, TypeOK
<1>1. ASSUME NEW label
      PROVE  At(t, label)' <=> label = next
  BY <1>0, InstructionShape DEF At, Running, Busy, Continues, TypeOK
<1>2. ASSUME NEW label, At(t, label)
      PROVE  label = Program[op][ip[t]] /\ ip[t] \in 1 .. Last(op) - 1
  BY <1>0, <1>2, Position, BlockShape DEF Continues
<1>3. call' = call /\ Field(t)' = Plus(reg'[t].cur, call[t].offset)
      /\ Target(t)' = IF op = "fetch_add_at" THEN reg'[t].tmp ELSE call[t].word.addr
  BY DEF Continues, Field, Target
<1>4. CASE Arm(t)
  <2>1. next = "check"
    BY <1>4, <1>0, Position, BlockShape, FirstLabels DEF Arm
  <2>2. QED
    BY <1>1, <2>1 DEF Established
<1>5. CASE Check(t)
  <2>1. \/ next \in {"load_eq", "load_ne", "load_base"}
        \/ next = "load_prev" /\ op = "fetch_add"
    BY <1>5, <1>0, <1>2, NextLabel DEF Check
  <2>2. QED
    BY <1>1, <1>3, <2>1 DEF Established
<1>6. CASE LoadEq(t)
  <2>1. \/ next \in {"load_other_eq", "store_side"}
        \/ next = "store_new" /\ op \notin Paired
    BY <1>6, <1>0, <1>2, NextLabel DEF LoadEq
  <2>2. mem' = mem /\ mem[call[t].word.addr] = call[t].expect
        /\ reg'[t].cur = call[t].expect
    BY <1>6, <1>0, <1>3 DEF LoadEq, Exit, Return, Busy, TypeOK, Reg
  <2>3. QED
    BY <1>1, <1>3, <2>1, <2>2 DEF Established
<1>7. CASE LoadOtherEq(t)
  <2>1. At(t, "load_other_eq") /\ next = "store_new"
    BY <1>7, <1>0, <1>2, NextLabel DEF LoadOtherEq
  <2>2. mem' = mem /\ reg' = reg /\ mem[call[t].other.addr] = call[t].other_val
    BY <1>7, <1>0, <1>3 DEF LoadOtherEq, Exit, Return, Busy, TypeOK
  <2>3. QED
    BY <1>0, <1>1, <1>3, <2>1, <2>2 DEF Established
<1>8. CASE LoadNe(t)
  <2>1. next = "chase"
    BY <1>8, <1>0, <1>2, NextLabel DEF LoadNe
  <2>2. mem' = mem /\ reg'[t].cur = mem[call[t].word.addr]
        /\ mem[call[t].word.addr] # call[t].expect
    BY <1>8, <1>0, <1>3 DEF LoadNe, Exit, Return, Busy, TypeOK, Reg
  <2>3. QED
    BY <1>1, <1>3, <2>1, <2>2 DEF Established
<1>9. CASE Chase(t)
  <2>1. At(t, "chase") /\ next = "store_chased"
    BY <1>9, <1>0, <1>2, NextLabel DEF Chase
  <2>2. mem' = mem /\ reg'[t].cur = reg[t].cur /\ reg'[t].tmp = mem[Field(t)]
    BY <1>9, <1>0 DEF Chase, TypeOK, Reg
  <2>3. Field(t)' = Field(t)
    BY <1>3, <2>2 DEF Field
  <2>4. QED
    BY <1>0, <1>1, <1>3, <2>1, <2>2, <2>3 DEF Established
<1>10. CASE LoadBase(t)
  <2>1. next = "load_slot"
    BY <1>10, <1>0, <1>2, NextLabel DEF LoadBase
  <2>2. mem' = mem /\ reg'[t].tmp = Plus(mem[call[t].word.addr], call[t].offset)
    BY <1>10, <1>0 DEF LoadBase, TypeOK, Reg
  <2>3. QED
    BY <1>1, <1>3, <2>1, <2>2 DEF Established
<1>11. CASE LoadSlot(t)
  <2>1. At(t, "load_slot") /\ next = "load_prev" /\ op = "fetch_add_at"
    BY <1>11, <1>0, <1>2, NextLabel, Position, LabelOp DEF LoadSlot
  <2>2. mem' = mem /\ reg'[t].tmp = mem[reg[t].tmp]
    BY <1>11, <1>0 DEF LoadSlot, TypeOK, Reg
  <2>3. reg[t].tmp = Plus(mem[call[t].word.addr], call[t].offset)
    BY <1>0, <2>1 DEF Established
  <2>4. reg[t].tmp \in Addr /\ Home[reg[t].tmp] = HomeOf(t)
    BY <1>0, <2>1 DEF ChaseContract, SlotLegal
  <2>5. HomeOf(t)' = HomeOf(t)
    BY <1>3 DEF HomeOf
  <2>6. QED
    BY <1>1, <1>3, <2>1, <2>2, <2>3, <2>4, <2>5 DEF Established
<1>12. CASE LoadPrev(t)
  <2>1. At(t, "load_prev") /\ next = "store_sum"
    BY <1>12, <1>0, <1>2, NextLabel DEF LoadPrev
  <2>2. mem' = mem /\ reg'[t].tmp = reg[t].tmp /\ reg'[t].cur = mem[Target(t)]
    BY <1>12, <1>0 DEF LoadPrev, TypeOK, Reg
  <2>3. Target(t)' = Target(t) /\ HomeOf(t)' = HomeOf(t)
    BY <1>3, <2>2 DEF Target, HomeOf
  <2>4. QED
    BY <1>0, <1>1, <1>3, <2>1, <2>2, <2>3 DEF Established
<1>13. CASE StoreSide(t)
  <2>1. At(t, "store_side") /\ next = "store_new" /\ op = "store_if"
    BY <1>13, <1>0, <1>2, NextLabel, Position, LabelOp DEF StoreSide
  <2>2. /\ reg' = reg /\ mem' = [mem EXCEPT ![call[t].other.addr] = call[t].other_val]
    BY <1>13 DEF StoreSide
  <2>3. /\ call[t].word.addr \in Addr /\ call[t].other.addr \in Addr
        /\ call[t].other.addr # call[t].word.addr
    BY <1>0, <2>1, WordsAtHome
  <2>4. /\ mem'[call[t].word.addr] = mem[call[t].word.addr]
        /\ mem'[call[t].other.addr] = call[t].other_val
    BY <1>0, <2>2, <2>3 DEF TypeOK
  <2>5. QED
    BY <1>0, <1>1, <1>3, <2>1, <2>2, <2>4 DEF Established
<1>14. ASSUME NEW label \in Commits, At(t, label)
       PROVE  FALSE
  BY <1>2, <1>14, <1>0, BlockShape, Position
<1>15. QED
  BY <1>4, <1>5, <1>6, <1>7, <1>8, <1>9, <1>10, <1>11, <1>12, <1>13, <1>14
     DEF Instruction, StoreNew, StoreChased, StoreSum, Commits

\* An instruction of one thread takes nothing from another one.
LEMMA OthersStep ==
  ASSUME Stable, ChaseContract, NEW u \in Thread, Instruction(u),
         NEW t \in Thread, t # u, Running(t), Busy(t)
  PROVE  Established(t)'
<1>0. /\ Shape /\ TypeOK /\ Confirming /\ KeysAgree
      /\ Established(t) /\ call[t].op \in Op
  BY CallType DEF Stable, Confirming, Shape, NothingStale
<1>1. /\ cpu'[t] = cpu[t] /\ call'[t] = call[t] /\ ip'[t] = ip[t]
  BY <1>0, OthersAlone
<1>2. reg'[t] = reg[t]
  BY <1>0, OthersAlone
<1>3. /\ Field(t)' = Field(t) /\ Target(t)' = Target(t) /\ HomeOf(t)' = HomeOf(t)
      /\ \A label : At(t, label)' <=> At(t, label)
  BY <1>1, <1>2 DEF Field, Target, HomeOf, At, Running, Busy
<1>4. CASE ~(InCS(t) /\ ip[t] > 2)
  <2>1. ip[t] \in {1, 2}
    BY <1>0, <1>4 DEF Shape, InBlock, InCS, TypeOK
  <2>2. \A label : At(t, label) => label \in {"arm", "check"}
    BY <1>0, <2>1, FirstLabels DEF At
  <2>3. QED
    BY <1>3, <2>2 DEF Established
<1>5. CASE InCS(t) /\ ip[t] > 2
  <2>1. \A a \in Addr : Home[a] = HomeOf(t) => mem'[a] = mem[a]
    BY <1>0, <1>5, Isolation
  <2>2. /\ mem'[call[t].word.addr] = mem[call[t].word.addr]
        /\ call[t].op \in Paired => mem'[call[t].other.addr] = mem[call[t].other.addr]
    BY <1>0, <2>1, WordsAtHome DEF HomeOf
  <2>3. At(t, "store_chased") => mem'[Field(t)] = mem[Field(t)]
    BY <2>1 DEF ChaseContract, ChaseLegal
  <2>4. At(t, "store_sum") => mem'[Target(t)] = mem[Target(t)]
    BY <2>1, <2>2 DEF ChaseContract, SlotLegal, Target, At
  <2>5. ASSUME At(t, "load_prev") \/ At(t, "store_sum"), call[t].op = "fetch_add_at"
        PROVE  LET base == Plus(mem[call[t].word.addr], call[t].offset)
               IN  mem'[base] = mem[base]
    BY <1>0, <2>1, <2>5 DEF Established
  <2>6. QED
    BY <1>0, <1>1, <1>2, <1>3, <2>2, <2>3, <2>4, <2>5 DEF Established
<1>6. QED
  BY <1>4, <1>5

\* At the abort label nothing has been established yet.
LEMMA NothingAtStart ==
  ASSUME NEW t \in Thread, call'[t] # Idle => call'[t].op \in Op, ip'[t] = 1
  PROVE  (Running(t) /\ Busy(t) => Established(t))'
<1>1. \A label : At(t, label)' => label = "arm"
  BY FirstLabels DEF At, Busy
<1>2. QED
  BY <1>1 DEF Established

\* The kernel does not touch memory: it takes a thread off its CPU, or leaves
\* it at the abort label.
LEMMA KernelStep ==
  ASSUME Stable, Shape', NEW t \in Thread, Kernel(t) \/ PrepareUnload(t)
  PROVE  NothingStale'
<1> SUFFICES ASSUME NEW u \in Thread
             PROVE  (Running(u) /\ Busy(u) => Established(u))'
  BY DEF NothingStale
<1>0. Shape /\ TypeOK /\ (Running(u) /\ Busy(u) => Established(u))
  BY DEF Stable, Confirming, Shape, NothingStale
<1>1. call'[u] # Idle => call'[u].op \in Op
  <2>1. call'[u] \in Calls \cup {Idle}
    BY DEF Shape, TypeOK
  <2>2. QED
    BY <2>1, ConstantsOK DEF Call
<1>2. mem' = mem
  BY DEF Kernel, Preempt, Resume, Interrupt, Signal, SignalReturn, PrepareUnload
<1>3. CASE cpu'[u] = Off
  BY <1>3 DEF Running
<1>4. CASE ip'[u] = 1
  BY <1>1, <1>4, NothingAtStart
<1>5. CASE cpu'[u] = cpu[u] /\ call'[u] = call[u] /\ ip'[u] = ip[u] /\ reg'[u] = reg[u]
  <2>1. /\ Field(u)' = Field(u) /\ Target(u)' = Target(u) /\ HomeOf(u)' = HomeOf(u)
        /\ \A label : At(u, label)' <=> At(u, label)
        /\ Running(u)' = Running(u) /\ Busy(u)' = Busy(u)
    BY <1>5 DEF Field, Target, HomeOf, At, Running, Busy
  <2>2. QED
    BY <1>0, <1>2, <1>5, <2>1 DEF Established
<1>6. CASE Preempt(t)
  BY <1>0, <1>3, <1>5, <1>6 DEF Preempt, TypeOK
<1>7. ASSUME NEW c \in CPU, NEW i \in CidSet, Resume(t, c, i)
      PROVE  (Running(u) /\ Busy(u) => Established(u))'
  BY <1>0, <1>4, <1>5, <1>7, FixUp DEF Resume, TypeOK
<1>8. CASE Interrupt(t)
  BY <1>0, <1>4, <1>5, <1>8, FixUp DEF Interrupt, TypeOK
<1>9. CASE Signal(t)
  BY <1>0, <1>4, <1>5, <1>9 DEF Signal, TypeOK
<1>10. CASE SignalReturn(t)
  <2>1. frame[t].ip = 1
    BY <1>0, <1>10 DEF Shape, FramesOutside, SignalReturn
  <2>2. QED
    BY <1>0, <1>4, <1>5, <1>10, <2>1 DEF SignalReturn, TypeOK
<1>11. CASE PrepareUnload(t)
  BY <1>0, <1>5, <1>11 DEF PrepareUnload, TypeOK
<1>12. QED
  BY <1>6, <1>7, <1>8, <1>9, <1>10, <1>11 DEF Kernel

LEMMA StableStep == Stable /\ ChaseContract /\ [Next]_vars => Stable'
<1> SUFFICES ASSUME Stable, ChaseContract, [Next]_vars
             PROVE  NothingStale'
  BY ConfirmingStep, KeysStep DEF Stable, Confirming
<1>0. Shape /\ Shape' /\ TypeOK
  BY ShapeStep DEF Stable, Confirming, Shape
<1>1. ASSUME NEW t \in Thread, Kernel(t) \/ PrepareUnload(t)
      PROVE  NothingStale'
  BY <1>0, <1>1, KernelStep
<1>2. ASSUME NEW t \in Thread, NEW c \in Calls, Invoke(t, c)
      PROVE  NothingStale'
  <2> SUFFICES ASSUME NEW u \in Thread
               PROVE  (Running(u) /\ Busy(u) => Established(u))'
    BY DEF NothingStale
  <2>1. ip[t] = 1 /\ c.op \in Op
    BY <1>0, <1>2, ConstantsOK DEF Invoke, Shape, InBlock, Call
  <2>2. CASE u = t
    <3>1. ip'[u] = 1 /\ (call'[u] # Idle => call'[u].op \in Op)
      BY <1>0, <1>2, <2>1, <2>2 DEF Invoke, TypeOK, Busy
    <3>2. QED
      BY <3>1, NothingAtStart
  <2>3. CASE u # t
    <3>1. /\ cpu' = cpu /\ mem' = mem /\ reg' = reg /\ ip' = ip /\ call'[u] = call[u]
      BY <1>0, <1>2, <2>3 DEF Invoke, TypeOK
    <3>2. /\ Field(u)' = Field(u) /\ Target(u)' = Target(u) /\ HomeOf(u)' = HomeOf(u)
          /\ \A label : At(u, label)' <=> At(u, label)
          /\ Running(u)' = Running(u) /\ Busy(u)' = Busy(u)
      BY <3>1 DEF Field, Target, HomeOf, At, Running, Busy
    <3>3. QED
      BY <3>1, <3>2 DEF Stable, NothingStale, Established
  <2>4. QED
    BY <2>2, <2>3
<1>3. ASSUME NEW t \in Thread, Instruction(t)
      PROVE  NothingStale'
  <2> SUFFICES ASSUME NEW u \in Thread, (Running(u) /\ Busy(u))'
               PROVE  Established(u)'
    BY DEF NothingStale
  <2>1. CASE u = t
    <3>1. ~Returns(t)
      BY <1>0, <2>1 DEF Returns, Busy, TypeOK
    <3>2. QED
      BY <1>0, <1>3, <2>1, <3>1, InstructionShape, OwnStep
  <2>2. CASE u # t
    <3>1. Running(u) /\ Busy(u)
      BY <1>0, <1>3, <2>2, InstructionShape
         DEF Continues, Returns, Running, Busy, TypeOK
    <3>2. QED
      BY <1>3, <2>2, <3>1, OthersStep
  <2>3. QED
    BY <2>1, <2>2
<1>4. CASE UNCHANGED vars
  <2>1. \A u \in Thread :
          /\ Field(u)' = Field(u) /\ Target(u)' = Target(u) /\ HomeOf(u)' = HomeOf(u)
          /\ \A label : At(u, label)' <=> At(u, label)
          /\ Running(u)' = Running(u) /\ Busy(u)' = Busy(u)
    BY <1>4 DEF vars, Field, Target, HomeOf, At, Running, Busy
  <2>2. QED
    BY <1>4, <2>1 DEF Stable, NothingStale, Established, vars
<1>5. QED
  BY <1>1, <1>2, <1>3, <1>4 DEF Next

LEMMA StableInit == Init => Stable
BY ConfirmingInit, KeysInit DEF Init, Stable, NothingStale, Running

LEMMA StableAlways == Spec /\ []ChaseContract => []Stable
BY StableInit, StableStep, PTL DEF Spec

\* When the callers keep their chases to live words of their own index, a
\* commit never acts on a stale read.
THEOREM NoStaleCommit == Spec /\ []ChaseContract => []NothingStale
<1>1. Stable => NothingStale
  BY DEF Stable
<1>2. QED
  BY <1>1, StableAlways, PTL

\* A word only changes under a thread that runs with the word's index.
THEOREM HomeWrites == Spec /\ []ChaseContract => OnlyHomeWrites
<1> DEFINE Owned == \A a \in Addr : mem'[a] # mem[a] =>
                      \E t \in Thread : Running(t) /\ index[t][Home[a].kind] = Home[a].key
<1>1. Stable /\ ChaseContract /\ [Next]_vars => [Owned]_vars
  <2> SUFFICES ASSUME Stable, ChaseContract, Next, NEW a \in Addr, mem'[a] # mem[a]
               PROVE  \E t \in Thread : Running(t) /\ index[t][Home[a].kind] = Home[a].key
    OBVIOUS
  <2>1. PICK t \in Thread : Instruction(t)
    BY DEF Next, Kernel, Preempt, Resume, Interrupt, Signal, SignalReturn, Invoke,
           PrepareUnload
  <2>2. Running(t) /\ InCS(t) /\ ip[t] > 2 /\ Home[a] = HomeOf(t)
    BY <2>1, Writes DEF Stable
  <2>3. Confirmed(t)
    BY <2>2 DEF Stable, Confirming, ConfirmedInCS
  <2>4. Home[a] = [kind |-> call[t].word.kind, key |-> call[t].word.key]
    BY <2>2, CallType, OneIndexPerWord
       DEF HomeOf, AtHome, InCS, Stable, Confirming, Shape
  <2>5. QED
    BY <2>2, <2>3, <2>4 DEF Confirmed
<1>2. QED
  BY <1>1, StableAlways, PTL DEF Spec, OnlyHomeWrites

-----------------------------------------------------------------------------
(* Callers that follow the rule for values keep the contract of chases, so *)
(* that nothing need be asked of the behaviour.                            *)

LEMMA KeptByCalls ==
  ASSUME Shape, NEW t \in Thread, Busy(t)
  PROVE  /\ StoresKept(call[t])
         /\ call[t].op = "fetch_add"    => Closed(call[t].word.addr, call[t].new)
         /\ call[t].op = "load_if_ne"   => PopsKept(call[t])
         /\ call[t].op = "fetch_add_at" => SlotsKept(call[t])
BY CallType, ValuesKept DEF Shape

\* Past the compare of load_if_ne, the value found leads to the link.
LEMMA LinkLegal ==
  ASSUME Stable, WellHeld, NEW t \in Thread, At(t, "chase") \/ At(t, "store_chased")
  PROVE  /\ Field(t) \in Addr /\ Home[Field(t)] = HomeOf(t)
         /\ Holds[Field(t)] \subseteq Holds[call[t].word.addr]
<1>1. /\ Shape /\ Busy(t) /\ Established(t)
      /\ call[t].op = "load_if_ne" /\ call[t].word.addr \in Addr
  BY Position, LabelOp, WordsAtHome DEF Stable, Confirming, NothingStale, At
<1>2. reg[t].cur \in Holds[call[t].word.addr] \ {call[t].expect}
  BY <1>1 DEF Established, WellHeld
<1>3. PopsKept(call[t])
  BY <1>1, KeptByCalls
<1>4. QED
  BY <1>2, <1>3 DEF PopsKept, Leads, Field, HomeOf

\* Past its first load, fetch_add_at has the address of a live slot, or of
\* the table entry that holds one.
LEMMA SlotReached ==
  ASSUME Stable, WellHeld, NEW t \in Thread, Running(t), Busy(t),
         call[t].op = "fetch_add_at",
         At(t, "load_slot") \/ At(t, "load_prev") \/ At(t, "store_sum")
  PROVE  /\ reg[t].tmp \in Addr /\ Home[reg[t].tmp] = HomeOf(t)
         /\ At(t, "store_sum") => Closed(reg[t].tmp, call[t].new)
<1> DEFINE base == Plus(mem[call[t].word.addr], call[t].offset)
<1>1. Shape /\ Established(t) /\ call[t].word.addr \in Addr /\ SlotsKept(call[t])
  BY WordsAtHome, KeptByCalls DEF Stable, Confirming, NothingStale
<1>2. /\ Leads(call[t], base)
      /\ \A slot \in Holds[base] : Leads(call[t], slot) /\ Closed(slot, call[t].new)
  BY <1>1 DEF WellHeld, SlotsKept
<1>3. CASE At(t, "load_slot")
  <2>1. reg[t].tmp = base
    BY <1>1, <1>3 DEF Established
  <2>2. ~At(t, "store_sum")
    BY <1>3 DEF At
  <2>3. QED
    BY <1>2, <2>1, <2>2 DEF Leads, HomeOf
<1>4. CASE At(t, "load_prev") \/ At(t, "store_sum")
  <2>1. base \in Addr /\ reg[t].tmp = mem[base]
    BY <1>1, <1>4 DEF Established
  <2>2. reg[t].tmp \in Holds[base]
    BY <2>1 DEF WellHeld
  <2>3. QED
    BY <1>2, <2>2 DEF Leads, HomeOf
<1>5. QED
  BY <1>3, <1>4

LEMMA ContractKept == Stable /\ WellHeld => ChaseContract
BY LinkLegal, SlotReached DEF ChaseContract, ChaseLegal, SlotLegal

\* A store puts a value of its set into a word.
LEMMA WellHeldStep == Stable /\ WellHeld /\ [Next]_vars => WellHeld'
<1> SUFFICES ASSUME Stable, WellHeld, [Next]_vars, NEW a \in Addr, mem'[a] # mem[a]
             PROVE  mem'[a] \in Holds[a]
  BY DEF WellHeld
<1>1. PICK t \in Thread : Instruction(t)
  BY DEF Next, Kernel, Preempt, Resume, Interrupt, Signal, SignalReturn, Invoke,
         PrepareUnload, vars
<1> DEFINE c == call[t]
<1>2. /\ Shape /\ TypeOK /\ Running(t) /\ Busy(t) /\ Established(t)
      /\ c.word.addr \in Addr /\ c.other.addr \in Addr
  BY <1>1, InstructionShape, WordsAtHome DEF Stable, Confirming, Shape, NothingStale
<1>3. CASE StoreSide(t)
  <2>1. a = c.other.addr /\ mem'[a] = c.other_val /\ c.op = "store_if"
    BY <1>2, <1>3, Position, LabelOp DEF StoreSide, TypeOK
  <2>2. QED
    BY <1>2, <2>1, KeptByCalls DEF StoresKept
<1>4. CASE StoreNew(t)
  <2>1. /\ a = c.word.addr /\ mem'[a] = c.new
        /\ c.op \in {"compare_exchange", "compare_exchange_if", "store_if"}
    BY <1>2, <1>4, Position, LabelOp DEF StoreNew, Commit, TypeOK
  <2>2. QED
    BY <1>2, <2>1, KeptByCalls DEF StoresKept, Paired
<1>5. CASE StoreChased(t)
  <2>1. At(t, "store_chased") /\ a = c.word.addr /\ mem'[a] = reg[t].tmp
    BY <1>2, <1>5 DEF StoreChased, Commit, TypeOK
  <2>2. reg[t].tmp = mem[Field(t)]
    BY <1>2, <2>1 DEF Established
  <2>3. QED
    BY <2>1, <2>2, LinkLegal DEF WellHeld
<1>6. CASE StoreSum(t)
  <2>1. /\ At(t, "store_sum") /\ a = Target(t) /\ mem'[a] = Plus(reg[t].cur, c.new)
        /\ c.op \in Adds
    BY <1>2, <1>6, Position, LabelOp DEF StoreSum, Commit, TypeOK
  <2>2. reg[t].cur = mem[a]
    BY <1>2, <2>1 DEF Established
  <2>3. Closed(a, c.new)
    <3>1. CASE c.op = "fetch_add"
      BY <1>2, <2>1, <3>1, KeptByCalls DEF Target
    <3>2. CASE c.op = "fetch_add_at"
      BY <1>2, <2>1, <3>2, SlotReached DEF Target
    <3>3. QED
      BY <2>1, <3>1, <3>2 DEF Adds
  <2>4. QED
    BY <2>1, <2>2, <2>3 DEF Closed, WellHeld
<1>7. QED
  BY <1>1, <1>3, <1>4, <1>5, <1>6
     DEF Instruction, Arm, Check, LoadEq, LoadOtherEq, LoadNe, Chase, LoadBase, LoadSlot,
         LoadPrev

LEMMA ContractAlways == Spec => []ChaseContract
<1>1. Init => Stable /\ WellHeld
  BY StableInit, ValuesKept DEF Init, WellHeld
<1>2. Stable /\ WellHeld /\ [Next]_vars => (Stable /\ WellHeld)'
  BY StableStep, WellHeldStep, ContractKept
<1>3. QED
  BY <1>1, <1>2, ContractKept, PTL DEF Spec

\* load_if_ne only ever dereferences live words of its own index.
THEOREM ChasesStayHome == Spec => []ChaseLegal
<1>1. ChaseContract => ChaseLegal
  BY DEF ChaseContract
<1>2. QED
  BY <1>1, ContractAlways, PTL

\* fetch_add_at only ever dereferences and changes live words of its own index.
THEOREM SlotsStayHome == Spec => []SlotLegal
<1>1. ChaseContract => SlotLegal
  BY DEF ChaseContract
<1>2. QED
  BY <1>1, ContractAlways, PTL

\* A commit never acts on a stale read, from the rules for calls alone.
THEOREM NeverStale == Spec => []NothingStale
BY ContractAlways, NoStaleCommit, PTL

\* A word only changes under a thread of its index, from the rules for calls
\* alone.
THEOREM WritesStayHome == Spec => OnlyHomeWrites
BY ContractAlways, HomeWrites, PTL

-----------------------------------------------------------------------------
(* The refinement of WordOps. *)

\* What the invariants say of a thread that runs an instruction past the
\* check.
LEMMA Confident ==
  ASSUME Stable, NEW t \in Thread, NEW label, At(t, label), label \notin {"arm", "check"}
  PROVE  /\ Shape /\ TypeOK /\ Running(t) /\ Busy(t) /\ Established(t)
         /\ Abstract!Current(t)
         /\ call[t].word.addr \in Addr /\ call[t].other.addr \in Addr
         /\ call[t].op \in Op /\ label = Program[call[t].op][ip[t]]
         /\ ip[t] \in 1 .. Last(call[t].op)
<1>0. Shape /\ TypeOK /\ Running(t) /\ Busy(t) /\ KeysAgree
  BY DEF Stable, Confirming, Shape, At
<1>1. /\ call[t].op \in Op /\ label = Program[call[t].op][ip[t]]
      /\ ip[t] \in 1 .. Last(call[t].op)
  BY <1>0, Position
<1>2. InCS(t) /\ ip[t] > 2
  BY <1>0, <1>1, BlockShape DEF InCS, Last
<1>3. Confirmed(t)
  BY <1>0, <1>2 DEF Stable, Confirming, ConfirmedInCS
<1> QED
  BY <1>0, <1>1, <1>3, WordsAtHome DEF Stable, NothingStale, Confirmed, Abstract!Current

\* The exits of a block, as results.
LEMMA Exits ==
  ASSUME NEW t \in Thread, NEW value
  PROVE  /\ Exit(t, 0, value) => Abstract!Done(t, "Ok", value)
         /\ Exit(t, 1, value) /\ call[t].op \notin Adds => Abstract!Done(t, "Miss", value)
         /\ Exit(t, 2, 0) => Abstract!Done(t, "Abort", 0)
BY DEF Exit, Return, ToResult, FromStatus, Ok, Miss, Abort, Abstract!Done, Adds

LEMMA HeldStays == frame' = frame => held' = held
BY DEF held

-----------------------------------------------------------------------------
\* A failing compare is a miss with the value it saw.
LEMMA Misses ==
  ASSUME Stable, NEW t \in Thread, NEW label, At(t, label),
         label \in {"load_eq", "load_other_eq", "load_ne"},
         NEW seen, seen \in Abstract!Fails(call[t], mem),
         Exit(t, 1, seen), UNCHANGED <<mem, cpu, index, rseq_cs, frame>>
  PROVE  Abstract!Fail(t)
<1>1. /\ call[t] # Idle /\ Abstract!Current(t) /\ call[t].op \in Op
      /\ label = Program[call[t].op][ip[t]] /\ ip[t] \in 1 .. Last(call[t].op)
  BY Confident DEF Busy
<1>2. call[t].op \notin Adds
  BY <1>1, LabelOp DEF Adds
<1>3. Abstract!Done(t, "Miss", seen)
  BY <1>2, Exits
<1> QED
  BY <1>1, <1>3, HeldStays DEF Abstract!Fail

LEMMA LoadEqMiss ==
  ASSUME Stable, NEW t \in Thread, LoadEq(t)
  PROVE  Abstract!Fail(t) \/ UNCHANGED Abstract!vars
<1>1. At(t, "load_eq")
  BY DEF LoadEq
<1>2. CASE mem[call[t].word.addr] = call[t].expect
  BY <1>2, HeldStays DEF LoadEq, Advance, Abstract!vars
<1>3. CASE mem[call[t].word.addr] # call[t].expect
  <2>1. call[t].op \in {"compare_exchange", "compare_exchange_if", "store_if"}
    BY <1>1, Confident, LabelOp
  <2>2. mem[call[t].word.addr] \in Abstract!Fails(call[t], mem)
    BY <1>3, <2>1 DEF Abstract!Fails
  <2> QED
    BY <1>1, <1>3, <2>2, Misses DEF LoadEq
<1> QED
  BY <1>2, <1>3

LEMMA LoadOtherEqMiss ==
  ASSUME Stable, NEW t \in Thread, LoadOtherEq(t)
  PROVE  Abstract!Fail(t) \/ UNCHANGED Abstract!vars
<1>1. At(t, "load_other_eq")
  BY DEF LoadOtherEq
<1>2. CASE mem[call[t].other.addr] = call[t].other_val
  BY <1>2, HeldStays DEF LoadOtherEq, Advance, Abstract!vars
<1>3. CASE mem[call[t].other.addr] # call[t].other_val
  <2>1. call[t].op = "compare_exchange_if" /\ mem[call[t].word.addr] = call[t].expect
    BY <1>1, Confident, LabelOp DEF Established
  <2>2. mem[call[t].other.addr] \in Abstract!Fails(call[t], mem)
    BY <1>3, <2>1 DEF Abstract!Fails
  <2> QED
    BY <1>1, <1>3, <2>2, Misses DEF LoadOtherEq
<1> QED
  BY <1>2, <1>3

LEMMA LoadNeMiss ==
  ASSUME Stable, NEW t \in Thread, LoadNe(t)
  PROVE  Abstract!Fail(t) \/ UNCHANGED Abstract!vars
<1>1. At(t, "load_ne")
  BY DEF LoadNe
<1>2. CASE mem[call[t].word.addr] # call[t].expect
  BY <1>2, HeldStays DEF LoadNe, Advance, Abstract!vars
<1>3. CASE mem[call[t].word.addr] = call[t].expect
  <2>1. call[t].op = "load_if_ne"
    BY <1>1, Confident, LabelOp
  <2>2. mem[call[t].word.addr] \in Abstract!Fails(call[t], mem)
    BY <1>3, <2>1 DEF Abstract!Fails
  <2> QED
    BY <1>1, <1>3, <2>2, Misses DEF LoadNe
<1> QED
  BY <1>2, <1>3

-----------------------------------------------------------------------------
\* A committing store is the whole operation at once.
LEMMA Succeeds ==
  ASSUME Stable, NEW t \in Thread, NEW label \in Commits, At(t, label),
         NEW addr, NEW value, Commit(t, addr, value),
         Abstract!Fails(call[t], mem) = {},
         Abstract!Applied(call[t], mem) = [mem EXCEPT ![addr] = value],
         Abstract!Old(call[t], mem) = reg[t].cur
  PROVE  Abstract!Succeed(t)
<1>1. call[t] # Idle /\ Abstract!Current(t)
  BY Confident DEF Busy, Commits
<1>2. Abstract!Done(t, "Ok", reg[t].cur)
  BY Exits DEF Commit
<1> QED
  BY <1>1, <1>2, HeldStays DEF Abstract!Succeed, Commit

LEMMA StoreNewCommits ==
  ASSUME Stable, NEW t \in Thread, StoreNew(t)
  PROVE  Abstract!Succeed(t)
<1> DEFINE c == call[t]
<1>0. At(t, "store_new") /\ Commit(t, c.word.addr, c.new)
  BY DEF StoreNew
<1>1. /\ TypeOK /\ Established(t) /\ c.word.addr \in Addr /\ c.other.addr \in Addr
      /\ c.op \in {"compare_exchange", "compare_exchange_if", "store_if"}
  BY <1>0, Confident, LabelOp
<1>2. /\ reg[t].cur = c.expect /\ mem[c.word.addr] = c.expect
      /\ c.op \in Paired => mem[c.other.addr] = c.other_val
  BY <1>0, <1>1 DEF Established
<1>3. Abstract!Fails(c, mem) = {}
  BY <1>1, <1>2 DEF Abstract!Fails, Paired
<1>4. Abstract!Applied(c, mem) = [mem EXCEPT ![c.word.addr] = c.new]
  <2>1. CASE c.op = "store_if"
    <3>1. mem[c.other.addr] = c.other_val
      BY <2>1, <1>2 DEF Paired
    <3>2. [mem EXCEPT ![c.other.addr] = c.other_val] = mem
      BY <1>1, <3>1 DEF TypeOK
    <3> QED
      BY <2>1, <3>2 DEF Abstract!Applied
  <2>2. CASE c.op # "store_if"
    BY <2>2, <1>1 DEF Abstract!Applied
  <2> QED
    BY <2>1, <2>2
<1>5. Abstract!Old(c, mem) = reg[t].cur
  BY <1>1, <1>2 DEF Abstract!Old
<1> QED
  BY <1>0, <1>3, <1>4, <1>5, Succeeds DEF Commits

LEMMA StoreChasedCommits ==
  ASSUME Stable, NEW t \in Thread, StoreChased(t)
  PROVE  Abstract!Succeed(t)
<1> DEFINE c == call[t]
<1>0. At(t, "store_chased") /\ Commit(t, c.word.addr, reg[t].tmp)
  BY DEF StoreChased
<1>1. Established(t) /\ c.op = "load_if_ne"
  BY <1>0, Confident, LabelOp
<1>2. /\ reg[t].cur # c.expect /\ mem[c.word.addr] = reg[t].cur
      /\ reg[t].tmp = mem[Field(t)]
  BY <1>0, <1>1 DEF Established
<1>3. Abstract!Field(c, mem) = Field(t)
  BY <1>2 DEF Abstract!Field, Field, Abstract!Plus, Plus
<1>4. Abstract!Fails(c, mem) = {}
  BY <1>1, <1>2 DEF Abstract!Fails
<1>5. Abstract!Applied(c, mem) = [mem EXCEPT ![c.word.addr] = reg[t].tmp]
  BY <1>1, <1>2, <1>3 DEF Abstract!Applied
<1>6. Abstract!Old(c, mem) = reg[t].cur
  BY <1>1, <1>2 DEF Abstract!Old
<1> QED
  BY <1>0, <1>4, <1>5, <1>6, Succeeds DEF Commits

LEMMA StoreSumCommits ==
  ASSUME Stable, NEW t \in Thread, StoreSum(t)
  PROVE  Abstract!Succeed(t)
<1> DEFINE c == call[t]
<1>0. At(t, "store_sum") /\ Commit(t, Target(t), Plus(reg[t].cur, c.new))
  BY DEF StoreSum
<1>1. TypeOK /\ Established(t) /\ c.op \in Adds /\ reg[t].cur = mem[Target(t)]
  BY <1>0, Confident, LabelOp DEF Established
<1>2. Target(t) = IF c.op = "fetch_add_at" THEN Abstract!Slot(c, mem) ELSE c.word.addr
  <2>1. CASE c.op = "fetch_add_at"
    <3>1. reg[t].tmp = mem[Plus(mem[c.word.addr], c.offset)]
      BY <1>0, <1>1, <2>1 DEF Established
    <3> QED
      BY <2>1, <3>1 DEF Target, Abstract!Slot, Abstract!Field, Abstract!Plus, Plus
  <2>2. CASE c.op # "fetch_add_at"
    BY <2>2 DEF Target
  <2> QED
    BY <2>1, <2>2
<1>3. Abstract!Fails(c, mem) = {}
  BY <1>1 DEF Abstract!Fails, Adds
<1>4. Abstract!Applied(c, mem) = [mem EXCEPT ![Target(t)] = Plus(@, c.new)]
  BY <1>1, <1>2 DEF Abstract!Applied, Adds, Abstract!Plus, Plus
<1>5. Abstract!Applied(c, mem) = [mem EXCEPT ![Target(t)] = Plus(reg[t].cur, c.new)]
  BY <1>1, <1>4
<1>6. Abstract!Old(c, mem) = reg[t].cur
  BY <1>1, <1>2 DEF Abstract!Old, Adds
<1> QED
  BY <1>0, <1>3, <1>5, <1>6, Succeeds DEF Commits

\* The store to the side word is the scratch of store_if.
LEMMA StoreSideScratches ==
  ASSUME Stable, NEW t \in Thread, StoreSide(t)
  PROVE  Abstract!Scratch(t)
<1>0. At(t, "store_side")
  BY DEF StoreSide
<1>1. /\ call[t] # Idle /\ Abstract!Current(t) /\ call[t].op = "store_if"
      /\ mem[call[t].word.addr] = call[t].expect
  BY <1>0, Confident, LabelOp DEF Established, Busy
<1>2. Abstract!Fails(call[t], mem) = {}
  BY <1>1 DEF Abstract!Fails
<1> QED
  BY <1>1, <1>2, HeldStays DEF StoreSide, Advance, Abstract!Scratch

\* A failing check is a refusal.
LEMMA CheckRefuses ==
  ASSUME NEW t \in Thread, Check(t)
  PROVE  Abstract!Refuse(t) \/ UNCHANGED Abstract!vars
<1>1. CASE index[t][call[t].word.kind] = call[t].word.key
  BY <1>1, HeldStays DEF Check, Advance, Abstract!vars
<1>2. CASE index[t][call[t].word.kind] # call[t].word.key
  <2>1. Exit(t, 2, 0) /\ call[t] # Idle /\ UNCHANGED <<mem, index, frame>>
    BY <1>2 DEF Check, At, Busy
  <2> QED
    BY <1>2, <2>1, Exits, HeldStays DEF Abstract!Refuse, Abstract!Current
<1> QED
  BY <1>1, <1>2

LEMMA InstructionRefines ==
  ASSUME Stable, NEW t \in Thread, Instruction(t)
  PROVE  Abstract!Next \/ UNCHANGED Abstract!vars
<1>1. CASE Arm(t) \/ Chase(t) \/ LoadBase(t) \/ LoadSlot(t) \/ LoadPrev(t)
  BY <1>1, HeldStays DEF Arm, Chase, LoadBase, LoadSlot, LoadPrev, Advance, Abstract!vars
<1>2. CASE Check(t)
  BY <1>2, CheckRefuses DEF Abstract!Next
<1>3. CASE LoadEq(t) \/ LoadOtherEq(t) \/ LoadNe(t)
  BY <1>3, LoadEqMiss, LoadOtherEqMiss, LoadNeMiss DEF Abstract!Next
<1>4. CASE StoreSide(t)
  BY <1>4, StoreSideScratches DEF Abstract!Next
<1>5. CASE StoreNew(t) \/ StoreChased(t) \/ StoreSum(t)
  BY <1>5, StoreNewCommits, StoreChasedCommits, StoreSumCommits DEF Abstract!Next
<1> QED
  BY <1>1, <1>2, <1>3, <1>4, <1>5 DEF Instruction

-----------------------------------------------------------------------------
\* The kernel moves threads and suspends their calls, and no more.
LEMMA KernelRefines ==
  ASSUME Shape, NEW t \in Thread, Kernel(t)
  PROVE  Abstract!Next \/ UNCHANGED Abstract!vars
<1>0. TypeOK
  BY DEF Shape
<1>1. CASE Preempt(t) \/ Interrupt(t)
  BY <1>1, HeldStays DEF Preempt, Interrupt, Abstract!vars
<1>2. ASSUME NEW c \in CPU, NEW i \in CidSet, Resume(t, c, i)
      PROVE  Abstract!Move(t)
  <2>1. /\ index' = [index EXCEPT ![t] = [cpu_id |-> c, mm_cid |-> i]]
        /\ index'[t] = [cpu_id |-> c, mm_cid |-> i]
        /\ UNCHANGED <<mem, call, frame, ret>>
    BY <1>2, <1>0 DEF Resume, TypeOK
  <2>2. [cpu_id |-> c, mm_cid |-> i] \in [{"cpu_id", "mm_cid"} -> Nat]
    BY ConstantsOK
  <2> QED
    BY <2>1, <2>2, HeldStays DEF Abstract!Move
<1>3. CASE Signal(t)
  <2> DEFINE f == [call |-> call[t], ip |-> FixedIp(t), reg |-> reg[t]]
  <2>1. f # NoFrame
    <3>1. f \in Frame
      BY <1>0, FixUp DEF Frame, TypeOK
    <3> QED
      BY <3>1, ConstantsOK
  <2>2. held[t] = NoFrame /\ held' = [held EXCEPT ![t] = call[t]]
    BY <1>3, <1>0, <2>1 DEF Signal, held, TypeOK
  <2> QED
    BY <1>3, <2>2 DEF Signal, Abstract!Suspend, Abstract!Next
<1>4. CASE SignalReturn(t)
  <2>1. frame[t].call # NoFrame
    BY <1>4, <1>0, ConstantsOK DEF SignalReturn, TypeOK, Frame
  <2>2. held[t] = frame[t].call /\ held' = [held EXCEPT ![t] = NoFrame]
    BY <1>4, <1>0 DEF SignalReturn, held, TypeOK
  <2> QED
    BY <1>4, <2>1, <2>2 DEF SignalReturn, Busy, Abstract!Continue, Abstract!Next
<1> QED
  BY <1>1, <1>2, <1>3, <1>4 DEF Kernel, Abstract!Next

LEMMA InvokeBegins ==
  ASSUME NEW t \in Thread, NEW c \in Calls, Invoke(t, c)
  PROVE  Abstract!Begin(t, c)
BY HeldStays DEF Invoke, KeysDiffer, Busy, Abort, NoResult, Paired, Abstract!Begin,
   Abstract!Paired

LEMMA StepRefines == Stable /\ [Next]_vars => [Abstract!Next]_(Abstract!vars)
<1> SUFFICES ASSUME Stable, [Next]_vars
             PROVE  Abstract!Next \/ UNCHANGED Abstract!vars
  OBVIOUS
<1>1. ASSUME NEW t \in Thread, Kernel(t) PROVE Abstract!Next \/ UNCHANGED Abstract!vars
  BY <1>1, KernelRefines DEF Stable, Confirming
<1>2. ASSUME NEW t \in Thread, NEW c \in Calls, Invoke(t, c) PROVE Abstract!Next
  BY <1>2, InvokeBegins DEF Abstract!Next
<1>3. ASSUME NEW t \in Thread, PrepareUnload(t) PROVE UNCHANGED Abstract!vars
  BY <1>3, HeldStays DEF PrepareUnload, Abstract!vars
<1>4. ASSUME NEW t \in Thread, Instruction(t) PROVE Abstract!Next \/ UNCHANGED Abstract!vars
  BY <1>4, InstructionRefines
<1>5. CASE UNCHANGED vars
  BY <1>5, HeldStays DEF vars, Abstract!vars
<1> QED
  BY <1>1, <1>2, <1>3, <1>4, <1>5 DEF Next

LEMMA InitRefines == Init => Abstract!Init
BY DEF Init, Abstract!Init, held, Kind, NoResult

\* Every behaviour of the blocks under a preemptive kernel is a behaviour of
\* atomic operations, if the callers keep their chases to live words of their
\* own index.
THEOREM Refinement == Spec /\ []ChaseContract => ImplementsWordOps
<1> QED
  BY InitRefines, StepRefines, StableAlways, PTL DEF Spec, ImplementsWordOps, Abstract!Spec

\* The same from the rules for calls alone: whoever follows them may take the
\* operations for atomic.
THEOREM BlocksAreAtomic == Spec => ImplementsWordOps
BY ContractAlways, Refinement, PTL

=============================================================================
