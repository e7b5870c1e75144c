--------------------------- MODULE ConfirmingProofs ---------------------------
(***************************************************************************)
(* Proofs about CriticalSectionInvariants, for any number of threads,      *)
(* CPUs, concurrency ids, words and calls.                                 *)
(***************************************************************************)
EXTENDS CriticalSectionInvariants, TLAPS

\* The two architectures have the same blocks.
LEMMA Blocks ==
  /\ Program["compare_exchange"] = <<"arm", "check", "load_eq", "store_new">>
  /\ Program["compare_exchange_if"] =
       <<"arm", "check", "load_eq", "load_other_eq", "store_new">>
  /\ Program["store_if"] = <<"arm", "check", "load_eq", "store_side", "store_new">>
  /\ Program["load_if_ne"] = <<"arm", "check", "load_ne", "chase", "store_chased">>
  /\ Program["fetch_add"] = <<"arm", "check", "load_prev", "store_sum">>
  /\ Program["fetch_add_at"] =
       <<"arm", "check", "load_base", "load_slot", "load_prev", "store_sum">>
<1>1. CASE Arch = "x86_64"
  BY <1>1 DEF Program, X86!compare_exchange, X86!compare_exchange_if,
     X86!store_if, X86!load_if_ne, X86!fetch_add, X86!fetch_add_at
<1>2. CASE Arch # "x86_64"
  BY <1>2 DEF Program, Arm64!compare_exchange, Arm64!compare_exchange_if,
     Arm64!store_if, Arm64!load_if_ne, Arm64!fetch_add, Arm64!fetch_add_at
<1>3. QED
  BY <1>1, <1>2

Last(op) == Len(Program[op])

Commits == {"store_new", "store_chased", "store_sum"}

\* The shape all blocks of both architectures share: they arm in position 1
\* and check in position 2, and only their last label is a committing store.
LEMMA BlockShape ==
  ASSUME NEW op \in Op, NEW i \in 1 .. Last(op)
  PROVE  /\ Last(op) \in 4 .. 6
         /\ Program[op][i] = "arm" <=> i = 1
         /\ Program[op][i] = "check" <=> i = 2
         /\ Program[op][i] \in Commits <=> i = Last(op)
<1>1. CASE op = "compare_exchange"
  <2>1. Last(op) = 4
    BY <1>1, Blocks DEF Last
  <2>2. i \in {1, 2, 3, 4}
    BY <2>1
  <2>3. QED
    BY <1>1, <2>1, <2>2, Blocks DEF Commits
<1>2. CASE op = "compare_exchange_if"
  <2>1. Last(op) = 5
    BY <1>2, Blocks DEF Last
  <2>2. i \in {1, 2, 3, 4, 5}
    BY <2>1
  <2>3. QED
    BY <1>2, <2>1, <2>2, Blocks DEF Commits
<1>3. CASE op = "store_if"
  <2>1. Last(op) = 5
    BY <1>3, Blocks DEF Last
  <2>2. i \in {1, 2, 3, 4, 5}
    BY <2>1
  <2>3. QED
    BY <1>3, <2>1, <2>2, Blocks DEF Commits
<1>4. CASE op = "load_if_ne"
  <2>1. Last(op) = 5
    BY <1>4, Blocks DEF Last
  <2>2. i \in {1, 2, 3, 4, 5}
    BY <2>1
  <2>3. QED
    BY <1>4, <2>1, <2>2, Blocks DEF Commits
<1>5. CASE op = "fetch_add"
  <2>1. Last(op) = 4
    BY <1>5, Blocks DEF Last
  <2>2. i \in {1, 2, 3, 4}
    BY <2>1
  <2>3. QED
    BY <1>5, <2>1, <2>2, Blocks DEF Commits
<1>6. CASE op = "fetch_add_at"
  <2>1. Last(op) = 6
    BY <1>6, Blocks DEF Last
  <2>2. i \in {1, 2, 3, 4, 5, 6}
    BY <2>1
  <2>3. QED
    BY <1>6, <2>1, <2>2, Blocks DEF Commits
<1>7. QED
  BY <1>1, <1>2, <1>3, <1>4, <1>5, <1>6 DEF Op

\* The operation that a label past the check belongs to.
LEMMA LabelOp ==
  ASSUME NEW op \in Op, NEW i \in 1 .. Last(op)
  PROVE  /\ Program[op][i] = "load_other_eq" => op = "compare_exchange_if"
         /\ Program[op][i] = "store_side" => op = "store_if"
         /\ Program[op][i] \in {"load_ne", "chase", "store_chased"} => op = "load_if_ne"
         /\ Program[op][i] \in {"load_base", "load_slot"} => op = "fetch_add_at"
         /\ Program[op][i] \in {"load_prev", "store_sum"} => op \in Adds
         /\ Program[op][i] \in {"load_eq", "store_new"}
              => op \in {"compare_exchange", "compare_exchange_if", "store_if"}
<1> USE Blocks DEF Last, Adds
<1>1. CASE op = "compare_exchange"
  BY <1>1
<1>2. CASE op = "compare_exchange_if"
  BY <1>2
<1>3. CASE op = "store_if"
  BY <1>3
<1>4. CASE op = "load_if_ne"
  BY <1>4
<1>5. CASE op = "fetch_add"
  BY <1>5
<1>6. CASE op = "fetch_add_at"
  BY <1>6
<1>7. QED
  BY <1>1, <1>2, <1>3, <1>4, <1>5, <1>6 DEF Op

\* The label that follows another one in a block.
LEMMA NextLabel ==
  ASSUME NEW op \in Op, NEW i \in 1 .. Last(op) - 1,
         NEW here, here = Program[op][i], NEW then, then = Program[op][i + 1]
  PROVE  /\ here = "check" => \/ then \in {"load_eq", "load_ne", "load_base"}
                              \/ then = "load_prev" /\ op = "fetch_add"
         /\ here = "load_eq" => \/ then \in {"load_other_eq", "store_side"}
                                \/ then = "store_new" /\ op \notin Paired
         /\ here \in {"load_other_eq", "store_side"} => then = "store_new"
         /\ here = "load_ne" => then = "chase"
         /\ here = "chase" => then = "store_chased"
         /\ here = "load_base" => then = "load_slot"
         /\ here = "load_slot" => then = "load_prev"
         /\ here = "load_prev" => then = "store_sum"
<1> USE Blocks DEF Last, Paired
<1>1. CASE op = "compare_exchange"
  BY <1>1
<1>2. CASE op = "compare_exchange_if"
  BY <1>2
<1>3. CASE op = "store_if"
  BY <1>3
<1>4. CASE op = "load_if_ne"
  BY <1>4
<1>5. CASE op = "fetch_add"
  BY <1>5
<1>6. CASE op = "fetch_add_at"
  BY <1>6
<1>7. QED
  BY <1>1, <1>2, <1>3, <1>4, <1>5, <1>6 DEF Op

LEMMA FirstLabels ==
  \A op \in Op : Program[op][1] = "arm" /\ Program[op][2] = "check"
BY Blocks DEF Op

LEMMA PlusType == \A x, y \in Value : Plus(x, y) \in Value
BY ConstantsOK DEF Plus, Value

\* What a call in progress is made of.
LEMMA CallType ==
  ASSUME TypeOK, NEW t \in Thread, Busy(t)
  PROVE  /\ call[t] \in Calls /\ call[t] \in Call
         /\ call[t].op \in Op
         /\ call[t].word \in Word /\ call[t].other \in Word
         /\ call[t].expect \in Value /\ call[t].new \in Value
         /\ call[t].other_val \in Value /\ call[t].offset \in Value
BY ConstantsOK DEF TypeOK, Busy, Call

-----------------------------------------------------------------------------
(* Types, blocks and armed areas. *)

Shape == TypeOK /\ InBlock /\ FramesOutside /\ ArmedInCS

LEMMA ShapeInit == Init => Shape
<1> SUFFICES ASSUME Init PROVE Shape
  OBVIOUS
<1>1. 0 \in Value
  BY ConstantsOK DEF Value
<1>2. TypeOK
  BY <1>1, ConstantsOK DEF Init, TypeOK, Index, Kind, Id, Reg, NoReg, NoResult, Result, Off
<1>3. InBlock /\ FramesOutside /\ ArmedInCS
  BY DEF Init, InBlock, FramesOutside, ArmedInCS, Busy, InCS
<1>4. QED
  BY <1>2, <1>3 DEF Shape

\* A position that is not the last one of its block has a successor in it.
LEMMA Position ==
  ASSUME Shape, NEW t \in Thread, NEW label, At(t, label)
  PROVE  /\ call[t].op \in Op
         /\ ip[t] \in 1 .. Last(call[t].op)
         /\ label = Program[call[t].op][ip[t]]
         /\ Last(call[t].op) \in 4 .. 6
         /\ label \notin Commits => ip[t] + 1 \in 2 .. Last(call[t].op)
<1>1. call[t].op \in Op
  BY CallType DEF Shape, At
<1>2. ip[t] \in 1 .. Last(call[t].op) /\ label = Program[call[t].op][ip[t]]
  BY DEF Shape, At, InBlock, Last
<1>3. Last(call[t].op) \in 4 .. 6 /\ (label \in Commits <=> ip[t] = Last(call[t].op))
  BY <1>1, <1>2, BlockShape
<1>4. QED
  BY <1>1, <1>2, <1>3

\* What every instruction leaves alone, and the two ways it may end: the
\* block goes on with a position of its own, or the call returns.
Continues(t) ==
  /\ call' = call
  /\ ip' = [ip EXCEPT ![t] = @ + 1]
  /\ ip[t] + 1 \in 2 .. Last(call[t].op)
  /\ ret' = ret

Returns(t) ==
  /\ call' = [call EXCEPT ![t] = Idle]
  /\ ip' = [ip EXCEPT ![t] = 1]
  /\ ret' \in [Thread -> Result]

LEMMA ExitType ==
  ASSUME TypeOK, NEW t \in Thread, NEW status \in {0, 1, 2}, NEW value \in Value,
         Exit(t, status, value)
  PROVE  Returns(t) /\ reg' \in [Thread -> Reg]
<1>1. 0 \in Value
  BY ConstantsOK DEF Value
<1>2. ToResult(call[t].op, FromStatus(status, value)) \in Result
  BY <1>1 DEF ToResult, FromStatus, Ok, Miss, Abort, Result
<1>3. NoReg \in Reg
  BY <1>1 DEF NoReg, Reg
<1>4. QED
  BY <1>2, <1>3 DEF Exit, Return, Returns, TypeOK

LEMMA InstructionShape ==
  ASSUME Shape, NEW t \in Thread, Instruction(t)
  PROVE  /\ Running(t) /\ Busy(t)
         /\ UNCHANGED <<cpu, index, frame>>
         /\ mem' \in [Addr -> Value]
         /\ reg' \in [Thread -> Reg]
         /\ rseq_cs' = IF ip[t] = 1 THEN [rseq_cs EXCEPT ![t] = call[t].op] ELSE rseq_cs
         /\ Continues(t) \/ Returns(t)
<1> USE DEF Shape
<1>0. TypeOK /\ 0 \in Value
  BY ConstantsOK DEF Value
<1>a. ASSUME NEW label, At(t, label), label \notin Commits, Advance(t)
      PROVE  Continues(t)
  BY <1>a, Position DEF Advance, Continues
<1>b. ASSUME NEW label, At(t, label), label # "arm"
      PROVE  ip[t] # 1
  BY <1>b, Position, BlockShape
<1>c. ASSUME NEW label, At(t, label)
      PROVE  /\ Running(t) /\ Busy(t)
             /\ call[t].word.addr \in Addr /\ call[t].other.addr \in Addr
             /\ call[t].other_val \in Value /\ call[t].new \in Value
             /\ call[t].offset \in Value
             /\ mem[call[t].word.addr] \in Value /\ mem[call[t].other.addr] \in Value
             /\ reg[t] \in Reg
  BY <1>c, <1>0, CallType DEF At, Word, TypeOK
<1>e. \A v \in Value : /\ [reg EXCEPT ![t].cur = v] \in [Thread -> Reg]
                       /\ [reg EXCEPT ![t].tmp = v] \in [Thread -> Reg]
  BY <1>0 DEF TypeOK, Reg
<1>f. \A addr \in Addr : mem[addr] \in Value
  BY <1>0 DEF TypeOK
<1>1. CASE Arm(t)
  <2>1. At(t, "arm") /\ ip[t] = 1
    BY <1>1, Position, BlockShape DEF Arm
  <2>2. Continues(t)
    BY <1>1, <2>1, <1>a DEF Arm, Commits
  <2>3. QED
    BY <1>1, <2>1, <2>2, <1>c, <1>0 DEF Arm, TypeOK
<1>2. CASE Check(t)
  <2>1. At(t, "check") /\ ip[t] # 1
    BY <1>2, <1>b DEF Check
  <2>2. (Continues(t) \/ Returns(t)) /\ reg' \in [Thread -> Reg]
    BY <1>2, <2>1, <1>a, <1>0, ExitType DEF Check, Commits, TypeOK
  <2>3. QED
    BY <1>2, <2>1, <2>2, <1>c, <1>0 DEF Check, TypeOK
<1>3. CASE LoadEq(t)
  <2>1. At(t, "load_eq") /\ ip[t] # 1
    BY <1>3, <1>b DEF LoadEq
  <2>2. (Continues(t) \/ Returns(t)) /\ reg' \in [Thread -> Reg]
    <3>1. CASE mem[call[t].word.addr] = call[t].expect
      BY <1>3, <2>1, <3>1, <1>a, <1>c, <1>e DEF LoadEq, Commits
    <3>2. CASE ~(mem[call[t].word.addr] = call[t].expect)
      BY <1>3, <2>1, <3>2, <1>c, <1>0, ExitType DEF LoadEq
    <3>3. QED
      BY <3>1, <3>2
  <2>3. QED
    BY <1>3, <2>1, <2>2, <1>c, <1>0 DEF LoadEq, TypeOK
<1>4. CASE LoadOtherEq(t)
  <2>1. At(t, "load_other_eq") /\ ip[t] # 1
    BY <1>4, <1>b DEF LoadOtherEq
  <2>2. (Continues(t) \/ Returns(t)) /\ reg' \in [Thread -> Reg]
    BY <1>4, <2>1, <1>a, <1>c, <1>0, ExitType DEF LoadOtherEq, Commits, TypeOK
  <2>3. QED
    BY <1>4, <2>1, <2>2, <1>c, <1>0 DEF LoadOtherEq, TypeOK
<1>5. CASE LoadNe(t)
  <2>1. At(t, "load_ne") /\ ip[t] # 1
    BY <1>5, <1>b DEF LoadNe
  <2>2. (Continues(t) \/ Returns(t)) /\ reg' \in [Thread -> Reg]
    <3>1. CASE mem[call[t].word.addr] # call[t].expect
      BY <1>5, <2>1, <3>1, <1>a, <1>c, <1>e DEF LoadNe, Commits
    <3>2. CASE ~(mem[call[t].word.addr] # call[t].expect)
      BY <1>5, <2>1, <3>2, <1>c, <1>0, ExitType DEF LoadNe
    <3>3. QED
      BY <3>1, <3>2
  <2>3. QED
    BY <1>5, <2>1, <2>2, <1>c, <1>0 DEF LoadNe, TypeOK
<1>6. CASE Chase(t)
  <2>1. At(t, "chase") /\ ip[t] # 1
    BY <1>6, <1>b DEF Chase
  <2>2. Continues(t) /\ reg' \in [Thread -> Reg]
    BY <1>6, <2>1, <1>a, <1>e, <1>f DEF Chase, Commits
  <2>3. QED
    BY <1>6, <2>1, <2>2, <1>c, <1>0 DEF Chase, TypeOK
<1>7. CASE LoadBase(t)
  <2>1. At(t, "load_base") /\ ip[t] # 1
    BY <1>7, <1>b DEF LoadBase
  <2>2. Plus(mem[call[t].word.addr], call[t].offset) \in Value
    BY <2>1, <1>c, PlusType
  <2>3. Continues(t) /\ reg' \in [Thread -> Reg]
    BY <1>7, <2>1, <2>2, <1>a, <1>c, <1>e DEF LoadBase, Commits
  <2>4. QED
    BY <1>7, <2>1, <2>3, <1>c, <1>0 DEF LoadBase, TypeOK
<1>8. CASE LoadSlot(t)
  <2>1. At(t, "load_slot") /\ ip[t] # 1
    BY <1>8, <1>b DEF LoadSlot
  <2>2. Continues(t) /\ reg' \in [Thread -> Reg]
    BY <1>8, <2>1, <1>a, <1>e, <1>f DEF LoadSlot, Commits
  <2>3. QED
    BY <1>8, <2>1, <2>2, <1>c, <1>0 DEF LoadSlot, TypeOK
<1>9. CASE LoadPrev(t)
  <2>1. At(t, "load_prev") /\ ip[t] # 1
    BY <1>9, <1>b DEF LoadPrev
  <2>2. Continues(t) /\ reg' \in [Thread -> Reg]
    BY <1>9, <2>1, <1>a, <1>e, <1>f DEF LoadPrev, Commits
  <2>3. QED
    BY <1>9, <2>1, <2>2, <1>c, <1>0 DEF LoadPrev, TypeOK
<1>10. CASE StoreSide(t)
  <2>1. At(t, "store_side") /\ ip[t] # 1
    BY <1>10, <1>b DEF StoreSide
  <2>2. Continues(t)
    BY <1>10, <2>1, <1>a DEF StoreSide, Commits
  <2>3. QED
    BY <1>10, <2>1, <2>2, <1>c, <1>0 DEF StoreSide, TypeOK
<1>d. ASSUME NEW addr, NEW value \in Value, NEW label, At(t, label), label # "arm",
             Commit(t, addr, value)
      PROVE  /\ ip[t] # 1 /\ Returns(t)
             /\ mem' \in [Addr -> Value] /\ reg' \in [Thread -> Reg]
             /\ UNCHANGED <<cpu, index, frame, rseq_cs>>
  <2>1. reg[t].cur \in Value
    BY <1>d, <1>c DEF Reg
  <2>2. Returns(t) /\ reg' \in [Thread -> Reg]
    BY <1>d, <2>1, <1>0, ExitType DEF Commit
  <2>3. QED
    BY <1>d, <2>2, <1>b, <1>0 DEF Commit, TypeOK
<1>11. CASE StoreNew(t)
  BY <1>11, <1>c, <1>d DEF StoreNew
<1>12. CASE StoreChased(t)
  <2>1. reg[t].tmp \in Value
    BY <1>12, <1>c DEF StoreChased, Reg
  <2>2. QED
    BY <1>12, <2>1, <1>c, <1>d DEF StoreChased
<1>13. CASE StoreSum(t)
  <2>1. Plus(reg[t].cur, call[t].new) \in Value
    BY <1>13, <1>c, PlusType DEF StoreSum, Reg
  <2>2. QED
    BY <1>13, <2>1, <1>c, <1>d DEF StoreSum
<1>14. QED
  BY <1>1, <1>2, <1>3, <1>4, <1>5, <1>6, <1>7, <1>8, <1>9, <1>10, <1>11,
     <1>12, <1>13 DEF Instruction

\* An instruction of one thread leaves another one as it is.
LEMMA OthersAlone ==
  ASSUME Shape, NEW u \in Thread, Instruction(u), NEW t \in Thread, t # u
  PROVE  UNCHANGED <<cpu[t], index[t], call[t], ip[t], reg[t], ret[t], frame[t]>>
<1>0. TypeOK
  BY DEF Shape
<1>1. UNCHANGED <<cpu[t], index[t], call[t], ip[t], frame[t]>>
  BY <1>0, InstructionShape DEF Continues, Returns, TypeOK
<1>2. UNCHANGED <<reg[t], ret[t]>>
  BY <1>0
     DEF Instruction, Arm, Check, LoadEq, LoadOtherEq, LoadNe, Chase, LoadBase, LoadSlot,
         LoadPrev, StoreSide, StoreNew, StoreChased, StoreSum, Commit, Exit, Return,
         Advance, TypeOK
<1>3. QED
  BY <1>1, <1>2

\* Where a fix-up leaves a thread: at the abort label of its block, or, if
\* it was outside the critical section, where it was.
LEMMA FixUp ==
  ASSUME Shape, NEW t \in Thread
  PROVE  FixedIp(t) = 1
<1>1. CASE InCS(t)
  BY <1>1 DEF Shape, ArmedInCS, FixedIp
<1>2. CASE ~InCS(t)
  BY <1>2 DEF Shape, InBlock, InCS, FixedIp
<1>3. QED
  BY <1>1, <1>2

LEMMA FirstPosition == \A c \in Calls : 1 \in 1 .. Last(c.op)
<1>1. \A c \in Calls : c.op \in Op
  BY ConstantsOK DEF Call
<1>2. \A op \in Op : Last(op) \in {4, 5, 6}
  BY Blocks DEF Op, Last
<1>3. QED
  BY <1>1, <1>2

LEMMA ShapeStep == Shape /\ [Next]_vars => Shape'
<1> SUFFICES ASSUME Shape, [Next]_vars
             PROVE  Shape'
  OBVIOUS
<1> USE DEF Shape
<1>0. TypeOK /\ 0 \in Value /\ 1 \in 1 .. 6 /\ NoReg \in Reg /\ NoResult \in Result
  BY ConstantsOK DEF Value, NoReg, Reg, NoResult, Result
<1>1. ASSUME NEW t \in Thread, Preempt(t)
      PROVE  Shape'
  <2>1. TypeOK'
    BY <1>1, <1>0 DEF Preempt, TypeOK
  <2>2. (InBlock /\ FramesOutside /\ ArmedInCS)'
    BY <1>1 DEF Preempt, InBlock, FramesOutside, ArmedInCS, Busy, InCS
  <2>3. QED
    BY <2>1, <2>2
<1>2. ASSUME NEW t \in Thread, NEW c \in CPU, NEW i \in CidSet, Resume(t, c, i)
      PROVE  Shape'
  <2>1. [cpu_id |-> c, mm_cid |-> i] \in Index
    BY ConstantsOK DEF Index, Kind, Id
  <2>2. TypeOK'
    BY <1>2, <1>0, <2>1, FixUp DEF Resume, TypeOK
  <2>3. (InBlock /\ FramesOutside /\ ArmedInCS)'
    BY <1>2, <1>0, FixUp, FirstPosition
       DEF Resume, InBlock, FramesOutside, ArmedInCS, Busy, InCS, TypeOK, Last
  <2>4. QED
    BY <2>2, <2>3
<1>3. ASSUME NEW t \in Thread, Interrupt(t)
      PROVE  Shape'
  <2>1. TypeOK'
    BY <1>3, <1>0, FixUp DEF Interrupt, TypeOK
  <2>2. (InBlock /\ FramesOutside /\ ArmedInCS)'
    BY <1>3, <1>0, FixUp, FirstPosition
       DEF Interrupt, InBlock, FramesOutside, ArmedInCS, Busy, InCS, TypeOK, Last
  <2>3. QED
    BY <2>1, <2>2
<1>4. ASSUME NEW t \in Thread, Signal(t)
      PROVE  Shape'
  <2>1. [call |-> call[t], ip |-> FixedIp(t), reg |-> reg[t]] \in Frame
    BY <1>0, FixUp DEF TypeOK, Frame
  <2>2. TypeOK'
    BY <1>4, <1>0, <2>1 DEF Signal, TypeOK
  <2>3. (InBlock /\ FramesOutside /\ ArmedInCS)'
    BY <1>4, <1>0, FixUp
       DEF Signal, InBlock, FramesOutside, ArmedInCS, Busy, InCS, TypeOK
  <2>4. QED
    BY <2>2, <2>3
<1>5. ASSUME NEW t \in Thread, SignalReturn(t)
      PROVE  Shape'
  <2>1. frame[t] \in Frame /\ frame[t].ip = 1
    BY <1>5, <1>0 DEF SignalReturn, TypeOK, FramesOutside
  <2>2. TypeOK'
    BY <1>5, <1>0, <2>1 DEF SignalReturn, TypeOK, Frame
  <2>3. (InBlock /\ FramesOutside /\ ArmedInCS)'
    BY <1>5, <1>0, <2>1, FirstPosition
       DEF SignalReturn, InBlock, FramesOutside, ArmedInCS, Busy, InCS, TypeOK, Frame, Last
  <2>4. QED
    BY <2>2, <2>3
<1>6. ASSUME NEW t \in Thread, NEW c \in Calls, Invoke(t, c)
      PROVE  Shape'
  <2>1. ip[t] = 1 /\ ~InCS(t)
    BY <1>6 DEF Invoke, InBlock, InCS
  <2>2. Abort \in Result
    BY <1>0 DEF Abort, Result
  <2>3. TypeOK'
    BY <1>6, <1>0, <2>2 DEF Invoke, TypeOK
  <2>4. (InBlock /\ FramesOutside /\ ArmedInCS)'
    BY <1>6, <1>0, <2>1, FirstPosition
       DEF Invoke, InBlock, FramesOutside, ArmedInCS, Busy, InCS, TypeOK, Last
  <2>5. QED
    BY <2>3, <2>4
<1>7. ASSUME NEW t \in Thread, PrepareUnload(t)
      PROVE  Shape'
  <2>1. TypeOK'
    BY <1>7, <1>0 DEF PrepareUnload, TypeOK
  <2>2. (InBlock /\ FramesOutside /\ ArmedInCS)'
    BY <1>7, <1>0
       DEF PrepareUnload, InBlock, FramesOutside, ArmedInCS, Busy, InCS, TypeOK
  <2>3. QED
    BY <2>1, <2>2
<1>8. ASSUME NEW t \in Thread, Instruction(t)
      PROVE  Shape'
  <2>1. /\ UNCHANGED <<cpu, index, frame>>
        /\ mem' \in [Addr -> Value] /\ reg' \in [Thread -> Reg]
        /\ rseq_cs' = IF ip[t] = 1 THEN [rseq_cs EXCEPT ![t] = call[t].op] ELSE rseq_cs
        /\ Busy(t) /\ call[t].op \in Op /\ Last(call[t].op) \in 4 .. 6
        /\ ip[t] \in 1 .. Last(call[t].op)
    BY <1>8, <1>0, InstructionShape, CallType, BlockShape DEF InBlock, Last
  <2>2. CASE Continues(t)
    <3>1. TypeOK'
      BY <2>1, <2>2, <1>0 DEF Continues, TypeOK
    <3>2. (InBlock /\ FramesOutside)'
      BY <2>1, <2>2, <1>0 DEF Continues, InBlock, FramesOutside, Busy, TypeOK, Last
    <3>3. ArmedInCS'
      BY <2>1, <2>2, <1>0 DEF Continues, ArmedInCS, InCS, Busy, TypeOK, Last
    <3>4. QED
      BY <3>1, <3>2, <3>3
  <2>3. CASE Returns(t)
    <3>1. TypeOK'
      BY <2>1, <2>3, <1>0 DEF Returns, TypeOK
    <3>2. (InBlock /\ FramesOutside /\ ArmedInCS)'
      BY <2>1, <2>3, <1>0
         DEF Returns, InBlock, FramesOutside, ArmedInCS, Busy, InCS, TypeOK
    <3>3. QED
      BY <3>1, <3>2
  <2>4. QED
    BY <1>8, <2>2, <2>3, InstructionShape
<1>9. CASE UNCHANGED vars
  BY <1>9 DEF vars, TypeOK, InBlock, FramesOutside, ArmedInCS, Busy, InCS
<1>10. QED
  BY <1>1, <1>2, <1>3, <1>4, <1>5, <1>6, <1>7, <1>8, <1>9 DEF Next, Kernel

\* Types, and the block a thread executes is the one its area names: for any
\* schedule, and whatever signals interrupt what.
THEOREM Typing == Spec => []TypeOK
<1>1. Spec => []Shape
  BY ShapeInit, ShapeStep, PTL DEF Spec
<1>2. Shape => TypeOK
  BY DEF Shape
<1>3. QED
  BY <1>1, <1>2, PTL

\* A thread inside a critical section has that section in its area, so the
\* kernel finds it whenever it takes the thread off the CPU.
THEOREM Armed == Spec => []ArmedInCS
<1>1. Spec => []Shape
  BY ShapeInit, ShapeStep, PTL DEF Spec
<1>2. Shape => ArmedInCS
  BY DEF Shape
<1>3. QED
  BY <1>1, <1>2, PTL

\* What a signal interrupts begins its block anew behind the handler, which
\* has used the one area for calls of its own.
THEOREM HandlersApart == Spec => []FramesOutside
<1>1. Spec => []Shape
  BY ShapeInit, ShapeStep, PTL DEF Spec
<1>2. Shape => FramesOutside
  BY DEF Shape
<1>3. QED
  BY <1>1, <1>2, PTL

-----------------------------------------------------------------------------
(* The index that was checked stays the index of the thread. *)

Confirming == Shape /\ IndicesDistinct /\ ConfirmedInCS

LEMMA ConfirmingInit == Init => Confirming
BY ShapeInit DEF Init, Confirming, IndicesDistinct, ConfirmedInCS, Running, InCS, Busy

\* Only the check instruction takes a block past position 2.
LEMMA PastCheck ==
  ASSUME Shape, NEW t \in Thread, Instruction(t), Continues(t), ip[t] = 2
  PROVE  Confirmed(t)
<1>1. Program[call[t].op][2] = "check"
  BY Blocks, CallType, InstructionShape DEF Shape, Op
<1>2. Check(t)
  BY <1>1
     DEF Instruction, Arm, Check, LoadEq, LoadOtherEq, LoadNe, Chase, LoadBase, LoadSlot,
         LoadPrev, StoreSide, StoreNew, StoreChased, StoreSum, At
<1>3. call[t] # Idle /\ call'[t] = call[t]
  BY InstructionShape DEF Busy, Continues
<1>4. ~Exit(t, 2, 0)
  BY <1>3 DEF Exit, Return, Shape, TypeOK
<1>5. QED
  BY <1>2, <1>4 DEF Check, Confirmed

LEMMA ConfirmingStep == Confirming /\ [Next]_vars => Confirming'
<1> SUFFICES ASSUME Confirming, [Next]_vars
             PROVE  (IndicesDistinct /\ ConfirmedInCS)'
  BY ShapeStep DEF Confirming
<1> USE DEF Confirming
<1>0. Shape /\ TypeOK
  BY DEF Shape
<1>1. ASSUME NEW t \in Thread, Preempt(t)
      PROVE  (IndicesDistinct /\ ConfirmedInCS)'
  BY <1>1, <1>0
     DEF Preempt, IndicesDistinct, ConfirmedInCS, Running, InCS, Busy, Confirmed, TypeOK
<1>2. ASSUME NEW t \in Thread, NEW c \in CPU, NEW i \in CidSet, Resume(t, c, i)
      PROVE  (IndicesDistinct /\ ConfirmedInCS)'
  <2>1. c # Off
    BY ConstantsOK DEF Off
  <2>2. IndicesDistinct'
    BY <1>2, <2>1, <1>0 DEF Resume, IndicesDistinct, Running, TypeOK
  <2>3. ConfirmedInCS'
    BY <1>2, <1>0, FixUp DEF Resume, ConfirmedInCS, Running, InCS, Busy, Confirmed, TypeOK
  <2>4. QED
    BY <2>2, <2>3
<1>3. ASSUME NEW t \in Thread, Interrupt(t)
      PROVE  (IndicesDistinct /\ ConfirmedInCS)'
  BY <1>3, <1>0, FixUp
     DEF Interrupt, IndicesDistinct, ConfirmedInCS, Running, InCS, Busy, Confirmed, TypeOK
<1>4. ASSUME NEW t \in Thread, Signal(t)
      PROVE  (IndicesDistinct /\ ConfirmedInCS)'
  BY <1>4, <1>0
     DEF Signal, IndicesDistinct, ConfirmedInCS, Running, InCS, Busy, Confirmed, TypeOK
<1>5. ASSUME NEW t \in Thread, SignalReturn(t)
      PROVE  (IndicesDistinct /\ ConfirmedInCS)'
  <2>1. frame[t].ip = 1
    BY <1>5 DEF Shape, FramesOutside, SignalReturn
  <2>2. QED
    BY <1>5, <2>1, <1>0
       DEF SignalReturn, IndicesDistinct, ConfirmedInCS, Running, InCS, Busy, Confirmed, TypeOK
<1>6. ASSUME NEW t \in Thread, NEW c \in Calls, Invoke(t, c)
      PROVE  (IndicesDistinct /\ ConfirmedInCS)'
  <2>1. ip[t] = 1
    BY <1>6 DEF Invoke, Shape, InBlock
  <2>2. QED
    BY <1>6, <2>1, <1>0
       DEF Invoke, IndicesDistinct, ConfirmedInCS, Running, InCS, Busy, Confirmed, TypeOK
<1>7. ASSUME NEW t \in Thread, PrepareUnload(t)
      PROVE  (IndicesDistinct /\ ConfirmedInCS)'
  BY <1>7 DEF PrepareUnload, IndicesDistinct, ConfirmedInCS, Running, InCS, Busy, Confirmed
<1>8. ASSUME NEW t \in Thread, Instruction(t)
      PROVE  (IndicesDistinct /\ ConfirmedInCS)'
  <2>1. UNCHANGED <<cpu, index>> /\ Running(t) /\ Busy(t)
        /\ ip[t] \in 1 .. Last(call[t].op)
    BY <1>8, InstructionShape DEF Shape, InBlock, Last
  <2>2. IndicesDistinct'
    BY <2>1 DEF IndicesDistinct, Running
  <2>3. CASE Continues(t)
    <3>1. Confirmed(t) \/ ip[t] = 1
      BY <1>8, <2>1, <2>3, PastCheck DEF ConfirmedInCS, InCS, Last, Shape, TypeOK
    <3>2. ConfirmedInCS'
      BY <2>1, <2>3, <3>1, <1>0
         DEF Continues, ConfirmedInCS, Running, InCS, Busy, Confirmed, TypeOK
    <3>3. QED
      BY <2>2, <3>2
  <2>4. CASE Returns(t)
    BY <2>1, <2>2, <2>4, <1>0
       DEF Returns, ConfirmedInCS, Running, InCS, Busy, Confirmed, TypeOK
  <2>5. QED
    BY <1>8, <2>3, <2>4, InstructionShape
<1>9. CASE UNCHANGED vars
  BY <1>9 DEF vars, IndicesDistinct, ConfirmedInCS, Running, InCS, Busy, Confirmed
<1>10. QED
  BY <1>1, <1>2, <1>3, <1>4, <1>5, <1>6, <1>7, <1>8, <1>9 DEF Next, Kernel

\* Up to its check a block does not store.
LEMMA NothingStored ==
  ASSUME Shape, NEW t \in Thread, Instruction(t), ip[t] \in {1, 2}
  PROVE  mem' = mem
<1>1. Program[call[t].op][ip[t]] \in {"arm", "check"}
  BY InstructionShape, CallType, FirstLabels DEF Shape
<1>2. Arm(t) \/ Check(t)
  BY <1>1
     DEF Instruction, LoadEq, LoadOtherEq, LoadNe, Chase, LoadBase, LoadSlot, LoadPrev,
         StoreSide, StoreNew, StoreChased, StoreSum, At
<1>3. QED
  BY <1>2 DEF Arm, Check

\* Past its check a running thread still has the index it checked.
THEOREM ConfirmedStays == Spec => []ConfirmedInCS
<1>1. Spec => []Confirming
  BY ConfirmingInit, ConfirmingStep, PTL DEF Spec
<1>2. Confirming => ConfirmedInCS
  BY DEF Confirming
<1>3. QED
  BY <1>1, <1>2, PTL

=============================================================================
