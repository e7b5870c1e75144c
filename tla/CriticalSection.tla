--------------------------- MODULE CriticalSection ---------------------------
(***************************************************************************)
(* Per-CPU word operations of rseq-rs at the grain of single instructions. *)
(*                                                                         *)
(* A bound thread invokes one of the six operations of thread.rs.  The     *)
(* operation runs its assembly block: it arms the rseq area, confirms that *)
(* the index the kernel published is the key of the word, and ends in one  *)
(* committing store.  The kernel may preempt the thread anywhere, run it   *)
(* on another CPU, deliver a signal, or interrupt it for a membarrier.     *)
(* Whenever it returns to a thread inside the critical section, it moves   *)
(* it back to the abort label, which is the first instruction of the       *)
(* block.                                                                  *)
(*                                                                         *)
(* The kernel is not part of the repository: its actions are modelled from *)
(* what src/ expects of it.  Memory is sequentially consistent; README     *)
(* says why that is enough for words that only threads of one index touch. *)
(***************************************************************************)
EXTENDS Integers, Sequences

CONSTANTS
  Thread,      \* bound threads, each with its own rseq area
  Handlers,    \* the threads on which signals with rseq handlers arrive
  CPU,         \* logical CPU ids
  CidSet,      \* memory-map concurrency ids
  Addr,        \* addresses of live words, themselves values
  Width,       \* a usize holds Width values: arithmetic is modulo Width
  Calls,       \* the calls threads may make, see the constructors below
  InitMem,     \* contents of memory when the threads start
  Arch,        \* which of the two assembly files is built
  Idle,        \* not a call: the thread is outside the operations
  NoFrame      \* not a call: the thread is not in a signal handler

Value == 0 .. Width - 1
Kind  == {"cpu_id", "mm_cid"}   \* K::OFF: the area field the block compares
Id    == Nat
Off   == -1                     \* the thread is not running

Op == {"compare_exchange", "compare_exchange_if", "store_if",
       "load_if_ne", "fetch_add", "fetch_add_at"}
Paired == {"compare_exchange_if", "store_if"}   \* operations on two words
Adds   == {"fetch_add", "fetch_add_at"}

X86 == INSTANCE X86_64
Arm64 == INSTANCE Aarch64

Program ==
  IF Arch = "x86_64"
  THEN [compare_exchange    |-> X86!compare_exchange,
        compare_exchange_if |-> X86!compare_exchange_if,
        store_if            |-> X86!store_if,
        load_if_ne          |-> X86!load_if_ne,
        fetch_add           |-> X86!fetch_add,
        fetch_add_at        |-> X86!fetch_add_at]
  ELSE [compare_exchange    |-> Arm64!compare_exchange,
        compare_exchange_if |-> Arm64!compare_exchange_if,
        store_if            |-> Arm64!store_if,
        load_if_ne          |-> Arm64!load_if_ne,
        fetch_add           |-> Arm64!fetch_add,
        fetch_add_at        |-> Arm64!fetch_add_at]

-----------------------------------------------------------------------------
(* Words, calls and results. *)

\* An address with the index it is picked for.
Word == [addr : Addr, kind : Kind, key : Id]

\* other is the second word of a paired operation (side of store_if) and
\* other_val what is compared with it or stored into it; new doubles as the
\* count of an addition; offset is used by the operations that chase.
Call == [op : Op, word : Word, expect : Value, new : Value,
         other : Word, other_val : Value, offset : Value]

compare_exchange(word, expect, new) ==
  [op |-> "compare_exchange", word |-> word, expect |-> expect, new |-> new,
   other |-> word, other_val |-> 0, offset |-> 0]

compare_exchange_if(word, expect, new, other, other_expect) ==
  [op |-> "compare_exchange_if", word |-> word, expect |-> expect, new |-> new,
   other |-> other, other_val |-> other_expect, offset |-> 0]

store_if(word, expect, new, side, side_new) ==
  [op |-> "store_if", word |-> word, expect |-> expect, new |-> new,
   other |-> side, other_val |-> side_new, offset |-> 0]

load_if_ne(word, expect_not, offset) ==
  [op |-> "load_if_ne", word |-> word, expect |-> expect_not, new |-> 0,
   other |-> word, other_val |-> 0, offset |-> offset]

fetch_add(word, count) ==
  [op |-> "fetch_add", word |-> word, expect |-> 0, new |-> count,
   other |-> word, other_val |-> 0, offset |-> 0]

fetch_add_at(ptr, offset, count) ==
  [op |-> "fetch_add_at", word |-> ptr, expect |-> 0, new |-> count,
   other |-> ptr, other_val |-> 0, offset |-> offset]

Result == [status : {"Ok", "Miss", "Abort", "None"}, value : Value]
Ok(value)   == [status |-> "Ok", value |-> value]
Miss(value) == [status |-> "Miss", value |-> value]
Abort       == [status |-> "Abort", value |-> 0]
NoResult    == [status |-> "None", value |-> 0]

\* Attempt::from_status on what the block leaves in its output registers.
FromStatus(status, value) ==
  CASE status = 0 -> Ok(value)
    [] status = 1 -> Miss(value)
    [] OTHER      -> Abort

\* The wrappers pass the attempt on; the additions have no Miss.
ToResult(op, attempt) ==
  IF op \in Adds /\ attempt.status = "Miss" THEN Abort ELSE attempt

\* The two words of a paired call have different keys.
KeysDiffer(c) == c.op \in Paired /\ c.other.key # c.word.key

Plus(x, y) == (x + y) % Width

\* cur is the register a block returns, tmp its scratch.
Reg   == [cur : Value, tmp : Value]
NoReg == [cur |-> 0, tmp |-> 0]
Frame == [call : Calls \cup {Idle}, ip : 1 .. 6, reg : Reg]
Index == [Kind -> Id]

ASSUME ConstantsOK ==
  /\ Width \in Nat \ {0}
  /\ CPU \subseteq Nat
  /\ CidSet \subseteq Nat
  /\ Addr \subseteq Value
  /\ Calls \subseteq Call
  /\ InitMem \in [Addr -> Value]
  /\ Arch \in {"x86_64", "aarch64"}
  /\ Idle \notin Calls /\ NoFrame \notin Calls \cup {Idle}
  /\ NoFrame \notin Frame
  /\ Handlers \subseteq Thread

\* The two words of a call have one index kind: the type parameter K.
ASSUME OneKindPerCall == \A c \in Calls : c.other.kind = c.word.kind

-----------------------------------------------------------------------------
VARIABLES
  mem,      \* Addr -> Value
  cpu,      \* the CPU a thread runs on, or Off
  index,    \* the cpu_id and mm_cid fields of a thread's area
  rseq_cs,  \* the descriptor in a thread's area: the name of a block, or "none"
  call,     \* the call a thread is executing, or Idle
  ip,       \* position in the block of that call
  reg,      \* registers of the block
  frame,    \* what a signal interrupted, or NoFrame
  ret       \* result of the last call of a thread

vars == <<mem, cpu, index, rseq_cs, call, ip, reg, frame, ret>>

Running(t) == cpu[t] # Off
Busy(t)    == call[t] # Idle

\* The next instruction of a thread that is running a block.
At(t, label) == Running(t) /\ Busy(t) /\ Program[call[t].op][ip[t]] = label

\* Fault: the descriptor ends before the committing store.
InCS_WithoutCommit(t) == Busy(t) /\ ip[t] \in 2 .. Len(Program[call[t].op]) - 1

\* The range [start_ip, post_commit) of the descriptor of the block.
InCS(t) == Busy(t) /\ ip[t] \in 2 .. Len(Program[call[t].op])

-----------------------------------------------------------------------------
(* The kernel.  On every return to user mode it fixes up the instruction   *)
(* pointer of a thread whose area names the critical section it is in, and *)
(* clears rseq_cs whether or not it did.                                   *)

\* Fault: the abort label is behind the check.
FixedIp_BehindCheck(t) == IF InCS(t) /\ rseq_cs[t] = call[t].op THEN 3 ELSE ip[t]

FixedIp(t) == IF InCS(t) /\ rseq_cs[t] = call[t].op THEN 1 ELSE ip[t]

Preempt(t) ==
  /\ Running(t)
  /\ cpu' = [cpu EXCEPT ![t] = Off]
  /\ UNCHANGED <<mem, index, rseq_cs, call, ip, reg, frame, ret>>

\* A CPU runs one thread, and no two running threads share a concurrency id.
Resume(t, c, i) ==
  /\ ~Running(t)
  /\ \A u \in Thread : cpu[u] # c
  /\ \A u \in Thread : Running(u) => index[u]["mm_cid"] # i
  /\ cpu' = [cpu EXCEPT ![t] = c]
  /\ index' = [index EXCEPT ![t] = [cpu_id |-> c, mm_cid |-> i]]
  /\ ip' = [ip EXCEPT ![t] = FixedIp(t)]
  /\ rseq_cs' = [rseq_cs EXCEPT ![t] = "none"]
  /\ UNCHANGED <<mem, call, reg, frame, ret>>

\* A membarrier IPI, a signal without rseq calls in its handler, or a time
\* slice that ends with the same thread.
Interrupt(t) ==
  /\ Running(t)
  /\ ip' = [ip EXCEPT ![t] = FixedIp(t)]
  /\ rseq_cs' = [rseq_cs EXCEPT ![t] = "none"]
  /\ UNCHANGED <<mem, cpu, index, call, reg, frame, ret>>

\* A signal whose handler makes calls of its own on the thread's one area.
Signal(t) ==
  /\ Running(t) /\ t \in Handlers /\ frame[t] = NoFrame
  /\ frame' = [frame EXCEPT ![t] =
                 [call |-> call[t], ip |-> FixedIp(t), reg |-> reg[t]]]
  /\ rseq_cs' = [rseq_cs EXCEPT ![t] = "none"]
  /\ call' = [call EXCEPT ![t] = Idle]
  /\ ip' = [ip EXCEPT ![t] = 1]
  /\ reg' = [reg EXCEPT ![t] = NoReg]
  /\ UNCHANGED <<mem, cpu, index, ret>>

SignalReturn(t) ==
  /\ Running(t) /\ ~Busy(t) /\ frame[t] # NoFrame
  /\ call' = [call EXCEPT ![t] = frame[t].call]
  /\ ip' = [ip EXCEPT ![t] = frame[t].ip]
  /\ reg' = [reg EXCEPT ![t] = frame[t].reg]
  /\ frame' = [frame EXCEPT ![t] = NoFrame]
  /\ UNCHANGED <<mem, cpu, index, rseq_cs, ret>>

Kernel(t) ==
  \/ Preempt(t)
  \/ \E c \in CPU, i \in CidSet : Resume(t, c, i)
  \/ Interrupt(t)
  \/ Signal(t)
  \/ SignalReturn(t)

-----------------------------------------------------------------------------
(* The thread. *)

\* A call returns: its block is left and its registers are dead.
Return(t, result) ==
  /\ call' = [call EXCEPT ![t] = Idle]
  /\ ip' = [ip EXCEPT ![t] = 1]
  /\ reg' = [reg EXCEPT ![t] = NoReg]
  /\ ret' = [ret EXCEPT ![t] = result]

\* The exits of a block: a status and the value register.
Exit(t, status, value) ==
  Return(t, ToResult(call[t].op, FromStatus(status, value)))

\* The block goes on with the next instruction.
Advance(t) ==
  /\ ip' = [ip EXCEPT ![t] = @ + 1]
  /\ UNCHANGED <<call, ret>>

\* A thread calls an operation.  Paired operations compare the keys first.
Invoke(t, c) ==
  /\ Running(t) /\ ~Busy(t)
  /\ IF KeysDiffer(c)
     THEN /\ ret' = [ret EXCEPT ![t] = Abort]
          /\ UNCHANGED call
     ELSE /\ ret' = [ret EXCEPT ![t] = NoResult]
          /\ call' = [call EXCEPT ![t] = c]
  /\ UNCHANGED <<mem, cpu, index, rseq_cs, ip, reg, frame>>

\* Thread::prepare_unload, outside the operations.
PrepareUnload(t) ==
  /\ Running(t) /\ ~Busy(t)
  /\ rseq_cs' = [rseq_cs EXCEPT ![t] = "none"]
  /\ UNCHANGED <<mem, cpu, index, call, ip, reg, frame, ret>>

\* Fault: an area that is armed is not armed again.
Arm_OnlyIfClear(t) ==
  /\ At(t, "arm")
  /\ rseq_cs' = [rseq_cs EXCEPT ![t] = IF @ = "none" THEN call[t].op ELSE @]
  /\ Advance(t)
  /\ UNCHANGED <<mem, cpu, index, reg, frame>>

Arm(t) ==
  /\ At(t, "arm")
  /\ rseq_cs' = [rseq_cs EXCEPT ![t] = call[t].op]
  /\ Advance(t)
  /\ UNCHANGED <<mem, cpu, index, reg, frame>>

\* Fault: the check branches on below instead of not equal.
Check_Below(t) ==
  LET word == call[t].word IN
  /\ At(t, "check")
  /\ IF index[t][word.kind] >= word.key
     THEN Advance(t) /\ UNCHANGED reg
     ELSE Exit(t, 2, 0)
  /\ UNCHANGED <<mem, cpu, index, rseq_cs, frame>>

\* Fault: a failed check tries again instead of reporting the mismatch.
Check_Retries(t) ==
  LET word == call[t].word IN
  /\ At(t, "check")
  /\ IF index[t][word.kind] = word.key
     THEN Advance(t)
     ELSE ip' = [ip EXCEPT ![t] = 1] /\ UNCHANGED <<call, ret>>
  /\ UNCHANGED <<mem, cpu, index, rseq_cs, reg, frame>>

Check(t) ==
  LET word == call[t].word IN
  /\ At(t, "check")
  /\ IF index[t][word.kind] = word.key
     THEN Advance(t) /\ UNCHANGED reg
     ELSE Exit(t, 2, 0)
  /\ UNCHANGED <<mem, cpu, index, rseq_cs, frame>>

\* current := *word, and a miss when it is not expect.
LoadEq(t) ==
  LET seen == mem[call[t].word.addr] IN
  /\ At(t, "load_eq")
  /\ IF seen = call[t].expect
     THEN Advance(t) /\ reg' = [reg EXCEPT ![t].cur = seen]
     ELSE Exit(t, 1, seen)
  /\ UNCHANGED <<mem, cpu, index, rseq_cs, frame>>

\* Fault: the miss of the second compare carries the value of the first word.
LoadOtherEq_FirstValue(t) ==
  LET seen == mem[call[t].other.addr] IN
  /\ At(t, "load_other_eq")
  /\ IF seen = call[t].other_val
     THEN Advance(t) /\ UNCHANGED reg
     ELSE Exit(t, 1, reg[t].cur)
  /\ UNCHANGED <<mem, cpu, index, rseq_cs, frame>>

\* The miss of the second compare carries the value of the second word.
LoadOtherEq(t) ==
  LET seen == mem[call[t].other.addr] IN
  /\ At(t, "load_other_eq")
  /\ IF seen = call[t].other_val
     THEN Advance(t) /\ UNCHANGED reg
     ELSE Exit(t, 1, seen)
  /\ UNCHANGED <<mem, cpu, index, rseq_cs, frame>>

\* Fault: the value is not compared with expect_not.
LoadNe_Always(t) ==
  /\ At(t, "load_ne")
  /\ Advance(t) /\ reg' = [reg EXCEPT ![t].cur = mem[call[t].word.addr]]
  /\ UNCHANGED <<mem, cpu, index, rseq_cs, frame>>

\* current := *word, and a miss when it is expect_not.
LoadNe(t) ==
  LET seen == mem[call[t].word.addr] IN
  /\ At(t, "load_ne")
  /\ IF seen # call[t].expect
     THEN Advance(t) /\ reg' = [reg EXCEPT ![t].cur = seen]
     ELSE Exit(t, 1, seen)
  /\ UNCHANGED <<mem, cpu, index, rseq_cs, frame>>

\* The chase reads *(current + offset).  An address that is not a live word
\* breaks the safety contract of the operation: the thread stops there, and
\* ChaseLegal says that the callers of a model never get that far.
Field(t) == Plus(reg[t].cur, call[t].offset)

Chase(t) ==
  /\ At(t, "chase")
  /\ Field(t) \in Addr
  /\ reg' = [reg EXCEPT ![t].tmp = mem[Field(t)]]
  /\ Advance(t)
  /\ UNCHANGED <<mem, cpu, index, rseq_cs, frame>>

\* Fault: the offset is added to the pointer and again by the load.
LoadBase_OffsetTwice(t) ==
  LET base == Plus(mem[call[t].word.addr], call[t].offset) IN
  /\ At(t, "load_base")
  /\ reg' = [reg EXCEPT ![t].tmp = Plus(base, call[t].offset)]
  /\ Advance(t)
  /\ UNCHANGED <<mem, cpu, index, rseq_cs, frame>>

\* base := *ptr + offset, then slot := *base, both live by contract.
LoadBase(t) ==
  /\ At(t, "load_base")
  /\ reg' = [reg EXCEPT ![t].tmp = Plus(mem[call[t].word.addr], call[t].offset)]
  /\ Advance(t)
  /\ UNCHANGED <<mem, cpu, index, rseq_cs, frame>>

\* Fault: one dereference is missing, the table entry is taken for the slot.
LoadSlot_Entry(t) ==
  /\ At(t, "load_slot")
  /\ reg[t].tmp \in Addr
  /\ Advance(t)
  /\ UNCHANGED <<mem, cpu, index, rseq_cs, reg, frame>>

LoadSlot(t) ==
  /\ At(t, "load_slot")
  /\ reg[t].tmp \in Addr
  /\ reg' = [reg EXCEPT ![t].tmp = mem[reg[t].tmp]]
  /\ Advance(t)
  /\ UNCHANGED <<mem, cpu, index, rseq_cs, frame>>

\* The word an addition changes: the word itself, or the chased slot.
Target(t) == IF call[t].op = "fetch_add_at" THEN reg[t].tmp ELSE call[t].word.addr

LoadPrev(t) ==
  /\ At(t, "load_prev")
  /\ Target(t) \in Addr
  /\ reg' = [reg EXCEPT ![t].cur = mem[Target(t)]]
  /\ Advance(t)
  /\ UNCHANGED <<mem, cpu, index, rseq_cs, frame>>

StoreSide(t) ==
  /\ At(t, "store_side")
  /\ mem' = [mem EXCEPT ![call[t].other.addr] = call[t].other_val]
  /\ Advance(t)
  /\ UNCHANGED <<cpu, index, rseq_cs, reg, frame>>

\* The committing stores.  The block falls through to its exit, outside the
\* critical section; rseq_cs keeps naming the block.
Commit(t, addr, value) ==
  /\ mem' = [mem EXCEPT ![addr] = value]
  /\ Exit(t, 0, reg[t].cur)
  /\ UNCHANGED <<cpu, index, rseq_cs, frame>>

StoreNew(t) ==
  At(t, "store_new") /\ Commit(t, call[t].word.addr, call[t].new)

StoreChased(t) ==
  At(t, "store_chased") /\ Commit(t, call[t].word.addr, reg[t].tmp)

\* Fault: the sum does not wrap.
StoreSum_Unbounded(t) ==
  At(t, "store_sum") /\ Commit(t, Target(t), reg[t].cur + call[t].new)

StoreSum(t) ==
  At(t, "store_sum") /\ Commit(t, Target(t), Plus(reg[t].cur, call[t].new))

Instruction(t) ==
  \/ Arm(t) \/ Check(t) \/ LoadEq(t) \/ LoadOtherEq(t) \/ LoadNe(t)
  \/ Chase(t) \/ LoadBase(t) \/ LoadSlot(t) \/ LoadPrev(t)
  \/ StoreSide(t) \/ StoreNew(t) \/ StoreChased(t) \/ StoreSum(t)

-----------------------------------------------------------------------------
Init ==
  /\ mem = InitMem
  /\ cpu = [t \in Thread |-> Off]
  /\ index = [t \in Thread |-> [k \in Kind |-> 0]]
  /\ rseq_cs = [t \in Thread |-> "none"]
  /\ call = [t \in Thread |-> Idle]
  /\ ip = [t \in Thread |-> 1]
  /\ reg = [t \in Thread |-> NoReg]
  /\ frame = [t \in Thread |-> NoFrame]
  /\ ret = [t \in Thread |-> NoResult]

Next ==
  \E t \in Thread :
    \/ Kernel(t)
    \/ \E c \in Calls : Invoke(t, c)
    \/ PrepareUnload(t)
    \/ Instruction(t)

Spec == Init /\ [][Next]_vars

=============================================================================
