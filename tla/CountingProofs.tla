---------------------------- MODULE CountingProofs ----------------------------
(***************************************************************************)
(* Proofs about the counting tests of Stress, for any number of threads,   *)
(* CPUs, concurrency ids and iterations.                                   *)
(***************************************************************************)
EXTENDS Stress, FenceProofs, FiniteSetTheorems, NumberLemmas

CountingTests == {"add", "add_cid", "cas", "store_if", "compare_exchange_if"}
CountingOps   == {"compare_exchange", "compare_exchange_if", "store_if", "fetch_add"}

\* The word of the call that a thread executes still has the value it loaded.
Loaded(t) ==
  /\ reg[t].cur = mem[call[t].word.addr]
  /\ call[t].op \notin Adds => reg[t].cur = call[t].expect

\* A thread of a counting test goes round pick, call and settle; what it
\* executes is the operation of its test on the word it has picked.
Iterating(t) ==
  /\ task[t] = "change"
  /\ at[t] # "pick" => picked[t] \in Indices
  /\ Busy(t) => at[t] = "settle" /\ call[t] = Operation(t)
  /\ Running(t) => index[t]["mm_cid"] \in CidSet
  /\ Running(t) /\ Busy(t) /\ ip[t] > 3 => Loaded(t)

Counting ==
  /\ test \in CountingTests
  /\ task \in [Thread -> {"change"}]
  /\ at \in [Thread -> {"pick", "call", "settle"}]
  /\ picked \in [Thread -> Nat]
  /\ expect \in [Thread -> Value]
  /\ won \in [CPU \cup CidSet -> Nat]
  /\ \A t \in Thread : Iterating(t)

-----------------------------------------------------------------------------
(* Arithmetic of words. *)

LEMMA PlusOne ==
  ASSUME NEW n \in Nat
  PROVE  Plus(n % Width, 1) = (n + 1) % Width
BY NextRemainder, ConstantsOK DEF Plus

-----------------------------------------------------------------------------
(* The operation of an iteration. *)

LEMMA KeyType ==
  ASSUME test \in CountingTests
  PROVE  /\ Key \in Kind /\ (Key = "mm_cid" <=> test = "add_cid")
         /\ Indices \subseteq Nat /\ Indices \subseteq CPU \cup CidSet
         /\ Key = "cpu_id" => Indices = CPU
BY ConstantsOK DEF Key, Kind, Indices

LEMMA OperationType ==
  ASSUME test \in CountingTests, NEW t \in Thread, picked[t] \in Indices, expect[t] \in Value
  PROVE  /\ Operation(t) \in Calls /\ Operation(t).op \in CountingOps
         /\ Operation(t).word = WordOf(Counts, Key, picked[t])
         /\ Operation(t).op \in Adds => Operation(t).new = 1
         /\ Operation(t).op \notin Adds =>
              Operation(t).expect = expect[t] /\ Operation(t).new = Plus(expect[t], 1)
         /\ Operation(t).op = "store_if" =>
              Key = "cpu_id" /\ Operation(t).other.addr = Sides + picked[t]
         /\ ~KeysDiffer(Operation(t))
<1> DEFINE word == WordOf(Counts, Key, picked[t])
           seen == expect[t]
           new  == Plus(expect[t], 1)
<1>0. /\ Key \in Kind /\ picked[t] \in Indices /\ expect[t] \in Value
      /\ Key = "cpu_id" => picked[t] \in CPU
  BY KeyType
<1>1. CASE test \in {"add", "add_cid"}
  <2>1. Operation(t) = fetch_add(word, 1)
    BY <1>1, Zenon DEF Operation
  <2>2. fetch_add(word, 1) \in Calls
    BY <1>0, CallsOK DEF Key, Indices
  <2>3. QED
    BY <2>1, <2>2 DEF fetch_add, CountingOps, Adds, KeysDiffer, Paired
<1>2. CASE test = "cas"
  <2>0. test \notin {"add", "add_cid"}
    BY <1>2
  <2>1. Operation(t) = compare_exchange(word, seen, new)
    BY <1>2, <2>0, Zenon DEF Operation
  <2>2. compare_exchange(word, seen, new) \in Calls
    BY <1>0, <1>2, CallsOK DEF Key
  <2>3. QED
    BY <2>1, <2>2 DEF compare_exchange, CountingOps, Adds, KeysDiffer, Paired
<1>3. CASE test = "store_if"
  <2> DEFINE side == WordOf(Sides, Key, picked[t])
  <2>0. test \notin {"add", "add_cid"} /\ test # "cas" /\ Key = "cpu_id"
    BY <1>3 DEF Key
  <2>1. Operation(t) = store_if(word, seen, new, side, seen)
    BY <1>3, <2>0, Zenon DEF Operation
  <2>2. store_if(word, seen, new, side, seen) \in Calls
    BY <1>0, <2>0, CallsOK
  <2>3. side.addr = Sides + picked[t] /\ side.key = word.key
    BY DEF WordOf
  <2>4. QED
    BY <2>0, <2>1, <2>2, <2>3 DEF store_if, CountingOps, Adds, KeysDiffer, Paired
<1>4. CASE test = "compare_exchange_if"
  <2>0. test \notin {"add", "add_cid"} /\ test # "cas" /\ test # "store_if"
    BY <1>4
  <2>1. Operation(t) = compare_exchange_if(word, seen, new, word, seen)
    BY <1>4, <2>0, Zenon DEF Operation
  <2>2. compare_exchange_if(word, seen, new, word, seen) \in Calls
    BY <1>0, <1>4, CallsOK DEF Key
  <2>3. QED
    BY <2>1, <2>2 DEF compare_exchange_if, CountingOps, Adds, KeysDiffer, Paired
<1>5. QED
  BY <1>1, <1>2, <1>3, <1>4 DEF CountingTests

\* The operation depends on the test, and on what the thread has picked and
\* expects.
LEMMA SameOperation ==
  ASSUME NEW t \in Thread, UNCHANGED <<test, picked[t], expect[t]>>
  PROVE  Operation(t)' = Operation(t)
BY Zenon DEF Operation, Key

\* The blocks of the counting tests load the word in position 3.
LEMMA CountingBlocks ==
  ASSUME NEW op \in CountingOps, NEW i \in 1 .. Last(op), NEW label, label = Program[op][i]
  PROVE  /\ label \in {"arm", "check", "load_eq", "load_prev", "load_other_eq",
                       "store_side", "store_new", "store_sum"}
         /\ label \in {"load_eq", "load_prev"} <=> i = 3
         /\ label \in {"arm", "check"} <=> i < 3
         /\ label = "load_eq" => op \notin Adds
         /\ label = "load_prev" => op \in Adds
         /\ label = "store_side" => op = "store_if"
         /\ label = "store_new" => op \notin Adds
         /\ label = "store_sum" => op = "fetch_add"
         /\ op \in CountingOps => op # "fetch_add_at"
<1> USE Blocks DEF Last, Adds
<1>1. CASE op = "compare_exchange"
  BY <1>1
<1>2. CASE op = "compare_exchange_if"
  BY <1>2
<1>3. CASE op = "store_if"
  BY <1>3
<1>4. CASE op = "fetch_add"
  BY <1>4
<1>5. QED
  BY <1>1, <1>2, <1>3, <1>4 DEF CountingOps

\* What a thread that executes a block has picked and calls.
LEMMA Executing ==
  ASSUME Fencing, Counting, NEW t \in Thread, Busy(t)
  PROVE  /\ picked[t] \in Indices /\ picked[t] \in Nat /\ at[t] = "settle"
         /\ call[t] = Operation(t) /\ call[t].op \in CountingOps
         /\ call[t].word = WordOf(Counts, Key, picked[t])
         /\ call[t].word.addr = Counts + picked[t]
         /\ call[t].word.addr \in Addr
         /\ call[t].op = "store_if" => /\ call[t].other.addr \in Addr
                                      /\ \A i \in Indices : call[t].other.addr # Counts + i
         /\ call[t].op \in Adds => call[t].new = 1
         /\ call[t].op \notin Adds => call[t].new = Plus(call[t].expect, 1)
<1>1. picked[t] \in Indices /\ at[t] = "settle" /\ call[t] = Operation(t) /\ expect[t] \in Value
  BY DEF Counting, Iterating
<1>2. QED
  BY <1>1, OperationType, KeyType, LayoutOK DEF Counting, WordOf

-----------------------------------------------------------------------------
(* What an instruction of a counting test does to the words. *)

Undisturbed == \A i \in Indices : mem'[Counts + i] = mem[Counts + i]

GoesOn(t) == Undisturbed /\ Continues(t) /\ (ip[t] > 2 => Loaded(t)')

Fails(t) ==
  /\ Undisturbed /\ Returns(t)
  /\ ret' = [ret EXCEPT ![t] = ret'[t]] /\ ret'[t].status # "Ok"

Succeeds(t) ==
  /\ ip[t] > 2
  /\ mem' = [mem EXCEPT ![Counts + picked[t]] = Plus(@, 1)] /\ Returns(t)
  /\ ret' = [ret EXCEPT ![t] = ret'[t]] /\ ret'[t].status = "Ok"

LEMMA Effect ==
  ASSUME Fencing, Counting, NEW t \in Thread, Instruction(t)
  PROVE  GoesOn(t) \/ Fails(t) \/ Succeeds(t)
<1> DEFINE word == Counts + picked[t]
           label == Program[call[t].op][ip[t]]
<1>0. /\ Shape /\ TypeOK /\ Running(t) /\ Busy(t)
      /\ call[t].op \in CountingOps /\ ip[t] \in 1 .. Last(call[t].op)
      /\ word \in Addr /\ mem[word] \in Value /\ call[t].word.addr = word
  BY InstructionShape, Executing DEF Fencing, Confirming, Shape, TypeOK, InBlock, Last
<1>1. ASSUME NEW l, At(t, l)
      PROVE  /\ l = label /\ l \notin {"load_ne", "chase", "store_chased", "load_base", "load_slot"}
             /\ l \in {"load_eq", "load_prev"} <=> ip[t] = 3
             /\ l \in {"arm", "check"} <=> ip[t] < 3
             /\ l = "load_eq" => call[t].op \notin Adds
             /\ l = "load_prev" => call[t].op \in Adds
             /\ l = "store_side" => call[t].op = "store_if"
             /\ l = "store_new" => call[t].op \notin Adds
             /\ l = "store_sum" => call[t].op = "fetch_add"
             /\ l \in {"load_other_eq", "store_side", "store_new", "store_sum"} => ip[t] > 3
             /\ call[t].op # "fetch_add_at"
  <2>1. l = label
    BY <1>1 DEF At
  <2>2. QED
    BY <1>0, <2>1, CountingBlocks
<1>2. ASSUME Advance(t)
      PROVE  Continues(t)
  <2>1. call' = call /\ call[t] # Idle /\ call \in [Thread -> Calls \cup {Idle}]
    BY <1>0, <1>2 DEF Advance, Busy, TypeOK
  <2>2. ~Returns(t)
    BY <2>1 DEF Returns
  <2>3. QED
    BY <1>0, <2>2, InstructionShape
<1>3. ASSUME NEW status \in {1, 2}, NEW value \in Value, Exit(t, status, value), UNCHANGED mem
      PROVE  Fails(t)
  <2>1. Returns(t)
    BY <1>0, <1>3, ExitType
  <2>2. ToResult(call[t].op, FromStatus(status, value)).status # "Ok"
    BY DEF ToResult, FromStatus, Miss, Abort
  <2>3. QED
    BY <1>0, <1>3, <2>1, <2>2 DEF Exit, Return, Fails, Undisturbed, TypeOK
<1>4. ASSUME NEW value, value = Plus(mem[word], 1), Commit(t, word, value), ip[t] > 2
      PROVE  Succeeds(t)
  <2>1. reg[t].cur \in Value
    BY <1>0 DEF TypeOK, Reg
  <2>2. Returns(t)
    BY <1>0, <1>4, <2>1, ExitType DEF Commit
  <2>3. ToResult(call[t].op, FromStatus(0, reg[t].cur)).status = "Ok"
    BY DEF ToResult, FromStatus, Ok
  <2>4. QED
    BY <1>0, <1>4, <2>2, <2>3 DEF Commit, Exit, Return, Succeeds, TypeOK
<1>5. ip[t] > 3 => Loaded(t)
  BY <1>0 DEF Counting, Iterating
<1>6. 0 \in Value
  BY ConstantsOK DEF Value
<1>7. CASE Arm(t)
  <2>1. At(t, "arm") /\ ~(ip[t] > 2)
    BY <1>0, <1>1, <1>7 DEF Arm
  <2>2. Continues(t) /\ UNCHANGED mem
    BY <1>2, <1>7 DEF Arm
  <2>3. QED
    BY <2>1, <2>2 DEF GoesOn, Undisturbed
<1>8. CASE Check(t)
  <2>1. At(t, "check") /\ ~(ip[t] > 2)
    BY <1>0, <1>1, <1>8 DEF Check
  <2>2. UNCHANGED mem /\ (Continues(t) \/ Fails(t))
    BY <1>2, <1>3, <1>6, <1>8 DEF Check
  <2>3. QED
    BY <2>1, <2>2 DEF GoesOn, Undisturbed
<1>9. CASE LoadEq(t)
  <2>1. CASE mem[word] = call[t].expect
    <3>1. Continues(t) /\ reg'[t].cur = mem[word] /\ UNCHANGED <<mem, call>>
      BY <1>0, <1>2, <1>9, <2>1 DEF LoadEq, Continues, TypeOK, Reg
    <3>2. QED
      BY <1>0, <2>1, <3>1 DEF GoesOn, Undisturbed, Loaded
  <2>2. CASE mem[word] # call[t].expect
    BY <1>0, <1>3, <1>9, <2>2 DEF LoadEq
  <2>3. QED
    BY <2>1, <2>2
<1>10. CASE LoadPrev(t)
  <2>1. At(t, "load_prev") /\ Target(t) = word /\ call[t].op \in Adds
    BY <1>0, <1>1, <1>10 DEF LoadPrev, Target
  <2>2. Continues(t) /\ reg'[t].cur = mem[word] /\ UNCHANGED <<mem, call>>
    BY <1>0, <1>2, <1>10, <2>1 DEF LoadPrev, Continues, TypeOK, Reg
  <2>3. QED
    BY <1>0, <2>1, <2>2 DEF GoesOn, Undisturbed, Loaded
<1>11. CASE LoadOtherEq(t)
  <2>1. ip[t] > 3 /\ call[t].other.addr \in Addr
    BY <1>0, <1>1, <1>11, CallType DEF LoadOtherEq, Word
  <2>2. CASE mem[call[t].other.addr] = call[t].other_val
    BY <1>0, <1>2, <1>5, <1>11, <2>1, <2>2 DEF LoadOtherEq, GoesOn, Undisturbed, Loaded, Continues
  <2>3. CASE mem[call[t].other.addr] # call[t].other_val
    BY <1>0, <1>3, <1>11, <2>1, <2>3 DEF LoadOtherEq, TypeOK
  <2>4. QED
    BY <2>2, <2>3
<1>12. CASE StoreSide(t)
  <2>1. ip[t] > 3 /\ call[t].op = "store_if" /\ call[t].other.addr \in Addr
        /\ \A i \in Indices : call[t].other.addr # Counts + i
    BY <1>0, <1>1, <1>12, Executing DEF StoreSide
  <2>2. Undisturbed /\ Continues(t) /\ UNCHANGED <<reg, call>>
    BY <1>0, <1>2, <1>12, <2>1 DEF StoreSide, Undisturbed, TypeOK, Continues
  <2>3. mem'[word] = mem[word]
    BY <1>0, <2>2, Executing DEF Undisturbed
  <2>4. QED
    BY <1>0, <1>5, <2>1, <2>2, <2>3 DEF GoesOn, Loaded
<1>13. CASE StoreNew(t)
  <2>1. call[t].new = Plus(mem[word], 1) /\ ip[t] > 2
    BY <1>0, <1>1, <1>5, <1>13, Executing DEF StoreNew, Loaded
  <2>2. QED
    BY <1>0, <1>4, <1>13, <2>1 DEF StoreNew
<1>14. CASE StoreSum(t)
  <2>1. Target(t) = word /\ Plus(reg[t].cur, call[t].new) = Plus(mem[word], 1) /\ ip[t] > 2
    BY <1>0, <1>1, <1>5, <1>14, Executing DEF StoreSum, Loaded, Target, Adds
  <2>2. QED
    BY <1>0, <1>4, <1>14, <2>1 DEF StoreSum
<1>15. QED
  BY <1>1, <1>7, <1>8, <1>9, <1>10, <1>11, <1>12, <1>13, <1>14
     DEF Instruction, LoadNe, Chase, StoreChased, LoadBase, LoadSlot

-----------------------------------------------------------------------------
(* The steps preserve the invariant. *)

\* Two threads past their checks run with different indices, and so they are
\* on different words.
LEMMA WordsDiffer ==
  ASSUME Fencing, Counting, NEW t \in Thread, NEW u \in Thread, t # u,
         Running(t), Busy(t), ip[t] > 2, Running(u), Busy(u), ip[u] > 2
  PROVE  picked[t] # picked[u]
<1>1. InCS(t) /\ InCS(u)
  BY DEF Fencing, Confirming, Shape, TypeOK, InBlock, InCS
<1>2. Confirmed(t) /\ Confirmed(u)
  BY <1>1 DEF Fencing, Confirming, ConfirmedInCS
<1>3. /\ call[t].word = WordOf(Counts, Key, picked[t])
      /\ call[u].word = WordOf(Counts, Key, picked[u])
  BY Executing
<1>4. index[t][Key] = picked[t] /\ index[u][Key] = picked[u]
  BY <1>2, <1>3 DEF Confirmed, WordOf
<1>5. Key \in Kind
  BY KeyType DEF Counting
<1>6. QED
  BY <1>4, <1>5 DEF Fencing, Confirming, IndicesDistinct, Kind

\* Steps that leave the words and the successes alone.
LEMMA NothingCounted ==
  ASSUME Counting, NothingLost, UNCHANGED <<test, won>>, Undisturbed,
         \A t \in Thread :
           /\ Unsettled(t)' <=> Unsettled(t)
           /\ Unsettled(t) => picked'[t] = picked[t]
  PROVE  NothingLost'
<1>1. \A c \in Indices : Uncounted(c)' = Uncounted(c)
  BY DEF Uncounted
<1>2. Indices' = Indices
  BY DEF Indices, Key
<1>3. QED
  BY <1>1, <1>2 DEF NothingLost, Undisturbed

\* The kernel takes a thread off its CPU, puts it on one, or interrupts it.
LEMMA CountingKernel ==
  ASSUME Fencing, Counting, NothingLost, NEW t \in Thread,
         Preempt(t) \/ (\E c \in CPU, i \in CidSet : Resume(t, c, i)) \/ Interrupt(t),
         UNCHANGED <<clientvars, stressvars>>
  PROVE  (Counting /\ NothingLost)'
<1>0. Shape /\ TypeOK
  BY DEF Fencing, Confirming, Shape
<1> DEFINE Still == /\ UNCHANGED <<mem, call, reg, ret, task, at, picked, test, expect, won>>
                    /\ \A u \in Thread \ {t} : UNCHANGED <<cpu[u], index[u], ip[u]>>
           Begins == ip'[t] = 1 /\ index'[t]["mm_cid"] \in CidSet
<1>1. Still /\ (~Running(t)' \/ Begins)
  <2>1. CASE Preempt(t)
    BY <1>0, <2>1 DEF Preempt, Running, clientvars, stressvars, TypeOK
  <2>2. ASSUME NEW c \in CPU, NEW i \in CidSet, Resume(t, c, i)
        PROVE  Still /\ Begins
    BY <1>0, <2>2, FixUp DEF Resume, clientvars, stressvars, TypeOK
  <2>3. CASE Interrupt(t)
    <3>1. index[t]["mm_cid"] \in CidSet /\ FixedIp(t) = 1
      BY <1>0, <2>3, FixUp DEF Interrupt, Counting, Iterating
    <3>2. Still
      BY <1>0, <2>3 DEF Interrupt, clientvars, stressvars, TypeOK
    <3>3. Begins
      BY <1>0, <2>3, <3>1 DEF Interrupt, TypeOK
    <3>4. QED
      BY <3>2, <3>3
  <2>4. QED
    BY <2>1, <2>2, <2>3
<1>2. ASSUME NEW u \in Thread
      PROVE  Iterating(u)'
  <2>1. Operation(u)' = Operation(u) /\ Indices' = Indices
    BY <1>1, SameOperation DEF Indices, Key
  <2>2. CASE u = t
    BY <1>1, <2>1, <2>2 DEF Counting, Iterating, Busy
  <2>3. CASE u # t
    BY <1>1, <2>1, <2>3 DEF Counting, Iterating, Busy, Running, Loaded
  <2>4. QED
    BY <2>2, <2>3
<1>3. Counting'
  BY <1>1, <1>2 DEF Counting
<1>4. NothingLost'
  BY <1>1, NothingCounted DEF Unsettled, Busy, Undisturbed
<1>5. QED
  BY <1>3, <1>4

\* A thread executes an instruction.
LEMMA CountingInstruction ==
  ASSUME Fencing, Counting, NothingLost, NEW t \in Thread, Instruction(t),
         UNCHANGED <<clientvars, stressvars>>
  PROVE  (Counting /\ NothingLost)'
<1>0. /\ Shape /\ TypeOK /\ Running(t) /\ Busy(t)
      /\ UNCHANGED <<cpu, index, task, at, picked, test, expect, won>>
      /\ \A u \in Thread : Operation(u)' = Operation(u)
      /\ Indices' = Indices
      /\ at[t] = "settle" /\ picked[t] \in Indices /\ Counts + picked[t] \in Addr
  BY InstructionShape, Executing, SameOperation
     DEF Fencing, Confirming, Shape, clientvars, stressvars, Indices, Key
<1>1. GoesOn(t) \/ Fails(t) \/ Succeeds(t)
  BY Effect
<1>2. ASSUME NEW u \in Thread, u # t
      PROVE  Iterating(u)' /\ (Unsettled(u)' <=> Unsettled(u))
  <2>1. UNCHANGED <<cpu[u], index[u], call[u], ip[u], reg[u], ret[u]>>
    BY <1>0, <1>2, OthersAlone
  <2>2. ASSUME Running(u), Busy(u), ip[u] > 3
        PROVE  mem'[call[u].word.addr] = mem[call[u].word.addr]
    <3>1. picked[u] \in Indices /\ picked[u] \in Nat /\ picked[t] \in Nat
          /\ call[u].word.addr = Counts + picked[u]
      BY <1>0, <2>2, Executing
    <3>2. CASE Undisturbed
      BY <3>1, <3>2 DEF Undisturbed
    <3>3. CASE Succeeds(t)
      <4>1. picked[u] # picked[t]
        BY <1>0, <1>2, <2>2, <3>3, WordsDiffer DEF Succeeds, TypeOK
      <4>2. Counts + picked[u] # Counts + picked[t]
        BY <3>1, <4>1, LayoutOK
      <4>3. QED
        BY <1>0, <3>1, <3>3, <4>2 DEF Succeeds, TypeOK
    <3>4. QED
      BY <1>1, <3>2, <3>3 DEF GoesOn, Fails
  <2>3. QED
    BY <1>0, <2>1, <2>2 DEF Counting, Iterating, Running, Busy, Loaded, Unsettled
<1>3. Iterating(t)'
  <2>1. CASE GoesOn(t)
    BY <1>0, <2>1 DEF GoesOn, Continues, Counting, Iterating, Running, Busy, TypeOK
  <2>2. CASE Returns(t)
    BY <1>0, <2>2 DEF Returns, Counting, Iterating, Running, Busy, TypeOK
  <2>3. QED
    BY <1>1, <2>1, <2>2 DEF Fails, Succeeds
<1>4. Counting'
  BY <1>0, <1>2, <1>3 DEF Counting
<1>5. CASE GoesOn(t) \/ Fails(t)
  <2>1. Undisturbed /\ ~Unsettled(t) /\ ~Unsettled(t)'
    BY <1>0, <1>5 DEF GoesOn, Continues, Fails, Unsettled, Busy
  <2>2. QED
    BY <1>0, <1>2, <1>4, <2>1, NothingCounted
<1>6. CASE Succeeds(t)
  <2>1. ~Unsettled(t) /\ Unsettled(t)'
    BY <1>0, <1>6 DEF Succeeds, Returns, Unsettled, Busy, TypeOK
  <2>2. ASSUME NEW c \in Indices
        PROVE  mem'[Counts + c] = (won[c] + Cardinality(Uncounted(c)')) % Width
    <3>1. IsFiniteSet(Uncounted(c)) /\ Cardinality(Uncounted(c)) \in Nat /\ won[c] \in Nat
      BY ThreadsOK, KeyType, FS_Subset, FS_CardinalityType DEF Uncounted, Counting
    <3>2. mem[Counts + c] = (won[c] + Cardinality(Uncounted(c))) % Width
      BY DEF NothingLost, Counting, CountingTests
    <3>3. CASE c = picked[t]
      <4>1. Uncounted(c)' = Uncounted(c) \cup {t} /\ t \notin Uncounted(c)
        BY <1>0, <1>2, <2>1, <3>3 DEF Uncounted
      <4>2. Cardinality(Uncounted(c)') = Cardinality(Uncounted(c)) + 1
        BY <3>1, <4>1, FS_AddElement
      <4>3. mem'[Counts + c] = Plus(mem[Counts + c], 1)
        BY <1>0, <1>6, <3>3 DEF Succeeds, TypeOK
      <4>4. mem'[Counts + c] = (won[c] + Cardinality(Uncounted(c)) + 1) % Width
        BY <3>1, <3>2, <4>3, PlusOne
      <4>5. QED
        BY <3>1, <4>2, <4>4
    <3>4. CASE c # picked[t]
      <4>1. Uncounted(c)' = Uncounted(c)
        BY <1>0, <1>2, <2>1, <3>4 DEF Uncounted
      <4>2. mem'[Counts + c] = mem[Counts + c]
        <5>1. c \in Nat /\ picked[t] \in Nat /\ Counts \in Nat
          BY KeyType, LayoutOK DEF Counting
        <5>2. Counts + c # Counts + picked[t] /\ Counts + c \in Addr
          BY <3>4, <5>1, KeyType, LayoutOK DEF Counting
        <5>3. QED
          BY <1>0, <1>6, <5>2 DEF Succeeds, TypeOK
      <4>3. QED
        BY <3>2, <4>1, <4>2
    <3>5. QED
      BY <3>3, <3>4
  <2>3. won' = won /\ Indices' = Indices
    BY <1>0
  <2>4. \A c \in Indices' : mem'[Counts + c] = (won'[c] + Cardinality(Uncounted(c)')) % Width
    BY <2>2, <2>3
  <2>5. NothingLost'
    BY <2>4 DEF NothingLost
  <2>6. QED
    BY <1>4, <2>5
<1>7. QED
  BY <1>1, <1>4, <1>5, <1>6

\* A thread picks the index that it runs with.
LEMMA CountingPick ==
  ASSUME Fencing, Counting, NothingLost, NEW t \in Thread, Start(t)
  PROVE  (Counting /\ NothingLost)'
<1>0. /\ TypeOK /\ Running(t) /\ ~Busy(t) /\ Key \in Kind
      /\ UNCHANGED <<vars, task, test, expect, won>>
      /\ picked' = [picked EXCEPT ![t] = index[t][Key]]
      /\ at[t] = "pick" /\ at' = [at EXCEPT ![t] = "call"]
  BY KeyType DEF Start, Pick, Acts, stressvars, Fencing, Confirming, Shape, Counting
<1>1. index[t][Key] \in Indices
  <2>1. CASE Key = "cpu_id"
    BY <1>0, <2>1 DEF Fencing, Confirming, IndicesDistinct, Indices, TypeOK, Running
  <2>2. CASE Key = "mm_cid"
    BY <1>0, <2>2 DEF Counting, Iterating, Indices
  <2>3. QED
    BY <1>0, <2>1, <2>2 DEF Kind
<1>2. Indices' = Indices /\ Indices \subseteq Nat
  BY <1>0, KeyType DEF Indices, Key, Counting
<1>3. ASSUME NEW u \in Thread
      PROVE  Iterating(u)'
  <2>1. CASE u = t
    BY <1>0, <1>1, <1>2, <2>1 DEF Counting, Iterating, vars, Busy, Running
  <2>2. CASE u # t
    <3>1. Operation(u)' = Operation(u)
      BY <1>0, <2>2, SameOperation DEF Counting
    <3>2. QED
      BY <1>0, <1>2, <2>2, <3>1 DEF Counting, Iterating, vars, Busy, Running, Loaded
  <2>3. QED
    BY <2>1, <2>2
<1>4. Counting'
  BY <1>0, <1>1, <1>2, <1>3 DEF Counting
<1>5. NothingLost'
  BY <1>0, NothingCounted DEF Unsettled, Busy, Undisturbed, vars, Counting
<1>6. QED
  BY <1>4, <1>5

\* A thread calls the operation of its test.
LEMMA CountingChange ==
  ASSUME Fencing, Counting, NothingLost, NEW t \in Thread, Change(t)
  PROVE  (Counting /\ NothingLost)' /\ Operation(t) \in Calls
<1>0. /\ TypeOK /\ Running(t) /\ ~Busy(t) /\ at[t] = "call" /\ Invoke(t, Operation(t))
      /\ at' = [at EXCEPT ![t] = "settle"]
      /\ UNCHANGED <<task, picked, test, expect, won>>
  BY DEF Change, Issue, Invoke, stressvars, Fencing, Confirming, Shape
<1>1. picked[t] \in Indices /\ expect[t] \in Value
  BY <1>0 DEF Counting, Iterating
<1>2. Operation(t) \in Calls /\ ~KeysDiffer(Operation(t)) /\ Operation(t) # Idle
  BY <1>1, OperationType, ConstantsOK DEF Counting
<1>3. /\ call' = [call EXCEPT ![t] = Operation(t)] /\ ret' = [ret EXCEPT ![t] = NoResult]
      /\ UNCHANGED <<mem, cpu, index, ip, reg>>
  BY <1>0, <1>2 DEF Invoke
<1>4. ip'[t] = 1 /\ call'[t] = Operation(t) /\ at'[t] = "settle"
  BY <1>0, <1>3 DEF Fencing, Confirming, Shape, InBlock, TypeOK, Counting
<1>5. Indices' = Indices /\ \A u \in Thread : Operation(u)' = Operation(u)
  BY <1>0, SameOperation DEF Indices, Key
<1>6. ASSUME NEW u \in Thread
      PROVE  Iterating(u)' /\ (Unsettled(u)' <=> Unsettled(u))
  <2>1. CASE u = t
    BY <1>0, <1>1, <1>2, <1>3, <1>4, <1>5, <2>1
       DEF Counting, Iterating, Busy, Running, Unsettled
  <2>2. CASE u # t
    <3>1. UNCHANGED <<call[u], at[u], ret[u]>>
      BY <1>0, <1>3, <2>2 DEF TypeOK, Counting
    <3>2. QED
      BY <1>0, <1>3, <1>5, <3>1 DEF Counting, Iterating, Busy, Running, Loaded, Unsettled
  <2>3. QED
    BY <2>1, <2>2
<1>7. Counting'
  BY <1>0, <1>6 DEF Counting
<1>8. NothingLost'
  BY <1>0, <1>3, <1>6, NothingCounted DEF Undisturbed
<1>9. QED
  BY <1>2, <1>7, <1>8

\* A thread looks at the result, and counts a success.
LEMMA CountingSettle ==
  ASSUME Fencing, Counting, NothingLost, NEW t \in Thread, Settle(t)
  PROVE  (Counting /\ NothingLost)'
<1>0. /\ TypeOK /\ Running(t) /\ ~Busy(t) /\ at[t] = "settle"
      /\ UNCHANGED <<vars, test>>
      /\ task' = [task EXCEPT ![t] = "change"]
      /\ at' = [at EXCEPT ![t] = "pick"] /\ picked' = [picked EXCEPT ![t] = 0]
      /\ picked[t] \in Indices /\ picked[t] \in CPU \cup CidSet
      /\ ret[t].value \in Value /\ expect[t] \in Value
  BY KeyType
     DEF Settle, Returned, Acts, Turn, Fencing, Confirming, Shape, Counting, Iterating,
         TypeOK, Result
<1>1. expect' \in [Thread -> Value] /\ \A u \in Thread \ {t} : expect'[u] = expect[u]
  <2>0. Plus(expect[t], 1) \in Value /\ expect \in [Thread -> Value]
    BY <1>0, ConstantsOK DEF Plus, Value, Counting
  <2>1. \/ expect' = [expect EXCEPT ![t] = ret[t].value]
        \/ expect' = [expect EXCEPT ![t] = Plus(@, 1)]
        \/ expect' = expect
    BY Zenon DEF Settle
  <2>2. QED
    BY <1>0, <2>0, <2>1
<1>2. Indices' = Indices /\ Indices \subseteq CPU \cup CidSet
  BY <1>0, KeyType DEF Indices, Key, Counting
<1>3. ASSUME NEW u \in Thread
      PROVE  Iterating(u)'
  <2>1. CASE u = t
    BY <1>0, <2>1 DEF Counting, Iterating, vars, Busy, Running
  <2>2. CASE u # t
    <3>1. UNCHANGED <<task[u], at[u], picked[u], expect[u]>>
      BY <1>0, <1>1, <2>2 DEF Counting
    <3>2. Operation(u)' = Operation(u)
      BY <1>0, <3>1, SameOperation
    <3>3. QED
      BY <1>0, <1>2, <3>1, <3>2 DEF Counting, Iterating, vars, Busy, Running, Loaded
  <2>3. QED
    BY <2>1, <2>2
<1>4. ASSUME NEW c \in Indices, c # picked[t] \/ ret[t].status # "Ok"
      PROVE  Uncounted(c)' = Uncounted(c)
  BY <1>0, <1>4 DEF Uncounted, Unsettled, Busy, vars, Counting
<1>5. won' \in [CPU \cup CidSet -> Nat] /\ NothingLost'
  <2>0. /\ won \in [CPU \cup CidSet -> Nat]
        /\ \A c \in Indices : mem[Counts + c] = (won[c] + Cardinality(Uncounted(c))) % Width
    BY DEF Counting, NothingLost, CountingTests
  <2>1. CASE ret[t].status # "Ok"
    <3>1. won' = won
      BY <2>1 DEF Settle
    <3>2. \A c \in Indices : Uncounted(c)' = Uncounted(c)
      BY <1>4, <2>1
    <3>3. NothingLost'
      BY <1>0, <1>2, <2>0, <3>1, <3>2 DEF NothingLost, vars
    <3>4. QED
      BY <2>0, <3>1, <3>3
  <2>2. CASE ret[t].status = "Ok"
    <3>1. won' = [won EXCEPT ![picked[t]] = @ + 1]
      BY <2>2 DEF Settle, Count
    <3>2. ASSUME NEW c \in Indices
          PROVE  won'[c] + Cardinality(Uncounted(c)') = won[c] + Cardinality(Uncounted(c))
      <4>1. CASE c = picked[t]
        <5>1. t \in Uncounted(c) /\ Uncounted(c)' = Uncounted(c) \ {t}
          BY <1>0, <2>2, <4>1 DEF Uncounted, Unsettled, Busy, vars, Counting
        <5>2. IsFiniteSet(Uncounted(c))
          BY ThreadsOK, FS_Subset DEF Uncounted
        <5>3. Cardinality(Uncounted(c)') = Cardinality(Uncounted(c)) - 1
              /\ Cardinality(Uncounted(c)) \in Nat
          BY <5>1, <5>2, FS_RemoveElement, FS_CardinalityType
        <5>4. won'[c] = won[c] + 1 /\ won[c] \in Nat
          BY <1>2, <2>0, <3>1, <4>1
        <5>5. QED
          BY <5>3, <5>4
      <4>2. CASE c # picked[t]
        BY <1>2, <1>4, <2>0, <3>1, <4>2
      <4>3. QED
        BY <4>1, <4>2
    <3>3. \A c \in Indices : mem'[Counts + c] = (won'[c] + Cardinality(Uncounted(c)')) % Width
      BY <1>0, <2>0, <3>2 DEF vars
    <3>4. NothingLost'
      BY <1>2, <3>3 DEF NothingLost
    <3>5. QED
      BY <1>0, <2>0, <3>1, <3>4
  <2>3. QED
    BY <2>1, <2>2
<1>6. Counting'
  BY <1>0, <1>1, <1>3, <1>5 DEF Counting
<1>7. QED
  BY <1>5, <1>6

LEMMA CountingStutter ==
  ASSUME Counting, NothingLost, UNCHANGED <<vars, clientvars, stressvars>>
  PROVE  (Counting /\ NothingLost)'
<1>1. Indices' = Indices /\ \A u \in Thread : Operation(u)' = Operation(u)
  BY SameOperation DEF stressvars, clientvars, Indices, Key
<1>2. Counting'
  BY <1>1 DEF vars, clientvars, stressvars, Counting, Iterating, Busy, Running, Loaded
<1>3. NothingLost'
  BY NothingCounted DEF vars, clientvars, stressvars, Unsettled, Busy, Undisturbed
<1>4. QED
  BY <1>2, <1>3

-----------------------------------------------------------------------------
(* Every step of a counting test is one of the fence beside threads. *)

\* Steps outside the blocks leave what the last fence covers.
LEMMA Remembered ==
  ASSUME Fencing, UNCHANGED <<vars, pending>>, Forget
  PROVE  UNCHANGED fencevars
BY DEF Fencing, Forget, InCS, Busy, vars, fencevars

LEMMA CountingStep ==
  ASSUME Fencing, Counting, NothingLost, [StressNext]_<<fencevars, clientvars, stressvars>>
  PROVE  [FenceNext]_fencevars /\ (Counting /\ NothingLost)'
<1>1. ASSUME NEW t \in Thread, Iteration(t), Forget, UNCHANGED pending
      PROVE  [FenceNext]_fencevars /\ (Counting /\ NothingLost)'
  <2>0. test # "pop" /\ task[t] = "change"
    BY DEF Counting, CountingTests
  <2>1. CASE Start(t)
    <3>1. UNCHANGED vars
      BY <2>1 DEF Start, Pick
    <3>2. QED
      BY <1>1, <2>1, <3>1, CountingPick, Remembered
  <2>2. CASE Change(t)
    <3>1. Next
      BY <2>2, CountingChange DEF Change, Issue, Next
    <3>2. QED
      BY <1>1, <2>2, <3>1, CountingChange DEF FenceNext
  <2>3. CASE Settle(t)
    <3>1. UNCHANGED vars
      BY <2>3 DEF Settle, Turn
    <3>2. QED
      BY <1>1, <2>3, <3>1, CountingSettle, Remembered
  <2>4. QED
    BY <1>1, <2>0, <2>1, <2>2, <2>3 DEF Iteration, Popped, PickTag, AddTag, TagAgain, Tagged
<1>2. ASSUME NEW t \in Thread, Flap(t), UNCHANGED <<clientvars, stressvars>>, Forget,
             UNCHANGED pending
      PROVE  [FenceNext]_fencevars /\ (Counting /\ NothingLost)'
  <2>1. Next
    BY <1>2 DEF Flap, Machine, Next, Kernel
  <2>2. (Counting /\ NothingLost)'
    BY <1>2, CountingKernel, CountingInstruction DEF Flap, Machine
  <2>3. QED
    BY <1>2, <2>1, <2>2 DEF FenceNext
<1>3. ASSUME FenceStep, UNCHANGED <<clientvars, stressvars>>
      PROVE  [FenceNext]_fencevars /\ (Counting /\ NothingLost)'
  <2>1. UNCHANGED vars \/ \E t \in Thread : Interrupt(t)
    BY <1>3 DEF FenceStep, FenceAll, Fence, Ipi
  <2>2. QED
    BY <1>3, <2>1, CountingStutter, CountingKernel DEF FenceNext
<1>4. CASE UNCHANGED <<fencevars, clientvars, stressvars>>
  BY <1>4, CountingStutter DEF fencevars
<1>5. QED
  BY <1>1, <1>2, <1>3, <1>4 DEF StressNext

LEMMA CountingStart ==
  ASSUME StressInit, test # "pop"
  PROVE  Counting /\ NothingLost
<1>1. 0 \in Value
  BY ConstantsOK DEF Value
<1>2. Counting
  BY <1>1, StressOK
     DEF StressInit, FenceInit, ClientInit, Init, Counting, CountingTests, Iterating, Busy, Running
<1>3. ASSUME NEW c \in Indices
      PROVE  mem[Counts + c] = (won[c] + Cardinality(Uncounted(c))) % Width
  <2>1. Uncounted(c) = {}
    BY DEF Uncounted, Unsettled, StressInit, ClientInit
  <2>2. Cardinality(Uncounted(c)) = 0
    BY <2>1, FS_EmptySet
  <2>3. won[c] = 0 /\ mem[Counts + c] = 0
    BY <1>2, KeyType, LayoutOK DEF Counting, StressInit, ClientInit, Init
  <2>4. 0 % Width = 0
    BY ConstantsOK
  <2>5. QED
    BY <2>2, <2>3, <2>4
<1>4. QED
  BY <1>2, <1>3 DEF NothingLost

=============================================================================
