----------------------------- MODULE StressProofs -----------------------------
(***************************************************************************)
(* Proofs about unique_pop, for any number of threads, lists and nodes,    *)
(* and what holds of Stress whichever of its tests runs.                   *)
(***************************************************************************)
EXTENDS CountingProofs

\* The words that a popping or tagging thread has loaded in its block.
Fetched(t) ==
  IF task[t] = "tag" THEN ip[t] > 3 => reg[t].cur = mem[node[t]]
  ELSE /\ ip[t] > 3 => reg[t].cur = mem[Heads + picked[t]] /\ reg[t].cur # 0
       /\ ip[t] > 4 => reg[t].tmp = mem[reg[t].cur + 1]

\* The call of a thread of unique_pop.
PopCall(t) ==
  IF task[t] = "tag" THEN fetch_add(TagWord(t), 1)
  ELSE load_if_ne(WordOf(Heads, "cpu_id", picked[t]), 0, 1)

Taking(t) ==
  /\ at[t] # "pick" => picked[t] \in CPU
  /\ task[t] = "tag" => node[t] \in Nodes
  /\ task[t] = "change" /\ Unsettled(t) => ret[t].value \in Nodes
  /\ Busy(t) => at[t] = "settle" /\ call[t] = PopCall(t)
  /\ Running(t) /\ Busy(t) => Fetched(t)

\* Where node i of list c is while the head of the list is at position first.
Placed(c, i, first) ==
  LET n == Lists[c][i] IN
  /\ mem[n + 1] = Entry(c, i + 1)
  /\ i >= first => mem[n] = 0 /\ Holders(n) = {}
  /\ i < first => \/ mem[n] = 1 /\ Holders(n) = {}
                  \/ mem[n] = 0 /\ \E t \in Thread : Holders(n) = {t}

\* The head of every list has come from position 1 to a later one.
Lined(first) ==
  /\ first \in [CPU -> Nat \ {0}]
  /\ \A c \in CPU : mem[Heads + c] = Entry(c, first[c])
  /\ \A c \in CPU : \A i \in DOMAIN Lists[c] : Placed(c, i, first[c])

PopTypes ==
  /\ test = "pop"
  /\ task \in [Thread -> {"change", "tag"}]
  /\ at \in [Thread -> {"pick", "call", "settle"}]
  /\ picked \in [Thread -> Nat]
  /\ node \in [Thread -> Nodes \cup {0}]
  /\ \A t \in Thread : Taking(t)

Popping == PopTypes /\ \E first : Lined(first)

-----------------------------------------------------------------------------
LEMMA NodeFacts ==
  /\ IsFiniteSet(Nodes) /\ 0 \notin Nodes
  /\ \A n \in Nodes : /\ n \in Addr /\ n \in Nat /\ n + 1 \in Addr
                      /\ n + 1 < Width /\ Plus(n, 1) = n + 1
                      /\ \E c \in CPU : \E i \in DOMAIN Lists[c] : n = Lists[c][i]
  /\ \A c \in CPU : \A i \in DOMAIN Lists[c] : Lists[c][i] \in Nodes
<1>1. \A c \in CPU : \A i \in DOMAIN Lists[c] : Lists[c][i] \in Nodes /\ Lists[c][i] \in Addr \ {0}
  BY ListsOK DEF Nodes
<1>2. ASSUME NEW n \in Nodes
      PROVE  \E c \in CPU : \E i \in DOMAIN Lists[c] : n = Lists[c][i]
  BY DEF Nodes
<1>3. ASSUME NEW n \in Nodes
      PROVE  n \in Addr /\ n # 0 /\ n + 1 \in Addr
  BY <1>1, <1>2, ListsOK
<1>4. ASSUME NEW a \in Addr
      PROVE  a \in Nat /\ a < Width
  BY ConstantsOK DEF Value
<1>5. ASSUME NEW n \in Nodes
      PROVE  n \in Nat /\ n + 1 < Width /\ Plus(n, 1) = n + 1
  <2>1. n \in Nat /\ n + 1 < Width
    BY <1>3, <1>4
  <2>2. (n + 1) % Width = n + 1
    BY <2>1, ConstantsOK
  <2>3. QED
    BY <2>1, <2>2 DEF Plus
<1>6. IsFiniteSet(Nodes)
  <2>1. IsFiniteSet(0 .. Width - 1)
    BY ConstantsOK, FS_Interval
  <2>2. Nodes \in SUBSET (0 .. Width - 1)
    BY <1>3, ConstantsOK DEF Value
  <2>3. QED
    BY <2>1, <2>2, FS_Subset, Zenon
<1>7. QED
  BY <1>1, <1>2, <1>3, <1>5, <1>6

\* The heads are words that no node has.
LEMMA HeadFacts ==
  ASSUME NEW c \in CPU
  PROVE  /\ c \in Nat /\ Heads \in Nat /\ Heads + c \in Addr
         /\ \A d \in CPU : d # c => Heads + d # Heads + c
         /\ \A n \in Nodes : Heads + c # n /\ Heads + c # n + 1
         /\ \A m, n \in Nodes : m # n + 1
<1>1. \A d \in CPU : d \in Nat
  BY ConstantsOK
<1>2. QED
  BY <1>1, ListsOK

\* The node that the head of a list points to.
LEMMA FirstNode ==
  ASSUME NEW first, Lined(first), NEW c \in CPU, mem[Heads + c] # 0
  PROVE  /\ first[c] \in DOMAIN Lists[c] /\ mem[Heads + c] = Lists[c][first[c]]
         /\ mem[Heads + c] \in Nodes
         /\ mem[mem[Heads + c] + 1] = Entry(c, first[c] + 1)
<1>1. first[c] \in DOMAIN Lists[c] /\ mem[Heads + c] = Lists[c][first[c]]
  BY DEF Lined, Entry
<1>2. QED
  BY <1>1, NodeFacts DEF Lined, Placed

LEMMA PopBlocks ==
  /\ Last("load_if_ne") = 5 /\ Last("fetch_add") = 4
  /\ \A i \in 1 .. 5 :
       /\ Program["load_if_ne"][i] \in {"arm", "check", "load_ne", "chase", "store_chased"}
       /\ Program["load_if_ne"][i] = "arm" <=> i = 1
       /\ Program["load_if_ne"][i] = "check" <=> i = 2
       /\ Program["load_if_ne"][i] = "load_ne" <=> i = 3
       /\ Program["load_if_ne"][i] = "chase" <=> i = 4
       /\ Program["load_if_ne"][i] = "store_chased" <=> i = 5
  /\ \A i \in 1 .. 4 :
       /\ Program["fetch_add"][i] \in {"arm", "check", "load_prev", "store_sum"}
       /\ Program["fetch_add"][i] = "arm" <=> i = 1
       /\ Program["fetch_add"][i] = "check" <=> i = 2
       /\ Program["fetch_add"][i] = "load_prev" <=> i = 3
       /\ Program["fetch_add"][i] = "store_sum" <=> i = 4
BY Blocks DEF Last

\* What a thread of unique_pop that executes a block has picked and calls.
LEMMA PopExecuting ==
  ASSUME Fencing, PopTypes, NEW t \in Thread, Busy(t)
  PROVE  /\ picked[t] \in CPU /\ picked[t] \in Nat /\ at[t] = "settle"
         /\ call[t].word.kind = "cpu_id" /\ call[t].word.key = picked[t]
         /\ task[t] = "tag" =>
              /\ call[t].op = "fetch_add" /\ call[t].new = 1
              /\ call[t].word.addr = node[t] /\ node[t] \in Nodes
              /\ ip[t] \in 1 .. 4
         /\ task[t] # "tag" =>
              /\ call[t].op = "load_if_ne" /\ call[t].expect = 0 /\ call[t].offset = 1
              /\ call[t].word.addr = Heads + picked[t] /\ task[t] = "change"
              /\ ip[t] \in 1 .. 5
<1>1. Taking(t) /\ picked[t] \in CPU /\ picked[t] \in Nat /\ at[t] = "settle"
      /\ call[t] = PopCall(t) /\ task[t] \in {"change", "tag"}
  BY DEF PopTypes, Taking
<1>2. ip[t] \in 1 .. Last(call[t].op)
  BY DEF Fencing, Confirming, Shape, InBlock, Last
<1>3. CASE task[t] = "tag"
  <2>1. call[t] = fetch_add(TagWord(t), 1) /\ node[t] \in Nodes
    BY <1>1, <1>3 DEF PopCall, Taking
  <2>2. /\ call[t].op = "fetch_add" /\ call[t].new = 1 /\ call[t].word.kind = "cpu_id"
        /\ call[t].word.key = picked[t] /\ call[t].word.addr = node[t]
    BY <2>1 DEF fetch_add, TagWord, Tag
  <2>3. QED
    BY <1>1, <1>2, <1>3, <2>1, <2>2, PopBlocks
<1>4. CASE task[t] # "tag"
  <2>1. call[t] = load_if_ne(WordOf(Heads, "cpu_id", picked[t]), 0, 1)
    BY <1>1, <1>4 DEF PopCall
  <2>2. /\ call[t].op = "load_if_ne" /\ call[t].expect = 0 /\ call[t].offset = 1
        /\ call[t].word.kind = "cpu_id" /\ call[t].word.key = picked[t]
        /\ call[t].word.addr = Heads + picked[t]
    BY <2>1 DEF load_if_ne, WordOf
  <2>3. QED
    BY <1>1, <1>2, <1>4, <2>2, PopBlocks
<1>5. QED
  BY <1>3, <1>4

-----------------------------------------------------------------------------
(* What an instruction does to the lists and the tags. *)

Proceeds(t) == mem' = mem /\ Continues(t) /\ Fetched(t)'

GivesUp(t) ==
  /\ mem' = mem /\ Returns(t)
  /\ ret' = [ret EXCEPT ![t] = ret'[t]] /\ ret'[t].status # "Ok"

\* The head of the list goes on to the node behind the first one.
Pops(t) ==
  LET n == mem[Heads + picked[t]] IN
  /\ task[t] = "change" /\ ip[t] > 2 /\ n # 0
  /\ mem' = [mem EXCEPT ![Heads + picked[t]] = mem[n + 1]] /\ Returns(t)
  /\ ret' = [ret EXCEPT ![t] = Ok(n)]

Tags(t) ==
  /\ task[t] = "tag" /\ ip[t] > 2
  /\ mem' = [mem EXCEPT ![node[t]] = Plus(mem[node[t]], 1)] /\ Returns(t)
  /\ ret' = [ret EXCEPT ![t] = ret'[t]] /\ ret'[t].status = "Ok"

LEMMA PopEffect ==
  ASSUME Fencing, PopTypes, NEW first, Lined(first), NEW t \in Thread, Instruction(t),
         UNCHANGED <<task, picked, node>>
  PROVE  Proceeds(t) \/ GivesUp(t) \/ Pops(t) \/ Tags(t)
<1> DEFINE head  == Heads + picked[t]
           label == Program[call[t].op][ip[t]]
<1>0. /\ Shape /\ TypeOK /\ Running(t) /\ Busy(t) /\ reg[t] \in Reg
      /\ call \in [Thread -> Calls \cup {Idle}]
  BY InstructionShape DEF Fencing, Confirming, Shape, TypeOK
<1>1. /\ picked[t] \in CPU /\ head \in Addr /\ Fetched(t)
      /\ task[t] = "tag" => node[t] \in Addr
  BY <1>0, PopExecuting, HeadFacts, NodeFacts DEF PopTypes, Taking
<1>2. ASSUME NEW l, At(t, l)
      PROVE  /\ task[t] = "tag" => /\ l \in {"arm", "check", "load_prev", "store_sum"}
                                   /\ l \in {"arm", "check"} <=> ip[t] < 3
                                   /\ l = "load_prev" <=> ip[t] = 3
                                   /\ l = "store_sum" <=> ip[t] = 4
             /\ task[t] # "tag" => /\ l \in {"arm", "check", "load_ne", "chase", "store_chased"}
                                   /\ l \in {"arm", "check"} <=> ip[t] < 3
                                   /\ l = "load_ne" <=> ip[t] = 3
                                   /\ l = "chase" <=> ip[t] = 4
                                   /\ l = "store_chased" <=> ip[t] = 5
  <2>1. l = label
    BY <1>2 DEF At
  <2>2. QED
    BY <1>0, <2>1, PopExecuting, PopBlocks
<1>3. ASSUME Advance(t)
      PROVE  Continues(t)
  <2>1. call' = call /\ call[t] # Idle
    BY <1>0, <1>3 DEF Advance, Busy
  <2>2. ~Returns(t)
    BY <1>0, <2>1 DEF Returns
  <2>3. QED
    BY <1>0, <2>2, InstructionShape
<1>4. ASSUME NEW status \in {1, 2}, NEW value \in Value, Exit(t, status, value), UNCHANGED mem
      PROVE  GivesUp(t)
  <2>1. Returns(t)
    BY <1>0, <1>4, ExitType
  <2>2. ToResult(call[t].op, FromStatus(status, value)).status # "Ok"
    BY DEF ToResult, FromStatus, Miss, Abort
  <2>3. QED
    BY <1>0, <1>4, <2>1, <2>2 DEF Exit, Return, GivesUp, TypeOK
<1>5. ASSUME NEW addr, NEW value, Commit(t, addr, value)
      PROVE  Returns(t) /\ ret' = [ret EXCEPT ![t] = Ok(reg[t].cur)]
  <2>1. reg[t].cur \in Value
    BY <1>0 DEF Reg
  <2>2. Returns(t)
    BY <1>0, <1>5, <2>1, ExitType DEF Commit
  <2>3. ToResult(call[t].op, FromStatus(0, reg[t].cur)) = Ok(reg[t].cur)
    BY DEF ToResult, FromStatus, Ok
  <2>4. QED
    BY <1>0, <1>5, <2>2, <2>3 DEF Commit, Exit, Return
<1>6. ASSUME Continues(t), UNCHANGED <<mem, reg>>, ip[t] < 3
      PROVE  Proceeds(t)
  BY <1>0, <1>6 DEF Proceeds, Continues, Fetched, TypeOK
<1>7. 0 \in Value
  BY ConstantsOK DEF Value
<1>8. CASE Arm(t)
  BY <1>2, <1>3, <1>6, <1>8 DEF Arm
<1>9. CASE Check(t)
  <2>1. ip[t] < 3
    BY <1>2, <1>9 DEF Check
  <2>2. QED
    BY <1>3, <1>4, <1>6, <1>7, <1>9, <2>1 DEF Check
<1>10. CASE LoadNe(t)
  <2>1. task[t] # "tag" /\ ip[t] = 3
    BY <1>2, <1>10 DEF LoadNe
  <2>2. call[t].word.addr = head /\ call[t].expect = 0 /\ mem[head] \in Value
    BY <1>0, <1>1, <2>1, PopExecuting DEF TypeOK
  <2>3. CASE mem[head] = 0
    BY <1>4, <1>10, <2>2, <2>3 DEF LoadNe
  <2>4. CASE mem[head] # 0
    <3>1. Continues(t) /\ reg'[t].cur = mem[head] /\ UNCHANGED mem
      BY <1>0, <1>3, <1>10, <2>2, <2>4 DEF LoadNe, TypeOK, Reg
    <3>2. ip'[t] = 4
      BY <1>0, <2>1, <3>1 DEF Continues, TypeOK
    <3>3. QED
      BY <2>1, <2>4, <3>1, <3>2 DEF Proceeds, Fetched
  <2>5. QED
    BY <2>3, <2>4
<1>11. CASE Chase(t)
  <2>1. task[t] # "tag" /\ ip[t] = 4
    BY <1>2, <1>11 DEF Chase
  <2>2. reg[t].cur = mem[head] /\ reg[t].cur # 0
    BY <1>1, <2>1 DEF Fetched
  <2>3. Field(t) = reg[t].cur + 1
    BY <1>0, <1>1, <2>1, <2>2, PopExecuting, FirstNode, NodeFacts DEF Field
  <2>4. Continues(t) /\ reg'[t].tmp = mem[reg[t].cur + 1] /\ reg'[t].cur = reg[t].cur
        /\ UNCHANGED mem
    BY <1>0, <1>3, <1>11, <2>3 DEF Chase, TypeOK, Reg
  <2>5. ip'[t] = 5
    BY <1>0, <2>1, <2>4 DEF Continues, TypeOK
  <2>6. QED
    BY <2>1, <2>2, <2>4, <2>5 DEF Proceeds, Fetched
<1>12. CASE StoreChased(t)
  <2>1. task[t] # "tag" /\ ip[t] = 5
    BY <1>2, <1>12 DEF StoreChased
  <2>2. reg[t].cur = mem[head] /\ reg[t].cur # 0 /\ reg[t].tmp = mem[mem[head] + 1]
    BY <1>1, <2>1 DEF Fetched
  <2>3. Commit(t, head, mem[mem[head] + 1]) /\ task[t] = "change"
    BY <1>0, <1>12, <2>1, <2>2, PopExecuting DEF StoreChased
  <2>4. Returns(t) /\ ret' = [ret EXCEPT ![t] = Ok(mem[head])]
    BY <1>5, <2>2, <2>3
  <2>5. mem' = [mem EXCEPT ![head] = mem[mem[head] + 1]]
    BY <2>3 DEF Commit
  <2>6. QED
    BY <2>1, <2>2, <2>3, <2>4, <2>5 DEF Pops
<1>13. CASE LoadPrev(t)
  <2>1. task[t] = "tag" /\ ip[t] = 3
    BY <1>2, <1>13 DEF LoadPrev
  <2>2. Target(t) = node[t] /\ mem[node[t]] \in Value
    BY <1>0, <1>1, <2>1, PopExecuting DEF Target, TypeOK
  <2>3. Continues(t) /\ reg'[t].cur = mem[node[t]] /\ UNCHANGED mem
    BY <1>0, <1>3, <1>13, <2>2 DEF LoadPrev, TypeOK, Reg
  <2>4. QED
    BY <2>1, <2>3 DEF Proceeds, Fetched
<1>14. CASE StoreSum(t)
  <2>1. task[t] = "tag" /\ ip[t] = 4
    BY <1>2, <1>14 DEF StoreSum
  <2>2. Target(t) = node[t] /\ reg[t].cur = mem[node[t]] /\ call[t].new = 1
    BY <1>0, <1>1, <2>1, PopExecuting DEF Target, Fetched
  <2>3. Commit(t, node[t], Plus(mem[node[t]], 1))
    BY <1>14, <2>2 DEF StoreSum
  <2>4. mem' = [mem EXCEPT ![node[t]] = Plus(mem[node[t]], 1)]
    BY <2>3 DEF Commit
  <2>5. Returns(t) /\ ret' = [ret EXCEPT ![t] = ret'[t]] /\ ret'[t].status = "Ok"
    BY <1>0, <1>5, <2>3 DEF Ok, TypeOK
  <2>6. QED
    BY <2>1, <2>4, <2>5 DEF Tags
<1>15. QED
  BY <1>2, <1>8, <1>9, <1>10, <1>11, <1>12, <1>13, <1>14
     DEF Instruction, LoadEq, LoadOtherEq, LoadBase, LoadSlot, StoreSide, StoreNew

-----------------------------------------------------------------------------
(* Nodes pass from a list to a thread, and from the thread to their tag. *)

LEMMA HeldFacts ==
  ASSUME PopTypes, NEW t \in Thread
  PROVE  /\ Held(t) \in Nodes \cup {0}
         /\ Busy(t) => Held(t) = IF task[t] = "tag" THEN node[t] ELSE 0
BY DEF PopTypes, Taking, Held, Unsettled

\* A node in the hands of a thread is in the hands of no other thread.
LEMMA HeldApart ==
  ASSUME NEW first, Lined(first), NEW t \in Thread, Held(t) \in Nodes
  PROVE  /\ mem[Held(t)] = 0 /\ Holders(Held(t)) = {t}
         /\ \E c \in CPU : \E i \in DOMAIN Lists[c] : Held(t) = Lists[c][i] /\ i < first[c]
<1>1. PICK c \in CPU : \E i \in DOMAIN Lists[c] : Held(t) = Lists[c][i]
  BY NodeFacts
<1>2. PICK i \in DOMAIN Lists[c] : Held(t) = Lists[c][i]
  BY <1>1
<1>3. t \in Holders(Held(t))
  BY DEF Holders
<1>4. i \in Nat /\ first[c] \in Nat
  BY ListsOK DEF Lined
<1>5. Placed(c, i, first[c])
  BY DEF Lined
<1>6. i < first[c]
  BY <1>2, <1>3, <1>4, <1>5 DEF Placed
<1>7. mem[Held(t)] = 0 /\ \E u \in Thread : Holders(Held(t)) = {u}
  BY <1>2, <1>3, <1>5, <1>6 DEF Placed
<1>8. QED
  BY <1>2, <1>3, <1>6, <1>7

\* Steps that leave the words and what the threads hold alone.
LEMMA LinedSame ==
  ASSUME NEW first, Lined(first), mem' = mem, \A t \in Thread : Held(t)' = Held(t)
  PROVE  Lined(first)'
<1>1. \A n : Holders(n)' = Holders(n)
  BY DEF Holders
<1>2. QED
  BY <1>1 DEF Lined, Placed

LEMMA PopWordsDiffer ==
  ASSUME Fencing, PopTypes, NEW t \in Thread, NEW u \in Thread, t # u,
         Running(t), Busy(t), ip[t] > 2, Running(u), Busy(u), ip[u] > 2
  PROVE  picked[t] # picked[u]
<1>1. InCS(t) /\ InCS(u)
  BY DEF Fencing, Confirming, Shape, TypeOK, InBlock, InCS
<1>2. Confirmed(t) /\ Confirmed(u)
  BY <1>1 DEF Fencing, Confirming, ConfirmedInCS
<1>3. index[t]["cpu_id"] = picked[t] /\ index[u]["cpu_id"] = picked[u]
  BY <1>2, PopExecuting DEF Confirmed
<1>4. QED
  BY <1>3 DEF Fencing, Confirming, IndicesDistinct

\* A pop takes the first node of its list into the hands of its thread.
LEMMA LinedPop ==
  ASSUME PopTypes, NEW first, Lined(first), mem \in [Addr -> Value],
         NEW t \in Thread, picked[t] \in CPU, Busy(t), Pops(t),
         Held(t)' = mem[Heads + picked[t]],
         \A u \in Thread : u # t => Held(u)' = Held(u)
  PROVE  \E next : Lined(next)'
<1>0. PICK c \in CPU : c = picked[t]
  OBVIOUS
<1>n. PICK n : n = mem[Heads + c]
  OBVIOUS
<1> USE <1>0, <1>n
<1> DEFINE next == [first EXCEPT ![c] = @ + 1]
<1>1. /\ first \in [CPU -> Nat \ {0}] /\ first[c] \in DOMAIN Lists[c] /\ n = Lists[c][first[c]]
      /\ n \in Nodes /\ mem[n + 1] = Entry(c, first[c] + 1)
  BY FirstNode DEF Pops, Lined
<1>2. mem' = [mem EXCEPT ![Heads + c] = Entry(c, first[c] + 1)]
  BY <1>1 DEF Pops
<1>3. Held(t) = 0 /\ Held(t)' = n
  BY HeldFacts DEF Pops
<1>4. next \in [CPU -> Nat \ {0}] /\ next[c] = first[c] + 1
      /\ \A d \in CPU : d # c => next[d] = first[d]
  BY <1>1
<1>5. \A d \in CPU : mem'[Heads + d] = Entry(d, next[d])
  BY <1>2, <1>4, HeadFacts DEF Lined
<1>6. \A m \in Nodes : mem'[m] = mem[m] /\ mem'[m + 1] = mem[m + 1]
  BY <1>2, HeadFacts, NodeFacts
<1>7. \A m \in Nodes : Holders(m)' = IF m = n THEN Holders(m) \cup {t} ELSE Holders(m)
  BY <1>3, NodeFacts DEF Holders
<1>8. ASSUME NEW d \in CPU, NEW i \in DOMAIN Lists[d]
      PROVE  Placed(d, i, next[d])'
  <2>1. Lists[d][i] \in Nodes /\ i \in Nat /\ first[d] \in Nat
    <3>1. DOMAIN Lists[d] \subseteq Nat
      BY ListsOK
    <3>2. QED
      BY <1>1, <3>1, NodeFacts
  <2>2. Placed(d, i, first[d])
    BY DEF Lined
  <2>3. CASE Lists[d][i] = n
    <3>1. d = c /\ i = first[c] /\ next[d] = i + 1
      BY <1>1, <1>4, <2>3, ListsOK
    <3>2. mem[n] = 0 /\ Holders(n)' = {t}
      BY <1>7, <2>1, <2>2, <2>3, <3>1 DEF Placed
    <3>3. QED
      BY <1>6, <2>1, <2>2, <2>3, <3>1, <3>2 DEF Placed
  <2>4. CASE Lists[d][i] # n
    <3>1. Holders(Lists[d][i])' = Holders(Lists[d][i])
      BY <1>7, <2>1, <2>4
    <3>2. i < next[d] <=> i < first[d]
      <4>1. d = c => i # first[c]
        BY <1>1, <2>4
      <4>2. QED
        BY <1>4, <2>1, <4>1
    <3>3. next[d] \in Nat
      BY <1>4
    <3>4. QED
      BY <1>6, <2>1, <2>2, <3>1, <3>2, <3>3 DEF Placed
  <2>5. QED
    BY <2>3, <2>4
<1> HIDE DEF next
<1>9. Lined(next)'
  BY <1>4, <1>5, <1>8 DEF Lined
<1>10. QED
  BY <1>9

\* A tag is written once, by the thread that has the node.
LEMMA LinedTag ==
  ASSUME PopTypes, NEW first, Lined(first), mem \in [Addr -> Value],
         NEW t \in Thread, Busy(t), Tags(t), Held(t)' = 0,
         \A u \in Thread : u # t => Held(u)' = Held(u)
  PROVE  Lined(first)'
<1> DEFINE n == node[t]
<1>1. Held(t) = n /\ n \in Nodes
  BY HeldFacts DEF Tags, PopTypes, Taking
<1>2. mem[n] = 0 /\ Holders(n) = {t}
  BY <1>1, HeldApart
<1>3. mem'[n] = 1
  <2>1. Plus(0, 1) = 1
    <3>1. 1 < Width /\ Width \in Nat
      BY <1>1, NodeFacts, ConstantsOK
    <3>2. QED
      BY <3>1 DEF Plus
  <2>2. QED
    BY <1>1, <1>2, <2>1, NodeFacts DEF Tags
<1>4. \A m \in Nodes : (m # n => mem'[m] = mem[m]) /\ mem'[m + 1] = mem[m + 1]
  BY <1>1, HeadFacts, NodeFacts DEF Tags
<1>5. \A d \in CPU : mem'[Heads + d] = mem[Heads + d]
  BY <1>1, HeadFacts, NodeFacts DEF Tags
<1>6. \A m \in Nodes : Holders(m)' = IF m = n THEN {} ELSE Holders(m)
  BY <1>1, <1>2, NodeFacts DEF Holders
<1>7. ASSUME NEW d \in CPU, NEW i \in DOMAIN Lists[d]
      PROVE  Placed(d, i, first[d])'
  <2>1. Lists[d][i] \in Nodes
    BY NodeFacts
  <2>2. Placed(d, i, first[d])
    BY DEF Lined
  <2>3. CASE Lists[d][i] = n
    BY <1>2, <1>3, <1>4, <1>6, <2>1, <2>2, <2>3 DEF Placed
  <2>4. CASE Lists[d][i] # n
    BY <1>4, <1>6, <2>1, <2>2, <2>4 DEF Placed
  <2>5. QED
    BY <2>3, <2>4
<1>8. QED
  BY <1>5, <1>7 DEF Lined

-----------------------------------------------------------------------------
(* The steps of unique_pop. *)

\* The store of one thread leaves what the others have loaded.
LEMMA FetchedStays ==
  ASSUME Fencing, PopTypes, NEW first, Lined(first), NEW t \in Thread, NEW u \in Thread, t # u,
         Running(t), Busy(t), Pops(t) \/ Tags(t), Running(u), Busy(u), Fetched(u),
         UNCHANGED <<task, picked, node, ip[u], reg[u]>>
  PROVE  Fetched(u)'
<1>0. mem \in [Addr -> Value] /\ ip[u] \in Nat
  BY DEF Fencing, Confirming, Shape, TypeOK
<1>1. /\ picked[t] \in CPU /\ Heads + picked[t] \in Addr
      /\ picked[u] \in CPU /\ Heads + picked[u] \in Addr
      /\ task[t] = "tag" => Held(t) = node[t] /\ node[t] \in Nodes
      /\ task[u] = "tag" => Held(u) = node[u] /\ node[u] \in Nodes
  BY PopExecuting, HeldFacts, HeadFacts
<1>2. ip[t] > 2 /\ (ip[u] > 2 => picked[u] # picked[t])
  BY PopWordsDiffer DEF Pops, Tags
<1>3. task[u] # "tag" /\ ip[u] > 4 => reg[u].cur \in Nodes
  BY <1>0, <1>1, FirstNode DEF Fetched
<1>4. CASE Pops(t)
  <2>1. \A a \in Addr : a # Heads + picked[t] => mem'[a] = mem[a]
    BY <1>0, <1>4 DEF Pops
  <2>2. CASE task[u] = "tag"
    BY <1>1, <2>1, <2>2, HeadFacts, NodeFacts DEF Fetched
  <2>3. CASE task[u] # "tag"
    <3>1. ip[u] > 3 => mem'[Heads + picked[u]] = mem[Heads + picked[u]]
      BY <1>0, <1>1, <1>2, <2>1, HeadFacts
    <3>2. ip[u] > 4 => mem'[reg[u].cur + 1] = mem[reg[u].cur + 1]
      BY <1>1, <1>3, <2>1, <2>3, HeadFacts, NodeFacts
    <3>3. QED
      BY <2>3, <3>1, <3>2 DEF Fetched
  <2>4. QED
    BY <2>2, <2>3
<1>5. CASE Tags(t)
  <2>0. task[t] = "tag" /\ node[t] \in Nodes /\ Held(t) = node[t]
    BY <1>1, <1>5 DEF Tags
  <2>1. \A a \in Addr : a # node[t] => mem'[a] = mem[a]
    BY <1>0, <1>5 DEF Tags
  <2>2. CASE task[u] = "tag"
    <3>1. node[u] # node[t]
      <4>1. Holders(Held(t)) = {t} /\ Holders(Held(u)) = {u}
        BY <1>1, <2>0, <2>2, HeldApart
      <4>2. QED
        BY <1>1, <2>0, <2>2, <4>1
    <3>2. QED
      BY <1>1, <2>1, <2>2, <3>1, NodeFacts DEF Fetched
  <2>3. CASE task[u] # "tag"
    <3>1. mem'[Heads + picked[u]] = mem[Heads + picked[u]]
      BY <1>1, <2>0, <2>1, HeadFacts
    <3>2. ip[u] > 4 => mem'[reg[u].cur + 1] = mem[reg[u].cur + 1]
      BY <1>1, <1>3, <2>0, <2>1, <2>3, HeadFacts, NodeFacts
    <3>3. QED
      BY <2>3, <3>1, <3>2 DEF Fetched
  <2>4. QED
    BY <2>2, <2>3
<1>6. QED
  BY <1>4, <1>5

LEMMA PopInstruction ==
  ASSUME Fencing, Popping, NEW t \in Thread, Instruction(t), UNCHANGED <<clientvars, stressvars>>
  PROVE  Popping'
<1> USE DEF Popping
<1>0. /\ Shape /\ TypeOK /\ Running(t) /\ Busy(t) /\ mem \in [Addr -> Value]
      /\ UNCHANGED <<cpu, task, at, picked, test, node>>
      /\ picked[t] \in CPU /\ at[t] = "settle" /\ PopTypes
  BY InstructionShape, PopExecuting
     DEF Fencing, Confirming, Shape, TypeOK, clientvars, stressvars
<1> PICK first : Lined(first)
  OBVIOUS
<1>1. Proceeds(t) \/ GivesUp(t) \/ Pops(t) \/ Tags(t)
  BY <1>0, PopEffect
<1>2. ASSUME NEW u \in Thread, u # t
      PROVE  /\ UNCHANGED <<cpu[u], call[u], ip[u], reg[u], ret[u]>>
             /\ Held(u)' = Held(u) /\ (Unsettled(u)' <=> Unsettled(u))
  <2>1. UNCHANGED <<cpu[u], call[u], ip[u], reg[u], ret[u]>>
    BY <1>0, <1>2, OthersAlone
  <2>2. QED
    BY <1>0, <2>1 DEF Held, Unsettled, Busy
<1>3. \A u \in Thread : PopCall(u)' = PopCall(u)
  BY <1>0 DEF PopCall, TagWord
<1>4. ASSUME NEW u \in Thread, u # t
      PROVE  Taking(u)'
  <2>1. ASSUME Running(u), Busy(u) PROVE Fetched(u)'
    <3>1. Fetched(u)
      BY <1>0, <2>1 DEF PopTypes, Taking
    <3>2. CASE mem' = mem
      BY <1>0, <1>2, <1>4, <3>1, <3>2 DEF Fetched
    <3>3. CASE Pops(t) \/ Tags(t)
      BY <1>0, <1>2, <1>4, <2>1, <3>1, <3>3, FetchedStays
    <3>4. QED
      BY <1>1, <3>2, <3>3 DEF Proceeds, GivesUp
  <2>2. UNCHANGED <<cpu[u], call[u], ret[u]>> /\ (Unsettled(u)' <=> Unsettled(u)) /\ Taking(u)
    BY <1>0, <1>2, <1>4 DEF PopTypes
  <2>3. QED
    BY <1>0, <1>3, <2>1, <2>2 DEF Taking, Running, Busy
<1>5. ~Unsettled(t) /\ Held(t) = IF task[t] = "tag" THEN node[t] ELSE 0
  BY <1>0, HeldFacts DEF Unsettled
<1>6. ASSUME Returns(t)
      PROVE  ~Busy(t)'
  BY <1>0, <1>6 DEF Returns, Busy, TypeOK
<1>7. CASE Proceeds(t)
  <2>1. Busy(t)' /\ Held(t)' = Held(t) /\ ~Unsettled(t)'
    BY <1>0, <1>5, <1>7 DEF Proceeds, Continues, Held, Unsettled, Busy
  <2>2. Taking(t)'
    BY <1>0, <1>3, <1>7, <2>1 DEF Proceeds, Continues, PopTypes, Taking
  <2>3. Lined(first)'
    BY <1>2, <1>7, <2>1, LinedSame DEF Proceeds
  <2>4. QED
    BY <1>0, <1>4, <2>2, <2>3 DEF PopTypes
<1>8. CASE GivesUp(t)
  <2>1. ~Busy(t)' /\ Held(t)' = Held(t) /\ ~Unsettled(t)'
    BY <1>0, <1>5, <1>6, <1>8 DEF GivesUp, Held, Unsettled
  <2>2. Taking(t)'
    BY <1>0, <2>1 DEF PopTypes, Taking
  <2>3. Lined(first)'
    BY <1>2, <1>8, <2>1, LinedSame DEF GivesUp
  <2>4. QED
    BY <1>0, <1>4, <2>2, <2>3 DEF PopTypes
<1>9. CASE Pops(t)
  <2>1. ~Busy(t)' /\ ret'[t].status = "Ok" /\ ret'[t].value = mem[Heads + picked[t]]
        /\ task[t] = "change" /\ mem[Heads + picked[t]] # 0
    BY <1>0, <1>6, <1>9 DEF Pops, Ok, TypeOK
  <2>2. Held(t)' = mem[Heads + picked[t]] /\ mem[Heads + picked[t]] \in Nodes
    BY <1>0, <2>1, FirstNode DEF Held, Unsettled, Busy
  <2>3. Taking(t)'
    BY <1>0, <2>1, <2>2 DEF PopTypes, Taking
  <2>4. \E next : Lined(next)'
    BY <1>0, <1>2, <1>9, <2>2, LinedPop
  <2>5. QED
    BY <1>0, <1>4, <2>3, <2>4 DEF PopTypes
<1>10. CASE Tags(t)
  <2>1. ~Busy(t)' /\ ret'[t].status = "Ok" /\ task[t] = "tag"
    BY <1>0, <1>6, <1>10 DEF Tags
  <2>2. Held(t)' = 0
    BY <1>0, <2>1 DEF Held, Unsettled
  <2>3. Taking(t)'
    BY <1>0, <2>1 DEF PopTypes, Taking
  <2>4. Lined(first)'
    BY <1>0, <1>2, <1>10, <2>2, LinedTag
  <2>5. QED
    BY <1>0, <1>4, <2>3, <2>4 DEF PopTypes
<1>11. QED
  BY <1>1, <1>7, <1>8, <1>9, <1>10

\* Steps between the blocks that leave memory, and what the threads hold.
LEMMA PopAround ==
  ASSUME Popping, PopTypes', mem' = mem, \A u \in Thread : Held(u)' = Held(u)
  PROVE  Popping'
<1> PICK first : Lined(first)
  BY DEF Popping
<1>1. Lined(first)'
  BY LinedSame
<1>2. QED
  BY <1>1 DEF Popping

LEMMA PopKernel ==
  ASSUME Fencing, Popping, NEW t \in Thread,
         Preempt(t) \/ (\E c \in CPU, i \in CidSet : Resume(t, c, i)) \/ Interrupt(t),
         UNCHANGED <<clientvars, stressvars>>
  PROVE  Popping'
<1>0. Shape /\ TypeOK /\ PopTypes
  BY DEF Fencing, Confirming, Shape, Popping
<1> DEFINE Still == /\ UNCHANGED <<mem, call, reg, ret, task, at, picked, test, node>>
                    /\ \A u \in Thread \ {t} : UNCHANGED <<cpu[u], ip[u]>>
<1>1. Still /\ (~Running(t)' \/ ip'[t] = 1)
  <2>1. CASE Preempt(t)
    BY <1>0, <2>1 DEF Preempt, Running, clientvars, stressvars, TypeOK
  <2>2. CASE \E c \in CPU, i \in CidSet : Resume(t, c, i)
    BY <1>0, <2>2, FixUp DEF Resume, clientvars, stressvars, TypeOK
  <2>3. CASE Interrupt(t)
    BY <1>0, <2>3, FixUp DEF Interrupt, clientvars, stressvars, TypeOK
  <2>4. QED
    BY <2>1, <2>2, <2>3
<1>2. \A u \in Thread : /\ Held(u)' = Held(u) /\ PopCall(u)' = PopCall(u)
                        /\ (Unsettled(u)' <=> Unsettled(u)) /\ (Busy(u)' <=> Busy(u))
  BY <1>1 DEF Held, Unsettled, Busy, PopCall, TagWord
<1>3. ASSUME NEW u \in Thread
      PROVE  Taking(u)'
  <2>1. ASSUME Running(u)', Busy(u) PROVE Fetched(u)'
    <3>1. CASE u = t
      BY <1>1, <2>1, <3>1 DEF Fetched
    <3>2. CASE u # t
      BY <1>0, <1>1, <2>1, <3>2 DEF Fetched, PopTypes, Taking, Running
    <3>3. QED
      BY <3>1, <3>2
  <2>2. QED
    BY <1>0, <1>1, <1>2, <2>1 DEF PopTypes, Taking
<1>4. PopTypes'
  BY <1>0, <1>1, <1>3 DEF PopTypes
<1>5. QED
  BY <1>1, <1>2, <1>4, PopAround

LEMMA PopStutter ==
  ASSUME Popping, UNCHANGED <<vars, clientvars, stressvars>>
  PROVE  Popping'
<1>1. \A u \in Thread : Held(u)' = Held(u) /\ (Taking(u)' <=> Taking(u))
  BY DEF vars, clientvars, stressvars, Held, Taking, Fetched, PopCall, TagWord, Unsettled, Busy,
         Running
<1>2. PopTypes' /\ mem' = mem
  BY <1>1 DEF Popping, PopTypes, vars, clientvars, stressvars
<1>3. QED
  BY <1>1, <1>2, PopAround

\* A step of thread t that is not in a block.
LEMMA PopOwnStep ==
  ASSUME Popping, NEW t \in Thread, Taking(t)', Held(t)' = Held(t),
         UNCHANGED <<mem, cpu, ip, reg, test>>,
         NEW place \in {"pick", "call", "settle"}, at' = [at EXCEPT ![t] = place],
         NEW goal \in {"change", "tag"}, task' = [task EXCEPT ![t] = goal],
         NEW id \in Nat, picked' = [picked EXCEPT ![t] = id],
         NEW n \in Nodes \cup {0}, node' = [node EXCEPT ![t] = n],
         \A u \in Thread : u # t => UNCHANGED <<call[u], ret[u]>>
  PROVE  Popping'
<1>0. PopTypes
  BY DEF Popping
<1>1. ASSUME NEW u \in Thread, u # t
      PROVE  Held(u)' = Held(u) /\ Taking(u)'
  <2>1. UNCHANGED <<mem, cpu, ip, reg, task[u], at[u], picked[u], node[u], call[u], ret[u]>>
    BY <1>0, <1>1 DEF PopTypes
  <2>2. Held(u)' = Held(u) /\ (Taking(u)' <=> Taking(u))
    BY <2>1 DEF Held, Taking, Fetched, PopCall, TagWord, Unsettled, Busy, Running
  <2>3. QED
    BY <1>0, <2>2 DEF PopTypes
<1>2. PopTypes'
  BY <1>0, <1>1, NodeFacts DEF PopTypes
<1>3. QED
  BY <1>1, <1>2, PopAround

\* Start and PickTag.
LEMMA PopPick ==
  ASSUME Fencing, Popping, NEW t \in Thread, Pick(t, "cpu_id"), UNCHANGED stressvars
  PROVE  Popping'
<1>0. /\ PopTypes /\ Running(t) /\ ~Busy(t) /\ at[t] = "pick" /\ UNCHANGED <<vars, task, test, node>>
      /\ picked' = [picked EXCEPT ![t] = index[t]["cpu_id"]]
      /\ at' = [at EXCEPT ![t] = "call"] /\ at'[t] = "call" /\ picked'[t] = index[t]["cpu_id"]
      /\ task' = [task EXCEPT ![t] = task[t]] /\ task[t] \in {"change", "tag"}
      /\ node' = [node EXCEPT ![t] = node[t]]
  BY DEF Pick, Acts, stressvars, Popping, PopTypes
<1>1. index[t]["cpu_id"] \in CPU /\ index[t]["cpu_id"] \in Nat
  BY <1>0, ConstantsOK
     DEF Fencing, Confirming, IndicesDistinct, Shape, TypeOK, Running
<1>2. Held(t)' = Held(t) /\ ~Unsettled(t)' /\ ~Busy(t)'
  BY <1>0 DEF Held, Unsettled, Busy, vars
<1>3. Taking(t)'
  BY <1>0, <1>1, <1>2 DEF PopTypes, Taking
<1>4. node[t] \in Nodes \cup {0}
  BY <1>0, <1>3 DEF PopTypes, Taking
<1>5. QED
  BY <1>0, <1>1, <1>2, <1>3, <1>4, PopOwnStep DEF vars

\* Change and AddTag.
LEMMA PopIssue ==
  ASSUME Fencing, Popping, NEW t \in Thread, Issue(t, PopCall(t)), UNCHANGED stressvars
  PROVE  Popping' /\ PopCall(t) \in Calls
<1>0. /\ PopTypes /\ TypeOK /\ Running(t) /\ ~Busy(t) /\ at[t] = "call"
      /\ UNCHANGED <<task, picked, test, node>>
      /\ at' = [at EXCEPT ![t] = "settle"] /\ at'[t] = "settle"
      /\ task' = [task EXCEPT ![t] = task[t]] /\ task[t] \in {"change", "tag"}
      /\ picked' = [picked EXCEPT ![t] = picked[t]] /\ picked[t] \in CPU /\ picked[t] \in Nat
      /\ node' = [node EXCEPT ![t] = node[t]] /\ node[t] \in Nodes \cup {0}
      /\ task[t] = "tag" => node[t] \in Nodes
  BY DEF Issue, Invoke, stressvars, Fencing, Confirming, Shape, Popping, PopTypes, Taking
<1>1. PopCall(t) \in Calls /\ ~KeysDiffer(PopCall(t)) /\ PopCall(t) # Idle
  <2>1. PopCall(t) \in Calls
    BY <1>0, CallsOK DEF PopCall, TagWord
  <2>2. PopCall(t).op \notin Paired
    BY DEF PopCall, fetch_add, load_if_ne, Paired
  <2>3. QED
    BY <2>1, <2>2, ConstantsOK DEF KeysDiffer
<1>2. /\ call' = [call EXCEPT ![t] = PopCall(t)] /\ ret' = [ret EXCEPT ![t] = NoResult]
      /\ UNCHANGED <<mem, cpu, ip, reg>>
  BY <1>1 DEF Issue, Invoke
<1>3. ip[t] = 1 /\ call'[t] = PopCall(t) /\ Busy(t)'
  BY <1>0, <1>1, <1>2 DEF Fencing, Confirming, Shape, InBlock, TypeOK, Busy
<1>4. PopCall(t)' = PopCall(t) /\ Held(t)' = Held(t) /\ ~Unsettled(t)'
  BY <1>0, <1>3 DEF PopCall, TagWord, Held, Unsettled
<1>5. Taking(t)'
  BY <1>0, <1>2, <1>3, <1>4 DEF Taking, Fetched
<1>6. \A u \in Thread : u # t => UNCHANGED <<call[u], ret[u]>>
  BY <1>0, <1>2 DEF TypeOK
<1>7. QED
  BY <1>0, <1>1, <1>2, <1>4, <1>5, <1>6, PopOwnStep

\* Settle, Popped, TagAgain and Tagged.
LEMMA PopTurn ==
  ASSUME Fencing, Popping, NEW t \in Thread, NEW goal, Turn(t, goal), UNCHANGED test,
         Returned(t),
         NEW n \in {0, node[t], Held(t)}, node' = [node EXCEPT ![t] = n],
         \/ goal = "change" /\ Held(t) = 0
         \/ goal = "tag" /\ n = Held(t) /\ n # 0
  PROVE  Popping'
<1>0. /\ PopTypes /\ ~Busy(t)
      /\ UNCHANGED vars
      /\ task' = [task EXCEPT ![t] = goal] /\ task'[t] = goal
      /\ at' = [at EXCEPT ![t] = "pick"] /\ at'[t] = "pick"
      /\ picked' = [picked EXCEPT ![t] = 0] /\ node'[t] = n
  BY DEF Turn, Returned, Acts, Popping, PopTypes
<1>1. ~Unsettled(t)' /\ ~Busy(t)'
  BY <1>0 DEF Unsettled, Busy, vars
<1>2. Held(t)' = Held(t)
  BY <1>0, <1>1 DEF Held
<1>3. Taking(t)'
  BY <1>0, <1>1, HeldFacts DEF Taking
<1>4. n \in Nodes \cup {0}
  BY <1>0, HeldFacts DEF PopTypes
<1>5. QED
  BY <1>0, <1>2, <1>3, <1>4, PopOwnStep DEF vars

-----------------------------------------------------------------------------
(* A walk over a list finds its nodes from the first one on. *)

LEMMA WalkIs ==
  ASSUME NEW first, Lined(first), NEW c \in CPU
  PROVE  Walk(c) = [i \in 0 .. Cardinality(Nodes) |-> Entry(c, first[c] + i)]
<1> DEFINE D == 0 .. Cardinality(Nodes)
           Step(f, i) == IF i = 0 THEN mem[Heads + c]
                         ELSE IF f[i - 1] = 0 THEN 0 ELSE mem[f[i - 1] + 1]
           list == [i \in D |-> Entry(c, first[c] + i)]
<1>0. Cardinality(Nodes) \in Nat /\ first[c] \in Nat \ {0} /\ mem[Heads + c] = Entry(c, first[c])
  BY NodeFacts, FS_CardinalityType DEF Lined
<1>1. list = [i \in D |-> Step(list, i)]
  <2>1. SUFFICES ASSUME NEW i \in D PROVE list[i] = Step(list, i)
    OBVIOUS
  <2>2. CASE i = 0
    BY <1>0, <2>2
  <2>3. CASE i # 0
    <3>1. i - 1 \in D /\ first[c] + (i - 1) \in Nat \ {0} /\ i \in Nat
      BY <1>0, <2>3
    <3>2. list[i - 1] = Entry(c, first[c] + (i - 1)) /\ list[i] = Entry(c, first[c] + i)
      BY <3>1
    <3>3. CASE first[c] + (i - 1) \in DOMAIN Lists[c]
      <4>1. list[i - 1] = Lists[c][first[c] + (i - 1)] /\ list[i - 1] # 0
        BY <3>2, <3>3, NodeFacts DEF Entry
      <4>2. mem[list[i - 1] + 1] = Entry(c, first[c] + (i - 1) + 1)
        BY <3>3, <4>1 DEF Lined, Placed
      <4>3. first[c] + (i - 1) + 1 = first[c] + i
        BY <1>0, <3>1
      <4>4. QED
        BY <2>3, <3>2, <4>1, <4>2, <4>3
    <3>4. CASE first[c] + (i - 1) \notin DOMAIN Lists[c]
      <4>1. Lists[c] \in Seq(Addr \ {0})
        BY ListsOK
      <4>2. first[c] + i \notin DOMAIN Lists[c]
        BY <1>0, <3>1, <3>4, <4>1
      <4>3. QED
        BY <2>3, <3>2, <3>4, <4>2 DEF Entry
    <3>5. QED
      BY <3>3, <3>4
  <2>4. QED
    BY <2>2, <2>3
<1>2. Walk(c) = [i \in D |-> Step(Walk(c), i)]
  BY <1>1, Zenon DEF Walk
<1> HIDE DEF list
<1>3. \A i \in D : list[i] = Entry(c, first[c] + i) /\ list[i] = Step(list, i)
  BY <1>1 DEF list
<1>4. \A i \in D : Walk(c)[i] = Step(Walk(c), i)
  BY <1>2
<1>5. \A i \in D : Walk(c)[i] = list[i]
  <2> DEFINE T == { i \in D : Walk(c)[i] # list[i] }
  <2>1. SUFFICES ASSUME T # {} PROVE FALSE
    OBVIOUS
  <2>a. T \subseteq Nat
    BY <1>0
  <2>2. PICK i \in T : \A j \in T : i <= j
    <3> HIDE DEF T
    <3>1. QED
      BY <2>1, <2>a, LeastNatural
  <2>3. i # 0
    BY <1>3, <1>4, <2>2
  <2>4. i - 1 \in D /\ i - 1 \notin T
    BY <1>0, <2>2, <2>3
  <2>5. Walk(c)[i - 1] = list[i - 1]
    BY <2>4
  <2>6. QED
    BY <1>3, <1>4, <2>2, <2>5
<1>6. QED
  BY <1>2, <1>5 DEF list

LEMMA ListedIs ==
  ASSUME NEW first, Lined(first), NEW c \in CPU
  PROVE  Listed(c) = { Lists[c][i] : i \in { i \in DOMAIN Lists[c] : i >= first[c] } }
<1> DEFINE N == Cardinality(Nodes)
<1>0. /\ N \in Nat /\ first[c] \in Nat \ {0} /\ 0 \notin Nodes
      /\ Len(Lists[c]) \in Nat /\ DOMAIN Lists[c] = 1 .. Len(Lists[c])
      /\ \A i \in DOMAIN Lists[c] : Lists[c][i] \in Nodes
  BY NodeFacts, FS_CardinalityType, ListsOK DEF Lined
<1>1. Len(Lists[c]) <= N
  <2>1. Lists[c] \in Injection(1 .. Len(Lists[c]), Nodes)
    <3>1. Lists[c] \in [1 .. Len(Lists[c]) -> Nodes]
      BY <1>0, ListsOK
    <3>2. \A i, j \in 1 .. Len(Lists[c]) : Lists[c][i] = Lists[c][j] => i = j
      <4>1. \A d, e \in CPU : \A i \in DOMAIN Lists[d], j \in DOMAIN Lists[e] :
              Lists[d][i] = Lists[e][j] => d = e /\ i = j
        BY ListsOK, Zenon
      <4>2. QED
        BY <1>0, <4>1
    <3>3. QED
      BY <3>1, <3>2, Zenon DEF Injection, IsInjective
  <2>2. Cardinality(1 .. Len(Lists[c])) <= N
    BY <2>1, NodeFacts, FS_Injection
  <2>3. Cardinality(1 .. Len(Lists[c])) = Len(Lists[c])
    <3>1. \A k \in Nat : Cardinality(1 .. k) = k
      BY FS_Interval
    <3>2. QED
      BY <1>0, <3>1
  <2>4. QED
    BY <2>2, <2>3
<1>2. Listed(c) = { Entry(c, first[c] + i) : i \in 0 .. N } \ {0}
  <2>1. DOMAIN Walk(c) = 0 .. N /\ \A i \in 0 .. N : Walk(c)[i] = Entry(c, first[c] + i)
    BY WalkIs
  <2>2. QED
    BY <2>1, Zenon DEF Listed
<1>3. ASSUME NEW i \in 0 .. N, Entry(c, first[c] + i) # 0
      PROVE  \E j \in DOMAIN Lists[c] : j >= first[c] /\ Entry(c, first[c] + i) = Lists[c][j]
  BY <1>0, <1>3 DEF Entry
<1>4. ASSUME NEW j \in DOMAIN Lists[c], j >= first[c]
      PROVE  \E i \in 0 .. N : Entry(c, first[c] + i) = Lists[c][j] /\ Lists[c][j] # 0
  <2>1. j - first[c] \in 0 .. N /\ first[c] + (j - first[c]) = j
    BY <1>0, <1>1, <1>4
  <2>2. QED
    BY <1>0, <2>1 DEF Entry
<1>5. QED
  BY <1>2, <1>3, <1>4

LEMMA PopsUnique == Popping => OneOwner
<1> SUFFICES ASSUME NEW first, Lined(first), NEW n \in Nodes
             PROVE  Cardinality({ c \in CPU : n \in Listed(c) }) + Cardinality(Holders(n)) + mem[n] = 1
  BY DEF Popping, OneOwner
<1>1. PICK c \in CPU : \E i \in DOMAIN Lists[c] : n = Lists[c][i]
  BY NodeFacts
<1>2. PICK i \in DOMAIN Lists[c] : n = Lists[c][i]
  BY <1>1
<1>3. i \in Nat /\ first[c] \in Nat
  BY ListsOK DEF Lined
<1>4. \A d \in CPU : n \in Listed(d) <=> d = c /\ i >= first[c]
  BY <1>2, ListedIs, ListsOK
<1>5. Placed(c, i, first[c])
  BY DEF Lined
<1>6. Cardinality({}) = 0 /\ \A x : Cardinality({x}) = 1
  BY FS_EmptySet, FS_Singleton
<1>7. CASE i >= first[c]
  <2>1. { d \in CPU : n \in Listed(d) } = {c} /\ Holders(n) = {} /\ mem[n] = 0
    BY <1>2, <1>4, <1>5, <1>7 DEF Placed
  <2>2. QED
    BY <1>6, <2>1
<1>8. CASE i < first[c]
  <2>1. { d \in CPU : n \in Listed(d) } = {}
    BY <1>3, <1>4, <1>8
  <2>2. \/ mem[n] = 1 /\ Holders(n) = {}
        \/ mem[n] = 0 /\ \E t \in Thread : Holders(n) = {t}
    BY <1>2, <1>5, <1>8 DEF Placed
  <2>3. \/ mem[n] = 1 /\ Cardinality(Holders(n)) = 0
        \/ mem[n] = 0 /\ Cardinality(Holders(n)) = 1
    BY <1>6, <2>2, Zenon
  <2>4. Cardinality({ d \in CPU : n \in Listed(d) }) = 0
    BY <1>6, <2>1
  <2>5. QED
    BY <2>3, <2>4
<1>9. QED
  BY <1>3, <1>7, <1>8

-----------------------------------------------------------------------------
(* Every step of unique_pop, too, is one of the fence beside threads. *)

LEMMA PopStep ==
  ASSUME Fencing, Popping, [StressNext]_<<fencevars, clientvars, stressvars>>
  PROVE  [FenceNext]_fencevars /\ Popping'
<1>0. PopTypes /\ test = "pop"
  BY DEF Popping, PopTypes
<1>1. ASSUME NEW t \in Thread, Iteration(t), Forget, UNCHANGED pending
      PROVE  [FenceNext]_fencevars /\ Popping'
  <2>1. CASE Start(t) \/ PickTag(t)
    <3>1. Pick(t, "cpu_id") /\ UNCHANGED stressvars /\ UNCHANGED vars
      BY <1>0, <2>1 DEF Start, PickTag, Pick, Key
    <3>2. QED
      BY <1>1, <3>1, PopPick, Remembered
  <2>2. CASE Change(t) \/ AddTag(t)
    <3>1. Issue(t, PopCall(t)) /\ UNCHANGED stressvars
      <4>1. CASE Change(t)
        <5>1. Operation(t) = load_if_ne(WordOf(Heads, "cpu_id", picked[t]), 0, 1)
          BY <1>0, Zenon DEF Operation, Key
        <5>2. PopCall(t) = Operation(t)
          BY <4>1, <5>1 DEF Change, PopCall
        <5>3. QED
          BY <4>1, <5>2 DEF Change
      <4>2. CASE AddTag(t)
        BY <4>2 DEF AddTag, PopCall
      <4>3. QED
        BY <2>2, <4>1, <4>2
    <3>2. Popping' /\ PopCall(t) \in Calls
      BY <3>1, PopIssue
    <3>3. Next
      BY <3>1, <3>2 DEF Issue, Next
    <3>4. QED
      BY <1>1, <3>2, <3>3 DEF FenceNext
  <2>3. CASE Settle(t) \/ Popped(t) \/ TagAgain(t) \/ Tagged(t)
    <3>1. UNCHANGED <<vars, test>> /\ Returned(t) /\ node \in [Thread -> Nodes \cup {0}]
      BY <1>0, <2>3 DEF Settle, Popped, TagAgain, Tagged, Turn, stressvars, PopTypes
    <3>2. node = [node EXCEPT ![t] = node[t]]
      BY <3>1
    <3>3. ASSUME Settle(t) PROVE Popping'
      <4>1. Turn(t, "change") /\ Held(t) = 0 /\ node' = [node EXCEPT ![t] = node[t]]
        BY <1>0, <3>2, <3>3 DEF Settle, Held, Unsettled
      <4>2. QED
        BY <1>1, <3>1, <4>1, PopTurn
    <3>4. ASSUME Popped(t) PROVE Popping'
      <4>1. Turn(t, "tag") /\ node' = [node EXCEPT ![t] = Held(t)] /\ Held(t) # 0
        <5>1. task[t] = "change" /\ Unsettled(t)
          BY <3>4 DEF Popped, Returned, Acts, Unsettled
        <5>2. Held(t) = ret[t].value /\ Held(t) # 0
          BY <1>0, <5>1, NodeFacts DEF Held, PopTypes, Taking
        <5>3. QED
          BY <3>4, <5>2 DEF Popped
      <4>2. QED
        BY <1>1, <3>1, <4>1, PopTurn
    <3>5. ASSUME TagAgain(t) PROVE Popping'
      <4>1. Turn(t, "tag") /\ Held(t) = node[t] /\ UNCHANGED node
        BY <3>5 DEF TagAgain, Held, Unsettled, stressvars
      <4>2. node[t] # 0
        BY <1>0, <3>5, NodeFacts DEF TagAgain, PopTypes, Taking
      <4>3. node' = [node EXCEPT ![t] = node[t]]
        BY <3>2, <4>1
      <4>4. QED
        BY <1>1, <3>1, <4>1, <4>2, <4>3, PopTurn
    <3>6. ASSUME Tagged(t) PROVE Popping'
      <4>1. Turn(t, "change") /\ Held(t) = 0 /\ node' = [node EXCEPT ![t] = 0]
        BY <3>6 DEF Tagged, Returned, Acts, Held, Unsettled
      <4>2. QED
        BY <1>1, <3>1, <4>1, PopTurn
    <3>7. Popping'
      BY <2>3, <3>3, <3>4, <3>5, <3>6
    <3>8. QED
      BY <1>1, <3>1, <3>7, Remembered
  <2>4. QED
    BY <1>1, <2>1, <2>2, <2>3 DEF Iteration
<1>2. ASSUME NEW t \in Thread, Flap(t), UNCHANGED <<clientvars, stressvars>>, Forget,
             UNCHANGED pending
      PROVE  [FenceNext]_fencevars /\ Popping'
  <2>1. Next
    BY <1>2 DEF Flap, Machine, Next, Kernel
  <2>2. Popping'
    BY <1>2, PopKernel, PopInstruction DEF Flap, Machine
  <2>3. QED
    BY <1>2, <2>1, <2>2 DEF FenceNext
<1>3. ASSUME FenceStep, UNCHANGED <<clientvars, stressvars>>
      PROVE  [FenceNext]_fencevars /\ Popping'
  <2>1. UNCHANGED vars \/ \E t \in Thread : Interrupt(t)
    BY <1>3 DEF FenceStep, FenceAll, Fence, Ipi
  <2>2. QED
    BY <1>3, <2>1, PopStutter, PopKernel DEF FenceNext
<1>4. CASE UNCHANGED <<fencevars, clientvars, stressvars>>
  BY <1>4, PopStutter DEF fencevars
<1>5. QED
  BY <1>1, <1>2, <1>3, <1>4 DEF StressNext

LEMMA PopStart ==
  ASSUME StressInit, test = "pop"
  PROVE  Popping
<1>1. PopTypes
  BY DEF StressInit, ClientInit, FenceInit, Init, PopTypes, Taking, Unsettled, Busy
<1>2. \A n \in Nodes : Holders(n) = {}
  BY NodeFacts DEF StressInit, ClientInit, Holders, Held, Unsettled
<1> DEFINE first == [c \in CPU |-> 1]
<1>3. mem = InitMem
  BY DEF StressInit, FenceInit, Init
<1>4. ASSUME NEW c \in CPU
      PROVE  /\ mem[Heads + c] = Entry(c, first[c])
             /\ \A i \in DOMAIN Lists[c] : Placed(c, i, first[c])
  <2>1. first[c] = 1 /\ DOMAIN Lists[c] \subseteq Nat \ {0}
    BY ListsOK
  <2>2. QED
    BY <1>2, <1>3, <2>1, ListsOK, NodeFacts DEF Placed
<1>5. first \in [CPU -> Nat \ {0}]
  OBVIOUS
<1> HIDE DEF first
<1>6. Lined(first)
  BY <1>4, <1>5 DEF Lined
<1>7. QED
  BY <1>1, <1>6 DEF Popping

-----------------------------------------------------------------------------
(* Whichever test runs. *)

IInv == Fencing /\ (Popping \/ (Counting /\ NothingLost))

LEMMA StressStart == StressInit => IInv
<1>1. StressInit => Fencing
  BY FencingInit DEF StressInit
<1>2. QED
  BY <1>1, CountingStart, PopStart DEF IInv

LEMMA StressStep ==
  ASSUME IInv, [StressNext]_<<fencevars, clientvars, stressvars>>
  PROVE  [FenceNext]_fencevars /\ IInv'
BY CountingStep, PopStep, FencingStep DEF IInv

LEMMA StressInvariant == StressSpec => []IInv
BY StressStart, StressStep, PTL DEF StressSpec

\* In the counting tests, no change is lost, made twice, or made by a call
\* that reports a miss or an abort: whatever the schedule, the interrupts and
\* the fences, for any number of threads, CPUs, ids and rounds.
THEOREM CountsAreExact == StressSpec => []NothingLost
<1>1. IInv => NothingLost
  BY DEF IInv, Popping, PopTypes, NothingLost
<1>2. QED
  BY <1>1, StressInvariant, PTL

\* In unique_pop, a node is on one list, in the hands of one thread, or tagged
\* once: no pop takes a node that another pop has taken, whatever the
\* schedule, for any number of threads, lists and nodes.
THEOREM PopsAreUnique == StressSpec => []OneOwner
<1>1. IInv => OneOwner
  BY PopsUnique DEF IInv, Counting, CountingTests, OneOwner
<1>2. QED
  BY <1>1, StressInvariant, PTL

\* The threads of the tests are threads of Fences, and so what a fence
\* promises holds of their blocks.
THEOREM FencesBesideTests == StressSpec => FenceAborts
<1>1. StressInit => IInv /\ FenceInit
  BY StressStart DEF StressInit
<1>2. IInv /\ [StressNext]_<<fencevars, clientvars, stressvars>> => IInv' /\ [FenceNext]_fencevars
  BY StressStep
<1>3. StressSpec => FenceSpec
  BY <1>1, <1>2, PTL DEF StressSpec, FenceSpec
<1>4. QED
  BY <1>3, FencedBlocksEnd, PTL

=============================================================================
