-------------------------------- MODULE Stress --------------------------------
(***************************************************************************)
(* The tests of tests/stress.rs: threads that are moved and interrupted    *)
(* change words of the CPU they find themselves on, and count what they    *)
(* think they have changed.  Another thread fences meanwhile.              *)
(***************************************************************************)
EXTENDS Fences, Clients, FiniteSets

CONSTANTS
  Tests,    \* the tests to run, each in a behaviour of its own
  Rounds,   \* iterations of a thread before the deadline
  Counts,   \* address of the first word of the counting tests
  Sides,    \* address of the first side word of unique_store_if
  Heads,    \* address of the first head of unique_pop
  Lists     \* the nodes of every CPU's list at first: a node is the address
            \* of its tag, and behind the tag is its link

ASSUME StressOK ==
  /\ Tests \subseteq {"add", "add_cid", "cas", "store_if", "compare_exchange_if", "pop"}
  /\ Rounds \in Nat

\* A word for every index, zero at first, and the side words are others.
ASSUME LayoutOK ==
  /\ Counts \in Nat /\ Sides \in Nat
  /\ \A i \in CPU \cup CidSet : Counts + i \in Addr /\ InitMem[Counts + i] = 0
  /\ \A c \in CPU : Sides + c \in Addr /\ \A d \in CPU : Sides + c # Counts + d

\* The word of a tag, on the CPU with this id.
Tag(n, id) == [addr |-> n, kind |-> "cpu_id", key |-> id]

Nodes == UNION { { Lists[c][i] : i \in DOMAIN Lists[c] } : c \in CPU }

\* What is in position i of the list that CPU c has at first: 0 behind its end.
Entry(c, i) == IF i \in DOMAIN Lists[c] THEN Lists[c][i] ELSE 0

\* The lists that unique_pop builds: every node is in one place of one list,
\* and tags, links and heads are different words.
ASSUME ListsOK ==
  /\ Heads \in Nat /\ Lists \in [CPU -> Seq(Addr \ {0})]
  /\ \A c \in CPU : Heads + c \in Addr /\ InitMem[Heads + c] = Entry(c, 1)
  /\ \A c \in CPU : \A i \in DOMAIN Lists[c] :
       LET n == Lists[c][i] IN
       n + 1 \in Addr /\ InitMem[n] = 0 /\ InitMem[n + 1] = Entry(c, i + 1)
  /\ \A c, d \in CPU : \A i \in DOMAIN Lists[c], j \in DOMAIN Lists[d] :
       Lists[c][i] = Lists[d][j] => c = d /\ i = j
  /\ \A n \in Nodes : n + 1 \notin Nodes
  /\ \A c \in CPU, n \in Nodes : Heads + c \notin {n, n + 1}

\* The calls that the tests may make.
ASSUME CallsOK ==
  /\ \A c \in CPU : fetch_add(WordOf(Counts, "cpu_id", c), 1) \in Calls
  /\ \A i \in CidSet : fetch_add(WordOf(Counts, "mm_cid", i), 1) \in Calls
  /\ \A c \in CPU, v \in Value :
       LET word == WordOf(Counts, "cpu_id", c) IN
       /\ compare_exchange(word, v, Plus(v, 1)) \in Calls
       /\ compare_exchange_if(word, v, Plus(v, 1), word, v) \in Calls
       /\ store_if(word, v, Plus(v, 1), WordOf(Sides, "cpu_id", c), v) \in Calls
  /\ \A c \in CPU : load_if_ne(WordOf(Heads, "cpu_id", c), 0, 1) \in Calls
  /\ \A c \in CPU, n \in Nodes : fetch_add(Tag(n, c), 1) \in Calls

ASSUME ThreadsOK == IsFiniteSet(Thread)

VARIABLES
  test,     \* the test
  round,    \* iterations a thread has begun and not given up
  expect,   \* the value a thread expects in the next word
  node,     \* the node a thread has popped and not tagged, or 0
  won       \* successes that threads have counted, by the index picked

stressvars == <<test, round, expect, node, won>>

Key == IF test = "add_cid" THEN "mm_cid" ELSE "cpu_id"

\* The indices of the words of the test.
Indices == IF Key = "mm_cid" THEN CidSet ELSE CPU

\* The operation of an iteration, on the word that the thread has picked.
Operation(t) ==
  LET word == WordOf(Counts, Key, picked[t])
      seen == expect[t]
      new  == Plus(expect[t], 1)
      side == WordOf(Sides, Key, picked[t])
      head == WordOf(Heads, Key, picked[t])
  IN CASE test \in {"add", "add_cid"}    -> fetch_add(word, 1)
       [] test = "cas"                 -> compare_exchange(word, seen, new)
       [] test = "store_if"            -> store_if(word, seen, new, side, seen)
       [] test = "compare_exchange_if" -> compare_exchange_if(word, seen, new, word, seen)
       [] OTHER                        -> load_if_ne(head, 0, 1)

\* The tag of a popped node is picked with whatever CPU the thread is on.
TagWord(t) == Tag(node[t], picked[t])

Start(t) ==
  /\ task[t] = "change" /\ round[t] < Rounds
  /\ Pick(t, Key)
  /\ UNCHANGED stressvars

Change(t) == task[t] = "change" /\ Issue(t, Operation(t)) /\ UNCHANGED stressvars

Count(t) == won' = [won EXCEPT ![picked[t]] = @ + 1]

\* The end of an iteration.
Settle(t) ==
  /\ task[t] = "change" /\ Returned(t)
  /\ test = "pop" => ret[t].status # "Ok"
  /\ Turn(t, "change")
  /\ round' = [round EXCEPT ![t] = @ + 1]
  /\ IF ret[t].status = "Ok" THEN Count(t) ELSE UNCHANGED won
  /\ expect' = CASE ret[t].status = "Miss" /\ test # "pop"
                      -> [expect EXCEPT ![t] = ret[t].value]
                 [] ret[t].status = "Ok" /\ Operation(t).op \notin Adds
                      -> [expect EXCEPT ![t] = Plus(@, 1)]
                 [] OTHER -> expect
  /\ UNCHANGED <<test, node>>

\* unique_pop: a popped node is tagged, in a loop until the tag is written.
Popped(t) ==
  /\ test = "pop" /\ task[t] = "change" /\ Returned(t) /\ ret[t].status = "Ok"
  /\ Turn(t, "tag")
  /\ node' = [node EXCEPT ![t] = ret[t].value]
  /\ UNCHANGED <<test, round, expect, won>>

PickTag(t) == task[t] = "tag" /\ Pick(t, "cpu_id") /\ UNCHANGED stressvars

AddTag(t) == task[t] = "tag" /\ Issue(t, fetch_add(TagWord(t), 1)) /\ UNCHANGED stressvars

TagAgain(t) ==
  /\ task[t] = "tag" /\ Returned(t) /\ ret[t].status # "Ok"
  /\ Turn(t, "tag") /\ UNCHANGED stressvars

Tagged(t) ==
  /\ task[t] = "tag" /\ Returned(t) /\ ret[t].status = "Ok"
  /\ Turn(t, "change")
  /\ node' = [node EXCEPT ![t] = 0]
  /\ round' = [round EXCEPT ![t] = @ + 1]
  /\ Count(t)
  /\ UNCHANGED <<test, expect>>

Iteration(t) ==
  \/ Start(t) \/ Change(t) \/ Settle(t)
  \/ Popped(t) \/ PickTag(t) \/ AddTag(t) \/ TagAgain(t) \/ Tagged(t)

\* The timer signal has no calls in its handler; pinning is the scheduler's
\* choice of a CPU.
Flap(t) == Machine(t) \/ Interrupt(t)

StressInit ==
  /\ FenceInit /\ ClientInit("change")
  /\ test \in Tests
  /\ round = [t \in Thread |-> 0]
  /\ expect = [t \in Thread |-> 0]
  /\ node = [t \in Thread |-> 0]
  /\ won = [c \in CPU \cup CidSet |-> 0]

StressNext ==
  \/ \E t \in Thread :
       /\ \/ Iteration(t)
          \/ Flap(t) /\ UNCHANGED <<clientvars, stressvars>>
       /\ Forget /\ UNCHANGED pending
  \/ FenceStep /\ UNCHANGED <<clientvars, stressvars>>

StressSpec == StressInit /\ [][StressNext]_<<fencevars, clientvars, stressvars>>

-----------------------------------------------------------------------------
\* The successes on word c that a thread has not looked at yet.
Uncounted(c) == { t \in Thread : Unsettled(t) /\ picked[t] = c }

\* Every word holds the number of successes that the threads have counted or
\* are about to count on it.  The final assertion of the counting tests says
\* so of the sums over all words.  No change is lost between two threads,
\* none is made twice by a restart, and none is made by a call that reports
\* an abort or a miss.
NothingLost ==
  test # "pop" =>
    \A c \in Indices : mem[Counts + c] = (won[c] + Cardinality(Uncounted(c))) % Width

\* What a walk over the list of CPU c finds, as many steps as there are nodes.
Walk(c) ==
  LET walk[i \in 0 .. Cardinality(Nodes)] ==
        IF i = 0 THEN mem[Heads + c]
        ELSE IF walk[i - 1] = 0 THEN 0 ELSE mem[walk[i - 1] + 1]
  IN walk

Listed(c) == { Walk(c)[i] : i \in DOMAIN Walk(c) } \ {0}

\* The node that a thread has popped and not tagged, or 0.
Held(t) ==
  IF task[t] = "tag" THEN IF Unsettled(t) THEN 0 ELSE node[t]
  ELSE IF Unsettled(t) THEN ret[t].value ELSE 0

Holders(n) == { t \in Thread : Held(t) = n }

\* A node is on one list, held by one thread, or tagged once, and never two
\* of these: no node is popped twice and none is dropped, the assertions of
\* unique_pop.
OneOwner ==
  test = "pop" =>
    \A n \in Nodes :
      Cardinality({ c \in CPU : n \in Listed(c) }) + Cardinality(Holders(n)) + mem[n] = 1

=============================================================================
