------------------------------- MODULE MCStress -------------------------------
(***************************************************************************)
(* Two threads and two CPUs.  CPU 0 has a list of two nodes, CPU 1 none.   *)
(***************************************************************************)
EXTENDS Stress, TLC

CONSTANTS t1, t2

StressThreads == {t1, t2}
StressSymmetry == Permutations(StressThreads)
NoHandlers == {}
Two == {0, 1}

\* A test reads one id of a thread.  The other one is of no account, and the
\* kernel gives the thread the id of its CPU for both.  The fences run beside
\* the test whose block has two stores.
SmallNext ==
  /\ StressNext
  /\ \A t \in Thread : index'[t] = [k \in Kind |-> index'[t]["cpu_id"]]
  /\ test # "store_if" => UNCHANGED pending

SmallSpec == StressInit /\ [][SmallNext]_<<fencevars, clientvars, stressvars>>

AllTests == {"add", "add_cid", "cas", "store_if", "compare_exchange_if", "pop"}

\* Words 1 and 2, sides 3 and 4, heads 5 and 6, nodes 7 and 9.
StressAddr  == 1 .. 10
StressLists == 0 :> <<7, 9>> @@ 1 :> <<>>
StressMem   == [a \in StressAddr |->
                  CASE a = 5 -> 7 [] a = 8 -> 9 [] OTHER -> 0]

\* The calls that the tests make.
StressCalls ==
  LET words(base, kind) == { WordOf(base, kind, id) : id \in Two }
      tags == { Tag(n, id) : n \in {7, 9}, id \in Two }
  IN { fetch_add(word, 1) : word \in words(Counts, "cpu_id") \cup words(Counts, "mm_cid") \cup tags }
     \cup { compare_exchange(word, v, Plus(v, 1)) : word \in words(Counts, "cpu_id"), v \in Value }
     \cup { compare_exchange_if(word, v, Plus(v, 1), word, v) :
              word \in words(Counts, "cpu_id"), v \in Value }
     \cup { store_if(WordOf(Counts, "cpu_id", id), v, Plus(v, 1), WordOf(Sides, "cpu_id", id), v) :
              id \in Two, v \in Value }
     \cup { load_if_ne(head, 0, 1) : head \in words(Heads, "cpu_id") }

=============================================================================
