------------------------------ MODULE MCFreeList ------------------------------
(***************************************************************************)
(* Two threads, two CPUs, and two nodes on the list of CPU 0.  With one    *)
(* concurrency id, one thread runs at a time.                              *)
(***************************************************************************)
EXTENDS FreeList, TLC

CONSTANTS t1, t2

ListThreads == {t1, t2}
ListSymmetry == Permutations(ListThreads)
NoHandlers  == {}
ListCPU     == {0, 1}
OneCid      == {0}
TwoNodes    == {1, 2}

\* next[0] .. next[2], then the two heads: 2 before 1 on CPU 0.
ListAddr == 0 .. 4
ListMem  == [a \in ListAddr |-> CASE a = 2 -> 1 [] a = 3 -> 2 [] OTHER -> EMPTY]

\* The calls that a pop and a push make.
ListCalls ==
  LET heads == { WordOf(Heads, "cpu_id", id) : id \in ListCPU }
      links == Nodes \cup {EMPTY}
      link(node, id) == [addr |-> Next0 + node, kind |-> "cpu_id", key |-> id]
  IN { fetch_add(word, 0) : word \in heads }
     \cup { compare_exchange(word, first, second) :
              word \in heads, first \in Nodes, second \in links }
     \cup { store_if(WordOf(Heads, "cpu_id", id), first, node, link(node, id), first) :
              id \in ListCPU, first \in links, node \in Nodes }

=============================================================================
