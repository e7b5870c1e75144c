------------------------------- MODULE MCChases -------------------------------
(***************************************************************************)
(* Instances of CriticalSectionSafety for the operations that chase        *)
(* pointers.  In a behaviour the threads either pop from and push on a     *)
(* list, or add through a table.                                           *)
(***************************************************************************)
EXTENDS CriticalSectionSafety, TLC

CONSTANTS t1, t2

VARIABLE structure   \* "list" or "table"

TwoThreads == {t1, t2}
OneHandler == {t1}
Two == {0, 1}

WordAt(addr, kind) == [addr |-> addr, kind |-> kind, key |-> 0]

\* A list of concurrency id 0: head 1, and nodes 2 and 3 whose link is at
\* offset 0; 0 ends the list.  Pops use load_if_ne, pushes store_if.
ListCalls ==
  LET head == WordAt(1, "mm_cid")
      push(n, first) == store_if(head, first, n, WordAt(n, "mm_cid"), first)
  IN { load_if_ne(head, 0, 0), push(2, 0) }

\* A counter of CPU 0 behind a table: word 4 points one word short of one of
\* the two tables 5 and 6, which hold the address of the counter 7.  The
\* counter wraps around with every second addition.
TableCalls ==
  LET ptr == WordAt(4, "cpu_id") IN
  { fetch_add_at(ptr, 1, 4), compare_exchange(ptr, 4, 5), compare_exchange(ptr, 5, 4) }

ChasesCalls == ListCalls \cup TableCalls
ChasesAddr  == 1 .. 7
ChasesHome  == [a \in ChasesAddr |->
                  [kind |-> IF a <= 3 THEN "mm_cid" ELSE "cpu_id", key |-> 0]]
ChasesMem   == 1 :> 2 @@ 2 :> 3 @@ 3 :> 0 @@ 4 :> 4 @@ 5 :> 7 @@ 6 :> 7 @@ 7 :> 0
ChasesHolds == 1 :> {0, 2, 3} @@ 2 :> {0, 3} @@ 3 :> {0}
               @@ 4 :> {4, 5} @@ 5 :> {7} @@ 6 :> {7} @@ 7 :> Value

\* The words of a structure have keys of one kind.  The other id of a thread
\* is then of no account, and the kernel gives it the id of its CPU.  The
\* thread with a handler works on the list.
ChasesNext ==
  /\ Next
  /\ \A t \in Thread :
       /\ index'[t] = [k \in Kind |-> index'[t]["cpu_id"]]
       /\ call'[t] \in {Idle} \cup IF structure = "list" THEN ListCalls ELSE TableCalls
  /\ structure = "table" => UNCHANGED frame
  /\ UNCHANGED structure

ChasesSpec ==
  /\ Init /\ structure \in {"list", "table"}
  /\ [][ChasesNext]_<<vars, structure>>

=============================================================================
