-------------------------------- MODULE Drain ---------------------------------
(***************************************************************************)
(* benches/drain.rs, add_under_steal: threads add to the word of their     *)
(* CPU, and a thread that runs steal_all fences one CPU after the other    *)
(* and takes what is in its word.                                          *)
(***************************************************************************)
EXTENDS Fences, Clients, FiniteSets, FiniteSetsExt

CONSTANTS
  Rounds,   \* additions of a thread
  Base      \* address of the first word

VARIABLES
  added,    \* additions that a thread has completed
  victim,   \* the CPU at which steal_all is
  stage,    \* "fence" or "swap"
  stolen    \* the sum of what has been taken

stealvars == <<victim, stage, stolen>>
drainvars == <<fencevars, clientvars, added, stealvars>>

\* add: the loop ends with an addition.
PickWord(t) == added[t] < Rounds /\ Pick(t, "cpu_id") /\ UNCHANGED added

Add(t) == Issue(t, fetch_add(WordOf(Base, "cpu_id", picked[t]), 1)) /\ UNCHANGED added

AddReturned(t) ==
  /\ Returned(t) /\ Turn(t, "add")
  /\ added' = IF ret[t].status = "Ok" THEN [added EXCEPT ![t] = @ + 1] ELSE added

\* steal_all does not look at the result of the fence.
StealFence ==
  /\ stage = "fence" /\ Fence(victim)
  /\ stage' = "swap"
  /\ UNCHANGED <<victim, stolen>>

\* The fence has returned.  The plain swap, and the next CPU; behind the
\* last one steal_all begins anew.
Swap ==
  /\ stage = "swap" /\ pending = {}
  /\ stolen' = stolen + mem[Base + victim]
  /\ mem' = [mem EXCEPT ![Base + victim] = 0]
  /\ victim' = IF \E c \in CPU : c > victim THEN Min({ c \in CPU : c > victim }) ELSE Min(CPU)
  /\ stage' = "fence"
  /\ UNCHANGED <<cpu, index, rseq_cs, call, ip, reg, frame, ret, pending, old>>

DrainInit ==
  /\ FenceInit /\ ClientInit("add")
  /\ added = [t \in Thread |-> 0]
  /\ victim = Min(CPU) /\ stage = "fence" /\ stolen = 0

DrainNext ==
  \/ \E t \in Thread :
       /\ \/ PickWord(t) \/ Add(t) \/ AddReturned(t)
          \/ Machine(t) /\ UNCHANGED <<clientvars, added>>
       /\ Forget /\ UNCHANGED <<pending, stealvars>>
  \/ (StealFence \/ Swap) /\ UNCHANGED <<clientvars, added>>
  \/ (\E c \in CPU : Ipi(c)) /\ UNCHANGED <<clientvars, added, stealvars>>

DrainSpec == DrainInit /\ [][DrainNext]_drainvars

-----------------------------------------------------------------------------
\* The header of drain.rs: a remote thread sets stop, fences the CPU, then
\* touches the word with a plain atomic, so that nothing is added behind its
\* back: what was taken and what is left is what was added.  steal_all sets
\* no stop, and an addition that begins behind the fence reads the word
\* before the swap and writes it after: what was stolen is there again.
Conserved ==
  stolen + MapThenSumSet(LAMBDA c : mem[Base + c], CPU)
    = MapThenSumSet(LAMBDA t : added[t], Thread)
        + Cardinality({ t \in Thread : Unsettled(t) })

=============================================================================
