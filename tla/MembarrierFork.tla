---------------------------- MODULE MembarrierFork ----------------------------
(***************************************************************************)
(* Membarrier, with a history of what forked processes started from.       *)
(***************************************************************************)
EXTENDS Membarrier

VARIABLE inherited   \* USED of the parent when it forked the process

forkvars == <<vars, inherited>>

ForkInit == Init /\ inherited = [p \in Process |-> FALSE]

ForkNext ==
  /\ Next
  /\ inherited' = [p \in Process |->
                     IF ~Alive(p) /\ Alive(p)' THEN used'[p] ELSE inherited[p]]

ForkSpec == ForkInit /\ [][ForkNext]_forkvars /\ Fairness

-----------------------------------------------------------------------------
\* A thread of p has taken USED and is about to register, or p is registered.
Registering(p) == registered[p] \/ \E t \in Thread : pc[p][t] = "again"

\* In a forked process whose parent had fenced, several threads may race for
\* the one retry.  A fence is refused only beside a thread that has won it:
\* never do all threads lose, and nobody is refused on account of a retry
\* that did not happen.
RefusedBesideARetry ==
  supported =>
    \A p \in Process :
      inherited[p] /\ (\E t \in Thread : ret[p][t] = "false") => Registering(p)

=============================================================================
