----------------------------- MODULE StoreIfSide -----------------------------
(***************************************************************************)
(* What store_if leaves behind in its side word when it does not commit.   *)
(* CriticalSectionSafety with one history variable: whether the call in    *)
(* progress has stored to its side word.                                   *)
(***************************************************************************)
EXTENDS CriticalSectionSafety

VARIABLE wrote

SideInit == Init /\ wrote = [t \in Thread |-> FALSE]

SideNext ==
  \E t \in Thread :
    \/ Kernel(t) /\ UNCHANGED wrote
    \/ PrepareUnload(t) /\ UNCHANGED wrote
    \/ \E c \in Calls : Invoke(t, c) /\ wrote' = [wrote EXCEPT ![t] = FALSE]
    \/ Instruction(t) /\ wrote' = [wrote EXCEPT ![t] = @ \/ StoreSide(t)]

SideSpec == SideInit /\ [][SideNext]_<<vars, wrote>>

\* thread.rs on the errors of store_if: a Miss leaves `side' untouched.  The
\* code restarts a block that was preempted between the two stores, and the
\* word may have changed by then: the second attempt misses, with the side
\* word written by the first.
MissLeavesSide ==
  [][\A t \in Thread :
       Busy(t) /\ call[t].op = "store_if" /\ call'[t] = Idle /\ ret'[t].status = "Miss"
         => ~wrote[t]]_<<vars, wrote>>

=============================================================================
