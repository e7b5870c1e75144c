---------------------- MODULE CriticalSectionInvariants ----------------------
(***************************************************************************)
(* What holds of threads in blocks whatever words their callers pick.      *)
(***************************************************************************)
EXTENDS CriticalSection

\* Every variable has its type.
TypeOK ==
  /\ mem \in [Addr -> Value]
  /\ cpu \in [Thread -> CPU \cup {Off}]
  /\ index \in [Thread -> Index]
  /\ rseq_cs \in [Thread -> Op \cup {"none"}]
  /\ call \in [Thread -> Calls \cup {Idle}]
  /\ ip \in [Thread -> 1 .. 6]
  /\ reg \in [Thread -> Reg]
  /\ frame \in [Thread -> Frame \cup {NoFrame}]
  /\ ret \in [Thread -> Result]

\* The instruction pointer of a thread stays inside its block, so that a
\* committing store is the last thing a block does.
InBlock ==
  \A t \in Thread :
    /\ Busy(t)  => ip[t] \in 1 .. Len(Program[call[t].op])
    /\ ~Busy(t) => ip[t] = 1

\* What the kernel publishes: the CPU of a running thread in its cpu_id
\* field, and no CPU and no concurrency id for two running threads.
IndicesDistinct ==
  /\ \A t \in Thread : Running(t) => index[t]["cpu_id"] = cpu[t]
  /\ \A t, u \in Thread :
       Running(t) /\ Running(u) /\ t # u
         => /\ cpu[t] # cpu[u]
            /\ index[t]["mm_cid"] # index[u]["mm_cid"]

\* A thread inside a critical section, running or not, has that section in
\* its area: wherever the kernel takes it off the CPU, the fix-up finds it.
\* A descriptor that ended early, or a block that armed late, would let a
\* thread go on in the middle of an operation after a migration.
ArmedInCS ==
  \A t \in Thread : InCS(t) => rseq_cs[t] = call[t].op

\* A signal frame holds a thread that is outside every critical section.
FramesOutside ==
  \A t \in Thread : frame[t] # NoFrame => frame[t].ip = 1

\* The index of a running thread is the one that a call's word belongs to.
Confirmed(t) == index[t][call[t].word.kind] = call[t].word.key

\* Past the check, a running thread still has the index it confirmed: it
\* cannot have been moved without also being sent back to the abort label.
ConfirmedInCS ==
  \A t \in Thread : Running(t) /\ InCS(t) /\ ip[t] > 2 => Confirmed(t)

=============================================================================
