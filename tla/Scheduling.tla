----------------------------- MODULE Scheduling ------------------------------
(***************************************************************************)
(* The retry loops of the benches under a scheduler that gives every       *)
(* thread time slices.                                                     *)
(*                                                                         *)
(* An operation makes one attempt: nothing in its block loops, but each    *)
(* return of the kernel to a critical section starts it again.  A block    *)
(* therefore ends only if the kernel leaves the thread alone for as many   *)
(* instructions as it takes; a loop around it, only if the thread is left  *)
(* alone from reading its CPU to the commit.  Quantum is the number of     *)
(* steps the kernel always lets a thread do; on Linux it is several orders *)
(* of magnitude longer than a block.                                       *)
(***************************************************************************)
EXTENDS Clients

CONSTANTS
  Quantum,
  Base,      \* address of the first word
  LoopOf     \* the loop that a thread calls: "add" or "cas"

ASSUME QuantumOK == Quantum \in Nat

VARIABLE slice   \* steps a thread has done since the kernel returned to it

schedvars == <<vars, clientvars, slice>>

LeaveAlone(t) == slice[t] < Quantum
NewSlice(t)   == slice' = [slice EXCEPT ![t] = 0]
Tick(t)       == slice' = [slice EXCEPT ![t] = IF LeaveAlone(t) THEN @ + 1 ELSE @]

-----------------------------------------------------------------------------
(* add and cas, the loops of counter.rs, drain.rs, freelist.rs, cached.rs. *)

\* add(.., 0), as pop_rseq reads its head, or cas.
Operation(t) ==
  LET word == WordOf(Base, "cpu_id", picked[t])
  IN IF task[t] = "add" THEN fetch_add(word, 0) ELSE compare_exchange(word, 0, 1)

\* Its caller calls add or cas.
Begin(t) ==
  /\ Acts(t) /\ task[t] = "none"
  /\ task' = [task EXCEPT ![t] = LoopOf[t]]
  /\ UNCHANGED <<vars, at, picked>>

Attempt(t) ==
  /\ task[t] # "none"
  /\ Pick(t, "cpu_id") \/ Issue(t, Operation(t))

Done(t) == ret[t].status = "Ok" \/ (task[t] = "cas" /\ ret[t].status = "Miss")

LoopEnds(t) == Returned(t) /\ Done(t) /\ Turn(t, "none")

\* Fault: the same word is tried again.
LoopAgain_SameWord(t) ==
  /\ Returned(t) /\ ~Done(t)
  /\ at' = [at EXCEPT ![t] = "call"]
  /\ UNCHANGED <<vars, task, picked>>

\* Error::Abort: the next attempt picks a new word.
LoopAgain(t) == Returned(t) /\ ~Done(t) /\ Turn(t, task[t])

-----------------------------------------------------------------------------
(* The scheduler. *)

Kernelspace(t) == NewSlice(t) /\ UNCHANGED clientvars

SchedPreempt(t)   == ~LeaveAlone(t) /\ Preempt(t) /\ Kernelspace(t)
SchedInterrupt(t) == ~LeaveAlone(t) /\ Interrupt(t) /\ Kernelspace(t)
\* No loop reads the concurrency id: it follows the CPU.
SchedResume(t)    == (\E c \in CPU : Resume(t, c, c)) /\ Kernelspace(t)

SchedStep(t) ==
  /\ \/ Attempt(t) \/ LoopEnds(t) \/ LoopAgain(t)
     \/ Instruction(t) /\ UNCHANGED clientvars
  /\ Tick(t)

SchedInit == ClientInit("none") /\ slice = [t \in Thread |-> 0]

SchedNext ==
  \E t \in Thread :
    \/ SchedPreempt(t) \/ SchedInterrupt(t) \/ SchedResume(t) \/ SchedStep(t)
    \/ Begin(t) /\ Tick(t)

\* A running thread executes its next step.  A thread that keeps running is
\* preempted, and a thread that keeps waiting gets a CPU.  Nobody has to
\* begin a loop.
SchedFairness ==
  \A t \in Thread :
    /\ WF_schedvars(SchedStep(t))
    /\ SF_schedvars(SchedPreempt(t))
    /\ SF_schedvars(SchedResume(t))

SchedSpec == SchedInit /\ [][SchedNext]_schedvars /\ SchedFairness

-----------------------------------------------------------------------------
\* thread.rs: one attempt per call.  Every call returns, however often its
\* thread is preempted, moved and interrupted: with a stale key it aborts
\* instead of trying again.
EveryCallReturns == \A t \in Thread : Busy(t) ~> ~Busy(t)

\* Error::Abort: re-read the index and pick a new word.  A loop that does so
\* ends, though the scheduler may move the thread behind every pick and
\* restart every block: an abort is never the lasting answer.
EveryLoopReturns == \A t \in Thread : task[t] # "none" ~> task[t] = "none"

=============================================================================
