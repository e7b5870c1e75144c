------------------------------ MODULE Membarrier ------------------------------
(***************************************************************************)
(* membarrier.rs: the expedited rseq membarrier behind Rseq::fence and     *)
(* fence_all, with its registration on first use, the OnceLock READY, the  *)
(* flag USED, and the retry after fork.                                    *)
(*                                                                         *)
(* A process has its own copy of READY and USED and its own registration   *)
(* in the kernel.  fork copies the statics, not the registration (this is  *)
(* what the comment on run says of the kernel), and only the forking       *)
(* thread lives on in the child.                                           *)
(***************************************************************************)
EXTENDS Naturals

CONSTANTS Process, Root, Thread, Main

ASSUME ProcessOK == Root \in Process /\ Main \in Thread

VARIABLES
  supported,   \* the kernel has the command: constant in a behaviour
  ready,       \* READY of a process: "unset", "busy", "true", "false"
  used,        \* USED of a process
  registered,  \* the kernel has registered the process
  registers,   \* how often the process registered with success, a history
  pc,          \* where a thread of a process is in run; "absent" if not there
  ret          \* what its last fence returned: "none", "true", "false"

vars == <<supported, ready, used, registered, registers, pc, ret>>

Alive(p) == \E t \in Thread : pc[p][t] # "absent"
Goto(p, t, place) == pc' = [pc EXCEPT ![p][t] = place]

\* run returns.
Finish(p, t, result) ==
  /\ Goto(p, t, "idle")
  /\ ret' = [ret EXCEPT ![p][t] = IF result THEN "true" ELSE "false"]

\* The register syscall, which fails only without kernel support.
Register(p) ==
  /\ registered' = [registered EXCEPT ![p] = @ \/ supported]
  /\ registers' = [registers EXCEPT ![p] = IF supported /\ @ < 2 THEN @ + 1 ELSE @]

\* Fault: READY is published before the kernel was asked.
Fence_PublishesEarly(p, t) ==
  /\ pc[p][t] = "idle"
  /\ \/ /\ ready[p] = "unset"
        /\ ready' = [ready EXCEPT ![p] = "true"]
        /\ Goto(p, t, "init")
        /\ ret' = [ret EXCEPT ![p][t] = "none"]
     \/ /\ ready[p] = "busy"
        /\ Goto(p, t, "wait")
        /\ ret' = [ret EXCEPT ![p][t] = "none"]
        /\ UNCHANGED ready
     \/ /\ ready[p] = "true"
        /\ Goto(p, t, "call")
        /\ ret' = [ret EXCEPT ![p][t] = "none"]
        /\ UNCHANGED ready
     \/ /\ ready[p] = "false"
        /\ Finish(p, t, FALSE)
        /\ UNCHANGED ready
  /\ UNCHANGED <<supported, used, registered, registers>>

\* Fault: the first fence does not keep others from registering too.
Fence_EveryoneRegisters(p, t) ==
  /\ pc[p][t] = "idle"
  /\ \/ /\ ready[p] = "unset"
        /\ UNCHANGED ready
        /\ Goto(p, t, "init")
        /\ ret' = [ret EXCEPT ![p][t] = "none"]
     \/ /\ ready[p] = "busy"
        /\ Goto(p, t, "wait")
        /\ ret' = [ret EXCEPT ![p][t] = "none"]
        /\ UNCHANGED ready
     \/ /\ ready[p] = "true"
        /\ Goto(p, t, "call")
        /\ ret' = [ret EXCEPT ![p][t] = "none"]
        /\ UNCHANGED ready
     \/ /\ ready[p] = "false"
        /\ Finish(p, t, FALSE)
        /\ UNCHANGED ready
  /\ UNCHANGED <<supported, used, registered, registers>>

\* run is called, and ready() looks at READY.  The first caller initialises
\* it, later ones wait until that is done.
Fence(p, t) ==
  /\ pc[p][t] = "idle"
  /\ \/ /\ ready[p] = "unset"
        /\ ready' = [ready EXCEPT ![p] = "busy"]
        /\ Goto(p, t, "init")
        /\ ret' = [ret EXCEPT ![p][t] = "none"]
     \/ /\ ready[p] = "busy"
        /\ Goto(p, t, "wait")
        /\ ret' = [ret EXCEPT ![p][t] = "none"]
        /\ UNCHANGED ready
     \/ /\ ready[p] = "true"
        /\ Goto(p, t, "call")
        /\ ret' = [ret EXCEPT ![p][t] = "none"]
        /\ UNCHANGED ready
     \/ /\ ready[p] = "false"
        /\ Finish(p, t, FALSE)
        /\ UNCHANGED ready
  /\ UNCHANGED <<supported, used, registered, registers>>

\* READY.get_or_init runs register; its result is published afterwards.
InitRegister(p, t) ==
  /\ pc[p][t] = "init"
  /\ Register(p)
  /\ Goto(p, t, "publish")
  /\ UNCHANGED <<supported, ready, used, ret>>

\* Fault: a failed registration leaves READY busy.
InitPublish_KeepsBusy(p, t) ==
  /\ pc[p][t] = "publish"
  /\ ready' = [ready EXCEPT ![p] = IF supported THEN "true" ELSE @]
  /\ IF supported
     THEN Goto(p, t, "call") /\ UNCHANGED ret
     ELSE Finish(p, t, FALSE)
  /\ UNCHANGED <<supported, used, registered, registers>>

InitPublish(p, t) ==
  /\ pc[p][t] = "publish"
  /\ ready' = [ready EXCEPT ![p] = IF supported THEN "true" ELSE "false"]
  /\ IF supported
     THEN Goto(p, t, "call") /\ UNCHANGED ret
     ELSE Finish(p, t, FALSE)
  /\ UNCHANGED <<supported, used, registered, registers>>

\* A thread that waited for READY goes on with its value.
Wait(p, t) ==
  /\ pc[p][t] = "wait" /\ ready[p] \in {"true", "false"}
  /\ IF ready[p] = "true"
     THEN Goto(p, t, "call") /\ UNCHANGED ret
     ELSE Finish(p, t, FALSE)
  /\ UNCHANGED <<supported, ready, used, registered, registers>>

\* The first membarrier syscall: EPERM without registration.
CallKernel(p, t) ==
  /\ pc[p][t] = "call"
  /\ Goto(p, t, IF registered[p] THEN "mark" ELSE "swap")
  /\ UNCHANGED <<supported, ready, used, registered, registers, ret>>

MarkUsed(p, t) ==
  /\ pc[p][t] = "mark"
  /\ used' = [used EXCEPT ![p] = TRUE]
  /\ Finish(p, t, TRUE)
  /\ UNCHANGED <<supported, ready, registered, registers>>

\* Fault: the test of USED is inverted.
SwapUsed_Inverted(p, t) ==
  /\ pc[p][t] = "swap"
  /\ used' = [used EXCEPT ![p] = FALSE]
  /\ IF ~used[p]
     THEN Goto(p, t, "again") /\ UNCHANGED ret
     ELSE Finish(p, t, FALSE)
  /\ UNCHANGED <<supported, ready, registered, registers>>

\* USED.swap(false): without a fence before, EPERM is final.
SwapUsed(p, t) ==
  /\ pc[p][t] = "swap"
  /\ used' = [used EXCEPT ![p] = FALSE]
  /\ IF used[p]
     THEN Goto(p, t, "again") /\ UNCHANGED ret
     ELSE Finish(p, t, FALSE)
  /\ UNCHANGED <<supported, ready, registered, registers>>

RegisterAgain(p, t) ==
  /\ pc[p][t] = "again"
  /\ Register(p)
  /\ IF supported
     THEN Goto(p, t, "retry") /\ UNCHANGED ret
     ELSE Finish(p, t, FALSE)
  /\ UNCHANGED <<supported, ready, used>>

\* The second syscall decides; its success does not set USED.
Retry(p, t) ==
  /\ pc[p][t] = "retry"
  /\ Finish(p, t, registered[p])
  /\ UNCHANGED <<supported, ready, used, registered, registers>>

Step(p, t) ==
  \/ InitRegister(p, t) \/ InitPublish(p, t) \/ Wait(p, t) \/ CallKernel(p, t)
  \/ MarkUsed(p, t) \/ SwapUsed(p, t) \/ RegisterAgain(p, t) \/ Retry(p, t)

\* fork by a thread outside run: the other threads may be anywhere in it.
Fork(p, t, q) ==
  /\ pc[p][t] = "idle" /\ ~Alive(q)
  /\ pc' = [pc EXCEPT ![q][t] = "idle"]
  /\ ready' = [ready EXCEPT ![q] = ready[p]]
  /\ used' = [used EXCEPT ![q] = used[p]]
  /\ UNCHANGED <<supported, registered, registers, ret>>

Spawn(p, t) ==
  /\ Alive(p) /\ pc[p][t] = "absent"
  /\ Goto(p, t, "idle")
  /\ UNCHANGED <<supported, ready, used, registered, registers, ret>>

Init ==
  /\ supported \in BOOLEAN
  /\ ready = [p \in Process |-> "unset"]
  /\ used = [p \in Process |-> FALSE]
  /\ registered = [p \in Process |-> FALSE]
  /\ registers = [p \in Process |-> 0]
  /\ pc = [p \in Process |-> [t \in Thread |->
             IF p = Root /\ t = Main THEN "idle" ELSE "absent"]]
  /\ ret = [p \in Process |-> [t \in Thread |-> "none"]]

Next ==
  \E p \in Process, t \in Thread :
    \/ Fence(p, t) \/ Step(p, t) \/ Spawn(p, t)
    \/ \E q \in Process : Fork(p, t, q)

Fairness == \A p \in Process, t \in Thread : WF_vars(Step(p, t))

Spec == Init /\ [][Next]_vars /\ Fairness

-----------------------------------------------------------------------------
TypeOK ==
  /\ supported \in BOOLEAN
  /\ ready \in [Process -> {"unset", "busy", "true", "false"}]
  /\ used \in [Process -> BOOLEAN]
  /\ registered \in [Process -> BOOLEAN]
  /\ registers \in [Process -> 0 .. 2]
  /\ pc \in [Process -> [Thread ->
       {"absent", "idle", "init", "publish", "wait", "call", "mark", "swap",
        "again", "retry"}]]
  /\ ret \in [Process -> [Thread -> {"none", "true", "false"}]]

\* In the process that no fork created, threads may race for their first
\* fence: with kernel support none of them is refused.
RootNeverRefused ==
  supported => \A t \in Thread : ret[Root][t] # "false"

\* The process that no fork created registers once, however many threads
\* make the first fence: READY lets one of them register, and none of them
\* reaches the kernel before that is done.
RootRegistersOnce == registers[Root] <= 1

\* A fork while another thread initialises READY leaves the child a lock
\* that nobody will ever release.
Orphaned(p) == ready[p] = "busy" /\ \A t \in Thread : pc[p][t] \notin {"init", "publish"}

\* Every fence returns, except behind an orphaned READY.
EveryFenceReturns ==
  \A p \in Process, t \in Thread :
    pc[p][t] \notin {"idle", "absent"} /\ ~Orphaned(p) ~> pc[p][t] = "idle"

\* membarrier.rs and the README: after a fork, the EPERM of the child is
\* answered by registering again, so with kernel support and one thread no
\* fence is refused.
ForkedFenceRetried ==
  supported => \A p \in Process, t \in Thread : ret[p][t] # "false"

=============================================================================
