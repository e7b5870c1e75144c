-------------------------------- MODULE Rseq ---------------------------------
(***************************************************************************)
(* The life of a registration: Rseq::new and bind of rseq.rs, the area of  *)
(* registration.rs with its syscalls and its destructor, and the use that  *)
(* a bound Thread makes of the area.                                       *)
(*                                                                         *)
(* A process has one of many environments: target, kernel, libc and CPUs   *)
(* are chosen in Init.  A block of CriticalSection is two steps here, its  *)
(* check and its end: what matters is whose area the kernel looks at when  *)
(* it takes the thread off its CPU in between.                             *)
(***************************************************************************)
EXTENDS Words, Cpus

CONSTANTS
  Thread,
  Environments    \* the environments a process may start in

NoThread == [area |-> "none", cid |-> FALSE]   \* bind was not called, or None
NoKey    == [kind |-> "none", id |-> 0]        \* not inside a block
Off      == [cpu |-> -1, cid |-> -1]           \* the thread is not running

\* Fault: the sentinel is the signed one of the kernel's header.
CPU_UNINIT_Signed == -1

CPU_UNINIT == U32Max

CPU_REG_FAILED == U32Max - 1

Sentinels == {CPU_UNINIT, CPU_REG_FAILED}

GLIBC_SIZE_MIN == 20

CID_FEATURE_SIZE == 28

\* cs: the target has blocks, otherwise fallback.rs is built.  kernel: the
\* rseq syscall exists.  libc: __rseq_size, 0 without symbols or registration.
\* feature: AT_RSEQ_FEATURE_SIZE, 0 without the entry.  sysfs: whether the
\* list of CPUs can be opened and read: always, never, or sometimes, as when
\* the process runs out of file descriptors.
Environment ==
  [cs : BOOLEAN, kernel : BOOLEAN, libc : Nat, feature : Nat,
   sysfs : (SUBSET Access) \ {{}},
   possible : (SUBSET (0 .. U32Max - 2)) \ {{}}]

ASSUME EnvironmentsOK ==
  /\ U32Max \in Nat /\ U32Max > 2
  /\ Environments \subseteq Environment
  /\ \A e \in Environments : e.libc # 0 => e.kernel /\ e.libc >= 20

Owner == {"slot", "glibc"}         \* the two areas of a thread
Kind  == {"cpu_id", "mm_cid"}      \* the fields of an area that serve as keys

Fields(cpu_id, mm_cid) == [k \in Kind |-> IF k = "cpu_id" THEN cpu_id ELSE mm_cid]

VARIABLES
  env,      \* the environment
  state,    \* the OnceLock STATE, with mode "unset" before init and "None"
            \* behind an init that failed
  area,     \* the fields of the areas of a thread: its SLOT and that of glibc
  kernel,   \* the area the kernel has for a thread, "none" or "other"
  slot,     \* SLOT of a thread: "fresh", "live" or "dropped"
  life,     \* "alive", "exiting" while its destructors run, or "gone"
  place,    \* where a thread runs: [cpu, cid], or Off
  handle,   \* the Thread that bind returned
  inside    \* the key of the block a thread is in, behind its check

vars == <<env, state, area, kernel, slot, life, place, handle, inside>>

Running(t) == place[t] # Off

\* A running thread that still executes its own code or its destructors.
Acts(t) == Running(t) /\ life[t] # "gone" /\ inside[t] = NoKey

-----------------------------------------------------------------------------
(* The kernel. *)

\* Fields that this kernel does not have keep the value they had.
Published(fields, where) ==
  Fields(where.cpu, IF env.feature >= CID_FEATURE_SIZE THEN where.cid ELSE fields["mm_cid"])

\* Possible CPUs have room for the concurrency ids: they are dense.
Places == [cpu : env.possible, cid : 0 .. Cardinality(env.possible) - 1]

Preempt(t) ==
  /\ Running(t)
  /\ place' = [place EXCEPT ![t] = Off]
  /\ UNCHANGED <<env, state, area, kernel, slot, life, handle, inside>>

\* The kernel publishes in the area it has, and sends the thread back to the
\* abort label of the block that this area names.
Resume(t, where) ==
  /\ ~Running(t) /\ life[t] # "gone"
  /\ \A u \in Thread :
       Running(u) => place[u].cpu # where.cpu /\ place[u].cid # where.cid
  /\ place' = [place EXCEPT ![t] = where]
  /\ IF kernel[t] \in Owner
     THEN area' = [area EXCEPT ![t][kernel[t]] = Published(@, where)]
     ELSE UNCHANGED area
  /\ IF handle[t] # NoThread /\ kernel[t] = handle[t].area
     THEN inside' = [inside EXCEPT ![t] = NoKey]
     ELSE UNCHANGED inside
  /\ UNCHANGED <<env, state, kernel, slot, life, handle>>

\* Another library registers an area of its own for this thread.
OtherRegisters(t) ==
  /\ Acts(t) /\ env.kernel /\ kernel[t] = "none"
  /\ kernel' = [kernel EXCEPT ![t] = "other"]
  /\ UNCHANGED <<env, state, area, slot, life, place, handle, inside>>

-----------------------------------------------------------------------------
(* registration.rs, or the stubs of fallback.rs on a target without cs. *)

\* The stubs of fallback.rs know no area and no feature, and their blocks
\* only abort.
Stubs == ~env.cs

\* Fault: an area that glibc reports with the legacy size is not taken.
GlibcArea_NoLegacy == ~Stubs /\ env.libc > GLIBC_SIZE_MIN

\* glibc_area_info: whether glibc has registered an area.
GlibcArea == ~Stubs /\ env.libc >= GLIBC_SIZE_MIN

\* Fault: the feature size of node_id is taken for the one of mm_cid.
CidSupported_NodeSize == ~Stubs /\ env.feature >= 24

CidSupported == ~Stubs /\ env.feature >= CID_FEATURE_SIZE

\* Fault: an area that is registered is registered again.
NeedsSyscall_Always(t) == TRUE

\* Registration::bind returns an area: it is registered already, or the
\* syscall succeeds, which it does only for the first area of a thread.
NeedsSyscall(t) == area[t]["slot"]["cpu_id"] \in Sentinels

CanBind(t) ==
  /\ ~Stubs /\ slot[t] # "dropped"
  /\ NeedsSyscall(t) => env.kernel /\ kernel[t] = "none"

\* What Registration::bind does to the thread, whether or not it succeeds.
\* On its way back from the syscall the kernel publishes.
BindSlot(t) ==
  /\ slot' = IF ~Stubs /\ slot[t] = "fresh"
             THEN [slot EXCEPT ![t] = "live"] ELSE slot
  /\ IF CanBind(t) /\ NeedsSyscall(t)
     THEN /\ kernel' = [kernel EXCEPT ![t] = "slot"]
          /\ area' = [area EXCEPT ![t]["slot"] = Published(@, place[t])]
     ELSE UNCHANGED <<kernel, area>>

\* Fault: the destructor leaves the area registered.
DropSlot_LeavesArea(t) ==
  /\ Acts(t) /\ life[t] = "exiting" /\ slot[t] = "live"
  /\ slot' = [slot EXCEPT ![t] = "dropped"]
  /\ UNCHANGED <<env, state, area, kernel, life, place, handle, inside>>

\* Registration::drop, the destructor of SLOT.  The kernel refuses it for an
\* area it does not have, and resets the fields of the one it lets go.
DropSlot(t) ==
  /\ Acts(t) /\ life[t] = "exiting" /\ slot[t] = "live"
  /\ slot' = [slot EXCEPT ![t] = "dropped"]
  /\ IF kernel[t] = "slot"
     THEN /\ kernel' = [kernel EXCEPT ![t] = "none"]
          /\ area' = [area EXCEPT ![t]["slot"] = Fields(CPU_UNINIT, 0)]
     ELSE UNCHANGED <<kernel, area>>
  /\ UNCHANGED <<env, state, life, place, handle, inside>>

-----------------------------------------------------------------------------
(* rseq.rs. *)

\* Rseq::init after its choice of an area: the CPUs and the features.
Unset   == [mode |-> "unset", cpus |-> 0, cid |-> FALSE]
Refused == [mode |-> "None", cpus |-> 0, cid |-> FALSE]

State(mode, access) ==
  LET cpus == Possible(env.possible, access)
  IN IF cpus = NoCount THEN Refused
     ELSE [mode |-> mode, cpus |-> cpus, cid |-> CidSupported]

\* Rseq::new: the first caller runs init, which no other thread can overtake.
\* Whatever it finds, a list that could not be read this time included, holds
\* for good; an area that it has registered stays registered.
New(t) ==
  /\ Acts(t) /\ state.mode = "unset"
  /\ \E access \in env.sysfs :
       IF GlibcArea
       THEN state' = State("glibc", access) /\ UNCHANGED <<slot, kernel, area>>
       ELSE /\ state' = IF CanBind(t) THEN State("slot", access) ELSE Refused
            /\ BindSlot(t)
  /\ UNCHANGED <<env, life, place, handle, inside>>

\* Fault: bind does not look at cpu_id.
Bind_Unchecked(t) ==
  /\ Acts(t) /\ state.mode \notin {"unset", "None"}
  /\ IF state.mode = "glibc" THEN UNCHANGED <<slot, kernel, area>> ELSE BindSlot(t)
  /\ handle' = [handle EXCEPT ![t] =
       IF state.mode = "slot" /\ ~CanBind(t) THEN NoThread
       ELSE [area |-> state.mode, cid |-> state.cid]]
  /\ UNCHANGED <<env, state, life, place, inside>>

\* Rseq::bind.
Bind(t) ==
  /\ Acts(t) /\ state.mode \notin {"unset", "None"}
  /\ IF state.mode = "glibc" THEN UNCHANGED <<slot, kernel, area>> ELSE BindSlot(t)
  /\ handle' = [handle EXCEPT ![t] =
       IF \/ state.mode = "slot" /\ ~CanBind(t)
          \/ area'[t][state.mode]["cpu_id"] \in Sentinels
       THEN NoThread
       ELSE [area |-> state.mode, cid |-> state.cid]]
  /\ UNCHANGED <<env, state, life, place, inside>>

-----------------------------------------------------------------------------
(* thread.rs. *)

\* Fault: the sentinels make a CpuId.
CpuIds_WithSentinels == 0 .. U32Max

\* CpuId::new: the ids that are not a sentinel.
CpuIds == (0 .. U32Max) \ Sentinels

\* A caller may make any CpuId.  A Cid comes from Thread::cid of some thread.
Keys(t) ==
  [kind : {"cpu_id"}, id : CpuIds]
    \cup IF handle[t].cid
         THEN [kind : {"mm_cid"}, id : 0 .. Cardinality(env.possible) - 1] ELSE {}

\* The check of a block succeeds.
Enter(t, key) ==
  /\ area[t][handle[t].area][key.kind] = key.id
  /\ inside' = [inside EXCEPT ![t] = key]
  /\ UNCHANGED <<env, state, area, kernel, slot, life, place, handle>>

Operate(t) == Acts(t) /\ handle[t] # NoThread /\ \E key \in Keys(t) : Enter(t, key)

\* The block commits or misses.
Leave(t) ==
  /\ Running(t) /\ inside[t] # NoKey
  /\ inside' = [inside EXCEPT ![t] = NoKey]
  /\ UNCHANGED <<env, state, area, kernel, slot, life, place, handle>>

\* The closure of the thread returns; then its destructors run, those of the
\* clients before and behind the one of SLOT.
StartExit(t) ==
  /\ Acts(t) /\ life[t] = "alive"
  /\ life' = [life EXCEPT ![t] = "exiting"]
  /\ UNCHANGED <<env, state, area, kernel, slot, place, handle, inside>>

EndExit(t) ==
  /\ Acts(t) /\ life[t] = "exiting" /\ slot[t] # "live"
  /\ life' = [life EXCEPT ![t] = "gone"]
  /\ place' = [place EXCEPT ![t] = Off]
  /\ UNCHANGED <<env, state, area, kernel, slot, handle, inside>>

-----------------------------------------------------------------------------
\* Registration::new, and what glibc did before the threads run: it has
\* registered its area, or marked it as failed.
Init ==
  /\ env \in Environments
  /\ kernel \in [Thread -> IF env.libc = 0 THEN {"none"} ELSE {"none", "glibc"}]
  /\ area = [t \in Thread |->
               [o \in Owner |-> IF o = "glibc" /\ kernel[t] = "none"
                                THEN Fields(CPU_REG_FAILED, 0) ELSE Fields(CPU_UNINIT, 0)]]
  /\ state = Unset
  /\ slot = [t \in Thread |-> "fresh"]
  /\ life = [t \in Thread |-> "alive"]
  /\ place = [t \in Thread |-> Off]
  /\ handle = [t \in Thread |-> NoThread]
  /\ inside = [t \in Thread |-> NoKey]

Next ==
  \E t \in Thread :
    \/ Preempt(t) \/ (\E where \in Places : Resume(t, where)) \/ OtherRegisters(t)
    \/ New(t) \/ Bind(t) \/ Operate(t) \/ Leave(t)
    \/ StartExit(t) \/ DropSlot(t) \/ EndExit(t)

Spec == Init /\ [][Next]_vars

=============================================================================
