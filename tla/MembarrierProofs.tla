--------------------------- MODULE MembarrierProofs ---------------------------
(***************************************************************************)
(* For any number of processes, of threads in them, and of forks of forks: *)
(* in the process that no fork created, no fence is refused for want of a  *)
(* registration, and in a process forked by one that had fenced, a fence   *)
(* is refused only beside the thread that took the retry.                  *)
(***************************************************************************)
EXTENDS MembarrierFork, TLAPS

\* The thread that READY let initialise it.
Initialises(t) == pc[Root][t] \in {"init", "publish"}

\* A thread of Root is only behind READY when READY is published, and never
\* where the kernel answered EPERM.
Behind(t) ==
  /\ pc[Root][t] \notin {"swap", "again", "retry"}
  /\ pc[Root][t] = "call" => ready[Root] = "true"
  /\ ret[Root][t] = "false" => ~supported

\* READY of Root, its registration, and the threads in between.
Published ==
  /\ pc[Root][Main] # "absent"
  /\ \A t \in Thread : Behind(t)
  /\ \A t \in Thread : Initialises(t) => ready[Root] = "busy"
  /\ \A t, u \in Thread : Initialises(t) /\ Initialises(u) => t = u
  /\ \A t \in Thread : pc[Root][t] = "init" => registers[Root] = 0
  /\ \A t \in Thread : pc[Root][t] = "publish" /\ supported => registered[Root]
  /\ ready[Root] = "unset" => registers[Root] = 0
  /\ ready[Root] = "true" => supported /\ registered[Root]
  /\ ready[Root] = "false" => ~supported
  /\ registers[Root] <= 1

IInv == TypeOK /\ Published

-----------------------------------------------------------------------------
LEMMA IInvInit == Init => IInv
BY ProcessOK DEF Init, IInv, TypeOK, Published, Behind, Initialises

Places == {"absent", "idle", "init", "publish", "wait", "call", "mark", "swap",
           "again", "retry"}

LEMMA GotoType ==
  ASSUME TypeOK, NEW p \in Process, NEW t \in Thread, NEW place \in Places, Goto(p, t, place)
  PROVE  pc' \in [Process -> [Thread -> Places]]
BY DEF TypeOK, Goto, Places

LEMMA FinishType ==
  ASSUME TypeOK, NEW p \in Process, NEW t \in Thread, NEW result, Finish(p, t, result)
  PROVE  /\ pc' \in [Process -> [Thread -> Places]]
         /\ ret' \in [Process -> [Thread -> {"none", "true", "false"}]]
<1>1. pc' \in [Process -> [Thread -> Places]]
  BY GotoType DEF Finish, Places
<1>2. PICK r \in {"true", "false"} : ret' = [ret EXCEPT ![p][t] = r]
  BY DEF Finish
<1> QED
  BY <1>1, <1>2 DEF TypeOK

\* A fence that is not refused at once goes somewhere and has no result yet.
LEMMA FenceGoes ==
  ASSUME TypeOK, NEW p \in Process, NEW t \in Thread, Fence(p, t), ready[p] # "false"
  PROVE  /\ \/ Goto(p, t, "init") /\ ready[p] = "unset"
               /\ ready' = [ready EXCEPT ![p] = "busy"]
            \/ Goto(p, t, "wait") /\ UNCHANGED ready
            \/ Goto(p, t, "call") /\ UNCHANGED ready /\ ready[p] = "true"
         /\ ret' = [ret EXCEPT ![p][t] = "none"]
         /\ UNCHANGED <<supported, used, registered, registers>>
BY DEF Fence

LEMMA NoResultYet ==
  ASSUME TypeOK, NEW p \in Process, NEW t \in Thread, ret' = [ret EXCEPT ![p][t] = "none"]
  PROVE  /\ ret' \in [Process -> [Thread -> {"none", "true", "false"}]]
         /\ ret'[p][t] = "none"
         /\ \A u \in Thread : u # t => ret'[p][u] = ret[p][u]
         /\ \A q \in Process : q # p => ret'[q] = ret[q]
BY DEF TypeOK

LEMMA RegisterType ==
  ASSUME TypeOK, NEW p \in Process, Register(p)
  PROVE  registered' \in [Process -> BOOLEAN] /\ registers' \in [Process -> 0 .. 2]
<1>1. registers[p] < 2 => registers[p] + 1 \in 0 .. 2
  <2>1. registers[p] \in 0 .. 2
    BY DEF TypeOK
  <2>2. QED
    BY <2>1
<1>2. (registered[p] \/ supported) \in BOOLEAN
  OBVIOUS
<1>3. registers' \in [Process -> 0 .. 2]
  BY <1>1 DEF TypeOK, Register
<1>4. registered' \in [Process -> BOOLEAN]
  BY <1>2, Zenon DEF TypeOK, Register
<1> QED
  BY <1>3, <1>4

\* Where Goto and Finish take a thread, and whom they leave alone.
LEMMA Going ==
  ASSUME TypeOK, NEW p \in Process, NEW t \in Thread, NEW place, Goto(p, t, place)
  PROVE  /\ pc'[p][t] = place
         /\ \A u \in Thread : u # t => pc'[p][u] = pc[p][u]
         /\ \A q \in Process : q # p => pc'[q] = pc[q]
BY DEF TypeOK, Goto

LEMMA Finishing ==
  ASSUME TypeOK, NEW p \in Process, NEW t \in Thread, NEW result, Finish(p, t, result)
  PROVE  /\ pc'[p][t] = "idle"
         /\ \A u \in Thread : u # t => pc'[p][u] = pc[p][u] /\ ret'[p][u] = ret[p][u]
         /\ \A q \in Process : q # p => pc'[q] = pc[q] /\ ret'[q] = ret[q]
         /\ ret'[p][t] = "false" => ~result
<1>1. ret'[p][t] = IF result THEN "true" ELSE "false"
  BY DEF TypeOK, Finish
<1> QED
  BY <1>1, Going DEF TypeOK, Finish

\* What all threads do in other processes leaves Root as it is.
Elsewhere ==
  /\ UNCHANGED supported
  /\ ready'[Root] = ready[Root] /\ registered'[Root] = registered[Root]
  /\ registers'[Root] = registers[Root]
  /\ pc'[Root] = pc[Root] /\ ret'[Root] = ret[Root]

LEMMA ElsewhereKeeps == Published /\ Elsewhere => Published'
BY DEF Published, Elsewhere, Behind, Initialises

\* A thread that is not part of the initialisation of READY goes from one
\* place to another and changes nothing else.
Passes(t) ==
  /\ UNCHANGED <<supported, ready, registered, registers>>
  /\ \A u \in Thread : u # t => pc'[Root][u] = pc[Root][u] /\ ret'[Root][u] = ret[Root][u]
  /\ pc'[Root][t] \notin {"absent", "init", "publish"}

LEMMA PassesKeeps ==
  ASSUME IInv, NEW t \in Thread, Passes(t), Behind(t)'
  PROVE  Published'
<1>1. \A u \in Thread : Initialises(u)' => Initialises(u) /\ u # t
  BY DEF Passes, Initialises
<1>2. \A u \in Thread : Behind(u)'
  BY DEF Passes, Behind, IInv, Published
<1> QED
  BY <1>1, <1>2, ProcessOK DEF Passes, IInv, Published, Initialises

-----------------------------------------------------------------------------
\* Types are kept by every step.
LEMMA TypeStep == TypeOK /\ [Next]_vars => TypeOK'
<1> SUFFICES ASSUME TypeOK, [Next]_vars PROVE TypeOK'
  OBVIOUS
<1>1. CASE UNCHANGED vars
  BY <1>1 DEF TypeOK, vars
<1>2. ASSUME NEW p \in Process, NEW t \in Thread, Fence(p, t) PROVE TypeOK'
  <2>1. CASE ready[p] = "false"
    BY <1>2, <2>1, FinishType DEF Fence, TypeOK, Places
  <2>2. CASE ready[p] # "false"
    <3>1. pc' \in [Process -> [Thread -> Places]]
      BY <1>2, <2>2, FenceGoes, GotoType DEF Places
    <3> QED
      BY <1>2, <2>2, <3>1, FenceGoes, NoResultYet DEF TypeOK, Places
  <2> QED
    BY <2>1, <2>2
<1>3. ASSUME NEW p \in Process, NEW t \in Thread, Step(p, t) PROVE TypeOK'
  <2>1. CASE InitRegister(p, t)
    BY <2>1, GotoType, RegisterType DEF InitRegister, TypeOK, Places
  <2>2. CASE InitPublish(p, t)
    BY <2>2, GotoType, FinishType DEF InitPublish, TypeOK, Places
  <2>3. CASE Wait(p, t)
    BY <2>3, GotoType, FinishType DEF Wait, TypeOK, Places
  <2>4. CASE CallKernel(p, t)
    BY <2>4 DEF CallKernel, TypeOK, Goto
  <2>5. CASE MarkUsed(p, t)
    BY <2>5, GotoType, FinishType DEF MarkUsed, TypeOK, Places
  <2>6. CASE SwapUsed(p, t)
    BY <2>6, GotoType, FinishType DEF SwapUsed, TypeOK, Places
  <2>7. CASE RegisterAgain(p, t)
    BY <2>7, GotoType, FinishType, RegisterType DEF RegisterAgain, TypeOK, Places
  <2>8. CASE Retry(p, t)
    BY <2>8, GotoType, FinishType DEF Retry, TypeOK, Places
  <2> QED
    BY <1>3, <2>1, <2>2, <2>3, <2>4, <2>5, <2>6, <2>7, <2>8 DEF Step
<1>4. ASSUME NEW p \in Process, NEW t \in Thread, Spawn(p, t) PROVE TypeOK'
  BY <1>4 DEF Spawn, TypeOK, Goto
<1>5. ASSUME NEW p \in Process, NEW t \in Thread, NEW q \in Process, Fork(p, t, q)
      PROVE  TypeOK'
  BY <1>5 DEF Fork, TypeOK
<1> QED
  BY <1>1, <1>2, <1>3, <1>4, <1>5 DEF Next

-----------------------------------------------------------------------------
\* The steps of a thread of Root.
LEMMA RootFence ==
  ASSUME IInv, NEW t \in Thread, Fence(Root, t)
  PROVE  Published'
<1> USE ProcessOK
<1>1. CASE ready[Root] = "unset"
  <2>1. /\ pc' = [pc EXCEPT ![Root][t] = "init"]
        /\ ready' = [ready EXCEPT ![Root] = "busy"]
        /\ ret' = [ret EXCEPT ![Root][t] = "none"]
        /\ UNCHANGED <<supported, registered, registers>>
    BY <1>1 DEF Fence, Goto
  <2> QED
    BY <1>1, <2>1 DEF IInv, TypeOK, Published, Behind, Initialises
<1>2. CASE ready[Root] # "unset"
  <2>1. Passes(t)
    <3>1. CASE ready[Root] = "false"
      BY <1>2, <3>1, Finishing DEF Fence, Passes, IInv
    <3>2. CASE ready[Root] # "false"
      BY <1>2, <3>2, FenceGoes, NoResultYet, Going DEF Passes, IInv
    <3> QED
      BY <3>1, <3>2
  <2>2. Behind(t)'
    <3>1. CASE ready[Root] = "false"
      BY <1>2, <3>1, Finishing DEF Fence, Behind, IInv, Published
    <3>2. CASE ready[Root] # "false"
      BY <1>2, <3>2, FenceGoes, NoResultYet, Going DEF Behind, IInv
    <3> QED
      BY <3>1, <3>2
  <2> QED
    BY <2>1, <2>2, PassesKeeps
<1> QED
  BY <1>1, <1>2

LEMMA RootStep ==
  ASSUME IInv, NEW t \in Thread, Step(Root, t)
  PROVE  Published'
<1> USE ProcessOK
<1>1. CASE InitRegister(Root, t)
  <2>1. pc[Root][t] = "init" /\ pc'[Root][t] = "publish"
        /\ \A u \in Thread : u # t => pc'[Root][u] = pc[Root][u]
    BY <1>1, Going DEF InitRegister, IInv
  <2>2. registers[Root] = 0 /\ registers'[Root] \in {0, 1}
    BY <1>1 DEF InitRegister, Register, IInv, TypeOK, Published
  <2>3. supported => registered'[Root]
    BY <1>1 DEF InitRegister, Register, IInv, TypeOK
  <2> QED
    <3>1. UNCHANGED <<supported, ready, ret>> /\ ready[Root] = "busy"
      BY <1>1, <2>1 DEF InitRegister, IInv, Published, Initialises
    <3>2. \A u \in Thread : Initialises(u)' <=> Initialises(u)
      BY <2>1 DEF Initialises
    <3>3. \A u \in Thread : u # t => ~Initialises(u)
      BY <2>1 DEF IInv, Published, Initialises
    <3>4. \A u \in Thread : Behind(u)'
      BY <2>1, <3>1 DEF IInv, Published, Behind
    <3>5. \A u \in Thread :
            /\ pc'[Root][u] = "init" => registers'[Root] = 0
            /\ pc'[Root][u] = "publish" /\ supported' => registered'[Root]
      BY <2>1, <2>3, <3>1, <3>2, <3>3 DEF Initialises
    <3> QED
      BY <2>1, <2>2, <3>1, <3>2, <3>3, <3>4, <3>5 DEF IInv, Published
<1>2. CASE InitPublish(Root, t)
  BY <1>2 DEF InitPublish, Finish, Goto, IInv, TypeOK, Published, Behind, Initialises
<1>3. ASSUME Wait(Root, t) \/ CallKernel(Root, t) \/ MarkUsed(Root, t)
      PROVE  Published'
  <2>1. Passes(t)
    <3>1. CASE Wait(Root, t)
      <4>1. CASE ready[Root] = "true"
        BY <3>1, <4>1, Going DEF Wait, Passes, IInv
      <4>2. CASE ready[Root] # "true"
        BY <3>1, <4>2, Finishing DEF Wait, Passes, IInv
      <4> QED
        BY <4>1, <4>2
    <3>2. CASE CallKernel(Root, t)
      BY <3>2, Going DEF CallKernel, Passes, IInv
    <3>3. CASE MarkUsed(Root, t)
      BY <3>3, Finishing DEF MarkUsed, Passes, IInv
    <3> QED
      BY <1>3, <3>1, <3>2, <3>3
  <2>2. Behind(t)'
    <3>1. CASE Wait(Root, t)
      <4>1. CASE ready[Root] = "true"
        BY <3>1, <4>1, Going DEF Wait, Behind, IInv, Published
      <4>2. CASE ready[Root] # "true"
        BY <3>1, <4>2, Finishing DEF Wait, Behind, IInv, Published
      <4> QED
        BY <4>1, <4>2
    <3>2. CASE CallKernel(Root, t)
      BY <3>2, Going DEF CallKernel, Behind, IInv, Published
    <3>3. CASE MarkUsed(Root, t)
      BY <3>3, Finishing DEF MarkUsed, Behind, IInv, Published
    <3> QED
      BY <1>3, <3>1, <3>2, <3>3
  <2> QED
    BY <2>1, <2>2, PassesKeeps
<1>4. ~SwapUsed(Root, t) /\ ~RegisterAgain(Root, t) /\ ~Retry(Root, t)
  BY DEF SwapUsed, RegisterAgain, Retry, IInv, Published, Behind
<1> QED
  BY <1>1, <1>2, <1>3, <1>4 DEF Step

LEMMA PublishedStep == IInv /\ [Next]_vars => Published'
<1> SUFFICES ASSUME IInv, [Next]_vars PROVE Published'
  OBVIOUS
<1> USE ProcessOK
<1>1. CASE UNCHANGED vars
  BY <1>1, ElsewhereKeeps DEF IInv, Elsewhere, vars
<1>2. ASSUME NEW p \in Process, NEW t \in Thread, Fence(p, t) PROVE Published'
  <2>1. CASE p = Root
    BY <1>2, <2>1, RootFence
  <2>2. CASE p # Root
    <3>1. Elsewhere
      BY <1>2, <2>2 DEF Fence, Goto, Finish, Elsewhere, IInv, TypeOK
    <3> QED
      BY <3>1, ElsewhereKeeps DEF IInv
  <2> QED
    BY <2>1, <2>2
<1>3. ASSUME NEW p \in Process, NEW t \in Thread, Step(p, t) PROVE Published'
  <2>1. CASE p = Root
    BY <1>3, <2>1, RootStep
  <2>2. CASE p # Root
    <3>1. Elsewhere
      BY <1>3, <2>2 DEF Step, InitRegister, InitPublish, Wait, CallKernel, MarkUsed,
           SwapUsed, RegisterAgain, Retry, Register, Goto, Finish, Elsewhere, IInv, TypeOK
    <3> QED
      BY <3>1, ElsewhereKeeps DEF IInv
  <2> QED
    BY <2>1, <2>2
<1>4. ASSUME NEW p \in Process, NEW t \in Thread, Spawn(p, t) PROVE Published'
  <2>1. CASE p = Root
    <3>1. Passes(t)
      BY <1>4, <2>1 DEF Spawn, Goto, Passes, IInv, TypeOK
    <3>2. Behind(t)'
      BY <1>4, <2>1 DEF Spawn, Goto, Behind, IInv, TypeOK, Published
    <3> QED
      BY <3>1, <3>2, PassesKeeps
  <2>2. CASE p # Root
    <3>1. Elsewhere
      BY <1>4, <2>2 DEF Spawn, Goto, Elsewhere, IInv, TypeOK
    <3> QED
      BY <3>1, ElsewhereKeeps DEF IInv
  <2> QED
    BY <2>1, <2>2
<1>5. ASSUME NEW p \in Process, NEW t \in Thread, NEW q \in Process, Fork(p, t, q)
      PROVE  Published'
  <2>1. q # Root
    BY <1>5 DEF Fork, Alive, IInv, Published
  <2>2. Elsewhere
    BY <1>5, <2>1 DEF Fork, Elsewhere, IInv, TypeOK
  <2> QED
    BY <2>2, ElsewhereKeeps DEF IInv
<1> QED
  BY <1>1, <1>2, <1>3, <1>4, <1>5 DEF Next

LEMMA IInvAlways == Spec => []IInv
<1>1. IInv /\ [Next]_vars => IInv'
  BY TypeStep, PublishedStep DEF IInv
<1> QED
  BY <1>1, IInvInit, PTL DEF Spec

-----------------------------------------------------------------------------
\* With kernel support, no thread of the first process sees its fence
\* refused, whoever else fences, forks or starts threads meanwhile.
THEOREM RootServed == Spec => []RootNeverRefused
<1>1. IInv => RootNeverRefused
  BY DEF IInv, Published, Behind, RootNeverRefused
<1> QED
  BY <1>1, IInvAlways, PTL

\* The first process registers at most once, however many of its threads
\* race for their first fence.
THEOREM RootOnce == Spec => []RootRegistersOnce
<1>1. IInv => RootRegistersOnce
  BY DEF IInv, Published, RootRegistersOnce
<1> QED
  BY <1>1, IInvAlways, PTL

-----------------------------------------------------------------------------
(* Forked processes. *)

\* USED, and a thread at or past the syscall, mean that READY is true.
ReadyBehind(p) ==
  /\ used[p] => ready[p] = "true"
  /\ \A t \in Thread : pc[p][t] \in {"call", "mark"} => ready[p] = "true"
  /\ \A t \in Thread : pc[p][t] = "retry" => registered[p]

\* The retry that a forked process inherited is there to be taken, or taken.
RetryKept(p) ==
  inherited[p] =>
    /\ ready[p] = "true"
    /\ used[p] \/ Registering(p)
    /\ (\E t \in Thread : ret[p][t] = "false") => Registering(p)

Kept(p) ==
  /\ (\E t \in Thread : ret[p][t] # "none") => Alive(p)
  /\ supported => ReadyBehind(p) /\ RetryKept(p)

Inheritance ==
  /\ TypeOK
  /\ inherited \in [Process -> BOOLEAN]
  /\ \A p \in Process : Kept(p)

-----------------------------------------------------------------------------
LEMMA InheritanceInit == ForkInit => Inheritance
<1> SUFFICES ASSUME ForkInit PROVE Inheritance
  OBVIOUS
<1>1. TypeOK
  BY IInvInit DEF ForkInit, IInv
<1>2. inherited \in [Process -> BOOLEAN] /\ \A p \in Process : ~inherited[p]
  BY DEF ForkInit
<1>3. /\ \A p \in Process : ~used[p]
      /\ \A p \in Process, t \in Thread :
           pc[p][t] \in {"idle", "absent"} /\ ret[p][t] = "none"
  BY DEF ForkInit, Init
<1>4. ASSUME NEW p \in Process PROVE Kept(p)
  <2>1. ReadyBehind(p)
    BY <1>3 DEF ReadyBehind
  <2>2. RetryKept(p)
    BY <1>2 DEF RetryKept
  <2> QED
    BY <1>3, <2>1, <2>2 DEF Kept
<1> QED
  BY <1>1, <1>2, <1>4 DEF Inheritance

\* A step that leaves a process alone leaves it as it was.
Untouched(p) ==
  /\ UNCHANGED supported
  /\ ready'[p] = ready[p] /\ used'[p] = used[p] /\ registered'[p] = registered[p]
  /\ pc'[p] = pc[p] /\ ret'[p] = ret[p] /\ inherited'[p] = inherited[p]

LEMMA UntouchedKeeps ==
  ASSUME NEW p \in Process, Kept(p), Untouched(p)
  PROVE  Kept(p)'
BY DEF Kept, Untouched, ReadyBehind, RetryKept, Registering, Alive

\* Only fork brings a process to life, and only then is USED inherited.
LEMMA OnlyForkInherits ==
  ASSUME Inheritance, NEW p \in Process, Alive(p) \/ pc'[p] = pc[p],
         inherited' = [q \in Process |->
                         IF ~Alive(q) /\ Alive(q)' THEN used'[q] ELSE inherited[q]]
  PROVE  inherited'[p] = inherited[p]
BY DEF Alive

\* What a step of thread t of p that does not end a fence keeps in p.
LEMMA Goes ==
  ASSUME Inheritance, NEW p \in Process, NEW t \in Thread, NEW place \in Places,
         Goto(p, t, place), pc[p][t] # "absent", place # "absent",
         UNCHANGED supported, inherited'[p] = inherited[p],
         used[p] => used'[p] \/ place = "again",
         used'[p] => used[p],
         registered[p] => registered'[p],
         supported /\ ready[p] = "true" => ready'[p] = "true",
         supported /\ place \in {"call", "mark"} => ready'[p] = "true",
         supported /\ place = "retry" => registered'[p],
         supported /\ pc[p][t] = "again" => registered'[p],
         ret' = ret \/ ret' = [ret EXCEPT ![p][t] = "none"]
  PROVE  Kept(p)'
<1>1. /\ pc'[p][t] = place
      /\ \A u \in Thread : u # t => pc'[p][u] = pc[p][u]
  BY Going DEF Inheritance
<1>2. \A u \in Thread : ret'[p][u] = ret[p][u] \/ ret'[p][u] = "none"
  BY NoResultYet DEF Inheritance
<1>3. Alive(p)'
  BY <1>1 DEF Alive
<1>4. ASSUME supported PROVE Registering(p) => Registering(p)'
  BY <1>1, <1>4 DEF Registering
<1>5. place = "again" => Registering(p)'
  BY <1>1 DEF Registering
<1>6. ASSUME supported PROVE ReadyBehind(p)'
  BY <1>1, <1>6 DEF Inheritance, Kept, ReadyBehind
<1>7. ASSUME supported PROVE RetryKept(p)'
  <2>1. RetryKept(p)
    BY <1>7 DEF Inheritance, Kept
  <2> QED
    BY <1>2, <1>4, <1>5, <1>7, <2>1 DEF RetryKept
<1> QED
  BY <1>3, <1>6, <1>7 DEF Kept

\* What the return of a fence keeps: a refusal needs the retry taken.
LEMMA Returns ==
  ASSUME Inheritance, NEW p \in Process, NEW t \in Thread, NEW result,
         Finish(p, t, result), pc[p][t] \notin {"absent", "again"},
         UNCHANGED <<supported, ready, registered>>, inherited'[p] = inherited[p],
         used[p] => used'[p],
         supported /\ used'[p] => ready[p] = "true",
         supported /\ inherited[p] /\ ~result => Registering(p)
  PROVE  Kept(p)'
<1>1. /\ pc'[p][t] = "idle"
      /\ \A u \in Thread : u # t => pc'[p][u] = pc[p][u] /\ ret'[p][u] = ret[p][u]
      /\ ret'[p][t] = "false" => ~result
  BY Finishing DEF Inheritance
<1>2. Alive(p)'
  BY <1>1 DEF Alive
<1>3. Registering(p) => Registering(p)'
  BY <1>1 DEF Registering
<1>4. ASSUME supported PROVE ReadyBehind(p)'
  BY <1>1, <1>4 DEF Inheritance, Kept, ReadyBehind
<1>5. ASSUME supported PROVE RetryKept(p)'
  <2>1. RetryKept(p)
    BY <1>5 DEF Inheritance, Kept
  <2> QED
    BY <1>1, <1>3, <1>5, <2>1 DEF RetryKept
<1> QED
  BY <1>2, <1>4, <1>5 DEF Kept

-----------------------------------------------------------------------------
\* The steps of thread t of p, in its own process.
LEMMA FenceKeeps ==
  ASSUME Inheritance, NEW p \in Process, NEW t \in Thread, Fence(p, t),
         inherited'[p] = inherited[p]
  PROVE  Kept(p)'
<1>1. pc[p][t] = "idle" /\ UNCHANGED <<supported, used, registered, registers>>
  BY DEF Fence
<1>2. CASE ready[p] = "false"
  <2>1. Finish(p, t, FALSE) /\ UNCHANGED ready
    BY <1>2 DEF Fence
  <2>2. supported => ~inherited[p] /\ ~used[p]
    BY <1>2 DEF Inheritance, Kept, RetryKept, ReadyBehind
  <2> QED
    BY <1>1, <2>1, <2>2, Returns
<1>3. CASE ready[p] # "false"
  <2>1. PICK place \in {"init", "wait", "call"} :
          /\ Goto(p, t, place)
          /\ place = "call" => ready[p] = "true"
          /\ ready' = ready \/ (ready[p] = "unset" /\ place = "init")
          /\ ret' = [ret EXCEPT ![p][t] = "none"]
    BY <1>3, FenceGoes DEF Inheritance
  <2> QED
    BY <1>1, <2>1, Goes DEF Places
<1> QED
  BY <1>2, <1>3

LEMMA StepKeeps ==
  ASSUME Inheritance, NEW p \in Process, NEW t \in Thread, Step(p, t),
         inherited'[p] = inherited[p]
  PROVE  Kept(p)'
<1>1. CASE InitRegister(p, t)
  <2>1. registered[p] => registered'[p]
    BY <1>1 DEF InitRegister, Register, Inheritance, TypeOK
  <2> QED
    BY <1>1, <2>1, Goes DEF InitRegister, Places
<1>2. CASE InitPublish(p, t)
  <2>1. supported => ready'[p] = "true"
    BY <1>2 DEF InitPublish, Inheritance, TypeOK
  <2>2. CASE supported
    BY <1>2, <2>1, <2>2, Goes DEF InitPublish, Places
  <2>3. CASE ~supported
    <3>1. Alive(p)'
      BY <1>2, <2>3, Finishing DEF InitPublish, Inheritance, Alive
    <3> QED
      BY <1>2, <2>3, <3>1 DEF InitPublish, Kept
  <2> QED
    BY <2>2, <2>3
<1>3. CASE Wait(p, t)
  <2>1. CASE ready[p] = "true"
    BY <1>3, <2>1, Goes DEF Wait, Places
  <2>2. CASE ready[p] # "true"
    <3>1. supported => ~inherited[p] /\ ~used[p]
      BY <2>2 DEF Inheritance, Kept, RetryKept, ReadyBehind
    <3> QED
      BY <1>3, <2>2, <3>1, Returns DEF Wait
  <2> QED
    BY <2>1, <2>2
<1>4. CASE CallKernel(p, t)
  <2>1. PICK place \in {"mark", "swap"} : Goto(p, t, place)
    BY <1>4 DEF CallKernel
  <2>2. supported => ready[p] = "true"
    BY <1>4 DEF CallKernel, Inheritance, Kept, ReadyBehind
  <2> QED
    BY <1>4, <2>1, <2>2, Goes DEF CallKernel, Places
<1>5. CASE MarkUsed(p, t)
  <2>1. used'[p]
    BY <1>5 DEF MarkUsed, Inheritance, TypeOK
  <2>2. supported => ready[p] = "true"
    BY <1>5 DEF MarkUsed, Inheritance, Kept, ReadyBehind
  <2> QED
    BY <1>5, <2>1, <2>2, Returns DEF MarkUsed
<1>6. CASE SwapUsed(p, t)
  <2>1. ~used'[p]
    BY <1>6 DEF SwapUsed, Inheritance, TypeOK
  <2>2. CASE used[p]
    BY <1>6, <2>1, <2>2, Goes DEF SwapUsed, Places
  <2>3. CASE ~used[p]
    <3>1. supported /\ inherited[p] => Registering(p)
      BY <2>3 DEF Inheritance, Kept, RetryKept
    <3> QED
      BY <1>6, <2>1, <2>3, <3>1, Returns DEF SwapUsed
  <2> QED
    BY <2>2, <2>3
<1>7. CASE RegisterAgain(p, t)
  <2>1. supported \/ registered[p] => registered'[p]
    BY <1>7 DEF RegisterAgain, Register, Inheritance, TypeOK
  <2>2. CASE supported
    BY <1>7, <2>1, <2>2, Goes DEF RegisterAgain, Places
  <2>3. CASE ~supported
    <3>1. Alive(p)'
      BY <1>7, <2>3, Finishing DEF RegisterAgain, Inheritance, Alive
    <3> QED
      BY <1>7, <2>3, <3>1 DEF RegisterAgain, Kept
  <2> QED
    BY <2>2, <2>3
<1>8. CASE Retry(p, t)
  <2>1. supported => registered[p]
    BY <1>8 DEF Retry, Inheritance, Kept, ReadyBehind
  <2>2. supported /\ used[p] => ready[p] = "true"
    BY DEF Inheritance, Kept, ReadyBehind
  <2> QED
    BY <1>8, <2>1, <2>2, Returns DEF Retry
<1> QED
  BY <1>1, <1>2, <1>3, <1>4, <1>5, <1>6, <1>7, <1>8 DEF Step

LEMMA SpawnKeeps ==
  ASSUME Inheritance, NEW p \in Process, NEW t \in Thread, Spawn(p, t),
         inherited'[p] = inherited[p]
  PROVE  Kept(p)'
<1>1. /\ pc'[p][t] = "idle" /\ pc[p][t] = "absent"
      /\ \A u \in Thread : u # t => pc'[p][u] = pc[p][u]
  BY Going DEF Spawn, Inheritance
<1>2. Alive(p)'
  BY <1>1 DEF Alive
<1>3. Registering(p)' <=> Registering(p)
  BY <1>1 DEF Registering, Spawn
<1>4. Kept(p) /\ UNCHANGED <<supported, ready, used, registered, ret>>
  BY DEF Spawn, Inheritance
<1> QED
  BY <1>1, <1>2, <1>3, <1>4 DEF Kept, ReadyBehind, RetryKept

\* The forked process starts with its parent's READY and USED, no result,
\* and USED as what it inherited.
LEMMA ForkKeeps ==
  ASSUME Inheritance, NEW p \in Process, NEW t \in Thread, NEW q \in Process,
         Fork(p, t, q), inherited'[q] = used'[q]
  PROVE  Kept(q)'
<1>1. /\ ~Alive(q) /\ pc'[q][t] = "idle"
      /\ \A u \in Thread : u # t => pc'[q][u] = pc[q][u]
      /\ ready'[q] = ready[p] /\ used'[q] = used[p]
      /\ UNCHANGED <<supported, registered, ret>>
  BY DEF Fork, Inheritance, TypeOK
<1>2. \A u \in Thread : pc'[q][u] \in {"idle", "absent"} /\ ret'[q][u] = "none"
  BY <1>1 DEF Alive, Inheritance, Kept
<1>3. supported => (used'[q] => ready'[q] = "true")
  BY <1>1 DEF Inheritance, Kept, ReadyBehind
<1> QED
  BY <1>1, <1>2, <1>3 DEF Kept, ReadyBehind, RetryKept

-----------------------------------------------------------------------------
LEMMA InheritanceStep == Inheritance /\ [ForkNext]_forkvars => Inheritance'
<1> SUFFICES ASSUME Inheritance, [ForkNext]_forkvars PROVE Inheritance'
  OBVIOUS
<1>1. CASE UNCHANGED forkvars
  <2>1. \A p \in Process : Untouched(p)
    BY <1>1 DEF forkvars, vars, Untouched
  <2>2. TypeOK'
    BY <1>1 DEF Inheritance, TypeOK, forkvars, vars
  <2> QED
    BY <1>1, <2>1, <2>2, UntouchedKeeps DEF Inheritance, forkvars
<1>2. CASE ForkNext
  <2>1. TypeOK'
    BY <1>2, TypeStep DEF ForkNext, Inheritance
  <2>2. inherited' = [q \in Process |->
                        IF ~Alive(q) /\ Alive(q)' THEN used'[q] ELSE inherited[q]]
    BY <1>2 DEF ForkNext
  <2>3. inherited' \in [Process -> BOOLEAN]
    BY <2>1, <2>2, Zenon DEF Inheritance, TypeOK
  <2>4. ASSUME NEW p \in Process, NEW t \in Thread,
               Fence(p, t) \/ Step(p, t) \/ Spawn(p, t), NEW r \in Process
        PROVE  Kept(r)'
    <3>1. CASE r = p
      <4>1. Alive(p)
        BY <2>4 DEF Alive, Fence, Step, Spawn, InitRegister, InitPublish, Wait,
             CallKernel, MarkUsed, SwapUsed, RegisterAgain, Retry
      <4>2. inherited'[p] = inherited[p]
        BY <2>2, <4>1, OnlyForkInherits
      <4> QED
        BY <2>4, <3>1, <4>2, FenceKeeps, StepKeeps, SpawnKeeps
    <3>2. CASE r # p
      <4>1. /\ UNCHANGED supported /\ pc'[r] = pc[r] /\ ret'[r] = ret[r]
            /\ ready'[r] = ready[r] /\ used'[r] = used[r]
            /\ registered'[r] = registered[r]
        <5>1. CASE Fence(p, t)
          BY <3>2, <5>1 DEF Fence, Goto, Finish, Inheritance, TypeOK
        <5>2. CASE Step(p, t)
          BY <3>2, <5>2 DEF Step, InitRegister, InitPublish, Wait, CallKernel,
               MarkUsed, SwapUsed, RegisterAgain, Retry, Register, Goto, Finish,
               Inheritance, TypeOK
        <5>3. CASE Spawn(p, t)
          BY <3>2, <5>3 DEF Spawn, Goto, Inheritance, TypeOK
        <5> QED
          BY <2>4, <5>1, <5>2, <5>3
      <4>2. Untouched(r)
        BY <2>2, <4>1, OnlyForkInherits DEF Untouched
      <4> QED
        BY <4>2, UntouchedKeeps DEF Inheritance
    <3> QED
      BY <3>1, <3>2
  <2>5. ASSUME NEW p \in Process, NEW t \in Thread, NEW q \in Process,
               Fork(p, t, q), NEW r \in Process
        PROVE  Kept(r)'
    <3>1. CASE r = q
      <4>1. ~Alive(q) /\ Alive(q)'
        BY <2>5 DEF Fork, Alive, Inheritance, TypeOK
      <4> QED
        BY <2>2, <2>5, <3>1, <4>1, ForkKeeps
    <3>2. CASE r # q
      <4>1. /\ UNCHANGED supported /\ pc'[r] = pc[r] /\ ret'[r] = ret[r]
            /\ ready'[r] = ready[r] /\ used'[r] = used[r]
            /\ registered'[r] = registered[r]
        BY <2>5, <3>2 DEF Fork, Inheritance, TypeOK
      <4>2. Untouched(r)
        BY <2>2, <4>1, OnlyForkInherits DEF Untouched
      <4> QED
        BY <4>2, UntouchedKeeps DEF Inheritance
    <3> QED
      BY <3>1, <3>2
  <2>6. \A r \in Process : Kept(r)'
    BY <1>2, <2>4, <2>5 DEF ForkNext, Next
  <2> QED
    BY <2>1, <2>3, <2>6 DEF Inheritance
<1> QED
  BY <1>1, <1>2

\* In a process forked by one that had fenced, with kernel support, a fence
\* is refused only while or after another thread registers the process: the
\* threads that race for the inherited retry never all lose it.
THEOREM RetryNotLost == ForkSpec => []RefusedBesideARetry
<1>1. Inheritance => RefusedBesideARetry
  BY DEF Inheritance, Kept, RetryKept, RefusedBesideARetry
<1> QED
  BY <1>1, InheritanceInit, InheritanceStep, PTL DEF ForkSpec

=============================================================================
