------------------------------ MODULE RseqProofs ------------------------------
(***************************************************************************)
(* Proofs about Rseq: what holds of registrations and keys for any number  *)
(* of threads in any environment.                                          *)
(***************************************************************************)
EXTENDS RseqSafety, FiniteSetTheorems, SequenceTheorems, NumberLemmas

\* An area has an id exactly while the kernel has the area, and SLOT is in
\* the kernel's hands only between its first use and its destructor.
AreasInv(t) ==
  /\ kernel[t] = "slot" => slot[t] = "live"
  /\ life[t] = "gone" => slot[t] # "live"
  /\ (area[t]["slot"]["cpu_id"] \notin Sentinels) <=> (kernel[t] = "slot")
  /\ kernel[t] # "glibc" => area[t]["glibc"]["cpu_id"] \in Sentinels
  /\ kernel[t] \in Owner /\ Running(t) =>
       /\ area[t][kernel[t]]["cpu_id"] = place[t].cpu
       /\ env.feature >= CID_FEATURE_SIZE =>
            area[t][kernel[t]]["mm_cid"] = place[t].cid

\* A Thread is of the process's mode, and attached until SLOT is dropped.
HandleInv(t) ==
  handle[t] # NoThread =>
    /\ handle[t].area = state.mode /\ handle[t].cid = state.cid
    /\ kernel[t] = handle[t].area \/ (handle[t].area = "slot" /\ slot[t] = "dropped")

\* A running thread inside a block still has the index it confirmed.
InsideInv(t) ==
  inside[t] # NoKey =>
    /\ handle[t] # NoThread
    /\ inside[t].kind = "mm_cid" => handle[t].cid
    /\ inside[t].kind = "cpu_id" => Attached(t)
    /\ Attached(t) /\ Running(t) =>
         area[t][handle[t].area][inside[t].kind] = inside[t].id

ThreadInv(t) == AreasInv(t) /\ HandleInv(t) /\ InsideInv(t)

\* The scheduler gives every running thread a place of its own.
PlacesApart ==
  /\ \A t \in Thread : Running(t) => place[t] \in Places
  /\ \A t, u \in Thread : t # u /\ Running(t) /\ Running(u) =>
       place[t].cpu # place[u].cpu /\ place[t].cid # place[u].cid

CidInv == state.cid => env.feature >= CID_FEATURE_SIZE

\* What Rseq::new has found out, or will when a thread calls it.
Chosen ==
  /\ state.mode \in Owner =>
       state.cpus = Possible(env.possible, "read") /\ state.cpus # 0
  /\ state.mode = "unset" => \A t \in Thread : slot[t] = "fresh"
  /\ \A t \in Thread : kernel[t] = "glibc" => env.libc # 0
  /\ RefusedForAReason

IInv == TypeOK /\ CidInv /\ Chosen /\ PlacesApart /\ \A t \in Thread : ThreadInv(t)

-----------------------------------------------------------------------------
LEMMA SentinelFacts ==
  /\ CPU_UNINIT \in Sentinels /\ CPU_REG_FAILED \in Sentinels
  /\ \A n \in 0 .. U32Max - 2 : n \notin Sentinels /\ n \in 0 .. U32Max
  /\ CPU_UNINIT \in 0 .. U32Max /\ CPU_REG_FAILED \in 0 .. U32Max
  /\ 0 \in 0 .. U32Max
BY EnvironmentsOK DEF Sentinels, CPU_UNINIT, CPU_REG_FAILED

LEMMA FieldsFacts ==
  ASSUME NEW x \in 0 .. U32Max, NEW y \in 0 .. U32Max
  PROVE  /\ Fields(x, y) \in [Kind -> 0 .. U32Max]
         /\ Fields(x, y)["cpu_id"] = x
         /\ Fields(x, y)["mm_cid"] = y
BY DEF Fields, Kind

LEMMA MaxOfBounded ==
  ASSUME NEW n \in Nat, NEW S, S \subseteq 0 .. n, S # {}
  PROVE  Max(S) \in S /\ \A y \in S : Max(S) >= y
<1> DEFINE T == { n - y : y \in S }
<1>1. T \subseteq Nat /\ T # {}
  <2>1. \A y \in S : n - y \in Nat
    OBVIOUS
  <2>2. PICK y \in S : TRUE
    OBVIOUS
  <2>3. n - y \in T
    OBVIOUS
  <2> QED
    BY <2>1, <2>3
<1>2. PICK d \in T : \A e \in T : d <= e
  BY <1>1, LeastNatural
<1>3. PICK x \in S : d = n - x
  BY <1>2
<1> HIDE DEF T
<1>4. \A y \in S : x >= y
  <2> TAKE y \in S
  <2>1. n - y \in T
    BY DEF T
  <2>2. n - x <= n - y
    BY <1>2, <1>3, <2>1
  <2> QED
    BY <2>2
<1>5. \E z \in S : \A y \in S : z >= y
  BY <1>4
<1> QED
  BY <1>5, Zenon DEF Max

\* cpus.rs: the count has the width of its type, and is beyond every CPU of a
\* list that is read in full.
LEMMA CountCovers ==
  ASSUME NEW e \in Environments, NEW access \in Access
  PROVE  /\ Len(Text(e.possible)) \in Nat /\ BufLen \in Nat
         /\ Possible(e.possible, access) \in 0 .. U32Max
         /\ access # "read" => Possible(e.possible, access) = NoCount
         /\ access = "read" /\ Len(Text(e.possible)) <= BufLen =>
              \A c \in e.possible : c < Possible(e.possible, access)
<1> DEFINE S    == e.possible
           text == Text(S)
           raw  == Read(S)
           H    == Highs(raw) \cup {0}
<1>1. /\ text \in Seq({Comma, Dash} \cup 0 .. 9) /\ IsDigit(text, Len(text))
      /\ \A r \in Runs(text) : Number(text, r) \in S
      /\ \A c \in S : \E r \in Runs(text) : c <= Number(text, r) /\ Upper(text, r)
      /\ BufLen \in Nat
  BY CpuListOK, Zenon
<1>2. S \subseteq 0 .. U32Max - 2 /\ U32Max \in Nat /\ U32Max > 2
  BY EnvironmentsOK DEF Environment
<1>3. Possible(S, access) = IF access # "read" \/ ~Parses(raw) \/ Max(H) >= U32Max
                            THEN 0 ELSE Max(H) + 1
  BY Zenon DEF Possible, NoCount
<1>4. Len(text) <= BufLen => raw = text
  <2> SUFFICES ASSUME Len(text) <= BufLen PROVE raw = text
    OBVIOUS
  <2> DEFINE size == Min({Len(text), BufLen})
  <2>1. Len(text) \in Nat
    BY <1>1
  <2>2. \E x \in {Len(text), BufLen} : \A y \in {Len(text), BufLen} : x =< y
    BY <1>1, <2>1
  <2>3. size \in {Len(text), BufLen} /\ \A y \in {Len(text), BufLen} : size =< y
    BY <2>2, Zenon DEF Min
  <2>4. size = Len(text)
    BY <1>1, <2>1, <2>3
  <2>5. raw = SubSeq(text, 1, size)
    BY Zenon DEF Read
  <2> QED
    BY <1>1, <2>4, <2>5, SubSeqFull
<1> HIDE DEF text, raw
<1>5. ASSUME Parses(raw)
      PROVE  Max(H) \in 0 .. U32Max /\ Max(H) \in H /\ \A y \in H : Max(H) >= y
  <2>1. Highs(raw) \subseteq 0 .. U32Max
    BY <1>5 DEF Parses, Highs
  <2>2. H \subseteq 0 .. U32Max /\ H # {}
    BY <1>2, <2>1
  <2> HIDE DEF H
  <2>3. Max(H) \in H /\ \A y \in H : Max(H) >= y
    BY <1>2, <2>2, MaxOfBounded
  <2> QED
    BY <2>2, <2>3
<1> HIDE DEF H
<1>6. Possible(S, access) \in 0 .. U32Max /\ (access # "read" => Possible(S, access) = NoCount)
  BY <1>2, <1>3, <1>5 DEF NoCount
<1>7. ASSUME access = "read", Len(text) <= BufLen, NEW c \in S
      PROVE  c < Possible(S, access)
  <2>1. raw = text
    BY <1>4, <1>7
  <2>2. Highs(raw) \subseteq S
    BY <1>1, <2>1 DEF Highs
  <2>3. \A r \in Runs(raw) : Number(raw, r) \in 0 .. U32Max
    BY <1>1, <1>2, <2>1
  <2>4. Parses(raw)
    BY <1>1, <2>1, <2>3 DEF Parses
  <2>5. Max(H) \in 0 .. U32Max - 2
    BY <1>2, <1>5, <2>2, <2>4 DEF H
  <2>6. PICK r \in Runs(raw) : c <= Number(raw, r) /\ Upper(raw, r)
    BY <1>1, <1>7, <2>1
  <2>7. Number(raw, r) \in Highs(raw)
    BY <2>6 DEF Highs
  <2>8. Max(H) >= Number(raw, r) /\ Number(raw, r) \in 0 .. U32Max
    BY <1>5, <2>3, <2>4, <2>7 DEF H
  <2> QED
    BY <1>2, <1>3, <1>7, <2>4, <2>5, <2>6, <2>8
<1>8. Len(text) \in Nat
  BY <1>1
<1> QED
  BY <1>1, <1>6, <1>7, <1>8 DEF text

LEMMA PossibleFacts ==
  ASSUME env \in Environments
  PROVE  /\ env.possible # {} /\ env.possible \subseteq 0 .. U32Max - 2
         /\ Cardinality(env.possible) \in 0 .. U32Max - 1
<1>1. env.possible # {} /\ env.possible \subseteq 0 .. U32Max - 2
  BY EnvironmentsOK DEF Environment
<1>2. IsFiniteSet(0 .. U32Max - 2) /\ Cardinality(0 .. U32Max - 2) = U32Max - 1
  BY EnvironmentsOK, FS_Interval
<1>3. IsFiniteSet(env.possible) /\ Cardinality(env.possible) <= U32Max - 1
  <2>1. env.possible \in SUBSET (0 .. U32Max - 2)
    BY <1>1
  <2>2. /\ IsFiniteSet(env.possible)
        /\ Cardinality(env.possible) <= Cardinality(0 .. U32Max - 2)
    BY <1>2, <2>1, FS_Subset, Zenon
  <2> QED
    BY <1>2, <2>2
<1>4. Cardinality(env.possible) \in Nat
  BY <1>3, FS_CardinalityType
<1>5. U32Max \in Nat
  BY EnvironmentsOK
<1> QED
  BY <1>1, <1>3, <1>4, <1>5

LEMMA PlacesFacts ==
  ASSUME env \in Environments, NEW where \in Places
  PROVE  /\ where \in Place /\ where # Off
         /\ where.cpu \in env.possible /\ where.cpu \in Nat
         /\ where.cid \in Nat /\ where.cid < Cardinality(env.possible)
<1>1. /\ where.cpu \in env.possible /\ where.cid \in 0 .. Cardinality(env.possible) - 1
      /\ where = [cpu |-> where.cpu, cid |-> where.cid]
  BY DEF Places
<1>2. where.cpu \in 0 .. U32Max - 2 /\ where.cid \in 0 .. U32Max
  BY <1>1, PossibleFacts, EnvironmentsOK
<1>3. where.cpu # -1
  BY <1>2, EnvironmentsOK
<1> QED
  BY <1>1, <1>2, <1>3, PossibleFacts DEF Off, Place

\* A step that changes nothing of a thread keeps what holds of it.
LEMMA Untouched ==
  ASSUME NEW u \in Thread, ThreadInv(u),
         env' = env, area'[u] = area[u], kernel'[u] = kernel[u],
         slot'[u] = slot[u], life'[u] = life[u], place'[u] = place[u],
         handle'[u] = handle[u], inside'[u] = inside[u],
         handle[u] # NoThread => state' = state
  PROVE  ThreadInv(u)'
<1>1. AreasInv(u)'
  BY DEF ThreadInv, AreasInv, Running
<1>2. HandleInv(u)'
  BY DEF ThreadInv, HandleInv
<1>3. InsideInv(u)'
  BY DEF ThreadInv, InsideInv, Attached, Running
<1> QED
  BY <1>1, <1>2, <1>3 DEF ThreadInv

-----------------------------------------------------------------------------
(* One lemma per action of the kernel and of the thread. *)

\* The parts of the invariant that no step but Resume and EndExit, New
\* touches.
LEMMA SamePlaces ==
  ASSUME IInv, UNCHANGED <<env, place>>
  PROVE  PlacesApart'
BY DEF IInv, PlacesApart, Places, Running

LEMMA SameCid ==
  ASSUME IInv, UNCHANGED <<env, state>>
  PROVE  CidInv'
BY DEF IInv, CidInv

\* What was found out stays so while areas come and go.
LEMMA SameChoice ==
  ASSUME IInv, UNCHANGED <<env, state>>, state.mode = "unset" => UNCHANGED slot,
         \A t \in Thread : /\ kernel'[t] = "glibc" => kernel[t] = "glibc"
                           /\ kernel[t] = "other" => kernel'[t] = "other"
  PROVE  Chosen'
<1>1. RefusedForAReason'
  BY DEF IInv, Chosen, RefusedForAReason, ListIsCut
<1> QED
  BY <1>1 DEF IInv, Chosen

\* The kernel or a destructor writes the fields of one area.
LEMMA AreaWritten ==
  ASSUME TypeOK, NEW t \in Thread, NEW o \in Owner, NEW new \in [Kind -> 0 .. U32Max],
         area' = [area EXCEPT ![t][o] = new]
  PROVE  /\ area' \in [Thread -> [Owner -> [Kind -> 0 .. U32Max]]]
         /\ \A u \in Thread : u # t => area'[u] = area[u]
         /\ area'[t][o] = new
         /\ \A p \in Owner : p # o => area'[t][p] = area[t][p]
<1> DEFINE row == [area[t] EXCEPT ![o] = new]
<1>1. area \in [Thread -> [Owner -> [Kind -> 0 .. U32Max]]]
  BY DEF TypeOK
<1>2. row \in [Owner -> [Kind -> 0 .. U32Max]]
      /\ row[o] = new /\ \A p \in Owner : p # o => row[p] = area[t][p]
  BY <1>1
<1>3. area' = [area EXCEPT ![t] = row]
  OBVIOUS
<1> HIDE DEF row
<1> QED
  BY <1>1, <1>2, <1>3

LEMMA PreemptStep ==
  ASSUME IInv, NEW t \in Thread, Preempt(t)
  PROVE  IInv'
<1> USE DEF Preempt
<1>1. TypeOK'
  BY DEF IInv, TypeOK
<1>2. CidInv' /\ Chosen'
  BY SameCid, SameChoice
<1>3. place' = [place EXCEPT ![t] = Off] /\ place \in [Thread -> Place \cup {Off}]
  BY DEF IInv, TypeOK
<1>4. PlacesApart'
  BY <1>3 DEF IInv, PlacesApart, Places, Running
<1>5. ASSUME NEW u \in Thread PROVE ThreadInv(u)'
  <2>1. CASE u = t
    <3>1. ThreadInv(t) /\ ~Running(t)'
      BY <1>3 DEF IInv, Running
    <3>2. AreasInv(t)'
      BY <3>1 DEF ThreadInv, AreasInv
    <3>3. HandleInv(t)' /\ InsideInv(t)'
      BY <3>1 DEF ThreadInv, HandleInv, InsideInv, Attached
    <3> QED
      BY <3>2, <3>3, <2>1 DEF ThreadInv
  <2>2. CASE u # t
    BY <1>3, <2>2, Untouched DEF IInv
  <2> QED
    BY <2>1, <2>2
<1> QED
  BY <1>1, <1>2, <1>4, <1>5 DEF IInv

LEMMA ResumeStep ==
  ASSUME IInv, NEW t \in Thread, NEW where \in Places, Resume(t, where)
  PROVE  IInv'
<1> DEFINE
      o == kernel[t]
      new == Published(area[t][o], where)
<1>1. /\ place \in [Thread -> Place \cup {Off}]
      /\ place' = [place EXCEPT ![t] = where]
      /\ where \in Place /\ where # Off
      /\ UNCHANGED <<env, state, kernel, slot, life, handle>>
  BY PlacesFacts DEF IInv, TypeOK, Resume
<1>2. ASSUME o \in Owner
      PROVE  /\ new \in [Kind -> 0 .. U32Max]
             /\ new["cpu_id"] = where.cpu
             /\ env.feature >= CID_FEATURE_SIZE => new["mm_cid"] = where.cid
             /\ area' = [area EXCEPT ![t][o] = new]
  <2>1. area[t][o]["mm_cid"] \in 0 .. U32Max /\ where.cpu \in 0 .. U32Max /\ where.cid \in 0 .. U32Max
    BY <1>1, <1>2, SentinelFacts DEF IInv, TypeOK, Kind, Place
  <2>2. area' = [area EXCEPT ![t][o] = new]
    BY <1>2 DEF Resume
  <2> QED
    BY <2>1, <2>2, FieldsFacts DEF Published
<1>3. /\ area' \in [Thread -> [Owner -> [Kind -> 0 .. U32Max]]]
      /\ \A u \in Thread : u # t => area'[u] = area[u]
      /\ o \in Owner => area'[t][o] = new /\ \A p \in Owner : p # o => area'[t][p] = area[t][p]
      /\ o \notin Owner => area'[t] = area[t]
  <2>1. CASE o \in Owner
    <3> HIDE DEF new, o
    <3> QED
      BY <1>2, <2>1, AreaWritten DEF IInv
  <2>2. CASE o \notin Owner
    BY <2>2 DEF IInv, TypeOK, Resume
  <2> QED
    BY <2>1, <2>2
<1>4. /\ inside' \in [Thread -> Key \cup {NoKey}]
      /\ \A u \in Thread : u # t => inside'[u] = inside[u]
      /\ Attached(t) => inside'[t] = NoKey
      /\ ~Attached(t) => inside'[t] = inside[t]
  <2>1. CASE Attached(t)
    <3>1. inside' = [inside EXCEPT ![t] = NoKey]
      BY <2>1 DEF Resume, Attached
    <3> QED
      BY <2>1, <3>1 DEF IInv, TypeOK
  <2>2. CASE ~Attached(t)
    <3>1. inside' = inside
      BY <2>2 DEF Resume, Attached
    <3> QED
      BY <2>2, <3>1 DEF IInv, TypeOK
  <2> QED
    BY <2>1, <2>2
<1>5. TypeOK'
  BY <1>1, <1>3, <1>4 DEF IInv, TypeOK
<1>6. CidInv' /\ Chosen'
  BY <1>1, SameCid, SameChoice
<1>7. PlacesApart'
  <2>0. \A u \in Thread : Running(u)' => place'[u] \in Places'
    BY <1>1 DEF IInv, PlacesApart, Places, Running
  <2> SUFFICES ASSUME NEW u \in Thread, NEW v \in Thread, u # v,
                      Running(u)', Running(v)'
               PROVE  place'[u].cpu # place'[v].cpu /\ place'[u].cid # place'[v].cid
    BY <2>0 DEF PlacesApart
  <2>1. \A x \in Thread : Running(x) => place[x].cpu # where.cpu /\ place[x].cid # where.cid
    BY DEF Resume
  <2>2. CASE u = t
    BY <1>1, <2>1, <2>2 DEF Running
  <2>3. CASE v = t
    BY <1>1, <2>1, <2>3 DEF Running
  <2>4. CASE u # t /\ v # t
    BY <1>1, <2>4 DEF IInv, PlacesApart, Running
  <2> QED
    BY <2>2, <2>3, <2>4
<1>8. ASSUME NEW u \in Thread PROVE ThreadInv(u)'
  <2>1. CASE u # t
    BY <1>1, <1>3, <1>4, <2>1, Untouched DEF IInv
  <2>2. CASE u = t
    <3>0. ThreadInv(t) /\ place'[t] = where
      BY <1>1 DEF IInv
    <3>1. AreasInv(t)'
      <4>1. kernel[t] = "slot" =>
              area'[t]["slot"]["cpu_id"] = where.cpu
        BY <1>2, <1>3 DEF Owner
      <4>2. kernel[t] # "slot" => area'[t]["slot"] = area[t]["slot"]
        BY <1>3 DEF Owner
      <4>3. kernel[t] # "glibc" => area'[t]["glibc"] = area[t]["glibc"]
        BY <1>3 DEF Owner
      <4>4. where.cpu \notin Sentinels
        BY <1>1, SentinelFacts DEF Place
      <4>5. kernel[t] \in Owner =>
              /\ area'[t][kernel[t]]["cpu_id"] = where.cpu
              /\ env.feature >= CID_FEATURE_SIZE => area'[t][kernel[t]]["mm_cid"] = where.cid
        BY <1>2, <1>3
      <4>6. /\ kernel'[t] = "slot" => slot'[t] = "live"
            /\ life'[t] = "gone" => slot'[t] # "live"
        BY <1>1, <3>0 DEF ThreadInv, AreasInv
      <4>7. (area'[t]["slot"]["cpu_id"] \notin Sentinels) <=> (kernel'[t] = "slot")
        BY <1>1, <3>0, <4>1, <4>2, <4>4 DEF ThreadInv, AreasInv
      <4>8. kernel'[t] # "glibc" => area'[t]["glibc"]["cpu_id"] \in Sentinels
        BY <1>1, <3>0, <4>3 DEF ThreadInv, AreasInv
      <4> QED
        BY <1>1, <3>0, <4>5, <4>6, <4>7, <4>8 DEF AreasInv, Sentinels, CPU_UNINIT, CPU_REG_FAILED, CID_FEATURE_SIZE
    <3>2. HandleInv(t)'
      BY <1>1, <3>0 DEF ThreadInv, HandleInv
    <3>3. InsideInv(t)'
      BY <1>1, <1>4, <3>0 DEF ThreadInv, InsideInv, Attached
    <3> QED
      BY <2>2, <3>1, <3>2, <3>3 DEF ThreadInv
  <2> QED
    BY <2>1, <2>2
<1> QED
  BY <1>5, <1>6, <1>7, <1>8 DEF IInv

LEMMA OtherRegistersStep ==
  ASSUME IInv, NEW t \in Thread, OtherRegisters(t)
  PROVE  IInv'
<1>1. /\ kernel' = [kernel EXCEPT ![t] = "other"] /\ kernel[t] = "none"
      /\ kernel \in [Thread -> {"none", "slot", "glibc", "other"}]
      /\ UNCHANGED <<env, state, area, slot, life, place, handle, inside>>
  BY DEF IInv, TypeOK, OtherRegisters
<1>2. TypeOK'
  BY <1>1 DEF IInv, TypeOK
<1>3. CidInv' /\ Chosen' /\ PlacesApart'
  BY <1>1, SameCid, SameChoice, SamePlaces
<1>4. ASSUME NEW u \in Thread PROVE ThreadInv(u)'
  <2>1. CASE u = t
    <3>0. ThreadInv(t) /\ kernel'[t] = "other"
      BY <1>1 DEF IInv
    <3>1. AreasInv(t)'
      BY <1>1, <3>0 DEF ThreadInv, AreasInv, Owner
    <3>2. HandleInv(t)'
      BY <1>1, <3>0 DEF IInv, TypeOK, ThreadInv, HandleInv, Owner, NoThread
    <3>3. ~Attached(t) /\ ~Attached(t)'
      BY <1>1, <3>0 DEF IInv, TypeOK, Attached, Owner, NoThread
    <3>4. InsideInv(t)'
      BY <1>1, <3>0, <3>3 DEF ThreadInv, InsideInv
    <3> QED
      BY <2>1, <3>1, <3>2, <3>4 DEF ThreadInv
  <2>2. CASE u # t
    BY <1>1, <2>2, Untouched DEF IInv
  <2> QED
    BY <2>1, <2>2
<1> QED
  BY <1>2, <1>3, <1>4 DEF IInv

\* What Registration::bind does to a thread: it can only take the kernel
\* from no area to SLOT, and then SLOT is live and published.
LEMMA BindSlotEffect ==
  ASSUME IInv, NEW t \in Thread, Acts(t), BindSlot(t),
         UNCHANGED <<env, life, place, inside>>
  PROVE  /\ area' \in [Thread -> [Owner -> [Kind -> 0 .. U32Max]]]
         /\ kernel' \in [Thread -> {"none", "slot", "glibc", "other"}]
         /\ slot' \in [Thread -> {"fresh", "live", "dropped"}]
         /\ \A u \in Thread : u # t =>
              area'[u] = area[u] /\ kernel'[u] = kernel[u] /\ slot'[u] = slot[u]
         /\ kernel[t] # "none" => area'[t] = area[t] /\ kernel'[t] = kernel[t]
         /\ slot[t] = "dropped" => slot'[t] = "dropped"
         /\ CanBind(t) => kernel'[t] = "slot"
         /\ kernel'[t] \in {kernel[t], "slot"}
         /\ AreasInv(t)'
<1> DEFINE
      binds == CanBind(t) /\ NeedsSyscall(t)
      new == Published(area[t]["slot"], place[t])
<1>0. /\ TypeOK /\ AreasInv(t) /\ life[t] # "gone" /\ Running(t)
      /\ place[t] \in Place
  BY DEF IInv, ThreadInv, Acts, Running, TypeOK
<1>1. /\ slot' \in [Thread -> {"fresh", "live", "dropped"}]
      /\ \A u \in Thread : u # t => slot'[u] = slot[u]
      /\ slot[t] \in {"live", "dropped"} => slot'[t] = slot[t]
      /\ ~Stubs /\ slot[t] = "fresh" => slot'[t] = "live"
      /\ slot'[t] = "live" \/ slot'[t] = slot[t]
  BY <1>0 DEF BindSlot, TypeOK
<1>2. NeedsSyscall(t) <=> kernel[t] # "slot"
  BY <1>0 DEF AreasInv, NeedsSyscall
<1>3. CASE binds
  <2>1. kernel[t] = "none" /\ ~Stubs /\ slot[t] # "dropped"
    BY <1>3 DEF CanBind
  <2>2. /\ kernel' = [kernel EXCEPT ![t] = "slot"]
        /\ area' = [area EXCEPT ![t]["slot"] = new]
    BY <1>3 DEF BindSlot
  <2>3. area[t]["slot"]["mm_cid"] \in 0 .. U32Max /\ place[t].cpu \in 0 .. U32Max /\ place[t].cid \in 0 .. U32Max
    BY <1>0, SentinelFacts DEF TypeOK, Kind, Owner, Place
  <2>4. /\ new \in [Kind -> 0 .. U32Max] /\ new["cpu_id"] = place[t].cpu
        /\ env.feature >= CID_FEATURE_SIZE => new["mm_cid"] = place[t].cid
    BY <2>3, FieldsFacts DEF Published
  <2>5. /\ area' \in [Thread -> [Owner -> [Kind -> 0 .. U32Max]]]
        /\ \A u \in Thread : u # t => area'[u] = area[u]
        /\ area'[t]["slot"] = new /\ area'[t]["glibc"] = area[t]["glibc"]
    <3> HIDE DEF new
    <3> QED
      BY <1>0, <2>2, <2>4, AreaWritten DEF Owner
  <2>6. /\ kernel' \in [Thread -> {"none", "slot", "glibc", "other"}]
        /\ \A u \in Thread : u # t => kernel'[u] = kernel[u]
        /\ kernel'[t] = "slot"
    BY <1>0, <2>2 DEF TypeOK
  <2>7. slot'[t] = "live"
    BY <1>0, <1>1, <2>1 DEF TypeOK
  <2>8. place[t].cpu \notin Sentinels
    BY <1>0, SentinelFacts DEF Place
  <2>9. AreasInv(t)'
    <3>1. area'[t]["slot"]["cpu_id"] \notin Sentinels
      BY <2>4, <2>5, <2>8
    <3>2. area'[t]["glibc"]["cpu_id"] \in Sentinels
      BY <1>0, <2>1, <2>5 DEF AreasInv
    <3>3. /\ area'[t][kernel'[t]]["cpu_id"] = place'[t].cpu
          /\ env'.feature >= CID_FEATURE_SIZE => area'[t][kernel'[t]]["mm_cid"] = place'[t].cid
      BY <2>4, <2>5, <2>6
    <3> QED
      BY <1>0, <2>6, <2>7, <3>1, <3>2, <3>3 DEF AreasInv, Sentinels, CPU_UNINIT, CPU_REG_FAILED, CID_FEATURE_SIZE
  <2> QED
    BY <1>1, <2>1, <2>5, <2>6, <2>9
<1>4. CASE ~binds
  <2>1. UNCHANGED <<kernel, area>>
    BY <1>4 DEF BindSlot
  <2>2. CanBind(t) => kernel'[t] = "slot"
    BY <1>2, <1>4, <2>1
  <2>3. AreasInv(t)'
    BY <1>0, <1>1, <2>1 DEF AreasInv, Running
  <2> QED
    BY <1>0, <1>1, <2>1, <2>2, <2>3 DEF TypeOK
<1> QED
  BY <1>3, <1>4

LEMMA DropSlotStep ==
  ASSUME IInv, NEW t \in Thread, DropSlot(t)
  PROVE  IInv'
<1>0. /\ TypeOK /\ ThreadInv(t) /\ life[t] = "exiting" /\ slot[t] = "live"
      /\ inside[t] = NoKey
      /\ slot' = [slot EXCEPT ![t] = "dropped"]
      /\ UNCHANGED <<env, state, life, place, handle, inside>>
  BY DEF IInv, DropSlot, Acts
<1>1. /\ slot' \in [Thread -> {"fresh", "live", "dropped"}]
      /\ slot'[t] = "dropped" /\ \A u \in Thread : u # t => slot'[u] = slot[u]
  BY <1>0 DEF TypeOK
<1>2. /\ area' \in [Thread -> [Owner -> [Kind -> 0 .. U32Max]]]
      /\ kernel' \in [Thread -> {"none", "slot", "glibc", "other"}]
      /\ \A u \in Thread : u # t => area'[u] = area[u] /\ kernel'[u] = kernel[u]
      /\ kernel[t] # "slot" => area'[t] = area[t] /\ kernel'[t] = kernel[t]
      /\ kernel[t] = "slot" =>
           /\ kernel'[t] = "none"
           /\ area'[t]["slot"]["cpu_id"] \in Sentinels
           /\ area'[t]["glibc"] = area[t]["glibc"]
  <2>1. CASE kernel[t] = "slot"
    <3> DEFINE new == Fields(CPU_UNINIT, 0)
    <3>1. new \in [Kind -> 0 .. U32Max] /\ new["cpu_id"] \in Sentinels
      BY FieldsFacts, SentinelFacts
    <3>2. area' = [area EXCEPT ![t]["slot"] = new]
      BY <2>1 DEF DropSlot
    <3>3. kernel' = [kernel EXCEPT ![t] = "none"]
      BY <2>1 DEF DropSlot
    <3> HIDE DEF new
    <3>4. /\ area' \in [Thread -> [Owner -> [Kind -> 0 .. U32Max]]]
          /\ \A u \in Thread : u # t => area'[u] = area[u]
          /\ area'[t]["slot"] = new /\ area'[t]["glibc"] = area[t]["glibc"]
      BY <1>0, <3>1, <3>2, AreaWritten DEF Owner
    <3> QED
      BY <1>0, <2>1, <3>1, <3>3, <3>4 DEF TypeOK
  <2>2. CASE kernel[t] # "slot"
    BY <1>0, <2>2 DEF DropSlot, TypeOK
  <2> QED
    BY <2>1, <2>2
<1>3. TypeOK'
  BY <1>0, <1>1, <1>2 DEF TypeOK
<1>4. CidInv' /\ Chosen' /\ PlacesApart'
  <2>1. state.mode # "unset"
    BY <1>0 DEF IInv, Chosen
  <2>2. QED
    BY <1>0, <1>2, <2>1, SameCid, SameChoice, SamePlaces
<1>5. ASSUME NEW u \in Thread PROVE ThreadInv(u)'
  <2>1. CASE u = t
    <3>1. AreasInv(t)'
      <4>1. CASE kernel[t] = "slot"
        <5>1. kernel'[t] \notin Owner /\ kernel'[t] = "none"
          BY <1>2, <4>1 DEF Owner
        <5>2. area'[t]["glibc"]["cpu_id"] \in Sentinels
          BY <1>0, <1>2, <4>1 DEF ThreadInv, AreasInv
        <5>3. area'[t]["slot"]["cpu_id"] \in Sentinels
          BY <1>2, <4>1
        <5> QED
          BY <1>0, <1>1, <5>1, <5>2, <5>3 DEF AreasInv, Sentinels, CPU_UNINIT, CPU_REG_FAILED
      <4>2. CASE kernel[t] # "slot"
        BY <1>0, <1>1, <1>2, <4>2 DEF ThreadInv, AreasInv, Running
      <4> QED
        BY <4>1, <4>2
    <3>2. HandleInv(t)'
      BY <1>0, <1>1, <1>2 DEF ThreadInv, HandleInv, TypeOK, Owner, NoThread
    <3>3. InsideInv(t)'
      BY <1>0 DEF InsideInv
    <3> QED
      BY <2>1, <3>1, <3>2, <3>3 DEF ThreadInv
  <2>2. CASE u # t
    BY <1>0, <1>1, <1>2, <2>2, Untouched DEF IInv
  <2> QED
    BY <2>1, <2>2
<1> QED
  BY <1>3, <1>4, <1>5 DEF IInv

LEMMA StateFacts ==
  ASSUME env \in Environments, NEW mode \in Owner, NEW access \in env.sysfs
  PROVE  LET new == State(mode, access) IN
         /\ new \in [mode : {"None", mode}, cpus : 0 .. U32Max, cid : BOOLEAN]
         /\ new.cid => env.feature >= CID_FEATURE_SIZE
         /\ new.mode = mode =>
              /\ access = "read"
              /\ new.cpus = Possible(env.possible, "read") /\ new.cpus # 0
         /\ new.mode = "None" => access # "read" \/ ListIsCut
<1> DEFINE count == Possible(env.possible, access)
<1>0. CidSupported \in BOOLEAN /\ (CidSupported => env.feature >= CID_FEATURE_SIZE)
  BY DEF CidSupported, Stubs, Environment
<1>1. /\ mode # "None" /\ 0 \in 0 .. U32Max /\ access \in Access
      /\ count \in 0 .. U32Max /\ (access # "read" => count = NoCount)
  <2>1. access \in Access
    BY EnvironmentsOK DEF Environment, Access
  <2> QED
    BY <2>1, EnvironmentsOK, CountCovers DEF Owner
<1>2. CASE count = NoCount
  <2>1. access # "read" \/ ~(Len(Text(env.possible)) <= BufLen)
    <3>1. PICK c \in env.possible : c \in Nat
      BY PossibleFacts
    <3>2. ~(c < count)
      BY <1>2, <3>1 DEF NoCount
    <3> QED
      BY <1>1, <3>1, <3>2, CountCovers
  <2>2. Len(Text(env.possible)) \in Nat /\ BufLen \in Nat
    BY <1>1, CountCovers
  <2>3. access # "read" \/ ListIsCut
    BY <2>1, <2>2 DEF ListIsCut
  <2> QED
    BY <1>1, <1>2, <2>3 DEF State, Refused
<1>3. CASE count # NoCount
  <2>1. access = "read"
    BY <1>1, <1>3
  <2> QED
    BY <1>0, <1>1, <1>3, <2>1 DEF State, Refused, NoCount
<1> QED
  BY <1>2, <1>3

LEMMA NewStep ==
  ASSUME IInv, NEW t \in Thread, New(t)
  PROVE  IInv'
<1>0. /\ TypeOK /\ Acts(t) /\ state.mode = "unset"
      /\ UNCHANGED <<env, life, place, handle, inside>>
  BY DEF IInv, New
<1>1. \A u \in Thread : handle[u] = NoThread /\ inside[u] = NoKey
  BY <1>0 DEF IInv, ThreadInv, HandleInv, InsideInv, TypeOK, Owner
<1>2. /\ state' \in [mode : {"None", "slot", "glibc"}, cpus : 0 .. U32Max, cid : BOOLEAN]
      /\ state'.cid => env.feature >= CID_FEATURE_SIZE
      /\ state'.mode \in Owner =>
           /\ GlibcArea \/ CanBind(t)
           /\ "read" \in env.sysfs
           /\ state'.cpus = Possible(env.possible, "read") /\ state'.cpus # 0
      /\ state'.mode = "None" =>
           "failed" \in env.sysfs \/ ListIsCut \/ (~GlibcArea /\ ~CanBind(t))
  <2>1. \/ /\ GlibcArea \/ CanBind(t)
           /\ \E mode \in Owner, access \in env.sysfs : state' = State(mode, access)
        \/ ~GlibcArea /\ ~CanBind(t) /\ state' = Refused
    BY DEF New, Owner
  <2>2. env \in Environments
    BY <1>0 DEF TypeOK
  <2>3. ASSUME GlibcArea \/ CanBind(t), NEW mode \in Owner, NEW access \in env.sysfs,
               state' = State(mode, access)
        PROVE  /\ state' \in [mode : {"None", "slot", "glibc"}, cpus : 0 .. U32Max, cid : BOOLEAN]
               /\ state'.cid => env.feature >= CID_FEATURE_SIZE
               /\ state'.mode \in Owner =>
                    /\ GlibcArea \/ CanBind(t)
                    /\ "read" \in env.sysfs
                    /\ state'.cpus = Possible(env.possible, "read") /\ state'.cpus # 0
               /\ state'.mode = "None" => "failed" \in env.sysfs \/ ListIsCut
    <3>1. access \in Access
      BY <2>2, <2>3, EnvironmentsOK DEF Environment
    <3>2. state'.mode \in {"None", mode}
      BY <2>2, <2>3, StateFacts
    <3> QED
      BY <2>2, <2>3, <3>1, <3>2, StateFacts DEF Owner, Access
  <2>4. CASE ~GlibcArea /\ ~CanBind(t) /\ state' = Refused
    BY <2>4, SentinelFacts DEF Refused, Owner
  <2> QED
    BY <2>1, <2>3, <2>4
<1>3. /\ area' \in [Thread -> [Owner -> [Kind -> 0 .. U32Max]]]
      /\ kernel' \in [Thread -> {"none", "slot", "glibc", "other"}]
      /\ slot' \in [Thread -> {"fresh", "live", "dropped"}]
      /\ \A u \in Thread : u # t =>
           area'[u] = area[u] /\ kernel'[u] = kernel[u] /\ slot'[u] = slot[u]
      /\ kernel'[t] = kernel[t] \/ (kernel[t] # "other" /\ kernel'[t] = "slot")
      /\ AreasInv(t)'
  <2>1. CASE GlibcArea
    <3>1. UNCHANGED <<slot, kernel, area>>
      BY <2>1 DEF New
    <3>2. AreasInv(t)'
      BY <1>0, <3>1 DEF IInv, ThreadInv, AreasInv, Running
    <3> QED
      BY <1>0, <3>1, <3>2 DEF TypeOK
  <2>2. CASE ~GlibcArea
    <3>1. BindSlot(t)
      BY <2>2 DEF New
    <3> QED
      BY <1>0, <3>1, BindSlotEffect
  <2> QED
    BY <2>1, <2>2
<1>4. TypeOK'
  BY <1>0, <1>2, <1>3 DEF TypeOK
<1>5. CidInv' /\ Chosen' /\ PlacesApart'
  <2>0. env \in Environment /\ (env.libc # 0 => env.kernel /\ env.libc >= 20)
    BY <1>0, EnvironmentsOK DEF TypeOK
  <2>1. ASSUME state'.mode = "None", env.cs, env.kernel, "failed" \notin env.sysfs, ~ListIsCut
        PROVE  kernel'[t] = "other"
    <3>1. ~GlibcArea /\ ~CanBind(t)
      BY <1>2, <2>1
    <3>2. env.libc = 0
      BY <1>0, <2>1, <3>1, EnvironmentsOK
         DEF TypeOK, Environment, GlibcArea, Stubs, GLIBC_SIZE_MIN
    <3>3. slot[t] = "fresh" /\ kernel[t] # "glibc" /\ kernel[t] # "slot"
      BY <1>0, <3>2 DEF IInv, Chosen, ThreadInv, AreasInv
    <3>4. kernel[t] # "none"
      BY <2>1, <3>1, <3>3 DEF CanBind, Stubs
    <3> QED
      BY <1>0, <1>3, <3>3, <3>4 DEF TypeOK
  <2>2. ASSUME state'.mode \in Owner
        PROVE  env.cs /\ env.kernel /\ "read" \in env.sysfs
    <3>1. CASE GlibcArea
      BY <1>2, <2>0, <2>2, <3>1 DEF GlibcArea, Stubs, Environment, GLIBC_SIZE_MIN
    <3>2. CASE ~GlibcArea
      <4>1. CanBind(t) /\ slot[t] = "fresh"
        BY <1>0, <1>2, <2>2, <3>2 DEF IInv, Chosen
      <4>2. NeedsSyscall(t)
        BY <1>0, <4>1 DEF IInv, ThreadInv, AreasInv, NeedsSyscall
      <4> QED
        BY <1>2, <2>2, <4>1, <4>2 DEF CanBind, Stubs
    <3> QED
      BY <3>1, <3>2
  <2>5. RefusedForAReason'
    BY <1>0, <2>1, <2>2 DEF RefusedForAReason, ListIsCut
  <2>3. \A u \in Thread : kernel'[u] = "glibc" => kernel[u] = "glibc"
    BY <1>3
  <2>4. Chosen'
    BY <1>0, <1>2, <2>3, <2>5 DEF IInv, Chosen
  <2> QED
    BY <1>0, <1>2, <2>4, SamePlaces DEF CidInv, CID_FEATURE_SIZE
<1>6. ASSUME NEW u \in Thread PROVE ThreadInv(u)'
  <2>1. HandleInv(u)' /\ InsideInv(u)'
    BY <1>0, <1>1 DEF HandleInv, InsideInv
  <2>2. CASE u = t
    BY <1>3, <2>1, <2>2 DEF ThreadInv
  <2>3. CASE u # t
    <3>1. AreasInv(u) /\ UNCHANGED <<area[u], kernel[u], slot[u]>>
      BY <1>0, <1>3, <2>3 DEF IInv, ThreadInv
    <3>2. UNCHANGED <<env, life, place>>
      BY <1>0
    <3>3. AreasInv(u)'
      BY <3>1, <3>2 DEF AreasInv, Running
    <3> QED
      BY <2>1, <3>3 DEF ThreadInv
  <2> QED
    BY <2>2, <2>3
<1> QED
  BY <1>4, <1>5, <1>6 DEF IInv

LEMMA BindStep ==
  ASSUME IInv, NEW t \in Thread, Bind(t)
  PROVE  IInv'
<1> DEFINE
      refused == \/ state.mode = "slot" /\ ~CanBind(t)
                 \/ area'[t][state.mode]["cpu_id"] \in Sentinels
      bound == [area |-> state.mode, cid |-> state.cid]
<1>0. /\ TypeOK /\ ThreadInv(t) /\ Acts(t) /\ state.mode \in Owner
      /\ inside[t] = NoKey /\ UNCHANGED <<env, state, life, place, inside>>
      /\ handle' = [handle EXCEPT ![t] = IF refused THEN NoThread ELSE bound]
  BY DEF IInv, TypeOK, Bind, Acts, Owner
<1>1. /\ area' \in [Thread -> [Owner -> [Kind -> 0 .. U32Max]]]
      /\ kernel' \in [Thread -> {"none", "slot", "glibc", "other"}]
      /\ slot' \in [Thread -> {"fresh", "live", "dropped"}]
      /\ \A u \in Thread : u # t =>
           area'[u] = area[u] /\ kernel'[u] = kernel[u] /\ slot'[u] = slot[u]
      /\ AreasInv(t)'
      /\ state.mode = "slot" /\ CanBind(t) => kernel'[t] = "slot"
      /\ kernel'[t] = kernel[t] \/ (kernel[t] # "other" /\ kernel'[t] = "slot")
  <2>1. CASE state.mode = "glibc"
    <3>1. UNCHANGED <<slot, kernel, area>>
      BY <2>1 DEF Bind
    <3>2. AreasInv(t)'
      BY <1>0, <3>1 DEF ThreadInv, AreasInv, Running
    <3> QED
      BY <1>0, <2>1, <3>1, <3>2 DEF TypeOK
  <2>2. CASE state.mode # "glibc"
    <3>1. BindSlot(t)
      BY <2>2 DEF Bind
    <3> QED
      BY <1>0, <3>1, BindSlotEffect
  <2> QED
    BY <2>1, <2>2
<1>2. bound \in [area : Owner, cid : BOOLEAN] /\ bound # NoThread
      /\ bound.area = state.mode /\ bound.cid = state.cid
  BY <1>0 DEF TypeOK, NoThread, Owner
<1>3. ~refused => kernel'[t] = state.mode
  <2>1. CASE state.mode = "slot"
    BY <1>1, <2>1
  <2>2. CASE state.mode = "glibc"
    BY <1>1, <2>2 DEF AreasInv, Sentinels, CPU_UNINIT, CPU_REG_FAILED
  <2> QED
    BY <1>0, <2>1, <2>2 DEF Owner
<1> HIDE DEF refused, bound
<1>4. /\ handle' \in [Thread -> [area : Owner, cid : BOOLEAN] \cup {NoThread}]
      /\ \A u \in Thread : u # t => handle'[u] = handle[u]
      /\ handle'[t] # NoThread => ~refused /\ handle'[t] = bound
  BY <1>0, <1>2 DEF TypeOK, Owner
<1>5. TypeOK'
  BY <1>0, <1>1, <1>4 DEF TypeOK, Owner
<1>6. CidInv' /\ Chosen' /\ PlacesApart'
  BY <1>0, <1>1, SameCid, SameChoice, SamePlaces DEF Owner
<1>7. ASSUME NEW u \in Thread PROVE ThreadInv(u)'
  <2>1. CASE u = t
    <3>1. HandleInv(t)'
      BY <1>0, <1>2, <1>3, <1>4 DEF HandleInv
    <3>2. InsideInv(t)'
      BY <1>0 DEF InsideInv
    <3> QED
      BY <1>1, <2>1, <3>1, <3>2 DEF ThreadInv
  <2>2. CASE u # t
    BY <1>0, <1>1, <1>4, <2>2, Untouched DEF IInv
  <2> QED
    BY <2>1, <2>2
<1> QED
  BY <1>5, <1>6, <1>7 DEF IInv

LEMMA OperateStep ==
  ASSUME IInv, NEW t \in Thread, Operate(t)
  PROVE  IInv'
<1>1. PICK key \in Keys(t) : Enter(t, key)
  BY DEF Operate
<1>2. /\ TypeOK /\ ThreadInv(t) /\ handle[t] # NoThread /\ handle[t].area \in Owner
      /\ inside' = [inside EXCEPT ![t] = key]
      /\ area[t][handle[t].area][key.kind] = key.id
      /\ UNCHANGED <<env, state, area, kernel, slot, life, place, handle>>
  BY <1>1 DEF IInv, Operate, Enter, TypeOK, Owner
<1>3. /\ key \in Key /\ key # NoKey
      /\ key.kind = "cpu_id" => key.id \notin Sentinels
      /\ key.kind = "mm_cid" => handle[t].cid
  <2>1. CASE key \in [kind : {"cpu_id"}, id : CpuIds]
    BY <2>1 DEF CpuIds, Key, Kind, NoKey
  <2>2. CASE /\ handle[t].cid
             /\ key \in [kind : {"mm_cid"}, id : 0 .. Cardinality(env.possible) - 1]
    <3>1. Cardinality(env.possible) \in 0 .. U32Max - 1
      BY <1>2, PossibleFacts DEF TypeOK
    <3>2. key.id \in 0 .. U32Max
      BY <2>2, <3>1, EnvironmentsOK
    <3> QED
      BY <2>2, <3>2 DEF Key, Kind, NoKey
  <2> QED
    BY <1>1, <2>1, <2>2 DEF Keys
<1>4. /\ inside' \in [Thread -> Key \cup {NoKey}]
      /\ inside'[t] = key /\ \A u \in Thread : u # t => inside'[u] = inside[u]
  BY <1>2, <1>3 DEF TypeOK
<1>5. TypeOK'
  BY <1>2, <1>4 DEF TypeOK
<1>6. CidInv' /\ Chosen' /\ PlacesApart'
  BY <1>2, SameCid, SameChoice, SamePlaces
<1>7. ASSUME NEW u \in Thread PROVE ThreadInv(u)'
  <2>1. CASE u = t
    <3>1. AreasInv(t)' /\ HandleInv(t)'
      BY <1>2 DEF ThreadInv, AreasInv, HandleInv, Running
    <3>2. ASSUME key.kind = "cpu_id" PROVE Attached(t)
      <4>1. area[t][handle[t].area]["cpu_id"] \notin Sentinels
        BY <1>2, <1>3, <3>2
      <4>2. CASE handle[t].area = "slot"
        BY <1>2, <4>1, <4>2 DEF ThreadInv, AreasInv, Attached
      <4>3. CASE handle[t].area = "glibc"
        BY <1>2, <4>1, <4>3 DEF ThreadInv, AreasInv, Attached
      <4> QED
        BY <1>2, <4>2, <4>3 DEF Owner
    <3>3. InsideInv(t)'
      BY <1>2, <1>3, <1>4, <3>2 DEF InsideInv, Attached
    <3> QED
      BY <2>1, <3>1, <3>3 DEF ThreadInv
  <2>2. CASE u # t
    BY <1>2, <1>4, <2>2, Untouched DEF IInv
  <2> QED
    BY <2>1, <2>2
<1> QED
  BY <1>5, <1>6, <1>7 DEF IInv

LEMMA LeaveStep ==
  ASSUME IInv, NEW t \in Thread, Leave(t)
  PROVE  IInv'
<1>1. /\ TypeOK /\ inside' = [inside EXCEPT ![t] = NoKey]
      /\ UNCHANGED <<env, state, area, kernel, slot, life, place, handle>>
  BY DEF IInv, Leave
<1>2. TypeOK'
  BY <1>1 DEF TypeOK
<1>3. CidInv' /\ Chosen' /\ PlacesApart'
  BY <1>1, SameCid, SameChoice, SamePlaces
<1>4. ASSUME NEW u \in Thread PROVE ThreadInv(u)'
  <2>1. CASE u = t
    <3>1. AreasInv(t)' /\ HandleInv(t)'
      BY <1>1 DEF IInv, ThreadInv, AreasInv, HandleInv, Running
    <3>2. InsideInv(t)'
      BY <1>1 DEF InsideInv, TypeOK
    <3> QED
      BY <2>1, <3>1, <3>2 DEF ThreadInv
  <2>2. CASE u # t
    BY <1>1, <2>2, Untouched DEF IInv, TypeOK
  <2> QED
    BY <2>1, <2>2
<1> QED
  BY <1>2, <1>3, <1>4 DEF IInv

LEMMA StartExitStep ==
  ASSUME IInv, NEW t \in Thread, StartExit(t)
  PROVE  IInv'
<1>1. /\ TypeOK /\ life' = [life EXCEPT ![t] = "exiting"]
      /\ UNCHANGED <<env, state, area, kernel, slot, place, handle, inside>>
  BY DEF IInv, StartExit
<1>2. TypeOK'
  BY <1>1 DEF TypeOK
<1>3. CidInv' /\ Chosen' /\ PlacesApart'
  BY <1>1, SameCid, SameChoice, SamePlaces
<1>4. ASSUME NEW u \in Thread PROVE ThreadInv(u)'
  <2>1. AreasInv(u)'
    BY <1>1 DEF IInv, TypeOK, ThreadInv, AreasInv, Running
  <2>2. HandleInv(u)' /\ InsideInv(u)'
    BY <1>1 DEF IInv, ThreadInv, HandleInv, InsideInv, Attached, Running
  <2> QED
    BY <2>1, <2>2 DEF ThreadInv
<1> QED
  BY <1>2, <1>3, <1>4 DEF IInv

LEMMA EndExitStep ==
  ASSUME IInv, NEW t \in Thread, EndExit(t)
  PROVE  IInv'
<1>1. /\ TypeOK /\ life' = [life EXCEPT ![t] = "gone"] /\ slot[t] # "live"
      /\ place' = [place EXCEPT ![t] = Off]
      /\ UNCHANGED <<env, state, area, kernel, slot, handle, inside>>
  BY DEF IInv, EndExit
<1>2. TypeOK'
  BY <1>1 DEF TypeOK
<1>3. CidInv' /\ Chosen'
  BY <1>1, SameCid, SameChoice
<1>4. PlacesApart'
  BY <1>1 DEF IInv, TypeOK, PlacesApart, Places, Running
<1>5. ASSUME NEW u \in Thread PROVE ThreadInv(u)'
  <2>1. CASE u = t
    <3>1. ~Running(t)' /\ life'[t] = "gone"
      BY <1>1 DEF TypeOK, Running
    <3>2. AreasInv(t)'
      BY <1>1, <3>1 DEF IInv, ThreadInv, AreasInv
    <3>3. HandleInv(t)' /\ InsideInv(t)'
      BY <1>1, <3>1 DEF IInv, ThreadInv, HandleInv, InsideInv, Attached
    <3> QED
      BY <2>1, <3>2, <3>3 DEF ThreadInv
  <2>2. CASE u # t
    BY <1>1, <2>2, Untouched DEF IInv, TypeOK
  <2> QED
    BY <2>1, <2>2
<1> QED
  BY <1>2, <1>3, <1>4, <1>5 DEF IInv

-----------------------------------------------------------------------------
LEMMA InitIInv == Init => IInv
<1> SUFFICES ASSUME Init PROVE IInv
  OBVIOUS
<1>1. env \in Environments
  BY EnvironmentsOK DEF Init
<1>2. \A t \in Thread :
        /\ kernel[t] \in {"none", "glibc"}
        /\ area[t]["slot"] = Fields(CPU_UNINIT, 0)
        /\ kernel[t] # "glibc" => area[t]["glibc"] = Fields(CPU_REG_FAILED, 0)
        /\ area[t] \in [Owner -> [Kind -> 0 .. U32Max]]
  <2>1. Fields(CPU_UNINIT, 0) \in [Kind -> 0 .. U32Max] /\ Fields(CPU_REG_FAILED, 0) \in [Kind -> 0 .. U32Max]
    BY FieldsFacts, SentinelFacts
  <2> QED
    BY <2>1 DEF Init, Owner
<1>3. TypeOK
  <2>1. /\ state.mode = "unset" /\ state.cid = FALSE
    BY DEF Init, Unset
  <2>2. area \in [Thread -> [Owner -> [Kind -> 0 .. U32Max]]]
    BY <1>2 DEF Init
  <2>3. kernel \in [Thread -> {"none", "slot", "glibc", "other"}]
    BY <1>2 DEF Init
  <2> QED
    BY <1>1, <2>1, <2>2, <2>3, SentinelFacts DEF Init, TypeOK, Unset
<1>4. CidInv /\ Chosen /\ PlacesApart
  BY <1>2 DEF Init, CidInv, Chosen, RefusedForAReason, Owner, PlacesApart, Running, Unset
<1>5. ASSUME NEW t \in Thread PROVE ThreadInv(t)
  <2>1. AreasInv(t)
    <3>0. /\ Fields(CPU_UNINIT, 0)["cpu_id"] = CPU_UNINIT
          /\ Fields(CPU_REG_FAILED, 0)["cpu_id"] = CPU_REG_FAILED
      BY FieldsFacts, SentinelFacts
    <3>1. /\ area[t]["slot"]["cpu_id"] \in Sentinels
          /\ kernel[t] # "glibc" => area[t]["glibc"]["cpu_id"] \in Sentinels
      BY <1>2, <3>0, SentinelFacts
    <3>2. slot[t] = "fresh" /\ life[t] = "alive" /\ ~Running(t)
      BY DEF Init, Running
    <3> QED
      BY <1>2, <3>1, <3>2 DEF AreasInv
  <2>2. HandleInv(t) /\ InsideInv(t)
    BY DEF Init, HandleInv, InsideInv
  <2> QED
    BY <2>1, <2>2 DEF ThreadInv
<1> QED
  BY <1>3, <1>4, <1>5 DEF IInv

LEMMA NextIInv == IInv /\ [Next]_vars => IInv'
<1> SUFFICES ASSUME IInv, [Next]_vars PROVE IInv'
  OBVIOUS
<1>1. CASE UNCHANGED vars
  <2>1. TypeOK'
    BY <1>1 DEF IInv, TypeOK, vars
  <2>2. CidInv' /\ Chosen' /\ PlacesApart'
    BY <1>1, SameCid, SameChoice, SamePlaces DEF vars
  <2>3. \A u \in Thread : ThreadInv(u)'
    BY <1>1, Untouched DEF IInv, vars
  <2> QED
    BY <2>1, <2>2, <2>3 DEF IInv
<1>2. ASSUME NEW t \in Thread, Preempt(t) PROVE IInv'
  BY <1>2, PreemptStep
<1>3. ASSUME NEW t \in Thread, NEW where \in Places, Resume(t, where) PROVE IInv'
  BY <1>3, ResumeStep
<1>4. ASSUME NEW t \in Thread, OtherRegisters(t) PROVE IInv'
  BY <1>4, OtherRegistersStep
<1>5. ASSUME NEW t \in Thread, New(t) PROVE IInv'
  BY <1>5, NewStep
<1>6. ASSUME NEW t \in Thread, Bind(t) PROVE IInv'
  BY <1>6, BindStep
<1>7. ASSUME NEW t \in Thread, Operate(t) PROVE IInv'
  BY <1>7, OperateStep
<1>8. ASSUME NEW t \in Thread, Leave(t) PROVE IInv'
  BY <1>8, LeaveStep
<1>9. ASSUME NEW t \in Thread, StartExit(t) PROVE IInv'
  BY <1>9, StartExitStep
<1>10. ASSUME NEW t \in Thread, DropSlot(t) PROVE IInv'
  BY <1>10, DropSlotStep
<1>11. ASSUME NEW t \in Thread, EndExit(t) PROVE IInv'
  BY <1>11, EndExitStep
<1> QED
  BY <1>1, <1>2, <1>3, <1>4, <1>5, <1>6, <1>7, <1>8, <1>9, <1>10, <1>11 DEF Next

LEMMA Invariance == Spec => []IInv
BY InitIInv, NextIInv, PTL DEF Spec

\* Every variable has its type, and so every id and count its width.
THEOREM Types == Spec => []TypeOK
<1>1. IInv => TypeOK
  BY DEF IInv
<1> QED
  BY <1>1, Invariance, PTL

\* Rseq::new settles on None or Some for one of its reasons, whichever thread
\* comes first and whether or not the list of CPUs can be read: rseq.rs, init.
THEOREM Refusals == Spec => []RefusedForAReason
<1>1. IInv => RefusedForAReason
  BY DEF IInv, Chosen
<1> QED
  BY <1>1, Invariance, PTL

\* A bound thread that binds again gets the Thread it has: rseq.rs, bind.
THEOREM Rebinding == Spec => BindsAgain
<1>1. ASSUME IInv, NEW t \in Thread, Bind(t), Attached(t)
      PROVE  handle'[t] = handle[t]
  <2>0. /\ TypeOK /\ AreasInv(t) /\ Running(t) /\ Acts(t) /\ handle[t] # NoThread
        /\ state.mode \in Owner /\ kernel[t] = state.mode /\ env.cs
        /\ handle[t] = [area |-> state.mode, cid |-> state.cid]
        /\ UNCHANGED <<env, life, place, inside>>
    BY <1>1
       DEF IInv, TypeOK, Chosen, RefusedForAReason, ThreadInv, HandleInv, Attached,
           Bind, Acts, Owner, NoThread
  <2>1. area[t][state.mode]["cpu_id"] \notin Sentinels
    <3>1. area[t][state.mode]["cpu_id"] = place[t].cpu /\ place[t] \in Places
      BY <1>1, <2>0 DEF AreasInv, IInv, PlacesApart
    <3> QED
      BY <2>0, <3>1, PlacesFacts, SentinelFacts DEF TypeOK, Place
  <2>2. area'[t] = area[t]
    <3>1. CASE state.mode = "glibc"
      BY <1>1, <3>1 DEF Bind
    <3>2. CASE state.mode = "slot"
      <4>1. BindSlot(t)
        BY <1>1, <3>2 DEF Bind
      <4> QED
        BY <1>1, <2>0, <3>2, <4>1, BindSlotEffect
    <3> QED
      BY <2>0, <3>1, <3>2 DEF Owner
  <2>3. state.mode = "slot" => CanBind(t)
    BY <2>0, <2>1 DEF CanBind, NeedsSyscall, Stubs, AreasInv
  <2>4. handle' = [handle EXCEPT ![t] = [area |-> state.mode, cid |-> state.cid]]
    BY <1>1, <2>1, <2>2, <2>3 DEF Bind
  <2> QED
    BY <2>0, <2>4 DEF TypeOK
<1>2. IInv => [\A t \in Thread : Bind(t) /\ Attached(t) => handle'[t] = handle[t]]_vars
  BY <1>1
<1> QED
  BY <1>2, Invariance, PTL DEF BindsAgain

\* A Thread that bind hands out points to an area that the kernel knows,
\* until the destructor of SLOT: rseq.rs, bind.
THEOREM BoundThreads == Spec => []BoundIsRegistered
<1>1. IInv => BoundIsRegistered
  BY DEF IInv, ThreadInv, HandleInv, BoundIsRegistered, Attached
<1> QED
  BY <1>1, Invariance, PTL

\* No operation on a CPU's word passes its check on an area without the
\* kernel's attention, destructors included: thread.rs, CpuId::new.
THEOREM CpuOperations == Spec => []CpuOpsProtected
<1>1. IInv => CpuOpsProtected
  BY DEF IInv, ThreadInv, InsideInv, CpuOpsProtected, NoKey
<1> QED
  BY <1>1, Invariance, PTL

\* The kernel never keeps a SLOT whose thread is gone: registration.rs, Drop.
THEOREM NothingLeftBehind == Spec => []NoAreaLeftBehind
<1>1. IInv => NoAreaLeftBehind
  BY DEF IInv, ThreadInv, AreasInv, NoAreaLeftBehind
<1> QED
  BY <1>1, Invariance, PTL

\* Two running threads are never behind checks of one key, for every number
\* of threads, libc and kernel: the keys of thread.rs are exclusive.
THEOREM ExclusiveKeys == Spec => []KeysExclusive
<1>1. IInv => KeysExclusive
  <2> SUFFICES ASSUME IInv, NEW t \in Thread, NEW u \in Thread, t # u,
                      Running(t), Running(u), slot[t] # "dropped", slot[u] # "dropped",
                      inside[t] # NoKey, inside[t] = inside[u]
               PROVE  FALSE
    BY DEF KeysExclusive
  <2> DEFINE key == inside[t]
  <2>1. ASSUME NEW v \in Thread, Running(v), slot[v] # "dropped",
               inside[v] # NoKey
        PROVE  inside[v].id = IF inside[v].kind = "cpu_id" THEN place[v].cpu ELSE place[v].cid
    <3>1. TypeOK /\ ThreadInv(v) /\ CidInv
      BY DEF IInv
    <3>2. handle[v] # NoThread /\ handle[v].area \in Owner /\ inside[v].kind \in Kind
      BY <2>1, <3>1 DEF TypeOK, ThreadInv, InsideInv, Key, Owner
    <3>3. Attached(v)
      BY <2>1, <3>1, <3>2 DEF ThreadInv, HandleInv, Attached
    <3>4. area[v][kernel[v]][inside[v].kind] = inside[v].id
      BY <2>1, <3>1, <3>3 DEF ThreadInv, InsideInv, Attached
    <3>5. area[v][kernel[v]]["cpu_id"] = place[v].cpu
      BY <2>1, <3>1, <3>2, <3>3 DEF ThreadInv, AreasInv, Attached
    <3>6. inside[v].kind = "mm_cid" => area[v][kernel[v]]["mm_cid"] = place[v].cid
      <4>1. inside[v].kind = "mm_cid" => state.cid
        BY <2>1, <3>1, <3>2 DEF ThreadInv, InsideInv, HandleInv
      <4>2. state.cid => env.feature >= CID_FEATURE_SIZE
        BY <3>1 DEF CidInv
      <4> QED
        BY <2>1, <3>1, <3>2, <3>3, <4>1, <4>2 DEF ThreadInv, AreasInv, Attached
    <3> QED
      BY <3>2, <3>4, <3>5, <3>6 DEF Kind
  <2>2. place[t].cpu # place[u].cpu /\ place[t].cid # place[u].cid
    BY DEF IInv, PlacesApart
  <2> QED
    BY <2>1, <2>2
<1> QED
  BY <1>1, Invariance, PTL

-----------------------------------------------------------------------------
LEMMA DivisionRoundsUp ==
  ASSUME NEW n \in Nat
  PROVE  DivCeil(n, PAGE) * PAGE \in Nat /\ DivCeil(n, PAGE) * PAGE >= n
BY DEF DivCeil, PAGE

\* Words::get on words whose memory is long enough for their count.
LEMMA GetInMemory ==
  ASSUME NEW words, words.base \in Nat, words.cpus \in Nat, words.len \in Nat,
         words.cpus * 8 <= words.len, words.cpus * 8 <= UsizeMax,
         NEW id \in Nat
  PROVE  /\ Get(words, id) = None <=> id >= words.cpus
         /\ id < words.cpus =>
              /\ Get(words, id) = words.base + id * 8
              /\ Get(words, id) \in words.base .. words.base + words.len - WordBytes
<1>1. CASE id >= words.cpus
  BY <1>1 DEF Get
<1>2. CASE ~(id >= words.cpus)
  <2>1. id * 8 \in 0 .. UsizeMax /\ id * 8 + 8 <= words.cpus * 8
    BY <1>2, UsizeOK
  <2>2. (id * 8) % (UsizeMax + 1) = id * 8
    BY <2>1, UsizeOK
  <2>3. Get(words, id) = words.base + id * 8
    BY <1>2, <2>2 DEF Get, WordAt, WordBytes
  <2> QED
    BY <1>2, <2>1, <2>3, UsizeOK DEF WordBytes
<1> QED
  BY <1>1, <1>2

\* A region or a slice of the caller, which is no longer than the address
\* space, has a word for every id below its count, and for no other.  The words
\* lie in its memory and do not overlap: words.rs, new, from_static and get, and
\* region.rs, map and word.
THEOREM WordsInMapping ==
  ASSUME NEW cpus \in Nat, NEW base \in Nat,
         NEW words \in {NewWords(cpus, base), FromStatic(cpus, base, U32Max)},
         words # None,
         words = FromStatic(cpus, base, U32Max) => cpus * WordBytes <= UsizeMax
  PROVE  /\ \A id \in Nat : Get(words, id) = None <=> id >= cpus
         /\ \A id \in 0 .. cpus - 1 :
              Get(words, id) \in base .. base + words.len - WordBytes
         /\ \A i, j \in 0 .. cpus - 1 :
              i # j => \/ Get(words, i) + WordBytes <= Get(words, j)
                       \/ Get(words, j) + WordBytes <= Get(words, i)
<1>1. /\ words.base = base /\ words.cpus = cpus /\ cpus * 8 <= UsizeMax
      /\ words.len \in {DivCeil(cpus * 8, PAGE) * PAGE, cpus * 8}
  <2>1. CASE words = NewWords(cpus, base)
    <3>1. MapLen(cpus) # None /\ words = [base |-> base, cpus |-> cpus, len |-> MapLen(cpus)]
      BY <2>1 DEF NewWords, MapFailed
    <3>2. cpus * 8 <= UsizeMax /\ MapLen(cpus) = DivCeil(cpus * 8, PAGE) * PAGE
      BY <3>1 DEF MapLen, WordBytes
    <3> QED
      BY <3>1, <3>2
  <2>2. CASE words = FromStatic(cpus, base, U32Max)
    BY <2>2 DEF FromStatic, WordBytes
  <2> QED
    BY <2>1, <2>2
<1>2. cpus * 8 \in Nat /\ words.len \in Nat /\ words.len >= cpus * 8
  BY <1>1, DivisionRoundsUp
<1>3. ASSUME NEW id \in Nat
      PROVE  /\ Get(words, id) = None <=> id >= cpus
             /\ id < cpus =>
                  /\ Get(words, id) = base + id * 8
                  /\ Get(words, id) \in base .. base + words.len - WordBytes
  BY <1>1, <1>2, GetInMemory
<1>4. ASSUME NEW i \in 0 .. cpus - 1, NEW j \in 0 .. cpus - 1, i # j
      PROVE  \/ Get(words, i) + WordBytes <= Get(words, j)
             \/ Get(words, j) + WordBytes <= Get(words, i)
  <2>1. i * 8 + 8 <= j * 8 \/ j * 8 + 8 <= i * 8
    BY <1>4
  <2>2. Get(words, i) = base + i * 8 /\ Get(words, j) = base + j * 8
    BY <1>3
  <2> QED
    BY <2>1, <2>2 DEF WordBytes
<1> QED
  BY <1>3, <1>4

\* Rseq::words has a word in its mapping for every index that a bound thread
\* can read, when the list of CPUs is not cut by the buffer; behind a list that
\* is cut, get refuses an index without a word: rseq.rs, init, and words.rs.
THEOREM EveryIdHasAWord == Spec => []WordsCover
<1>1. ASSUME IInv, NEW t \in Thread, Attached(t), Running(t)
      PROVE  /\ state.cpus \in 1 .. U32Max /\ Indices(t) \subseteq Nat
             /\ ~ListIsCut => Indices(t) \subseteq 0 .. state.cpus - 1
  <2>1. /\ TypeOK /\ AreasInv(t) /\ handle[t] # NoThread /\ kernel[t] = handle[t].area
        /\ kernel[t] \in Owner /\ handle[t].area = state.mode /\ handle[t].cid = state.cid
        /\ state.cpus = Possible(env.possible, "read") /\ state.cpus \in 0 .. U32Max
        /\ state.cpus # 0 /\ env \in Environments
        /\ state.cid => env.feature >= CID_FEATURE_SIZE
        /\ place[t] \in Places
    BY <1>1
       DEF IInv, TypeOK, CidInv, Chosen, PlacesApart, ThreadInv, HandleInv, Attached, Owner
  <2>2. Indices(t) \subseteq {place[t].cpu, place[t].cid}
    BY <1>1, <2>1 DEF Indices, AreasInv
  <2>3. place[t].cpu \in Nat /\ place[t].cid \in Nat
    BY <2>1, PlacesFacts
  <2>4. ASSUME ~ListIsCut
        PROVE  place[t].cpu \in 0 .. state.cpus - 1 /\ place[t].cid \in 0 .. state.cpus - 1
    <3>1. Len(Text(env.possible)) <= BufLen
      BY <2>1, <2>4, CountCovers DEF ListIsCut, Access
    <3>2. \A c \in env.possible : c \in Nat /\ c < state.cpus
      <4>1. \A c \in env.possible : c \in Nat
        BY <2>1, PossibleFacts
      <4>2. \A c \in env.possible : c < state.cpus
        BY <2>1, <3>1, CountCovers DEF Access
      <4> QED
        BY <4>1, <4>2
    <3>3. Cardinality(env.possible) <= state.cpus
      <4>1. env.possible \in SUBSET (0 .. state.cpus - 1)
        BY <2>1, <3>2
      <4>2. IsFiniteSet(0 .. state.cpus - 1) /\ Cardinality(0 .. state.cpus - 1) = state.cpus
        <5> DEFINE n == state.cpus - 1
        <5>1. n \in Nat /\ state.cpus = n + 1
          BY <2>1
        <5> HIDE DEF n
        <5>2. IsFiniteSet(0 .. n) /\ Cardinality(0 .. n) = n + 1
          BY <5>1, FS_Interval
        <5> QED
          BY <5>1, <5>2 DEF n
      <4>3. Cardinality(env.possible) <= Cardinality(0 .. state.cpus - 1)
        BY <4>1, <4>2, FS_Subset
      <4> QED
        BY <2>1, <4>2, <4>3
    <3> QED
      BY <2>1, <2>3, <3>2, <3>3, PlacesFacts, PossibleFacts
  <2>5. state.cpus \in 1 .. U32Max
    BY <2>1
  <2> QED
    BY <2>2, <2>3, <2>4, <2>5
<1>2. ASSUME NEW cpus \in 1 .. U32Max, NEW id \in Nat
      PROVE  LET words == NewWords(cpus, Base) IN
               IF Get(words, id) = None THEN id >= cpus
               ELSE Get(words, id) \in Base .. Base + words.len - WordBytes
  <2> DEFINE len == DivCeil(cpus * 8, PAGE) * PAGE
             words == NewWords(cpus, Base)
  <2>1. cpus * 8 \in Nat /\ cpus * 8 <= UsizeMax /\ len <= UsizeMax
    <3>1. U32Max \in Nat /\ U32Max * 8 + 4096 <= UsizeMax /\ UsizeMax \in Nat
      BY EnvironmentsOK, AddressesOK, UsizeOK DEF WordBytes, PAGE
    <3>2. len <= cpus * 8 + 4096
      BY DEF DivCeil, PAGE
    <3> QED
      BY <3>1, <3>2, DivisionRoundsUp
  <2>2. words = [base |-> Base, cpus |-> cpus, len |-> len]
    <3>1. MapLen(cpus) = len
      BY <2>1 DEF MapLen, WordBytes
    <3>2. len # None /\ Base # None /\ cpus # 0
      BY <2>1, DivisionRoundsUp, AddressesOK, UsizeOK
    <3> QED
      BY <3>1, <3>2 DEF NewWords, MapFailed
  <2>3. len \in Nat /\ len >= cpus * 8
    BY <2>1, DivisionRoundsUp
  <2> HIDE DEF len, words
  <2>4. /\ Get(words, id) = None <=> id >= cpus
        /\ id < cpus => Get(words, id) \in Base .. Base + words.len - WordBytes
    BY <2>1, <2>2, <2>3, GetInMemory, AddressesOK
  <2> QED
    BY <2>4 DEF words
<1>3. IInv => WordsCover
  BY <1>1, <1>2 DEF WordsCover
<1> QED
  BY <1>3, Invariance, PTL

=============================================================================
