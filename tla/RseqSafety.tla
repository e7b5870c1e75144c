------------------------------ MODULE RseqSafety ------------------------------
(***************************************************************************)
(* What a registration promises to the threads that use it.                *)
(***************************************************************************)
EXTENDS Rseq

CONSTANT Base   \* the address at which the kernel maps the words

ASSUME AddressesOK == Base \in Nat /\ U32Max * WordBytes + PAGE <= UsizeMax

\* What the kernel writes for the CPUs of an environment: digits, commas and
\* dashes, a digit at the end, numbers of possible CPUs only, and every CPU at
\* or below a number with no dash behind it.
ASSUME CpuListOK ==
  /\ BufLen \in Nat
  /\ \A e \in Environments :
       LET text == Text(e.possible) IN
       /\ text \in Seq({Comma, Dash} \cup 0 .. 9) /\ IsDigit(text, Len(text))
       /\ \A r \in Runs(text) : Number(text, r) \in e.possible
       /\ \A c \in e.possible :
            \E r \in Runs(text) : c <= Number(text, r) /\ Upper(text, r)

Key    == [kind : Kind, id : 0 .. U32Max]
Place  == [cpu : 0 .. U32Max - 2, cid : 0 .. U32Max]

\* Every variable has its type.
TypeOK ==
  /\ env \in Environments
  /\ state \in [mode : {"unset", "None", "slot", "glibc"}, cpus : 0 .. U32Max, cid : BOOLEAN]
  /\ area \in [Thread -> [Owner -> [Kind -> 0 .. U32Max]]]
  /\ kernel \in [Thread -> {"none", "slot", "glibc", "other"}]
  /\ slot \in [Thread -> {"fresh", "live", "dropped"}]
  /\ life \in [Thread -> {"alive", "exiting", "gone"}]
  /\ place \in [Thread -> Place \cup {Off}]
  /\ handle \in [Thread -> [area : {"slot", "glibc"}, cid : BOOLEAN] \cup {NoThread}]
  /\ inside \in [Thread -> Key \cup {NoKey}]

\* The kernel looks at the area that the Thread of t points to.
Attached(t) == handle[t] # NoThread /\ kernel[t] = handle[t].area

\* A Thread that bind has handed out points to an area the kernel knows,
\* until the destructor of SLOT has run.
BoundIsRegistered ==
  \A t \in Thread : handle[t] # NoThread /\ slot[t] # "dropped" => Attached(t)

\* An operation on a CPU's word never passes its check on an area that the
\* kernel does not look at, not even in destructors behind the one of SLOT:
\* the sentinel that unregistering leaves is no CpuId.
CpuOpsProtected ==
  \A t \in Thread : inside[t].kind = "cpu_id" => Attached(t)

\* The kernel never writes to a SLOT whose thread and memory are gone.
NoAreaLeftBehind == \A t \in Thread : life[t] = "gone" => kernel[t] # "slot"

\* Two running threads are never inside blocks of one key, whatever areas and
\* features the process has, as long as their SLOTs are not destroyed.
KeysExclusive ==
  \A t, u \in Thread :
    /\ t # u /\ Running(t) /\ Running(u)
    /\ slot[t] # "dropped" /\ slot[u] # "dropped"
    /\ inside[t] # NoKey
    => inside[t] # inside[u]

\* The indices that a thread reads in its area.
Indices(t) ==
  LET fields == area[t][handle[t].area]
  IN {fields["cpu_id"]} \cup IF handle[t].cid THEN {fields["mm_cid"]} ELSE {}

ListIsCut == Len(Text(env.possible)) > BufLen

\* Rseq::words has a word inside its mapping for every index that a thread
\* can read.  Only behind a list that the buffer has cut may an index be
\* without a word, and then get refuses it.
WordsCover ==
  LET words == NewWords(state.cpus, Base) IN
  \A t \in Thread :
    Attached(t) /\ Running(t) =>
      \A id \in Indices(t) :
        IF Get(words, id) = None THEN ListIsCut
        ELSE Get(words, id) \in Base .. Base + words.len - WordBytes

\* Rseq::new settles on None only without blocks or kernel support, behind a
\* list of CPUs that could not be read or is cut, or when another library was
\* first on the thread that called; and on Some only with blocks, kernel
\* support and a list that can be read.
RefusedForAReason ==
  /\ state.mode = "None" =>
       \/ ~env.cs \/ ~env.kernel
       \/ "failed" \in env.sysfs \/ ListIsCut
       \/ \E t \in Thread : kernel[t] = "other"
  /\ state.mode \in Owner => env.cs /\ env.kernel /\ "read" \in env.sysfs

\* A thread that is bound can bind again until its SLOT is destroyed.
BindsAgain ==
  [][\A t \in Thread : Bind(t) /\ Attached(t) => handle'[t] = handle[t]]_vars

\* rseq.rs, and the README: None means that the kernel has no rseq.
NoneMeansNoKernel == state.mode = "None" => ~env.kernel

\* thread.rs: a self-registered Thread is valid until its thread exits.  Its
\* destructors still belong to the thread.
ThreadValidUntilExit == \A t \in Thread : inside[t] # NoKey => Attached(t)

=============================================================================
