------------------------ MODULE CriticalSectionSafety ------------------------
(***************************************************************************)
(* What the word operations promise, under the rules their callers follow. *)
(***************************************************************************)
EXTENDS CriticalSectionInvariants

CONSTANTS
  Home,    \* the index every address belongs to
  Holds    \* the values callers ever put into every address

AtHome(word) == Home[word.addr] = [kind |-> word.kind, key |-> word.key]

\* The callers' rule for words: an address is always picked with the same
\* index (Words::get pairs slot id with key id), and the side word of a
\* store_if is another word.  compare_exchange_if may compare one word twice.
ASSUME OneIndexPerWord ==
  /\ Home \in [Addr -> [kind : Kind, key : Id]]
  /\ \A c \in Calls : AtHome(c.word) /\ AtHome(c.other)
  /\ \A c \in Calls : c.op = "store_if" => c.other.addr # c.word.addr

HomeOf(t) == Home[call[t].word.addr]

-----------------------------------------------------------------------------
(* The callers' rules for chased addresses, which depend on memory. *)

\* load_if_ne only dereferences a readable word (thread.rs, Safety), and one
\* of its own index: a field that another index writes is not stable.
ChaseLegal ==
  \A t \in Thread :
    (At(t, "chase") \/ At(t, "store_chased"))
      => Field(t) \in Addr /\ Home[Field(t)] = HomeOf(t)

\* fetch_add_at finds its slot pointer in a live word of its own index, and
\* the slot is a live word of its own index.
SlotLegal ==
  \A t \in Thread :
    Running(t) /\ Busy(t) /\ call[t].op = "fetch_add_at"
      /\ (At(t, "load_slot") \/ At(t, "load_prev") \/ At(t, "store_sum"))
      => reg[t].tmp \in Addr /\ Home[reg[t].tmp] = HomeOf(t)

ChaseContract == ChaseLegal /\ SlotLegal

\* A rule for values that keeps the chases legal, and that a caller can follow
\* word by word: every address has a set of values, no call takes a word out
\* of its set, and the sets of the words that are dereferenced lead to live
\* words of the same index.
Leads(c, address) == address \in Addr /\ Home[address] = Home[c.word.addr]

StoresKept(c) ==
  /\ c.op \in {"compare_exchange"} \cup Paired => c.new \in Holds[c.word.addr]
  /\ c.op = "store_if" => c.other_val \in Holds[c.other.addr]

Closed(a, count) == \A v \in Holds[a] : Plus(v, count) \in Holds[a]

\* A node that load_if_ne finds has its link in a live word, and the link is
\* another node the list may begin with.
PopsKept(c) ==
  \A v \in Holds[c.word.addr] \ {c.expect} :
    LET field == Plus(v, c.offset) IN
    Leads(c, field) /\ Holds[field] \subseteq Holds[c.word.addr]

\* The word that fetch_add_at begins with points to a table of live slots.
SlotsKept(c) ==
  \A v \in Holds[c.word.addr] :
    LET base == Plus(v, c.offset) IN
    /\ Leads(c, base)
    /\ \A slot \in Holds[base] : Leads(c, slot) /\ Closed(slot, c.new)

ASSUME ValuesKept ==
  /\ Holds \in [Addr -> SUBSET Value]
  /\ \A a \in Addr : InitMem[a] \in Holds[a]
  /\ \A c \in Calls :
       /\ StoresKept(c)
       /\ c.op = "fetch_add"    => Closed(c.word.addr, c.new)
       /\ c.op = "load_if_ne"   => PopsKept(c)
       /\ c.op = "fetch_add_at" => SlotsKept(c)

\* Every word keeps a value of its set.
WellHeld == \A a \in Addr : mem[a] \in Holds[a]

-----------------------------------------------------------------------------
\* What the instructions before the next one have established, as long as
\* the thread runs: the word it is about to overwrite still has the value it
\* compared or will return, the second word still satisfies the second
\* compare or already holds the side value, a chased field still has the
\* value chased.
Established(t) ==
  LET c == call[t]  word == mem[c.word.addr]  other == mem[c.other.addr] IN
  /\ At(t, "store_new") \/ At(t, "load_other_eq") \/ At(t, "store_side")
       => reg[t].cur = c.expect /\ word = c.expect
  /\ At(t, "store_new") /\ c.op \in Paired => other = c.other_val
  /\ At(t, "chase") \/ At(t, "store_chased")
       => reg[t].cur # c.expect /\ word = reg[t].cur
  /\ At(t, "store_chased") => reg[t].tmp = mem[Field(t)]
  /\ At(t, "store_sum") => reg[t].cur = mem[Target(t)]
  /\ At(t, "load_slot") => reg[t].tmp = Plus(word, c.offset)
  /\ (At(t, "load_prev") \/ At(t, "store_sum")) /\ c.op = "fetch_add_at"
       => LET base == Plus(word, c.offset) IN
          /\ base \in Addr /\ Home[base] = HomeOf(t)
          /\ reg[t].tmp = mem[base]

\* A committing store never acts on a stale read: no other thread has come
\* between the loads of a block and its commit, on any CPU.
NothingStale == \A t \in Thread : Running(t) /\ Busy(t) => Established(t)

\* A paired call in progress has two words of one key.
KeysAgree ==
  \A t \in Thread :
    /\ Busy(t) => ~KeysDiffer(call[t])
    /\ frame[t] # NoFrame /\ frame[t].call # Idle => ~KeysDiffer(frame[t].call)

\* Memory only changes under a thread that runs with the index the address
\* belongs to.  A thread with a stale word, picked before a migration,
\* changes nothing.
OnlyHomeWrites ==
  [][\A a \in Addr : mem'[a] # mem[a] =>
       \E t \in Thread :
         Running(t) /\ index[t][Home[a].kind] = Home[a].key]_vars

\* Two threads are never both past the checks of blocks for one index.
OnePerIndex ==
  \A t, u \in Thread :
    /\ Running(t) /\ InCS(t) /\ ip[t] > 2
    /\ Running(u) /\ InCS(u) /\ ip[u] > 2
    /\ HomeOf(t) = HomeOf(u)
    => t = u

-----------------------------------------------------------------------------
(* The operations implement the abstract ones.  A call is pending from its *)
(* Invoke to its last instruction; a miss and an abort take effect at the  *)
(* load that decides them, a success at the commit.                        *)

held == [t \in Thread |->
           IF frame[t] = NoFrame THEN NoFrame ELSE frame[t].call]

Abstract == INSTANCE WordOps WITH held <- held

\* Every operation is atomic with respect to the threads of its index.
ImplementsWordOps == Abstract!Spec

=============================================================================
