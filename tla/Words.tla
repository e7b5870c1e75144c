-------------------------------- MODULE Words --------------------------------
(***************************************************************************)
(* The words of Rseq::words: one usize per possible CPU in one mapping of  *)
(* whole pages, addressed by an id.  Region::map, Region::word, Words::new *)
(* and Words::get, without the memory behind the addresses.                *)
(***************************************************************************)
EXTENDS Integers

CONSTANTS
  UsizeMax,   \* usize::MAX
  None        \* the absent value of an Option

WordBytes == 8      \* size_of::<AtomicUsize>()
PAGE == 4096

ASSUME UsizeOK == UsizeMax \in Nat /\ None \notin Nat

DivCeil(n, d) == (n + d - 1) \div d

\* The length of the mapping for cpus words.  None when a product of it
\* overflows.
MapLen(cpus) ==
  LET bytes == cpus * WordBytes
      len == DivCeil(bytes, PAGE) * PAGE
  IN IF bytes <= UsizeMax /\ len <= UsizeMax THEN len ELSE None

\* mmap returns the address of the mapping, or MAP_FAILED.
MapFailed(base) == base = None

\* A region holds cpus words from base on.  None for an empty one, and when it
\* cannot be mapped.
NewWords(cpus, base) ==
  IF cpus = 0 \/ MapLen(cpus) = None \/ MapFailed(base) THEN None
  ELSE [base |-> base, cpus |-> cpus, len |-> MapLen(cpus)]

\* Words::from_static: a slice of words that the caller owns.
FromStatic(count, base, u32_max) ==
  IF count = 0 \/ count > u32_max THEN None
  ELSE [base |-> base, cpus |-> count, len |-> count * WordBytes]

\* Region::word wraps at the width of an address.
WordAt(words, id) == words.base + ((id * WordBytes) % (UsizeMax + 1))

\* Words::get: the address of a word, None for an id without one.
Get(words, id) == IF id >= words.cpus THEN None ELSE WordAt(words, id)

=============================================================================
