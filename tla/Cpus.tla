-------------------------------- MODULE Cpus ---------------------------------
(***************************************************************************)
(* Cpus::possible: the number of CPUs from the list that the kernel        *)
(* exports in sysfs, as "0-3" or "0,2-15".  The text is a sequence of      *)
(* bytes, without the newline that the code trims.                         *)
(***************************************************************************)
EXTENDS Integers, Sequences, SequencesExt

CONSTANTS
  U32Max,   \* u32::MAX
  BufLen    \* length of the buffer of the one read, 256 in the code

NoCount == 0   \* None: no list has an empty count

Comma == -1    \* all other bytes are digits, 0 to 9
Dash  == -2

-----------------------------------------------------------------------------
(* The kernel's side: the text it writes for a set of possible CPUs. *)

Ranges(S) ==
  { r \in S \X S :
      /\ r[1] <= r[2] /\ r[1] .. r[2] \subseteq S
      /\ r[1] - 1 \notin S /\ r[2] + 1 \notin S }

\* The models have CPUs below 100.
Digits(n) == IF n < 10 THEN <<n>> ELSE <<n \div 10, n % 10>>

Text(S) ==
  LET part(r) == IF r[1] = r[2] THEN Digits(r[1])
                 ELSE Digits(r[1]) \o <<Dash>> \o Digits(r[2])
      below(r) == { q \in Ranges(S) : q[1] < r[1] }
      sorted  == [i \in 1 .. Cardinality(Ranges(S)) |->
                    CHOOSE r \in Ranges(S) : Cardinality(below(r)) = i - 1]
      join(text, r) == IF text = <<>> THEN part(r) ELSE text \o <<Comma>> \o part(r)
  IN FoldLeft(join, <<>>, sorted)

-----------------------------------------------------------------------------
(* The reader and its parser. *)

\* The file is opened and read, or one of the two failed.
Access == {"read", "failed"}

\* One read fills the buffer at most.
Read(S) == SubSeq(Text(S), 1, Min({Len(Text(S)), BufLen}))

IsDigit(raw, i) == i \in DOMAIN raw /\ raw[i] \notin {Comma, Dash}

\* Where the numbers of a text begin and end: what split(',') and
\* split_once('-') leave.
Runs(raw) ==
  { r \in (DOMAIN raw) \X (DOMAIN raw) :
      /\ r[1] <= r[2] /\ \A i \in r[1] .. r[2] : IsDigit(raw, i)
      /\ ~IsDigit(raw, r[1] - 1) /\ ~IsDigit(raw, r[2] + 1) }

Number(raw, r) == FoldLeft(LAMBDA n, d : 10 * n + d, 0, SubSeq(raw, r[1], r[2]))

\* A number is the upper end of its part unless a dash follows.
Upper(raw, r) == r[2] < Len(raw) => raw[r[2] + 1] # Dash

Highs(raw) == { Number(raw, r) : r \in { r \in Runs(raw) : Upper(raw, r) } }

\* Every part is one number or two around a dash, and they are u32.  In a
\* prefix of a kernel's text only the last part can be without a number; a
\* number that the buffer has cut parses as well.
Parses(raw) ==
  /\ IsDigit(raw, Len(raw))
  /\ \A r \in Runs(raw) : Number(raw, r) \in 0 .. U32Max

\* Fault: the highest id is taken for the count.
Possible_NoPlusOne(S, access) ==
  LET max == Max(Highs(Read(S)) \cup {0})
  IN IF access # "read" \/ ~Parses(Read(S)) \/ max >= U32Max THEN NoCount ELSE max

\* The highest listed id plus one.  None when the file cannot be opened or
\* read, when its text does not parse, and when the sum overflows.
Possible(S, access) ==
  LET max == Max(Highs(Read(S)) \cup {0})
  IN IF access # "read" \/ ~Parses(Read(S)) \/ max >= U32Max THEN NoCount ELSE max + 1

=============================================================================
