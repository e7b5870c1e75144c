------------------------------- MODULE MCRseq --------------------------------
(***************************************************************************)
(* Two threads in the environments that the code tells apart.              *)
(***************************************************************************)
EXTENDS RseqSafety, TLC

CONSTANTS t1, t2

TwoThreads == {t1, t2}
Symmetric  == Permutations(TwoThreads)

Linux(libc, feature, possible) ==
  [cs |-> TRUE, kernel |-> TRUE, libc |-> libc, feature |-> feature,
   sysfs |-> {"read"}, possible |-> possible]

\* Three lists of more than six bytes: "0,2,4,6" is cut behind a comma,
\* "0,2,4-6" behind a dash, and "0,11-12" inside its last number.
CutBehindComma  == Linux(0, 28, {0, 2, 4, 6})
CutBehindDash   == Linux(0, 28, {0, 2, 4, 5, 6})
CutInsideNumber == Linux(0, 28, {0, 11, 12})

Unreadable(base) == [base EXCEPT !.sysfs = {"failed"}]
Sometimes(base)  == [base EXCEPT !.sysfs = Access]

MCEnvironments ==
  { Linux(libc, feature, {0, 1}) : libc \in {0, 20, 33}, feature \in {0, 24, 28, 33} }
    \cup { Linux(libc, 28, {0, 2}) : libc \in {0, 33} }
    \cup { Linux(0, 28, {1}), Linux(33, 28, {9, 10}) }
    \cup { CutBehindComma, CutBehindDash, CutInsideNumber }
    \cup { Sometimes(Linux(libc, 28, {0, 1})) : libc \in {0, 33} }
    \cup { [Linux(0, 0, {0, 1}) EXCEPT !.kernel = FALSE],
           [Linux(0, 0, {0, 1}) EXCEPT !.cs = FALSE],
           [Linux(33, 28, {0, 1}) EXCEPT !.cs = FALSE] }

\* A kernel with rseq, and a list of CPUs that is cut or cannot be read.
ListlessEnvironments == { CutBehindComma, Unreadable(Linux(0, 28, {0, 1})) }

=============================================================================
