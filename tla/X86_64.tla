------------------------------- MODULE X86_64 -------------------------------
(***************************************************************************)
(* The six assembly blocks of src/x86_64.rs, each as the sequence of its   *)
(* instructions that touch memory or the rseq area.  What a label does is  *)
(* defined in CriticalSection.  Position 1 is the abort label (17:, 27:,   *)
(* ...), which arms the area; the critical section of the descriptor is    *)
(* everything after it, up to the committing store in the last position.   *)
(* A load and the compare-and-branch that follows it are one label: only   *)
(* the load reads shared state.  `xadd' carries no lock prefix, so to the  *)
(* other CPUs it is a load followed by a store, and it has two labels.     *)
(***************************************************************************)

\* Fault: the area is armed after the check.
compare_exchange_ArmedLate == <<"check", "arm", "load_eq", "store_new">>

compare_exchange    == <<"arm", "check", "load_eq", "store_new">>

compare_exchange_if == <<"arm", "check", "load_eq", "load_other_eq", "store_new">>

store_if            == <<"arm", "check", "load_eq", "store_side", "store_new">>

load_if_ne          == <<"arm", "check", "load_ne", "chase", "store_chased">>

\* Fault: no check.
fetch_add_Unchecked == <<"arm", "load_prev", "store_sum">>

fetch_add           == <<"arm", "check", "load_prev", "store_sum">>

fetch_add_at        == <<"arm", "check", "load_base", "load_slot", "load_prev", "store_sum">>
=============================================================================
