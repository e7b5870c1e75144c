------------------------------ MODULE Aarch64 -------------------------------
(***************************************************************************)
(* The six assembly blocks of src/aarch64.rs, as sequences of the labels   *)
(* of CriticalSection.  The additions are an ldr, an add and a str; the    *)
(* `str' of the sum is the commit.                                         *)
(***************************************************************************)

compare_exchange    == <<"arm", "check", "load_eq", "store_new">>

compare_exchange_if == <<"arm", "check", "load_eq", "load_other_eq", "store_new">>

\* Fault: the area is armed after the check.
store_if_ArmedLate == <<"check", "arm", "load_eq", "store_side", "store_new">>

store_if            == <<"arm", "check", "load_eq", "store_side", "store_new">>

load_if_ne          == <<"arm", "check", "load_ne", "chase", "store_chased">>

fetch_add           == <<"arm", "check", "load_prev", "store_sum">>

fetch_add_at        == <<"arm", "check", "load_base", "load_slot", "load_prev", "store_sum">>
=============================================================================
