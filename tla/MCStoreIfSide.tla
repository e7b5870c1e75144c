---------------------------- MODULE MCStoreIfSide ----------------------------
(***************************************************************************)
(* StoreIfSide on the words and calls of MCCriticalSection.                *)
(***************************************************************************)
EXTENDS StoreIfSide, MCCriticalSection

=============================================================================
