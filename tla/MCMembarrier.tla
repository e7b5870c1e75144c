----------------------------- MODULE MCMembarrier -----------------------------
(***************************************************************************)
(* Instances of Membarrier: a process, its child and its grandchild, or    *)
(* two children.                                                           *)
(***************************************************************************)
EXTENDS MembarrierFork

CONSTANTS root, child, second, main, worker

OneFork == {root, child}
TwoForks == {root, child, second}
MainOnly == {main}
MainAndWorker == {main, worker}

=============================================================================
