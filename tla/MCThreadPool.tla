---------------------------- MODULE MCThreadPool ----------------------------
(* Small instances of ThreadPool.                                          *)
EXTENDS ThreadPool, TLC

Symmetry == Permutations(Thread) \cup Permutations(Task \ Timer)
=============================================================================
