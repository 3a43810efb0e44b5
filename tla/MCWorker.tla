------------------------------ MODULE MCWorker ------------------------------
(* Instances of Worker for TLC.                                            *)
EXTENDS Worker, TLC

Alike == Permutations(Threads) \cup Permutations(Ids)
=============================================================================
