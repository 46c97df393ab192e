-------------------------- MODULE MCBanRepository --------------------------
(* Small instances of BanRepository for TLC.                               *)
EXTENDS BanRepository, TLC

(* Threads are only compared for equality.                                 *)
ThreadSymmetry == Permutations(Threads)

=============================================================================
