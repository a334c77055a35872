-------------------------- MODULE MCSynchronization --------------------------
(***************************************************************************)
(* Synchronization for TLC: Sessions are interchangeable.                  *)
(***************************************************************************)
EXTENDS Synchronization, TLC

SessionSymmetry == Permutations(Sessions)
=============================================================================
