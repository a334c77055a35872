----------------------------- MODULE MCChangeLog -----------------------------
(***************************************************************************)
(* ChangeLog for TLC: Sessions are interchangeable.                        *)
(***************************************************************************)
EXTENDS ChangeLog, TLC

SessionSymmetry == Permutations(Sessions)
=============================================================================
