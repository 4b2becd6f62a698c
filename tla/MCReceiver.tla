----------------------------- MODULE MCReceiver -----------------------------
(***************************************************************************)
(* Three epochs, told apart by nothing but their identity, and three       *)
(* frames of each: in a window of two the last makes the first too old.    *)
(***************************************************************************)
EXTENDS Receiver, TLC

EpochSymmetry == Permutations(EpochID)
=============================================================================
