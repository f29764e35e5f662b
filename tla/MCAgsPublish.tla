---------------------------- MODULE MCAgsPublish ----------------------------
(* Instances of AgsPublish for TLC. *)
EXTENDS AgsPublish, TLC

WorkerSymmetry == Permutations(Workers)
=============================================================================
