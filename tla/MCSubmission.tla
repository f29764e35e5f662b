---------------------------- MODULE MCSubmission ----------------------------
(* Instances of Submission for TLC. *)
EXTENDS Submission, TLC

CONSTANTS q1, q2

OnePoint == [q \in Questions |-> 1]
OnceOnly == q1 :> 1
OneAnswer == {{q1}}
RequestSymmetry == Permutations(Requests)
=============================================================================
