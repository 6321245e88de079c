------------------------------ MODULE MCReview ------------------------------
(* The review queue on a small instance. *)
EXTENDS Review, TLC

\* Requests, reviewers and contents are interchangeable.
Symmetry == Permutations(Tasks) \cup Permutations(Reviewers) \cup Permutations(Contents)
=============================================================================
