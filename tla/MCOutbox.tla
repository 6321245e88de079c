------------------------------ MODULE MCOutbox ------------------------------
(* Outbox on small instances for TLC. *)
EXTENDS Outbox, TLC

KeySymmetry == Permutations(Keys)
RunSymmetry == Permutations(Runs)
PayloadSymmetry == Permutations(Payloads)
Symmetry == KeySymmetry \cup RunSymmetry \cup PayloadSymmetry
=============================================================================
