---------------------------- MODULE MCAgentLoop ----------------------------
(* Keys, inputs and the calls that own their claim are interchangeable.     *)
EXTENDS AgentLoop, TLC

Symmetry == Permutations(Keyed) \cup Permutations(Keys) \cup Permutations(Inputs)
=============================================================================
