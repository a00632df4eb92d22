----------------------------- MODULE MCWitness -----------------------------
(* Instances of Witness for TLC. *)
EXTENDS Witness, TLC

\* Requests, bodies and models are interchangeable, and so are the values of
\* each in every property; all are invariants.
Symmetry ==
  Permutations(Inputs) \cup Permutations(Outputs) \cup Permutations(Snapshots)
=============================================================================
