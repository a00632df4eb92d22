-------------------------- MODULE MCEvidenceChain --------------------------
(* Instances of EvidenceChain and the readers of its file for TLC. *)
EXTENDS FrameReader

\* Handles are interchangeable in the specification and in every property,
\* all of which are safety properties.
Symmetry == Permutations(Handles)

\* One payload below and one above the witness's bound.
SmallAndLarge == [tag : {"registered"}, size : {"small", "large"}]
=============================================================================
