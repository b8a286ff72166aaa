----------------------------- MODULE MCIPPJobs -----------------------------
(* Instances of IPPJobs for TLC: Slots is a set of model values.            *)
EXTENDS IPPJobs, TLC

\* Slots are interchangeable; used by the runs that check safety only.
Symmetry == Permutations(Slots)
=============================================================================
