---------------------------- MODULE MCLiveStream -----------------------------
(* Instances of LiveStream for TLC. *)
EXTENDS LiveStream, TLC

CONSTANTS a, b, s1

Symmetry == Permutations(Entries)
=============================================================================
