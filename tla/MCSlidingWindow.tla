-------------------------- MODULE MCSlidingWindow --------------------------
(***************************************************************************)
(* Instances of SlidingWindow for TLC.                                     *)
(***************************************************************************)
EXTENDS SlidingWindow, TLC

\* The requests of one client are interchangeable.
RequestSymmetry == Permutations(Request)

=============================================================================
