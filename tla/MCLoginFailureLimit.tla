------------------------ MODULE MCLoginFailureLimit ------------------------
(***************************************************************************)
(* Instances of LoginFailureLimit for TLC.                                 *)
(***************************************************************************)
EXTENDS LoginFailureLimit, TLC

\* The requests in flight are interchangeable.
WorkerSymmetry == Permutations(Worker)

=============================================================================
