--------------------------- MODULE MCIdempotency ---------------------------
(***************************************************************************)
(* Instances of Idempotency for TLC.                                       *)
(***************************************************************************)
EXTENDS Idempotency, TLC

\* Attempts, tokens and bodies are interchangeable.
Symmetry ==
  Permutations(Attempt) \cup Permutations(Token) \cup Permutations(Body)

\* Every fault the module knows.
AllFaults == {"redis", "upstream", "panic", "crash", "expiry"}

=============================================================================
