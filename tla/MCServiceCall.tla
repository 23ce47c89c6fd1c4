--------------------------- MODULE MCServiceCall ---------------------------
(***************************************************************************)
(* An instance of ServiceCall for TLC.                                     *)
(***************************************************************************)
EXTENDS ServiceCall

\* A price Validate refuses, one that is received as a negative number now and
\* then, and one that loses a cent if its double is cut off (0.29 * 100).
MCPrices == {-1, 0, 29}

=============================================================================
