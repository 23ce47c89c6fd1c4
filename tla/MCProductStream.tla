--------------------------- MODULE MCProductStream ---------------------------
(***************************************************************************)
(* ProductStream for clients that write a limit or an offset from one      *)
(* below zero to one above the greatest word.                              *)
(***************************************************************************)
EXTENDS ProductStream

MCNumbers == -1 .. MaxWord + 1
=============================================================================
