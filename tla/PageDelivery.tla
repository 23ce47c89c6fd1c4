---------------------------- MODULE PageDelivery ----------------------------
(***************************************************************************)
(* What a client that asks for a page of a list is promised about the      *)
(* stream it gets, whoever produces it: the products of its page in their  *)
(* order, one after the other; "end" only after the last of them; a        *)
(* refusal only instead of them; and as long as the client is there, no    *)
(* end without one of these or an error.                                   *)
(***************************************************************************)
EXTENDS Integers, Sequences

VARIABLES
  wanted,    \* the page: the products that were asked for, in order
  shown,     \* the products the client got
  ending,    \* how the client was told that it is over, or "none"
  there,     \* the client is there
  over       \* nothing more will come

vars == <<wanted, shown, ending, there, over>>

Refusals == {"badRequest", "internalError"}

Init ==
  /\ wanted \in Seq(Nat)
  /\ shown = <<>>
  /\ ending = "none"
  /\ there = TRUE
  /\ over = FALSE

Show ==
  /\ there /\ ~over
  /\ Len(shown) < Len(wanted)
  /\ shown' = Append(shown, wanted[Len(shown) + 1])
  /\ UNCHANGED <<wanted, ending, there, over>>

Finish ==
  /\ there /\ ~over
  /\ \/ ending' = "end" /\ shown = wanted
     \/ ending' \in Refusals /\ shown = <<>>
     \/ ending' = "error"
  /\ over' = TRUE
  /\ UNCHANGED <<wanted, shown, there>>

\* The client goes away, or is cut off, and the stream may end with it.
Leave ==
  /\ ~over
  /\ there' = FALSE
  /\ over' \in BOOLEAN
  /\ UNCHANGED <<wanted, shown, ending>>

Next == Show \/ Finish \/ Leave

Spec == Init /\ [][Next]_vars

=============================================================================
