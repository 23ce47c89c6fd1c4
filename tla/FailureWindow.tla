--------------------------- MODULE FailureWindow ---------------------------
(***************************************************************************)
(* What a limit on failures promises about one address, whatever it is     *)
(* made of: the failures of one window are few, the window begins with the *)
(* first of them and no other one moves its end, at the end all of them    *)
(* are forgotten, and an address that reached the limit is reported once   *)
(* in a window.  When an address is refused is not said here.              *)
(***************************************************************************)
EXTENDS Integers

CONSTANTS
  Limit,    \* failures that block an address
  Window,   \* length of a window
  InFlight  \* requests of the address that may be answered at one time

VARIABLES
  failures,  \* counted in the present window
  left,      \* what is left of the window, 0 when there is none
  reports    \* of the address in the present window

vars == <<failures, left, reports>>

Init == failures = 0 /\ left = 0 /\ reports = 0

Begin ==
  /\ failures = 0
  /\ failures' = 1
  /\ left' = Window
  /\ UNCHANGED reports

CountOneMore ==
  /\ failures \in 1 .. (Limit + InFlight - 2)
  /\ failures' = failures + 1
  /\ UNCHANGED <<left, reports>>

Report ==
  /\ failures >= Limit
  /\ reports = 0
  /\ reports' = 1
  /\ UNCHANGED <<failures, left>>

TimePasses ==
  /\ left > 1
  /\ left' = left - 1
  /\ UNCHANGED <<failures, reports>>

Forget ==
  /\ left = 1
  /\ left' = 0
  /\ failures' = 0
  /\ reports' = 0

Next == Begin \/ CountOneMore \/ Report \/ TimePasses \/ Forget

Spec == Init /\ [][Next]_vars

=============================================================================
