-------------------------- MODULE GracefulService --------------------------
(***************************************************************************)
(* What a process that serves requests by means of clients promises about  *)
(* its start and its end, whatever goroutines and channels it is made of:  *)
(* requests are taken only while every client is open; clients are closed  *)
(* only when nobody is served any more or time is up; a process that ends  *)
(* by itself has closed them all; and it is a success only if every        *)
(* request it took was served to its end.                                  *)
(***************************************************************************)
CONSTANTS Requests, Clients

VARIABLES
  mode,     \* "starting", "up", "stopping" or "over"
  open,     \* the clients that are open
  active,   \* the requests being served
  cut,      \* the requests that were not served to their end
  late,     \* the time for stopping is up
  outcome   \* how the process ended, or "none"

vars == <<mode, open, active, cut, late, outcome>>

Init ==
  /\ mode = "starting"
  /\ open = {}
  /\ active = {}
  /\ cut = {}
  /\ late = FALSE
  /\ outcome = "none"

OpenClient(c) ==
  /\ mode = "starting"
  /\ open' = open \cup {c}
  /\ UNCHANGED <<mode, active, cut, late, outcome>>

Up ==
  /\ mode = "starting"
  /\ open = Clients
  /\ mode' = "up"
  /\ UNCHANGED <<open, active, cut, late, outcome>>

Accept(r) ==
  /\ mode \in {"up", "stopping"}
  /\ open = Clients
  /\ active' = active \cup {r}
  /\ UNCHANGED <<mode, open, cut, late, outcome>>

Serve(r) ==
  /\ mode \in {"up", "stopping"}
  /\ active' = active \ {r}
  /\ UNCHANGED <<mode, open, cut, late, outcome>>

Stop ==
  /\ mode = "up"
  /\ mode' = "stopping"
  /\ UNCHANGED <<open, active, cut, late, outcome>>

TimeIsUp ==
  /\ mode = "stopping"
  /\ late' = TRUE
  /\ UNCHANGED <<mode, open, active, cut, outcome>>

CloseClient(c) ==
  /\ mode = "stopping"
  /\ active = {} \/ late
  /\ open' = open \ {c}
  /\ \E lost \in SUBSET active : cut' = cut \cup lost
  /\ UNCHANGED <<mode, active, late, outcome>>

\* Whoever is still served when the process ends is cut off.
End(how) ==
  /\ mode' = "over"
  /\ cut' = cut \cup active
  /\ active' = {}
  /\ outcome' = how
  /\ UNCHANGED late

FailToStart == mode = "starting" /\ open' = {} /\ End("fatal")

BeKilled == mode \in {"starting", "up"} /\ UNCHANGED open /\ End("killed")

Finish ==
  /\ mode = "stopping"
  /\ open = {}
  /\ UNCHANGED open
  /\ End("error") \/ (active \cup cut = {} /\ End("ok"))

Next ==
  \/ \E c \in Clients : OpenClient(c) \/ CloseClient(c)
  \/ \E r \in Requests : Accept(r) \/ Serve(r)
  \/ Up \/ Stop \/ TimeIsUp
  \/ FailToStart \/ BeKilled \/ Finish

Spec == Init /\ [][Next]_vars

=============================================================================
