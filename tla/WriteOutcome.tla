---------------------------- MODULE WriteOutcome ----------------------------
(***************************************************************************)
(* What the outcome of a request says about the change it asked for,       *)
(* whoever makes the change and however often calls are lost: "done" only  *)
(* after the change was made, "refused" only when it was not and never     *)
(* will be, "unknown" at any time.  A change is made once at most, and     *)
(* only for a request that was not answered when it was sent.              *)
(***************************************************************************)
CONSTANT Request

VARIABLES
  writes,    \* the requests that ask for a change
  underway,  \* the requests whose change was sent and may still be made
  done,      \* the requests whose change was made
  told       \* told[r]: what the client knows

vars == <<writes, underway, done, told>>

Init ==
  /\ writes \in SUBSET Request
  /\ underway = {}
  /\ done = {}
  /\ told = [r \in Request |-> "nothing"]

Send(r) ==
  /\ r \in writes \ (underway \cup done)
  /\ told[r] = "nothing"
  /\ underway' = underway \cup {r}
  /\ UNCHANGED <<writes, done, told>>

Make(r) ==
  /\ r \in underway
  /\ underway' = underway \ {r}
  /\ done' = done \cup {r}
  /\ UNCHANGED <<writes, told>>

Drop(r) ==
  /\ underway' = underway \ {r}
  /\ UNCHANGED <<writes, done, told>>

Tell(r, what) ==
  /\ told[r] = "nothing"
  /\ told' = [told EXCEPT ![r] = what]
  /\ UNCHANGED <<writes, underway>>

Done(r) ==
  /\ Tell(r, "done")
  /\ r \in writes => r \in done
  /\ UNCHANGED done

\* The change is made on the spot, and the client told.
MakeHere(r) ==
  /\ Tell(r, "done")
  /\ r \in writes \ (underway \cup done)
  /\ done' = done \cup {r}

Refuse(r) ==
  /\ Tell(r, "refused")
  /\ r \notin underway \cup done
  /\ UNCHANGED done

Fail(r) == Tell(r, "unknown") /\ UNCHANGED done

Next == \E r \in Request : \/ Send(r) \/ Make(r) \/ Drop(r)
                           \/ Done(r) \/ MakeHere(r) \/ Refuse(r) \/ Fail(r)

Spec == Init /\ [][Next]_vars

=============================================================================
