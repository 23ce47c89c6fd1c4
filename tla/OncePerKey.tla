---------------------------- MODULE OncePerKey ----------------------------
(***************************************************************************)
(* What an idempotency key promises a client: once a key is settled, that  *)
(* is, once the answer of an attempt that took effect is kept for it, no   *)
(* attempt that begins takes effect, until the key is forgotten.  Attempts *)
(* that began before may still take effect.                                *)
(***************************************************************************)
CONSTANTS Attempt, CacheKey

VARIABLES
  keyOf,    \* keyOf[a]: the cache keys attempt a is known by, {} before it came
  begun,    \* the attempts that may take effect
  applied,  \* the attempts that took effect
  settled   \* the cache keys an answer is kept for

vars == <<keyOf, begun, applied, settled>>

Init ==
  /\ keyOf = [a \in Attempt |-> {}]
  /\ begun = {}
  /\ applied = {}
  /\ settled = {}

Come(a, k) ==
  /\ keyOf[a] = {}
  /\ keyOf' = [keyOf EXCEPT ![a] = {k}]
  /\ UNCHANGED <<begun, applied, settled>>

Begin(a) ==
  /\ keyOf[a] # {}
  /\ keyOf[a] \cap settled = {}
  /\ a \notin applied
  /\ begun' = begun \cup {a}
  /\ UNCHANGED <<keyOf, applied, settled>>

GiveUp(a) ==
  /\ begun' = begun \ {a}
  /\ UNCHANGED <<keyOf, applied, settled>>

Apply(a) ==
  /\ a \in begun
  /\ begun' = begun \ {a}
  /\ applied' = applied \cup {a}
  /\ UNCHANGED <<keyOf, settled>>

Settle(a) ==
  /\ a \in applied
  /\ settled' = settled \cup keyOf[a]
  /\ UNCHANGED <<keyOf, begun, applied>>

Forget(k) ==
  /\ settled' = settled \ {k}
  /\ UNCHANGED <<keyOf, begun, applied>>

Next ==
  \/ \E a \in Attempt : Begin(a) \/ GiveUp(a) \/ Apply(a) \/ Settle(a)
  \/ \E k \in CacheKey : Forget(k) \/ \E a \in Attempt : Come(a, k)

Spec == Init /\ [][Next]_vars

=============================================================================
