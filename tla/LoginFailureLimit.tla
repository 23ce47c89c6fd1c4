------------------------- MODULE LoginFailureLimit -------------------------
(***************************************************************************)
(* The limit on failed logins of one client address:                       *)
(* middleware/login_failure_limit.go around ratelimit.FailureLimiter.      *)
(* The failures are counted in one Redis key with a time to live; Blocked  *)
(* reads it before the login handler runs, Fail increments it after the    *)
(* handler has answered 401.  Between the two any number of other logins   *)
(* of the address read and increment the same key.  The handler asks       *)
(* shop-auth and answers by writeAuthError (AuthErrors).                   *)
(*                                                                         *)
(* A worker is a login request in flight, on any gateway; it is used again *)
(* for the next request.  The time to live counts down, so behaviours are  *)
(* infinite without an unbounded clock.                                    *)
(***************************************************************************)
EXTENDS AuthErrors, FiniteSets

CONSTANTS
  Worker,  \* login requests of the address in flight at one time
  Limit,   \* login_failure_limit.limit
  Window   \* login_failure_limit.window, in ticks

ASSUME ConfigAssumption == Limit \in Nat \ {0} /\ Window \in Nat \ {0}
ASSUME WorkerAssumption == IsFiniteSet(Worker)

VARIABLES
  count,    \* value of the key, 0 when there is no key
  ttl,      \* remaining time to live of the key, 0 when it has none
  phase,    \* phase[w]: how far the request of worker w has come
  seen,     \* seen[w]: the count w read last, by GET or as the result of INCR
  verdict,  \* verdict[w]: shop-auth's reply to the login to be counted
  current,  \* history: the workers whose last failure is in the present key
  warnings  \* history: "address blocked" warnings about the present key

vars == <<count, ttl, phase, seen, verdict, current, warnings>>

Phase == {"idle",       \* no request
          "checking",   \* Blocked: GET is answered, PTTL is not
          "login",      \* the login handler runs, its status is recorded
          "unwatched",  \* the login handler runs, its status is not looked at
          "rejected",   \* the handler answered 401, Fail is called
          "counted",    \* INCR and EXPIRE NX were executed
          "refused"}    \* 429 too_many_login_failures

-----------------------------------------------------------------------------
Init ==
  /\ count = 0
  /\ ttl = 0
  /\ phase = [w \in Worker |-> "idle"]
  /\ seen = [w \in Worker |-> 0]
  /\ verdict = [w \in Worker |-> "none"]
  /\ current = {}
  /\ warnings = 0

Goto(w, p) == phase' = [phase EXCEPT ![w] = p]

\* Blocked, first command of the pipeline: GET.
ReadCount(w) ==
  /\ phase[w] = "idle"
  /\ seen' = [seen EXCEPT ![w] = count]
  /\ Goto(w, "checking")
  /\ UNCHANGED <<count, ttl, verdict, current, warnings>>

\* Mutant: the block begins one failure late.
CheckPassesAtLimit(w) ==
  /\ phase[w] = "checking"
  /\ seen[w] <= Limit \/ ttl = 0
  /\ Goto(w, "login")
  /\ UNCHANGED <<count, ttl, seen, verdict, current, warnings>>

\* Blocked, second command: PTTL, after which Blocked returns.  There was no
\* key, or too few failures, or the key has expired in between: not blocked.
CheckPasses(w) ==
  /\ phase[w] = "checking"
  /\ seen[w] < Limit \/ ttl = 0
  /\ Goto(w, "login")
  /\ UNCHANGED <<count, ttl, seen, verdict, current, warnings>>

\* The count read by GET was at the limit and PTTL finds a time to wait.
CheckRefuses(w) ==
  /\ phase[w] = "checking"
  /\ seen[w] >= Limit /\ ttl > 0
  /\ Goto(w, "refused")
  /\ UNCHANGED <<count, ttl, seen, verdict, current, warnings>>

\* Without a limiter, without a usable remote address, or when Blocked fails,
\* the handler runs and the outcome of the login is not looked at: fail-open.
CheckFails(w) ==
  /\ phase[w] \in {"idle", "checking"}
  /\ Goto(w, "unwatched")
  /\ UNCHANGED <<count, ttl, seen, verdict, current, warnings>>

\* The handler refuses the method or the body without a call, or panics.
LoginNotAsked(w) ==
  /\ phase[w] = "login"
  /\ Goto(w, "idle")
  /\ UNCHANGED <<count, ttl, seen, verdict, current, warnings>>

\* Mutant: every answer that is no success is a failure to be counted.
CountedStatusAnyError(status) == status # 200

\* The status the middleware counts.
CountedStatus(status) == status = 401

\* Shop-auth replies to the login, or its call is lost; the handler answers
\* by writeAuthError, and the middleware looks at the recorded status.
LoginAnswered(w) ==
  /\ phase[w] = "login"
  /\ \E c \in Code \ {"No"} :
       IF CountedStatus(AuthStatus(c))
       THEN /\ verdict' = [verdict EXCEPT ![w] = c]
            /\ Goto(w, "rejected")
       ELSE /\ Goto(w, "idle")
            /\ UNCHANGED verdict
  /\ UNCHANGED <<count, ttl, seen, current, warnings>>

\* Mutant: INCR without EXPIRE, as when the connection breaks in between.
FailIncrOnly(w) ==
  /\ phase[w] = "rejected"
  /\ count' = count + 1
  /\ seen' = [seen EXCEPT ![w] = count + 1]
  /\ current' = current \cup {w}
  /\ Goto(w, "counted")
  /\ UNCHANGED <<ttl, verdict, warnings>>

\* Fail: MULTI, INCR, EXPIRE NX, EXEC.  Only the first failure sets the expiry.
Fail(w) ==
  /\ phase[w] = "rejected"
  /\ count' = count + 1
  /\ ttl' = IF ttl = 0 THEN Window ELSE ttl
  /\ seen' = [seen EXCEPT ![w] = count + 1]
  /\ current' = current \cup {w}
  /\ Goto(w, "counted")
  /\ UNCHANGED <<verdict, warnings>>

\* Mutant: a warning for every failure at or above the limit.
ReachedOrPassed(w) == seen[w] >= Limit

\* Fail's result: this failure is the one that reached the limit.
BlockedNow(w) == seen[w] = Limit

\* The reply to Fail arrives; the failure that reached the limit is logged.
\* (A reply about a key that has expired since warns about the older block.)
FailReturns(w) ==
  /\ phase[w] = "counted"
  /\ warnings' = IF BlockedNow(w) /\ w \in current
                 THEN warnings + 1 ELSE warnings
  /\ verdict' = [verdict EXCEPT ![w] = "none"]
  /\ Goto(w, "idle")
  /\ UNCHANGED <<count, ttl, seen, current>>

\* Fail does not reach Redis within its second, or its reply is lost: a
\* transaction whose reply is lost is not sent again.
FailLost(w) ==
  /\ phase[w] \in {"rejected", "counted"}
  /\ verdict' = [verdict EXCEPT ![w] = "none"]
  /\ Goto(w, "idle")
  /\ UNCHANGED <<count, ttl, seen, current, warnings>>

\* The refused client, or the one whose login was not watched, is answered.
Leave(w) ==
  /\ phase[w] \in {"refused", "unwatched"}
  /\ Goto(w, "idle")
  /\ UNCHANGED <<count, ttl, seen, verdict, current, warnings>>

\* Mutant: the key lives one tick longer than its time to live.
TickLate ==
  /\ count > 0
  /\ ttl' = ttl - 1
  /\ IF ttl = 0
     THEN count' = 0 /\ current' = {} /\ warnings' = 0
     ELSE UNCHANGED <<count, current, warnings>>
  /\ UNCHANGED <<phase, seen, verdict>>

\* Time passes; the key expires with its time to live.
Tick ==
  /\ ttl > 0
  /\ ttl' = ttl - 1
  /\ IF ttl = 1
     THEN count' = 0 /\ current' = {} /\ warnings' = 0
     ELSE UNCHANGED <<count, current, warnings>>
  /\ UNCHANGED <<phase, seen, verdict>>

Step(w) ==
  \/ ReadCount(w)
  \/ CheckPasses(w)
  \/ CheckRefuses(w)
  \/ CheckFails(w)
  \/ LoginNotAsked(w)
  \/ LoginAnswered(w)
  \/ Fail(w)
  \/ FailReturns(w)
  \/ FailLost(w)
  \/ Leave(w)

Next == Tick \/ \E w \in Worker : Step(w)

Spec == Init /\ [][Next]_vars

\* Time does not stop.
FairSpec == Spec /\ WF_vars(Tick)

-----------------------------------------------------------------------------
(* Properties.                                                             *)

TypeOK ==
  /\ count \in Nat
  /\ ttl \in 0..Window
  /\ phase \in [Worker -> Phase]
  /\ seen \in [Worker -> Nat]
  /\ verdict \in [Worker -> Code \cup {"none"}]
  /\ current \subseteq Worker
  /\ warnings \in Nat

\* How far the check-then-act between Blocked and Fail can overrun the limit:
\* by the logins in flight but one.  Once the limit is reached, only requests
\* that had read a smaller count before can still fail and be counted.
FailureBound == count <= Limit - 1 + Cardinality(Worker)

\* A key always has a time to live.  Without one the failures of an address
\* would pile up for ever: nothing else ever removes the key.
CounterExpires == count > 0 <=> ttl > 0

\* The window is counted from the first failure: no later failure of the same
\* key prolongs it, in whatever order the workers' calls reach Redis.
WindowFromFirstFailure ==
  [][count > 0 /\ count' > 0 => ttl' <= ttl]_vars

\* Only guesses count: what moves an address towards its block is a login that
\* shop-auth refused, never one it could not answer, was too busy for or found
\* malformed, so that an outage of shop-auth locks no office out.
OnlyGuessesCount ==
  [][count' > count =>
       \E w \in Worker : /\ phase[w] = "rejected"
                        /\ verdict[w] = "Unauthenticated"]_vars

\* One block is logged at most once, however many failures in flight are
\* counted above the limit.
WarnedOnce == warnings <= 1

\* Failures are forgotten: whatever the address goes on doing, a counter that
\* was started is gone again later, and with it the block.
EventuallyForgotten == count > 0 ~> count = 0

\* The limiter implements FailureWindow, though GET and PTTL, the login and
\* the count, and the count and its reply are separate steps of many logins:
\* all the failures of a window but the logins in flight fit below its limit,
\* the first one alone starts it, and its block is reported once.
Promise == INSTANCE FailureWindow WITH
  failures <- count, left <- ttl, reports <- warnings,
  InFlight <- Cardinality(Worker)
KeepsPromise == Promise!Spec

\* The documentation says that 429 is the answer when the address is blocked,
\* and that a mismatch of GET and PTTL costs one failure (ratelimit/README.md).
\* It does not hold: GET reads the end of an old window, the key expires, one
\* failure starts a new window, and PTTL reports all of it: an address with a
\* single failure is refused and told to wait a whole window.
RefusedOnlyWhenBlocked ==
  [][\A w \in Worker :
       phase[w] = "checking" /\ phase'[w] = "refused" => count >= Limit]_vars

=============================================================================
