--------------------------- MODULE SlidingWindow ---------------------------
(***************************************************************************)
(* The general rate limiter: middleware/ratelimit.go around                *)
(* ratelimit.Limiter.Allow, which runs one Lua script on a Redis sorted    *)
(* set.  The module follows the requests of ONE client address, because    *)
(* the script touches no key but that client's.  Time is counted in ticks  *)
(* (milliseconds in the code).                                             *)
(*                                                                         *)
(* Allow reads the clock of its gateway first and runs the script later:   *)
(* the script may execute up to MaxDelay ticks after the reading, after    *)
(* requests that read the clock later, and - when the reply is lost - a    *)
(* second time with the same arguments (go-redis sends a failed command    *)
(* again by default).  Gateways disagree on the time by up to MaxSkew.     *)
(***************************************************************************)
EXTENDS Integers, FiniteSets

CONSTANTS
  Request,         \* the requests of one client address
  Limit,           \* rate_limit.limit
  Window,          \* rate_limit.window, in ticks
  MaxDelay,        \* longest time between reading the clock and the script
  MaxSkew,         \* how far ahead of the slowest clock a gateway may be
  MaxRetries,      \* redis.Options.MaxRetries of the client
  TicksPerSecond,  \* Retry-After is given in whole seconds
  MaxTime          \* bound of the model on the clock

\* config.Validate refuses a limit or a window that is not positive.
ASSUME ConfigAssumption == Limit \in Nat \ {0} /\ Window \in Nat \ {0}
ASSUME EnvAssumption ==
  /\ MaxDelay \in Nat /\ MaxSkew \in Nat /\ MaxRetries \in Nat
  /\ TicksPerSecond \in Nat \ {0} /\ MaxTime \in Nat

VARIABLES
  clock,     \* real time, which is also the time of Redis
  phase,     \* phase[r]: how far request r has come in the middleware
  stamp,     \* stamp[r]: `now`, the clock reading sent to the script
  sentAt,    \* sentAt[r]: the real time of that reading
  retries,   \* retries[r]: times the client library sent the script again
  reply,     \* reply[r]: what the last execution of the script returned
  zset,      \* the sorted set of this client
  expireAt,  \* when Redis drops the key, 0 if the script never set it
  admitAt,   \* history: when the script last admitted r, or Never
  deniedAt   \* history: when the script last denied r, or Never

vars == <<clock, phase, stamp, sentAt, retries, reply, zset, expireAt,
          admitAt, deniedAt>>

Never == -1

Phase == {"idle",       \* not arrived
          "calling",    \* inside Allow, the script is on its way
          "answered",   \* the script ran, its reply is on its way
          "served",     \* next.ServeHTTP, the script said yes
          "unlimited",  \* next.ServeHTTP without a verdict of the script
          "refused"}    \* 429 rate_limit_exceeded
Final == {"served", "unlimited", "refused"}

Reply == [verdict : {"none", "admit", "deny"}, retryAfter : Int]
NoReply == [verdict |-> "none", retryAfter |-> 0]

-----------------------------------------------------------------------------
(* The sorted set: entries with a member and a score, one per member.      *)

\* The member Allow generates for r: `now` and a random number.
Member(r) == r

\* ZADD key now member
ZAdd(S, member, score) ==
  {e \in S : e.member # member} \cup {[member |-> member, score |-> score]}

\* The key as Redis sees it: gone once its expiry has passed.
Live == IF clock < expireAt THEN zset ELSE {}

\* Mutant: the entry that is exactly one window old stays.
PurgedTooLittle(now) == {e \in Live : e.score >= now - Window}

\* ZREMRANGEBYSCORE key 0 (now - window)
Purged(now) == {e \in Live : e.score > now - Window}

\* Mutant: the seconds are cut off instead of rounded up.
RetryAfterTruncated(ticks) ==
  IF ticks \div TicksPerSecond < 1 THEN 1 ELSE ticks \div TicksPerSecond

\* The value of the Retry-After header: whole seconds, at least one.
RetryAfterSeconds(ticks) ==
  LET seconds == (ticks + TicksPerSecond - 1) \div TicksPerSecond
  IN  IF seconds < 1 THEN 1 ELSE seconds

-----------------------------------------------------------------------------
Init ==
  /\ clock = 0
  /\ phase = [r \in Request |-> "idle"]
  /\ stamp = [r \in Request |-> 0]
  /\ sentAt = [r \in Request |-> 0]
  /\ retries = [r \in Request |-> 0]
  /\ reply = [r \in Request |-> NoReply]
  /\ zset = {}
  /\ expireAt = 0
  /\ admitAt = [r \in Request |-> Never]
  /\ deniedAt = [r \in Request |-> Never]

\* No limiter, or a remote address it cannot use: the request is let through.
Bypass(r) ==
  /\ phase[r] = "idle"
  /\ phase' = [phase EXCEPT ![r] = "unlimited"]
  /\ UNCHANGED <<clock, stamp, sentAt, retries, reply, zset, expireAt,
                 admitAt, deniedAt>>

\* The gateway that serves r reads its clock and sends the script.
ReadClock(r) ==
  /\ phase[r] = "idle"
  /\ \E ahead \in 0..MaxSkew : stamp' = [stamp EXCEPT ![r] = clock + ahead]
  /\ sentAt' = [sentAt EXCEPT ![r] = clock]
  /\ phase' = [phase EXCEPT ![r] = "calling"]
  /\ UNCHANGED <<clock, retries, reply, zset, expireAt, admitAt, deniedAt>>

\* Mutant: only the first entry of a key sets its expiry.
ScriptAdmitsExpireOnce(r) ==
  /\ phase[r] = "calling"
  /\ clock <= sentAt[r] + MaxDelay
  /\ Cardinality(Purged(stamp[r])) < Limit
  /\ zset' = ZAdd(Purged(stamp[r]), Member(r), stamp[r])
  /\ expireAt' = IF Live = {} THEN clock + Window ELSE expireAt
  /\ reply' = [reply EXCEPT ![r] = [verdict |-> "admit", retryAfter |-> 0]]
  /\ phase' = [phase EXCEPT ![r] = "answered"]
  /\ admitAt' = [admitAt EXCEPT ![r] = clock]
  /\ UNCHANGED <<clock, stamp, sentAt, retries, deniedAt>>

\* Redis executes the script and finds room: the entry is added and the life
\* of the key renewed.
ScriptAdmits(r) ==
  /\ phase[r] = "calling"
  /\ clock <= sentAt[r] + MaxDelay
  /\ Cardinality(Purged(stamp[r])) < Limit
  /\ zset' = ZAdd(Purged(stamp[r]), Member(r), stamp[r])
  /\ expireAt' = clock + Window
  /\ reply' = [reply EXCEPT ![r] = [verdict |-> "admit", retryAfter |-> 0]]
  /\ phase' = [phase EXCEPT ![r] = "answered"]
  /\ admitAt' = [admitAt EXCEPT ![r] = clock]
  /\ UNCHANGED <<clock, stamp, sentAt, retries, deniedAt>>

\* Mutant: a denial renews the life of the key as well.
ScriptDeniesRenewed(r) ==
  /\ phase[r] = "calling"
  /\ clock <= sentAt[r] + MaxDelay
  /\ ~(Cardinality(Purged(stamp[r])) < Limit)
  /\ \E oldest \in Purged(stamp[r]) :
       /\ \A e \in Purged(stamp[r]) : oldest.score <= e.score
       /\ reply' = [reply EXCEPT ![r] =
            [verdict |-> "deny",
             retryAfter |-> oldest.score + Window - stamp[r]]]
  /\ zset' = Purged(stamp[r])
  /\ expireAt' = clock + Window
  /\ phase' = [phase EXCEPT ![r] = "answered"]
  /\ deniedAt' = [deniedAt EXCEPT ![r] = clock]
  /\ UNCHANGED <<clock, stamp, sentAt, retries, admitAt>>

\* Redis executes the script and finds no room: only the purge is kept, and
\* the reply says when the oldest entry leaves the window.
ScriptDenies(r) ==
  /\ phase[r] = "calling"
  /\ clock <= sentAt[r] + MaxDelay
  /\ ~(Cardinality(Purged(stamp[r])) < Limit)
  /\ \E oldest \in Purged(stamp[r]) :
       /\ \A e \in Purged(stamp[r]) : oldest.score <= e.score
       /\ reply' = [reply EXCEPT ![r] =
            [verdict |-> "deny",
             retryAfter |-> oldest.score + Window - stamp[r]]]
  /\ zset' = Purged(stamp[r])
  /\ phase' = [phase EXCEPT ![r] = "answered"]
  /\ deniedAt' = [deniedAt EXCEPT ![r] = clock]
  /\ UNCHANGED <<clock, stamp, sentAt, retries, expireAt, admitAt>>

\* Mutant: one attempt more than MaxRetries allows.
SendAgainOnceMore(r) ==
  /\ phase[r] \in {"calling", "answered"}
  /\ retries[r] <= MaxRetries
  /\ retries' = [retries EXCEPT ![r] = @ + 1]
  /\ reply' = [reply EXCEPT ![r] = NoReply]
  /\ phase' = [phase EXCEPT ![r] = "calling"]
  /\ UNCHANGED <<clock, stamp, sentAt, zset, expireAt, admitAt, deniedAt>>

\* The call fails before or after the script ran, and go-redis sends the same
\* script with the same arguments again.
SendAgain(r) ==
  /\ phase[r] \in {"calling", "answered"}
  /\ retries[r] < MaxRetries
  /\ retries' = [retries EXCEPT ![r] = @ + 1]
  /\ reply' = [reply EXCEPT ![r] = NoReply]
  /\ phase' = [phase EXCEPT ![r] = "calling"]
  /\ UNCHANGED <<clock, stamp, sentAt, zset, expireAt, admitAt, deniedAt>>

\* Allow returns an error (no Redis, retries used up, the client is gone and
\* the request context cancelled): fail-open.
FailOpen(r) ==
  /\ phase[r] \in {"calling", "answered"}
  /\ phase' = [phase EXCEPT ![r] = "unlimited"]
  /\ UNCHANGED <<clock, stamp, sentAt, retries, reply, zset, expireAt,
                 admitAt, deniedAt>>

\* Allow returns the reply of the script and the middleware obeys it.
Decide(r) ==
  /\ phase[r] = "answered"
  /\ phase' = [phase EXCEPT ![r] =
       IF reply[r].verdict = "admit" THEN "served" ELSE "refused"]
  /\ UNCHANGED <<clock, stamp, sentAt, retries, reply, zset, expireAt,
                 admitAt, deniedAt>>

Tick ==
  /\ clock < MaxTime
  /\ clock' = clock + 1
  /\ UNCHANGED <<phase, stamp, sentAt, retries, reply, zset, expireAt,
                 admitAt, deniedAt>>

\* What happens to a request once Allow has been entered.
Progress(r) ==
  \/ ScriptAdmits(r)
  \/ ScriptDenies(r)
  \/ SendAgain(r)
  \/ FailOpen(r)
  \/ Decide(r)

Next ==
  \/ Tick
  \/ \E r \in Request : Bypass(r) \/ ReadClock(r) \/ Progress(r)

Spec == Init /\ [][Next]_vars

-----------------------------------------------------------------------------
(* Properties.                                                             *)

TypeOK ==
  /\ clock \in Nat
  /\ phase \in [Request -> Phase]
  /\ stamp \in [Request -> Nat]
  /\ sentAt \in [Request -> Nat]
  /\ retries \in [Request -> 0..MaxRetries]
  /\ reply \in [Request -> Reply]
  /\ zset \subseteq [member : Request, score : Nat]
  /\ expireAt \in Nat
  /\ admitAt \in [Request -> Nat \cup {Never}]
  /\ deniedAt \in [Request -> Nat \cup {Never}]

\* The limiter admits at most Limit requests of a client in any stretch of
\* Window - MaxDelay - MaxSkew ticks, however the clock readings and the
\* executions of the script interleave and however often a script is sent
\* again.  This is what the sorted set, its purge, the unique members and the
\* expiry of the key achieve together.
Recent ==
  {q \in Request : /\ admitAt[q] # Never
                   /\ admitAt[q] + Window > clock + MaxDelay + MaxSkew}
WindowBound == Cardinality(Recent) <= Limit

\* A request is denied only when Limit requests (its own earlier execution
\* included) were admitted with a clock reading inside the window that ends at
\* the reading of the denied request: entries that have left the window are
\* never counted.
DeniedOnlyWhenFull ==
  \A r \in Request :
    reply[r].verdict = "deny" =>
      Cardinality({q \in Request : /\ admitAt[q] # Never
                                   /\ stamp[q] > stamp[r] - Window}) >= Limit

\* Retry-After tells the truth: a request that comes back after waiting that
\* many seconds (and the disagreement of the clocks) from the denial is
\* admitted, unless some request took the freed place since.
RetryAfterHonest ==
  \A r, again \in Request :
    /\ reply[r].verdict = "deny"
    /\ reply[again].verdict = "deny"
    /\ sentAt[again] >= deniedAt[r] + MaxSkew
         + TicksPerSecond * RetryAfterSeconds(reply[r].retryAfter)
    => \E q \in Request : admitAt[q] # Never /\ admitAt[q] >= deniedAt[r]

\* Retry-After never asks a client to wait longer than the window, but for the
\* delay and the skew, and never tells it to come back at once.
RetryAfterInRange ==
  \A r \in Request :
    reply[r].verdict = "deny" =>
      reply[r].retryAfter \in 1..(Window + MaxDelay + MaxSkew)

\* A client that keeps knocking while it is refused does not prolong its own
\* block: a denial adds no entry and leaves the life of the key as it was.
DenialCostsNothing ==
  [][\A r \in Request :
       /\ phase[r] = "calling"
       /\ phase'[r] = "answered"
       /\ reply'[r].verdict = "deny"
       => zset' \subseteq zset /\ expireAt' = expireAt]_vars

\* Only admissions stand in the way of a client, and each for one window: while
\* the key is there, some request was admitted less than a window ago, and no
\* entry of it is one of a request that was always refused.  However often a
\* refused client knocks, late or with a script that is sent again, it is free
\* one window after its last admission (limiter.go renews the life of the key
\* where it admits and nowhere else).
OnlyAdmissionsBlock ==
  Live # {} =>
    /\ \E q \in Request : admitAt[q] # Never /\ clock < admitAt[q] + Window
    /\ \A e \in Live : admitAt[e.member] # Never

=============================================================================
