---------------------------- MODULE Idempotency ----------------------------
(***************************************************************************)
(* The middleware chain around a protected write route: the rate limiter   *)
(* first, then idempotency (middleware/idempotency.go), then the recovery  *)
(* from panics.  Idempotency looks the key up in Redis, replays a stored   *)
(* answer, or runs the handler and stores its answer afterwards.  Nothing  *)
(* reserves the key in between.  Authorisation (middleware/auth.go) is     *)
(* part of the handler, so it comes after the lookup.                      *)
(*                                                                         *)
(* An attempt is one HTTP request; a client that retries makes a new       *)
(* attempt with the same token, key and request.  Attempts run             *)
(* concurrently, on any gateway.                                           *)
(***************************************************************************)
EXTENDS Integers, FiniteSets

CONSTANTS
  Attempt,      \* the HTTP requests
  Token,        \* Authorization (with X-App-Id): who asks
  Key,          \* values of the Idempotency-Key header
  Body,         \* method, path and body of a request, without its URL query
  MaxInFlight,  \* attempts the clients have in flight at one time
  Faults        \* the faults that may happen

ASSUME FaultsAssumption ==
  Faults \subseteq {"redis", "upstream", "panic", "crash", "expiry"}
ASSUME InFlightAssumption == MaxInFlight \in Nat \ {0}

VARIABLES
  phase,    \* phase[a]: how far attempt a has come
  ask,      \* ask[a]: what attempt a asks, {} before it came
  answer,   \* answer[a]: what its client was answered, and by whose execution
  cache,    \* the stored answers in Redis
  revoked,  \* the tokens shop-auth does not accept any more
  applied,  \* history: the attempts that took effect behind the gateway
  stored,   \* history: the attempts whose answer was stored
  expired,  \* history: the cache keys that have expired
  before    \* history: before[a]: the attempts finished when a was looked up

vars == <<phase, ask, answer, cache, revoked, applied, stored, expired,
          before>>

Phase == {"idle",        \* not arrived
          "lookup",      \* reading the cache
          "handling",    \* in the handler chain, before Auth
          "authorized",  \* ValidateToken has accepted the token
          "applied",     \* the internal service has done what was asked
          "storing",     \* answered 2xx, the answer is being stored
          "finished",    \* ServeHTTP has returned
          "lost"}        \* the gateway died under it

Ask == [token : Token, key : Key, body : Body, revoked : BOOLEAN]
Answer == [kind : {"none", "own", "replay", "conflict", "unavailable", "error",
                   "limited"},
           by : Attempt]

\* Mutant: the key of the cache without the Authorization header.
CacheKeyNoToken(q) == [key |-> q.key]

\* cacheKey: who asks, and with which Idempotency-Key.  (Method and path belong
\* to it too; one route is modelled.)
CacheKeyOf(q) == [token |-> q.token, key |-> q.key]
CacheKey == [token : Token, key : Key]

\* Mutant: the hash leaves out the body.
RequestHashNoBody(q) == q.key

\* requestHash: method, path and body, but not the URL query.
RequestHash(q) == q.body

Entry == [at : CacheKey, hash : Body, by : Attempt]

\* The entries stored under the cache key of a (at most one).
EntriesFor(q) == {e \in cache : e.at = CacheKeyOf(q)}

Running == {a \in Attempt : phase[a] \notin {"idle", "finished", "lost"}}

-----------------------------------------------------------------------------
Init ==
  /\ phase = [a \in Attempt |-> "idle"]
  /\ ask = [a \in Attempt |-> {}]
  /\ answer = [a \in Attempt |-> [kind |-> "none", by |-> a]]
  /\ cache = {}
  /\ revoked = {}
  /\ applied = {}
  /\ stored = {}
  /\ expired = {}
  /\ before = [a \in Attempt |-> {}]

Goto(a, p) == phase' = [phase EXCEPT ![a] = p]
Respond(a, kind, by) ==
  answer' = [answer EXCEPT ![a] = [kind |-> kind, by |-> by]]

\* A write request with an Idempotency-Key comes in.
Asked(a) ==
  /\ phase[a] = "idle"
  /\ Cardinality(Running) < MaxInFlight
  /\ \E t \in Token, k \in Key, b \in Body :
       ask' = [ask EXCEPT ![a] =
         {[token |-> t, key |-> k, body |-> b, revoked |-> t \in revoked]}]

\* The limiter lets it through, or cannot tell, and its body is read.
Arrive(a) ==
  /\ Asked(a)
  /\ Goto(a, "lookup")
  /\ UNCHANGED <<answer, cache, revoked, applied, stored, expired, before>>

\* The limiter refuses it, a retry as well as any other: 429, no lookup.
Limited(a) ==
  /\ Asked(a)
  /\ Respond(a, "limited", a)
  /\ Goto(a, "finished")
  /\ UNCHANGED <<cache, revoked, applied, stored, expired, before>>

\* GET finds nothing: the handler chain runs.
Miss(a) ==
  /\ phase[a] = "lookup"
  /\ \E q \in ask[a] : EntriesFor(q) = {}
  /\ before' = [before EXCEPT ![a] = {b \in Attempt : phase[b] = "finished"}]
  /\ Goto(a, "handling")
  /\ UNCHANGED <<ask, answer, cache, revoked, applied, stored, expired>>

\* GET finds the answer to the same request: it is replayed.
Replay(a) ==
  /\ phase[a] = "lookup"
  /\ \E q \in ask[a] : \E e \in EntriesFor(q) :
       e.hash = RequestHash(q) /\ Respond(a, "replay", e.by)
  /\ Goto(a, "finished")
  /\ UNCHANGED <<ask, cache, revoked, applied, stored, expired, before>>

\* Mutant: a key used for another request runs the handler.
ConflictRuns(a) ==
  /\ phase[a] = "lookup"
  /\ \E q \in ask[a] : \E e \in EntriesFor(q) : e.hash # RequestHash(q)
  /\ before' = [before EXCEPT ![a] = {b \in Attempt : phase[b] = "finished"}]
  /\ Goto(a, "handling")
  /\ UNCHANGED <<ask, answer, cache, revoked, applied, stored, expired>>

\* GET finds the answer to another request: 422.
Conflict(a) ==
  /\ phase[a] = "lookup"
  /\ \E q \in ask[a] : \E e \in EntriesFor(q) : e.hash # RequestHash(q)
  /\ Respond(a, "conflict", a)
  /\ Goto(a, "finished")
  /\ UNCHANGED <<ask, cache, revoked, applied, stored, expired, before>>

\* GET fails: 503, fail-closed.  (A body that cannot be read ends the same way,
\* with 400.)
Unavailable(a) ==
  /\ phase[a] = "lookup"
  /\ "redis" \in Faults
  /\ Respond(a, "unavailable", a)
  /\ Goto(a, "finished")
  /\ UNCHANGED <<ask, cache, revoked, applied, stored, expired, before>>

\* Mutant: the token is not asked about (a cached validation).
AuthorizeUnchecked(a) ==
  /\ phase[a] = "handling"
  /\ Goto(a, "authorized")
  /\ UNCHANGED <<ask, answer, cache, revoked, applied, stored, expired,
                 before>>

\* Auth: ValidateToken accepts the token.
Authorize(a) ==
  /\ phase[a] = "handling"
  /\ \E q \in ask[a] : q.token \notin revoked
  /\ Goto(a, "authorized")
  /\ UNCHANGED <<ask, answer, cache, revoked, applied, stored, expired,
                 before>>

\* Any answer but 2xx without an effect: the token is refused, the request is
\* invalid, the internal service says no or cannot be reached.
AnswerError(a) ==
  /\ phase[a] \in {"handling", "authorized"}
  /\ Respond(a, "error", a)
  /\ Goto(a, "finished")
  /\ UNCHANGED <<ask, cache, revoked, applied, stored, expired, before>>

\* The internal service does what was asked.
Apply(a) ==
  /\ phase[a] = "authorized"
  /\ applied' = applied \cup {a}
  /\ Goto(a, "applied")
  /\ UNCHANGED <<ask, answer, cache, revoked, stored, expired, before>>

\* Its reply does not come back in time, or the client is gone and the call
\* cancelled: 5xx after the effect, which is not stored.
AnswerErrorLate(a) ==
  /\ phase[a] = "applied"
  /\ "upstream" \in Faults
  /\ Respond(a, "error", a)
  /\ Goto(a, "finished")
  /\ UNCHANGED <<ask, cache, revoked, applied, stored, expired, before>>

\* The handler panics, before or after the effect.  Recovery is inside of
\* Idempotency, so the recorder sees its 500 and nothing is stored.
Panic(a) ==
  /\ phase[a] \in {"handling", "authorized", "applied"}
  /\ "panic" \in Faults
  /\ Respond(a, "error", a)
  /\ Goto(a, "finished")
  /\ UNCHANGED <<ask, cache, revoked, applied, stored, expired, before>>

\* The handler writes 2xx; the recorder passes it on to the client at once.
AnswerOk(a) ==
  /\ phase[a] = "applied"
  /\ Respond(a, "own", a)
  /\ Goto(a, "storing")
  /\ UNCHANGED <<ask, cache, revoked, applied, stored, expired, before>>

\* SET with the TTL: the last writer wins.
Store(a) ==
  /\ phase[a] = "storing"
  /\ \E q \in ask[a] :
       cache' = (cache \ EntriesFor(q)) \cup
         {[at |-> CacheKeyOf(q), hash |-> RequestHash(q), by |-> a]}
  /\ stored' = stored \cup {a}
  /\ Goto(a, "finished")
  /\ UNCHANGED <<ask, answer, revoked, applied, expired, before>>

\* SET fails (Redis, or the request context is cancelled): only logged.
StoreFails(a) ==
  /\ phase[a] = "storing"
  /\ "redis" \in Faults
  /\ Goto(a, "finished")
  /\ UNCHANGED <<ask, answer, cache, revoked, applied, stored, expired,
                 before>>

\* The gateway that serves a dies.
Crash(a) ==
  /\ a \in Running
  /\ "crash" \in Faults
  /\ Goto(a, "lost")
  /\ UNCHANGED <<ask, answer, cache, revoked, applied, stored, expired,
                 before>>

\* The TTL of a stored answer runs out.
Expire ==
  /\ "expiry" \in Faults
  /\ \E e \in cache :
       /\ cache' = cache \ {e}
       /\ expired' = expired \cup {e.at}
  /\ UNCHANGED <<phase, ask, answer, revoked, applied, stored, before>>

\* shop-auth stops accepting a token: logout, expiry, deactivation of the user.
Revoke ==
  /\ \E t \in Token \ revoked : revoked' = revoked \cup {t}
  /\ UNCHANGED <<phase, ask, answer, cache, applied, stored, expired, before>>

Step(a) ==
  \/ Arrive(a) \/ Limited(a)
  \/ Miss(a) \/ Replay(a) \/ Conflict(a) \/ Unavailable(a)
  \/ Authorize(a) \/ AnswerError(a) \/ Apply(a)
  \/ AnswerErrorLate(a) \/ Panic(a) \/ AnswerOk(a)
  \/ Store(a) \/ StoreFails(a)
  \/ Crash(a)

Next == Expire \/ Revoke \/ \E a \in Attempt : Step(a)

Spec == Init /\ [][Next]_vars

-----------------------------------------------------------------------------
(* Properties.                                                             *)

TypeOK ==
  /\ phase \in [Attempt -> Phase]
  /\ ask \in [Attempt -> SUBSET Ask]
  /\ \A a \in Attempt : phase[a] = "idle" <=> ask[a] = {}
  /\ answer \in [Attempt -> Answer]
  /\ cache \subseteq Entry
  /\ revoked \subseteq Token
  /\ applied \subseteq Attempt /\ stored \subseteq Attempt
  /\ expired \subseteq CacheKey
  /\ before \in [Attempt -> SUBSET Attempt]

\* What two attempts have in common.
SameKey(a, b) ==
  \E p \in ask[a], q \in ask[b] : p.token = q.token /\ p.key = q.key
SameBody(a, b) == \E p \in ask[a], q \in ask[b] : p.body = q.body

\* A replayed answer is the answer some attempt of the same token, with the
\* same key and body, was really given, and whose effect has happened: nobody
\* gets another user's answer, the answer to another body, a failure, or an
\* answer made up by a write that was never done.
ReplayIsGenuine ==
  \A a \in Attempt : answer[a].kind = "replay" =>
    LET b == answer[a].by
    IN  b # a /\ b \in applied /\ answer[b].kind = "own"
        /\ SameKey(a, b) /\ SameBody(a, b)

\* An attempt that finishes stored protects its key: until the key expires, no
\* attempt looked up later takes effect, with the same body or another one,
\* whatever other attempts do meanwhile and whatever fails.
StoredProtects ==
  \A a, b \in Attempt :
    /\ a \in applied
    /\ b \in before[a] \cap stored
    /\ SameKey(a, b)
    => \E q \in ask[a] : CacheKeyOf(q) \in expired

\* 422 is given only for a key that was really used for another body.
ConflictIsGenuine ==
  \A a \in Attempt : answer[a].kind = "conflict" =>
    \E b \in applied : b # a /\ SameKey(a, b) /\ ~SameBody(a, b)

\* The middleware keeps the promise of OncePerKey, whatever overlaps and
\* whatever fails: a key is settled while an answer is stored under it, and an
\* attempt has begun between its lookup and its effect.
Promise == INSTANCE OncePerKey WITH
  keyOf <- [a \in Attempt |-> {CacheKeyOf(q) : q \in ask[a]}],
  begun <- {a \in Attempt : phase[a] \in {"handling", "authorized"}},
  settled <- {e.at : e \in cache}
KeepsPromise == Promise!Spec

\* A write whose token was revoked before it came takes no effect, whatever
\* overlaps and whatever fails: what it may be given is the replay of an
\* earlier answer, no more (router.go puts Auth inside of Idempotency).
RevokedChangesNothing ==
  \A a \in applied : \A q \in ask[a] : ~q.revoked

\* The documentation promises one result for two equal requests with one key
\* (README.md), and that a repeated request does not reach the internal
\* services at all (middleware/README.md).  It does not hold when the two
\* overlap, nor when storing the first answer fails.
AppliedOnce ==
  \A a, b \in applied : SameKey(a, b) /\ SameBody(a, b) => a = b

\* The documentation says that every protected request costs a ValidateToken
\* and that deactivating a user takes effect at once (README.md).  It does not
\* hold for a replay, which comes before Auth.
RevokedIsRefused ==
  \A a \in Attempt :
    (\E q \in ask[a] : q.revoked) => answer[a].kind \notin {"own", "replay"}

=============================================================================
