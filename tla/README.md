# Verification of shop-gateway-service

TLA+ models of the gateway, the TLC runs that check them, and theorems about
them whose proofs TLAPS checks. The source is Go; paths below are relative to
`src/`. `PROJECT.json` names, for every definition that models code, the file,
the lines and the symbol it stands for.

To check one run: `tlc -config SlidingWindow.cfg MCSlidingWindow` (the module of
each run is in `PROJECT.json`). To check one proof module:
`tlapm SlidingWindowProofs.tla`.

## 1. The system

The gateway is an HTTP server in front of three gRPC services: shop-auth, the
catalog and the cart. It keeps almost no state of its own. What it keeps is in
Redis, which all instances share, or is the life of the process itself.

A request to a protected route passes
`RateLimit -> Idempotency -> Recovery -> Auth [-> RequireAdmin] -> handler ->
GatewayService -> adapter -> gRPC client`; a login passes
`RateLimit -> LoginFailureLimit -> handler`
(`internal/transport/http/v1/router.go`, `middleware/chain.go`).

| Component | Source | State | Operations |
|---|---|---|---|
| Request rate limiter | `internal/ratelimit/limiter.go`, `middleware/ratelimit.go` | a Redis sorted set for each client address | `Allow` (one Lua script: purge, count, add, expire), 429 and Retry-After |
| Login failure limiter | `internal/ratelimit/limiter.go`, `middleware/login_failure_limit.go` | a Redis counter with a time to live for each address | `Blocked` (GET and PTTL), `Fail` (MULTI, INCR, EXPIRE NX) |
| Idempotency | `middleware/idempotency.go` | stored answers in Redis, by cache key, 24 hours | look up, replay, conflict, run and record, store |
| Auth, RequireAdmin | `middleware/auth.go`, `middleware/admin.go` | none | `ValidateToken`, `IsAdmin`, errors to statuses |
| Handlers | `internal/transport/http/v1/handlers/` | none | cart, products, authentication, log level, status, readiness |
| Gateway service | `internal/service/gateway/gateway.go` | none | validation of arguments, pagination, calls of the adapters |
| Clients and adapters | `internal/client/grpc/`, `internal/adapters/` | a connection to each service | one call each, under a timeout of the client; gRPC codes to errors |
| Product stream | `handlers/products.go` down to `client/grpc/catalog/client.go` | the stream and the response, while a request lasts | Recv, write an event, end |
| Lifecycle | `cmd/gateway/main.go`, `internal/app/` | clients, server, error channel, shutdown context | dial with retries, run, signal, shutdown, exit |
| Log level | `internal/observability/logger.go` | the level of the process | read, set |
| Readiness | `handlers/health.go`, `transport/grpc/v1/handlers/` | none | three checks in turn, within three seconds |
| Configuration | `internal/config/config.go` | read once | `Validate` |

How they interact: by calls down the chain and answers up it; through Redis,
where requests of different goroutines and of different gateways meet; through
the request's context, which the client, `WriteTimeout` over HTTP/2 and the
shutdown cancel; through the error channel and the signal context between the
server's goroutine and `main`.

What is hard about them, and what makes each correct:

* **Rate limiter.** The clock is read before the script runs. Scripts run late,
  out of the order of their readings, twice when a reply is lost (go-redis sends
  a failed command again), and gateways disagree on the time. Correct: never
  more than the limit within the window that delay and skew leave; a refusal
  only when the window is full; a Retry-After that a client can rely on; a
  refusal that costs the client nothing; every request answered, Redis or not.
* **Login failures.** Reading and counting are two steps with a login between
  them, and reading is itself two commands. Correct: a bounded overrun; a
  counter that always expires, and when the first failure said; one warning for
  each block; and only refused credentials are counted, not an outage.
* **Idempotency.** Nothing reserves a key while the first attempt runs, the
  answer is stored after it was sent, and tokens are checked after the lookup.
  Correct: no foreign, failed or invented replay, no invented conflict, and a
  stored answer that protects its key until it expires.
* **Requests that call a service.** Any call may fail, be lost or take effect
  after it was given up, and the user and the price may change between two
  calls; registration, login, refresh and logout are writes as much as those of
  the cart. Correct: statuses that do not lie about effects, nothing done for a
  revoked user, no session dropped because shop-auth is away, and only prices of
  the catalog.
* **Stream.** The page is clamped, checked and converted in three places, and
  three parties end the stream independently, after a 200. Correct: the page
  that was asked for, no gap, no partial list that looks complete, no silent
  end, no handler left behind.
* **Readiness.** Three services change while they are asked in turn, and hang.
  Correct: ready is true of each, not ready has a cause, no connection piles up,
  and a probe is answered in the handler's time.
* **Lifecycle.** Errors and signals arrive at any moment of start and shutdown.
  Correct: no client left open, none closed too early, a clean status only for a
  clean end, and every wait bounded.

The complete list of hazards, each at its line, with the properties that cover
it, is in `PROJECT.json` under `hazards`.

## 2. The modules

| Module | What it is |
|---|---|
| `SlidingWindow` | the request rate limiter, middleware and Lua script |
| `SlidingWindowProofs` | theorems about it |
| `FailureWindow` | what a limit on failures promises about one address (abstract) |
| `LoginFailureLimit`, `LoginFailureLimitProofs` | the login failure limiter, theorems |
| `OncePerKey` | what an idempotency key promises (abstract) |
| `Idempotency`, `IdempotencyProofs` | the chain around a protected write: limiter, idempotency, recovery, Auth; theorems |
| `AuthErrors` | what an error of shop-auth becomes: codes and statuses, for `ServiceCall` and `LoginFailureLimit` |
| `WriteOutcome` | what the answer to a request says about the change it asked for (abstract) |
| `ServiceCall`, `ServiceCallProofs` | a request through Auth, RequireAdmin, handler, service and clients; theorems |
| `PageDelivery` | what the client of a stream is promised about its page (abstract) |
| `ProductStream`, `ProductStreamProofs` | `GET /products/stream`, theorems |
| `Readiness`, `ReadinessProofs` | `GET /ready`, theorems |
| `GracefulService` | what a process that serves by means of clients promises about its start and end (abstract) |
| `Lifecycle`, `LifecycleProofs` | the process, theorems |
| `MCSlidingWindow`, `MCLoginFailureLimit`, `MCIdempotency`, `MCServiceCall`, `MCProductStream`, `MCReadiness` | instances for TLC: symmetry sets and named constants |

The configurations of the other modules name the module itself.

Definitions marked "Mutant" or "A plausible bug" in a module are not part of it:
each is what a likely mistake would make of the definition that follows, and
`PROJECT.json` says which property must then fail.

### SlidingWindow

One client address, because the script touches only that client's key. Time is
counted in ticks. `ReadClock` is `time.Now()` in `Allow`; `ScriptAdmits` and
`ScriptDenies` are the two branches of the Lua script, each one atomic step in
Redis with all of its commands (purge, count, ZADD, PEXPIRE); `SendAgain` is the
client library's retry; `FailOpen` an error of `Allow`; `Decide` the middleware's
verdict. `zset` and `expireAt` are the key; `Live` is the key as Redis sees it
once it may have expired. `admitAt` and `deniedAt` are history.

`MaxDelay` bounds the time between reading the clock and the script (the timeouts
of the client bound it), `MaxSkew` the disagreement of the gateways' clocks.
`WindowBound` says what the limiter lets through, within the span
`Window - MaxDelay - MaxSkew`; `OnlyAdmissionsBlock` what it holds back: while the
key is there, somebody was admitted less than a window ago, and every entry
belongs to an admitted request. A module that states both without Redis would
repeat the two properties, so there is none.

### LoginFailureLimit

One address. `count` and `ttl` are the key; `ReadCount` is GET, `CheckPasses` and
`CheckRefuses` are PTTL and the decision, `Fail` the transaction. The pipeline is
not a transaction, so other steps fall between GET and PTTL. `current` and
`warnings` are history about the present key. `ttl` counts down, so behaviours
are infinite and liveness needs no bounded clock.

Between the check and the count is the login handler: it refuses the request by
itself (`LoginNotAsked`), or shop-auth answers or is lost, and the middleware
sees the status `writeAuthError` chose (`LoginAnswered`, with `AuthStatus` of
`AuthErrors`). `verdict` keeps shop-auth's answer, so that `OnlyGuessesCount`
can say what a counted failure was.

`FailureWindow` is the limiter without Redis: one window of failures, a time that
is left of it, one report. `KeepsPromise` maps `count`, `ttl` and `warnings` to
them; all that happens between GET and PTTL, and between the check and the count,
is a stutter. The limit of `FailureWindow` is that of `FailureBound`: the logins in flight
may overrun the block, each once.

### Idempotency

The chain of `router.go`: the limiter lets a request through or refuses it
(`Arrive`, `Limited`), a retry like any other. Then one of `Miss`, `Replay`, `Conflict`, `Unavailable` (fail-closed),
then the chain behind it (`Authorize`, `Apply`, answers with and without an
effect), then `Store` or `StoreFails`. `Recovery` is inside of the middleware: a
`Panic`, before or after the effect, is a 500 to it, and nothing is stored. The
answer is sent before it is stored, as `responseRecorder` does. Faults are switched on by the constant `Faults`. The
cache key is token and idempotency key (method and path are one route, X-App-Id
goes with the token). The hash is that of the body; the code leaves out the
query, and so does the model.

`OncePerKey` says what the middleware does promise although it reserves no key:
once the answer of an attempt that took effect is kept for a key, no attempt that
begins takes effect until the key is forgotten. Attempts that began before still
may, each once. `KeepsPromise` shows that `Idempotency` implements it with every fault
switched on: begun attempts are those behind the lookup that may still have an
effect, settled keys those of the cache. That a key has one effect is more than it promises, and more than the
code does (`idempotency_concurrent`).

Tokens are checked behind the lookup. So a revoked one may be given a stored
answer (`idempotency_revoked`), and `RevokedChangesNothing` says that this is all
it is given.

### ServiceCall

Every route that calls a service. `phase` is the service a request waits for,
`reply` what the call returned. A service may answer as the world is at that
moment (`ValidateTokenReplies`, `IsAdminReplies`, `GetProductReplies`,
`CartReplies`, `ShopAuthReplies`), or the call ends without it (`CallEnds`). A
write that was sent stays in `pending` until its service executes it or fails,
also when the gateway has given up the call; for `Register` and `Refresh` that
is the answer nobody gets. `SessionChanges` and `PriceChanges` move the world
between any two calls. `sessions` and `prices` record what was true while a
request was served. Inputs are classes: what the code tells apart (`Input`), not
text. Requests of one user share no state of the gateway; they meet only in the
world.

A price is whole cents in the catalog and in the cart, and a `double` between
them: the catalog sends `price_cents / 100.0`, `toDomainProduct` multiplies by 100
and rounds. `README.md:306` calls that a known problem. `Received` is every number
the multiplication can give: any number of parts of a cent off, up to `Drift`, in
units of which a cent has `PartsPerCent`. `Cents` is `math.Round`, which sends
halves away from zero. `PriceAssumption` says that a number is less than half a
cent off; below 2^51 cents the two roundings of a double add up to three eighths
of a cent at most. `Line` is what `AddItem` sends to the cart: the id as the client
wrote it (`WrittenId`), although the catalog is asked for the id without its blanks
(`AskedId`), and the price in cents. `ProductStatus` has the refusal of a negative
price by `Product.Validate`.

The routes of `AuthHandler` are public, but for `IsAdmin`, and have one call each
(`AskShopAuth`, `ShopAuthDone`). A public write executed for a revoked user is
shop-auth's affair, so `RevokedStaysOut` speaks of the other routes.

`WriteOutcome` is a request as its client sees it: a change that is sent, made or
dropped by somebody else, and an answer that says "done", "refused" or "unknown".
`KeepsPromise` maps a status to what it says (`Told`: 200, 400 to 499, the
rest), `Changing` requests to those that ask for a change, `pending` to the
changes under way, `applied` and `level` to those made. A level is set and told
in one step, a change of a service in three or more, with the loss of any call
between them.

The code of a request without a usable product id is taken from the handlers:
`AddItem` answers 500 to an empty product id and to a cart that is not there,
where the other routes answer 400 and 404.

### ProductStream

The catalog (`source`, `sent`), the handler's loop (`phase`, `received`) and the
connection (`context`, `late`, `connection`) run side by side. `protocol` is what
the client speaks, and decides what `WriteTimeout` does: over HTTP/2 it resets the stream and cancels the
context; over HTTP/1 only the next write fails, and net/http then cancels the
context. The production configuration serves TLS, and with it HTTP/2; the local
one does not. That net/http and grpc-go behave so is external to the repository.
An error of `GatewayService.StreamProducts` that the catalog reports at once
arrives with the first Recv, as in grpc-go; the client gets it as an event.

The client's `query` becomes the catalog's `page`: `parsePagination` reads it
(`Queries`), `normalizePagination` clamps it (`EffectiveLimit`), the adapter
checks it again (`InvalidPage`) and converts it to a `uint32` (`Word`, a number
modulo `MaxWord + 1`). `GET /products` takes the same way. What cannot be asked
is a 400, a catalog that cannot be asked a 500 (`RefusePage`, `OpenFails`).

`PageDelivery` knows nothing of limits, words or the catalog: there is a page,
it is shown product by product, and an end is told truly or the client is gone.
`KeepsPromise` computes the page from what the client wrote (`Wanted`), so that
clamping, checking and converting must add up to it.

### Readiness

`stage` is where the handler is, `index` the checker at work. Each check reads
the certificates (`StartCheck`), dials until someone listens (`Dialled`), asks,
and closes its connection whatever the answer (`Answer`). `condition` is what
each service is, and `Change` moves it under the probe. Time passes in ticks
while the gateway waits and stops at the deadline of the check (`Tick`): a timer
that has come is served before the next tick, and the gateway's own steps take
no time. `deadline` is the earlier of the check's timeout and the handler's,
because the contexts are nested. `served` and `troubled` are history.

### Lifecycle

`stage` is the main goroutine. The error branch of each dial closes what was
opened before it. A signal before `signal.NotifyContext` ends the process by the
default action; a second one during the shutdown is caught and ignored. The
Redis client needs no connection to be built, and is never closed. The branch
`app.go:148-154`, which returns without closing the clients, needs a cart
adapter that cannot be built, and no client the code makes leads there.

`GracefulService` has no goroutines, channels or signals: clients are opened,
requests come and go, clients are closed, the process ends with an outcome.
`KeepsPromise` maps `stage` to its four modes (`Mode`), `expired` to its `late`
and `exit` to the outcome. When the server stops listening, and who was told of a
failure, is hidden.

## 3. The runs

Passing runs:

| Run | Question | Bounds, and why they are enough |
|---|---|---|
| `window` | Is the window kept with late and repeated scripts, are refusals justified, Retry-After honest, and is a client held back by admissions only? | Three requests, limit 1, window 4 ticks of half a second, one tick of delay, one retry, five ticks. One request fills the window, one is refused, one comes back after Retry-After; the clock passes a whole window. |
| `login` | Overrun and what is counted; is `FailureWindow` implemented; are failures forgotten? | Three logins in flight, limit 2, window 3: fewer failures than logins before the block, and more after it. The count is bounded by the property itself. |
| `idempotency` | Replays, conflicts, protection by a stored answer, revoked tokens; is `OncePerKey` implemented? | Three attempts at once, two users, two bodies, one key, every fault, panics included. A wrong replay needs one attempt that stores and one that asks; the third overwrites or expires between them. |
| `lifecycle` | Exit status in every order of events; is `GracefulService` implemented; do start, shutdown and server failure end the process? | Three attempts for each dial, two requests: one served and one cut. |
| `stream` | The page, gap, false end, silent cut; is `PageDelivery` implemented; does the handler end? | A catalog of four products, default limit 2, maximum 3, a word of 0 to 5, and every limit and offset from -1 to 6, over either protocol: pages before, at and beyond the end of the catalog, and numbers that would wrap. |
| `calls` | Statuses, revocation, prices; is `WriteOutcome` implemented; is every request answered? | One request of every kind and with every defect; three changes of user and price: there, back, and elsewhere. Prices of -1, 0 and 29 cents, each received up to four tenths of a cent off: one that is refused, one that is received above and below zero, one that loses a cent when it is cut off (`0.29 * 100` is below 29). Two requests give no new step, because the gateway keeps nothing between them; the theorems are for any number. |
| `readiness` | Truth of ready and not ready, connections, time | Three services, three ticks for the handler, timeouts of two ticks, five ticks and none, three changes of condition: enough for a service to fail and come back while another is asked, and for each of the timeouts to be the first. |

Runs that show a disagreement between the code and what the repository says of
it. Each checks the sentence and ends in a counterexample:

| Run | What is said | What happens |
|---|---|---|
| `login_stale` | GET and PTTL apart cost one failure (`ratelimit/README.md:77`) | an old count and a new time to live refuse an address with one failure |
| `idempotency_concurrent` | two equal requests give one result (`README.md:256`) | overlapping attempts both take effect |
| `idempotency_revoked` | deactivation is immediate (`README.md:168`) | not for a replay |
| `lifecycle_signal` | SIGTERM is ignored during the retries (`app/README.md:68`) | it ends the process at once |
| `stream_stall` | no call waits for ever (`client/grpc/README.md:63`) | the streaming call has no timeout |

Deadlock is checked in the runs of `LoginFailureLimit` and `Lifecycle`. The
others really stop: every request of the instance is answered, or the stream or
the probe is over.

Other places where code and text differ. No run shows them, because
reading shows them, or because a bound that is checked says what holds instead:

* The window is not exact (`ratelimit/README.md:85`): a late script does not see
  entries that a later reading has purged. `WindowBound` is the window less delay
  and skew. A script sent again may be refused by its own entry, so a 429 does
  not always mean that the limit was used up (`middleware/README.md:63`).
* Logins that read the count in time are passed on after the block
  (`README.md:153`). `FailureBound` says how many.
* An answer that could not be stored, or a crash before the store, lets the
  effect be repeated (`middleware/README.md:65`).
* Two requests with one key that differ in the query only are one request to the
  middleware (`middleware/README.md:107`).
* The texts contradict each other about `/admin/log-level`:
  `internal/transport/http/v1/README.md:98` says that it is not protected,
  `README.md:116` and `middleware/README.md:149` that it is for administrators
  only. The code does the latter: `router.go` puts `Auth` and `RequireAdmin` before
  it. `AdminOnly` is the second text, and shows the first one to be out of date.
* A product id with blanks around it is trimmed before the catalog is asked
  (`gateway.go:168`) and sent to the cart as it came (`cart.go:77`). The line then
  has the price of a product and an id that no product of the catalog has, unless
  the cart trims it too, which is not in the repository; `README.md:95` speaks of
  the price of the position's product. `PriceWasReal` is about the product with the
  id without blanks.
* An unknown log level is taken for `info` and answered 200
  (`openapi/gateway.v1.yaml:124-125`), and `GET /admin/log-level?level=` changes
  the level too.
* The process exits with status 0 after a failed server was shut down cleanly,
  and a second signal is ignored while it shuts down.
* `/ready` has three seconds for its three checks (`handlers/health.go:41`), not up to
  thirty (`transport/grpc/v1/handlers/README.md:60`). `AnsweredInTime` says so.
* A limit above the maximum is cut down to it and a negative one taken for the
  default (`gateway.go:942-954`); `service/gateway/README.md:73` says that both
  are refused. Only a negative offset is.

### Fairness

* `LoginFailureLimit!FairSpec`: time does not stop. Nothing is assumed of logins.
* `Lifecycle!Spec`: the main goroutine runs, a dial returns (`DialContext` under
  the configured timeout), and the shutdown deadline passes. No request need be
  served, and the server need not start.
* `ProductStream!Spec`: the handler's goroutine runs and the server's write timer
  fires. The catalog and the client need not do anything.
* `ServiceCall!Spec`: the goroutine of a request runs, and a call ends
  (`context.WithTimeout` in each client). No service need answer.
* `Readiness!Spec`: the handler's goroutine runs and time passes while it waits.
  No service need answer, and none need ever listen.

`SlidingWindow` and `Idempotency` are checked for safety only and assume none.

## 4. The theorems

TLAPS proves, for every value of the constants that the named assumptions allow:

| Module | Properties | Assumptions |
|---|---|---|
| `SlidingWindowProofs` | `TypeOK`, `WindowBound`, `OnlyAdmissionsBlock`, `DenialCostsNothing`, `DeniedOnlyWhenFull`, `RetryAfterInRange`, `RetryAfterHonest` | `ConfigAssumption` (what `config.Validate` guarantees), `EnvAssumption` (delay, skew, retries and the units of time are natural numbers) |
| `LoginFailureLimitProofs` | `TypeOK`, `FailureBound`, `CounterExpires`, `WarnedOnce`, `WindowFromFirstFailure`, `OnlyGuessesCount`, `KeepsPromise` (it implements `FailureWindow`) | `ConfigAssumption`, `WorkerAssumption` (finitely many logins) |
| `LifecycleProofs` | `TypeOK`, `NothingLeftOpen`, `ServedWithClients`, `CleanExitCutsNobody`, `KeepsPromise` (it implements `GracefulService`) | `MaxRetriesAssumption` (an integer: the configuration is not checked, and no attempt is a failed start) |
| `ProductStreamProofs` | `TypeOK`, `PageAsked`, `EndMeansComplete`, `NeverCutSilently`, `KeepsPromise` (it implements `PageDelivery`) | `StreamAssumption` (the size of the catalog, the limits and the greatest word are natural numbers, and what a client writes is an integer) |
| `ServiceCallProofs` | `TypeOK`, `ClientErrorChangedNothing`, `SuccessIsApplied`, `RevokedStaysOut`, `AdminOnly`, `UnauthorizedIsGenuine`, `PriceWasReal`, `KeepsPromise` (it implements `WriteOutcome`) | `MaxChangesAssumption` (a natural number), `PriceAssumption` (prices are integers, and one is received less than half a cent off) |
| `IdempotencyProofs` | `TypeOK`, `ReplayIsGenuine`, `StoredProtects`, `ConflictIsGenuine`, `RevokedChangesNothing`, `KeepsPromise` (it implements `OncePerKey`), `AppliedOnce` when attempts do not overlap and nothing fails (`AppliedOnceInTurn`) | none; `AppliedOnceInTurn` assumes `Serial` |
| `ReadinessProofs` | `TypeOK`, `ReadyMeansServing`, `NotReadyHasCause`, `NoConnectionLeft`, `now <= ReadyTimeout` (`NeverOverdue`) | `ReadinessAssumption` (at least one check, positive default and handler's timeout; the configured timeouts may be any integers) |

Each follows the same argument: an invariant `IInv` that the initial states
satisfy and every step keeps, and that implies the property. Why more than the
property is needed:

* `SlidingWindow`: `SetBound` (no more than the limit of entries that share a
  window), `StampBound` (a reading is no older than the delay and no further off
  than the skew), `AdmitBound` (an entry's score is near the time of its
  admission) and `RecentKept` (whatever was admitted recently is still an entry,
  and the key has not expired). Together they turn a bound on entries into a
  bound on admissions, by an injection of recent requests into entries
  (`EntriesCount`). `ReplyInv` and `HonestInv` remember, of a refusal that is on
  its way to the client, what it was computed from. `ExpiryEarned` says that the
  life of the key was set by an admission and not renewed since, from which
  `OnlyAdmissionsBlock` follows.
* `LoginFailureLimit`: `InFlightBound` counts, besides the failures, the logins
  that have passed the check and may still fail; `WarnInv` says when the warning
  is still to come; `GuessInv` that what is about to be counted was refused. That
  a further failure is within the limit of `FailureWindow` follows from
  `FailureBound` after the step, not before it (`FailureBoundKept`).
* `Idempotency`: `EffectInv` and `AnswerInv` say how far an attempt with an effect
  or an answer has come, `CacheInv` and `OneEntry` that an entry was stored by an
  attempt that asked for it, `KeptInv` that a stored answer is there until its key
  expires, and `BeforeInv` that an attempt behind the lookup found none of them.
  Every step then maps to a step of `OncePerKey` or to a stutter: the hard ones
  are `Miss`, which begins an attempt, and the storing of a second answer.
  `RevokedInv` says that what was revoked stays so, and that Auth lets in only
  what was not. `SerialInv` is about attempts in turn: whoever took effect is still
  storing its answer or has stored it, and nobody past the lookup has the key of
  another one that took effect. Overlapping attempts break the first part of it,
  a lost answer the second.
* `Readiness`: `PassedInv` says that every check that has passed was told so by a
  service that was serving, `VerdictInv` and `HistoryInv` connect verdicts with
  the history, and `DeadlineInv` bounds the deadline of a check from both sides.
* `Lifecycle`: `DialInv`, `OpenInv`, `ServerInv` and `DrainInv` say which clients
  are open in which stage, and `CutInv` who may have been cut in it. With them
  each step of `stage` is one of `GracefulService` or hidden (`ModeOfStage`); a
  client that is closed and a process that ends are the cases that need them.
* `ProductStream`: `PageInv` and `CatalogInv` say what the catalog was asked for,
  which is what the client asked for whenever a page is served, and how much of
  it was sent; `SourceInv`, `ContextInv`, `DeliveryInv` and `EndInv` relate what
  was sent, received and written to the place where the handler is. The refinement
  needs one invariant more, `OpenInv`: only a valid page is asked of the catalog,
  and a refusal comes before it was asked. `SentOfPage` then says that what the
  catalog sent before it ended is the page computed from the query.
* `ServiceCall`: `RouteInv`, `NothingYet`, `CallInv`, `StatusInv`, `AuthInv`,
  `AcceptedInv` and `PriceInv` say of a request what its route, its reply, its
  place and its history imply. A step touches one request, so that all actions
  reduce to three lemmas: an answer keeps the invariant if its status is
  `Truthful`, a call if the user was accepted, a reply if it is `Informed`.
  The catalog's reply has a lemma of its own: `CentsExact`, that `Cents` gives back
  the price of whatever is received of it, for any unit and any error of less than
  half a cent.
  For `WriteOutcome`, every answer is a step that tells the client something
  (`AnswerTells`); that it is the truth is `StatusInv` after the step
  (`AnswerStep`), and that it stays the truth is that a request sends its change
  before its answer and once (`SendStep`, `ExecuteStep`).

`AppliedOnceInTurn` is the only theorem with a hypothesis of its own. `Serial` says
that one attempt is in flight at a time (`MaxInFlight = 1`) and that no fault is
switched on; `idempotency_revoked` is such an instance, so it is not vacuous. The
theorem and the counterexample of `idempotency_concurrent` mark the two sides of
what the README of the gateway promises: one result per key when clients wait for
their answers and nothing fails, and no more than that.

Proved and not checked by a run: `DenialCostsNothing` and `RetryAfterInRange`, which
say what one step of the script does; `CounterExpires`, which `EventuallyForgotten`
implies; `NeverOverdue`, which is half of `AnsweredInTime`; `WarnedOnce`,
`WindowFromFirstFailure`, `NothingLeftOpen`, `ServedWithClients` and
`SuccessIsApplied`, each of which the `KeepsPromise` of its module implies; and
`AppliedOnceInTurn`. A clock skew above zero is left to
the theorems too: `window` runs with clocks that agree, because skew, delay and
retries together are too many states for the same question.

Only model-checked: liveness (`EventuallyForgotten`, `ProcessEnds`,
`StartDecided`, `HandlerEnds`, `EveryCallAnswered`, `AnsweredInTime`), which needs
ENABLED and fairness and is out of the prover's reach. No module has a recursive
definition, so nothing is left unproved on account of one.

## 5. What is not modelled

* The rate limiter and the stored answers as one state space. `Idempotency` has
  the limiter's refusal before it and Recovery and Auth behind it, and that is
  all the parts of the chain have in common: they read different keys of Redis,
  and none reads what another one wrote.
* A token refresh between two attempts with one idempotency key. The cache key
  contains the token, so to the middleware, and to the model, the second attempt
  is another user's. Reading shows that it takes effect again.
* Numbers no state depends on: the pause between dials (which overflows after
  some thirty attempts that start at two seconds), the stock of a product, which is
  cut to 32 bits, and the seconds of a `Retry-After` of shop-auth.
* Seconds that the calls of one request add up to, against `WriteTimeout`: the
  request is answered into a connection that is closed, and no code of the
  gateway notices.
* Reading of the configuration and the environment, the status page, Swagger,
  metrics and traces: input and output without a state that a request depends on.
* `/health`, which always answers 200.
* Redis, shop-auth, the catalog, the cart, net/http and grpc-go are external, and
  modelled as the code uses them.

## 6. What could come next

1. A client that refreshes its token between two attempts with one key, as two
   tokens of one user in `Idempotency`.
2. Time in `ServiceCall`: the sum of the timeouts of a request against
   `WriteTimeout`, in ticks as in `Readiness`.
3. The pause between dials as an operator on words of fixed width.
4. An abstract probe (asked, answered with what was true, within a time) for
   `Readiness`, the one component without an abstract specification.
