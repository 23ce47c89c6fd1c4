--------------------------- MODULE ServiceCall ---------------------------
(***************************************************************************)
(* Requests to the routes that call a service: the protected ones (cart,   *)
(* products, log level, is-admin), which go through the middleware Auth    *)
(* (and RequireAdmin), and the public ones of shop-auth.  From the handler *)
(* a request goes through the gateway service, an adapter and a gRPC       *)
(* client; every call to shop-auth, the catalog or the cart may be         *)
(* answered, time out or lose its connection, and a call the gateway gave  *)
(* up may still be executed later.                                         *)
(*                                                                         *)
(* One user, one product and one cart; what a call carries is left out but *)
(* for the product and the price of AddItem.  A price is whole cents in    *)
(* the catalog, in the gateway and in the cart, and a number that is not   *)
(* quite whole cents on its way from the catalog (a double).               *)
(***************************************************************************)
EXTENDS AuthErrors

CONSTANTS Request,     \* the requests
          Price,       \* prices the product may have, in cents
          PartsPerCent,  \* a received price is told in parts of a cent
          Drift,       \* how many parts a received price may be off
          MaxChanges   \* bound: how often the session and the price change

ASSUME MaxChangesAssumption == MaxChanges \in Nat

\* The doubles of a price and of its hundredfold are off by less than half a
\* cent, as they are below 2^51 cents.
ASSUME PriceAssumption ==
    /\ Price \subseteq Int
    /\ PartsPerCent \in Nat \ {0}
    /\ Drift \in Nat /\ 2 * Drift < PartsPerCent

CartWrite == {"AddItem", "ChangeCart"}   \* ChangeCart: Remove, Update, Clear
AuthWrite == {"Register", "Login", "Refresh", "Logout"}
Write     == CartWrite \cup AuthWrite
Public    == AuthWrite \cup {"Validate"}  \* the routes without Auth
AuthRoute == Public \cup {"IsAdmin"}      \* the routes of AuthHandler
Product   == {"GetProduct", "ListProducts"}
Kind      == CartWrite \cup AuthRoute \cup Product \cup {"GetCart", "LogLevel"}

(* What is wrong with the request itself.  "refused": a token or credentials
   shop-auth never accepts; "padded": blanks around the id of the product. *)
Input == {"ok", "no bearer", "no app id", "refused", "method", "malformed",
          "no value", "padded"}

(* The calls a request waits for: "auth" is the one of AuthHandler. *)
Services == {"validate", "is admin", "auth", "catalog", "cart"}
Phase    == Services \cup {"new", "handler", "answered"}

VARIABLES
    session,   \* the user as shop-auth knows it
    price,     \* the product as the catalog knows it
    level,     \* requests whose level the logger was set to
    changes,   \* changes of session and price so far
    phase,     \* the service a request waits for, or where it is
    kind,      \* the route of a request
    input,     \* what is wrong with a request
    reply,     \* the result of the call a request waits for
    snapshot,  \* the price a request got from the catalog, in cents
    pending,   \* requests whose write was sent to a service, not executed
    applied,   \* requests whose write took effect in a service
    status,    \* the HTTP status a request was answered with, 0 before
    sessions,  \* the sessions there were while a request was served
    prices     \* the prices there were while a request was served

vars == <<session, price, level, changes, phase, kind, input, reply, snapshot,
          pending, applied, status, sessions, prices>>

world   == <<session, price, changes, sessions, prices>>
request == <<kind, input>>
effects == <<level, pending, applied>>

Sessions == {"admin", "user", "revoked"}

Init ==
    /\ session \in {"admin", "user"}
    /\ price \in Price
    /\ level = {}
    /\ changes = 0
    /\ phase = [r \in Request |-> "new"]
    /\ kind \in [Request -> Kind]
    /\ input \in [Request -> Input]
    /\ reply = [r \in Request |-> "none"]
    /\ snapshot = [r \in Request |-> 0]
    /\ pending = {}
    /\ applied = {}
    /\ status = [r \in Request |-> 0]
    /\ sessions = [r \in Request |-> {}]
    /\ prices = [r \in Request |-> {}]

Served == {r \in Request : phase[r] \notin {"new", "answered"}}

Answer(r, s) == /\ phase' = [phase EXCEPT ![r] = "answered"]
                /\ status' = [status EXCEPT ![r] = s]
                /\ UNCHANGED reply

(* The request calls a service and waits for it. *)
Call(r, service) == /\ phase' = [phase EXCEPT ![r] = service]
                    /\ reply' = [reply EXCEPT ![r] = "none"]
                    /\ UNCHANGED status

Waiting(r)        == phase[r] \in Services /\ reply[r] = "none"
Waits(r, service) == phase[r] = service /\ reply[r] = "none"
Got(r, service)   == phase[r] = service /\ reply[r] # "none"

-----------------------------------------------------------------------------
(* The services and the network *)

SessionChanges ==
    /\ changes < MaxChanges
    /\ changes' = changes + 1
    /\ session' \in Sessions
    /\ sessions' = [r \in Request |->
                      sessions[r] \cup
                        (IF r \in Served THEN {session'} ELSE {})]
    /\ UNCHANGED <<price, level, phase, kind, input, reply, snapshot, pending,
                   applied, status, prices>>

PriceChanges ==
    /\ changes < MaxChanges
    /\ changes' = changes + 1
    /\ price' \in Price
    /\ prices' = [r \in Request |->
                    prices[r] \cup (IF r \in Served THEN {price'} ELSE {})]
    /\ UNCHANGED <<session, level, phase, kind, input, reply, snapshot,
                   pending, applied, status, sessions>>

Reply(r, c) == /\ reply' = [reply EXCEPT ![r] = c]
               /\ UNCHANGED <<world, request, phase, level, status>>

(* Shop-auth does not accept the token or the credentials of a request. *)
Refuses(r) == session = "revoked" \/ input[r] = "refused"

ValidateTokenReplies(r) ==
    /\ Waits(r, "validate")
    /\ \E c \in Code :
         /\ c \in {"Internal"} \cup (IF Refuses(r) THEN Refusal ELSE {"OK"})
         /\ Reply(r, c)
    /\ UNCHANGED <<snapshot, pending, applied>>

IsAdminReplies(r) ==
    /\ Waits(r, "is admin")
    /\ \E c \in Code :
         /\ c \in CASE session = "admin"   -> {"OK", "Internal"}
                    [] session = "user"    -> {"No", "Internal"}
                    [] session = "revoked" -> {"No", "NotFound", "Internal"}
         /\ Reply(r, c)
    /\ UNCHANGED <<snapshot, pending, applied>>

(* The id of the product, as a client may write it and without blanks. *)
ProductId    == "id"
WrittenId(r) == IF input[r] = "padded" THEN " id " ELSE ProductId
TrimSpace(id) == IF id = " id " THEN ProductId ELSE id

(* The id the gateway asks the catalog for. *)
AskedId(r) == TrimSpace(WrittenId(r))

(* What is received of the product's price. *)
Received == {PartsPerCent * price + d : d \in -Drift .. Drift}

(* A plausible bug: int64(p * 100), which cuts the parts of a cent off. *)
CentsCutOff(p) == IF p >= 0 THEN p \div PartsPerCent
                            ELSE -((-p) \div PartsPerCent)

(* math.Round: the nearest whole cents, halves away from zero. *)
Cents(p) ==
    IF p >= 0 THEN (2 * p + PartsPerCent) \div (2 * PartsPerCent)
              ELSE -((PartsPerCent - 2 * p) \div (2 * PartsPerCent))

(* The product and its price, or a list without it; no product with that id;
   or a failure (a product without a name, say, which Validate rejects). *)
GetProductReplies(r) ==
    /\ Waits(r, "catalog")
    /\ \/ /\ AskedId(r) = ProductId
          /\ Reply(r, "OK")
          /\ \E p \in Received : snapshot' = [snapshot EXCEPT ![r] = Cents(p)]
       \/ /\ \E c \in {"NotFound", "InvalidArgument", "Internal"} \cup
                    (IF kind[r] = "ListProducts" THEN {"OK"} ELSE {}) :
               Reply(r, c)
          /\ UNCHANGED snapshot
    /\ UNCHANGED <<pending, applied>>

(* A service executes a write, or fails and does not; or reads.  A write may
   be executed, or be lost, after the gateway has given the call up. *)
Executes(r, service, codes) ==
    /\ r \in pending \/ Waits(r, service)
    /\ \E c \in codes :
         /\ \/ Waits(r, service) /\ Reply(r, c)
            \/ /\ ~Waits(r, service)
               /\ UNCHANGED <<world, request, phase, level, status, reply>>
         /\ applied' = IF c = "OK" /\ r \in pending THEN applied \cup {r}
                                                   ELSE applied
    /\ pending' = pending \ {r}
    /\ UNCHANGED snapshot

CartReplies(r) ==
    /\ kind[r] \in CartWrite \cup {"GetCart"}
    /\ Executes(r, "cart", {"OK", "NotFound", "InvalidArgument", "Internal"})

(* What shop-auth answers on the routes of AuthHandler: a name that is taken,
   credentials it refuses, a user it does not know, a login it has locked. *)
AuthAnswers(r) ==
    {"InvalidArgument", "NotFound", "ResourceExhausted", "Internal"} \cup
    CASE kind[r] = "Register" -> {"OK", "AlreadyExists"}
      [] kind[r] = "IsAdmin"  -> {"OK", "No"}
      [] OTHER -> IF Refuses(r) THEN {"Unauthenticated"} ELSE {"OK"}

ShopAuthReplies(r) ==
    /\ kind[r] \in AuthRoute
    /\ Executes(r, "auth", AuthAnswers(r))

(* A plausible bug: the calls to the cart have no timeout. *)
CallEndsNotInCart(r) ==
    /\ Waiting(r)
    /\ phase[r] # "cart"
    /\ \E c \in LostCall : Reply(r, c)
    /\ UNCHANGED <<snapshot, pending, applied>>

(* The call's timeout, its connection or the client's context ends. *)
CallEnds(r) ==
    /\ Waiting(r)
    /\ \E c \in LostCall : Reply(r, c)
    /\ UNCHANGED <<snapshot, pending, applied>>

-----------------------------------------------------------------------------
(* The middleware *)

(* Auth reads the headers and asks shop-auth; a public route has no Auth. *)
Arrive(r) ==
    /\ phase[r] = "new"
    /\ IF kind[r] \in Public
       THEN Call(r, "handler")
       ELSE CASE input[r] = "no bearer" -> Answer(r, 401)
              [] input[r] = "no app id" -> Answer(r, 400)
              [] OTHER                  -> Call(r, "validate")
    /\ sessions' = [sessions EXCEPT ![r] = {session}]
    /\ prices' = [prices EXCEPT ![r] = {price}]
    /\ UNCHANGED <<session, price, changes, request, effects, snapshot>>

(* A plausible bug: shop-auth being away is taken for consent. *)
PassesFailOpen(c) == c \in {"OK", "Unavailable", "DeadlineExceeded"}

(* What lets a request pass Auth. *)
Passes(c) == c = "OK"

(* A plausible bug: RequireAdmin looks at the error and not at isAdmin. *)
AdminPassesAnyUser(c) == c \in {"OK", "No"}

(* What lets a request pass RequireAdmin: no error, and isAdmin. *)
AdminPasses(c) == c = "OK"

AuthRefuses(r) ==
    /\ Got(r, "validate")
    /\ ~Passes(reply[r])
    /\ Answer(r, UpstreamStatus(reply[r]))
    /\ UNCHANGED <<world, request, effects, snapshot>>

AuthPasses(r) == Got(r, "validate") /\ Passes(reply[r])

(* The request is at its handler. *)
AtHandler(r) == phase[r] = "handler" \/ AuthPasses(r)

RequireAdmin(r) ==
    /\ AuthPasses(r)
    /\ kind[r] = "LogLevel"
    /\ Call(r, "is admin")
    /\ UNCHANGED <<world, request, effects, snapshot>>

RequireAdminRefuses(r) ==
    /\ Got(r, "is admin")
    /\ ~AdminPasses(reply[r])
    /\ Answer(r, IF reply[r] = "No" THEN 403 ELSE UpstreamStatus(reply[r]))
    /\ UNCHANGED <<world, request, effects, snapshot>>

-----------------------------------------------------------------------------
(* The handlers *)

(* AdminHandler.LogLevel: no level is a reading, and SetLevel takes a name it
   does not know for info. *)
LogLevel(r) ==
    /\ Got(r, "is admin")
    /\ AdminPasses(reply[r])
    /\ Answer(r, IF input[r] = "method" THEN 405 ELSE 200)
    /\ level' = IF input[r] \in {"method", "no value"} THEN level
                                                     ELSE level \cup {r}
    /\ UNCHANGED <<world, request, pending, applied, snapshot>>

(* A request the handlers refuse before they call a service: an unsupported
   method; a body that is not JSON, a path that is no product's or a page out
   of range; a product without an id. *)
Rejection(r) ==
    CASE input[r] = "method" -> 405
      [] input[r] = "malformed" /\ kind[r] # "GetCart" -> 400
      [] input[r] = "no value" /\ kind[r] = "GetProduct" -> 400
      [] input[r] = "no value" /\ kind[r] = "AddItem" -> 500
      [] OTHER -> 0

HandlerRejects(r) ==
    /\ AtHandler(r)
    /\ kind[r] # "LogLevel"
    /\ Rejection(r) # 0
    /\ Answer(r, Rejection(r))
    /\ UNCHANGED <<world, request, effects, snapshot>>

(* AuthHandler: each route has one call to shop-auth. *)
AskShopAuth(r) ==
    /\ AtHandler(r)
    /\ kind[r] \in AuthRoute
    /\ Rejection(r) = 0
    /\ Call(r, "auth")
    /\ pending' = IF kind[r] \in Write THEN pending \cup {r} ELSE pending
    /\ UNCHANGED <<world, request, level, applied, snapshot>>

(* GetByID, List and AddItem ask the catalog. *)
AskCatalog(r) ==
    /\ AuthPasses(r)
    /\ kind[r] \in Product \cup {"AddItem"}
    /\ Rejection(r) = 0
    /\ Call(r, "catalog")
    /\ UNCHANGED <<world, request, effects, snapshot>>

(* The other cart routes go to the cart. *)
AskCart(r) ==
    /\ AuthPasses(r)
    /\ kind[r] \in {"ChangeCart", "GetCart"}
    /\ Rejection(r) = 0
    /\ Call(r, "cart")
    /\ pending' = IF kind[r] \in Write THEN pending \cup {r} ELSE pending
    /\ UNCHANGED <<world, request, level, applied, snapshot>>

(* What GetByID, AddItem and List make of the answer of the catalog; a product
   with a negative price is refused (Product.Validate). *)
ProductStatus(r) ==
    CASE reply[r] = "OK" /\ snapshot[r] >= 0 -> 200
      [] reply[r] = "NotFound" /\ kind[r] # "ListProducts" -> 404
      [] reply[r] = "InvalidArgument" /\ kind[r] = "ListProducts" -> 400
      [] OTHER -> 500

ProductDone(r) ==
    /\ Got(r, "catalog")
    /\ kind[r] \in Product \/ ProductStatus(r) # 200
    /\ Answer(r, ProductStatus(r))
    /\ UNCHANGED <<world, request, effects, snapshot>>

(* What AddItem sends to the cart: the id as the client wrote it, and the
   price of the product the catalog found. *)
Line(r) == [id |-> WrittenId(r), price |-> snapshot[r]]

AddItemPriced(r) ==
    /\ Got(r, "catalog")
    /\ kind[r] = "AddItem"
    /\ ProductStatus(r) = 200
    /\ Call(r, "cart")
    /\ pending' = pending \cup {r}
    /\ UNCHANGED <<world, request, level, applied, snapshot>>

(* A plausible bug: the error is not looked at. *)
CartStatusIgnored(r) == 200

(* A plausible bug: the adapter takes every failure for a missing cart. *)
CartStatusAnyIsNotFound(r) ==
    CASE reply[r] = "OK" -> 200
      [] kind[r] # "AddItem" -> 404
      [] OTHER -> 500

(* What the cart handlers make of the answer of the cart: AddItem does not
   tell a missing cart from other failures. *)
CartStatus(r) ==
    CASE reply[r] = "OK" -> 200
      [] reply[r] = "NotFound" /\ kind[r] # "AddItem" -> 404
      [] OTHER -> 500

CartDone(r) ==
    /\ Got(r, "cart")
    /\ Answer(r, CartStatus(r))
    /\ UNCHANGED <<world, request, effects, snapshot>>

ShopAuthDone(r) ==
    /\ Got(r, "auth")
    /\ Answer(r, AuthStatus(reply[r]))
    /\ UNCHANGED <<world, request, effects, snapshot>>

Handle(r) == \/ AuthRefuses(r) \/ RequireAdmin(r) \/ RequireAdminRefuses(r)
             \/ LogLevel(r) \/ HandlerRejects(r) \/ AskCatalog(r)
             \/ AskCart(r) \/ AskShopAuth(r) \/ ProductDone(r)
             \/ AddItemPriced(r) \/ CartDone(r) \/ ShopAuthDone(r)

Service(r) == \/ ValidateTokenReplies(r) \/ IsAdminReplies(r)
              \/ GetProductReplies(r) \/ CartReplies(r) \/ ShopAuthReplies(r)

Next == \/ SessionChanges \/ PriceChanges
        \/ \E r \in Request : \/ Arrive(r) \/ Handle(r)
                              \/ Service(r) \/ CallEnds(r)

(* A goroutine serves each request, and each call has a timeout; the services
   need not answer. *)
Spec == /\ Init
        /\ [][Next]_vars
        /\ \A r \in Request : WF_vars(Handle(r)) /\ WF_vars(CallEnds(r))

-----------------------------------------------------------------------------
TypeOK ==
    /\ session \in Sessions
    /\ price \in Price
    /\ level \in SUBSET Request
    /\ changes \in 0 .. MaxChanges
    /\ phase \in [Request -> Phase]
    /\ kind \in [Request -> Kind]
    /\ input \in [Request -> Input]
    /\ reply \in [Request -> Code \cup {"none"}]
    /\ snapshot \in [Request -> Int]
    /\ pending \in SUBSET Request
    /\ applied \in SUBSET Request
    /\ status \in [Request -> Status \cup {0}]
    /\ \A r \in Request : (status[r] = 0) <=> (phase[r] # "answered")
    /\ sessions \in [Request -> SUBSET Sessions]
    /\ prices \in [Request -> SUBSET Price]

(* A 4xx is final: nothing was changed for the request, and no call of it is
   still under way that could change something (the status is chosen from the
   answer of the service, by mapGRPCError and the handlers). *)
ClientErrorChangedNothing ==
    \A r \in Request :
        status[r] \in 400 .. 499 => r \notin applied \cup pending \cup level

(* A 200 to a write means that the service has executed it. *)
SuccessIsApplied ==
    \A r \in Request : status[r] = 200 /\ kind[r] \in Write => r \in applied

(* What a status tells the client, and which requests ask for a change. *)
Told == [r \in Request |-> CASE status[r] = 0           -> "nothing"
                             [] status[r] = 200         -> "done"
                             [] status[r] \in 400 .. 499 -> "refused"
                             [] OTHER                   -> "unknown"]
Changing == {r \in Request :
               \/ kind[r] \in Write
               \/ kind[r] = "LogLevel" /\ input[r] \notin {"method", "no value"}}

(* The chain from the middleware to the clients implements WriteOutcome,
   whatever call is lost and however late a service acts: every change is made
   once at most, and every status is true of it and stays so. *)
Promise == INSTANCE WriteOutcome WITH
    writes <- Changing, underway <- pending, done <- applied \cup level,
    told <- Told
KeepsPromise == Promise!Spec

(* On the protected routes no write reaches the cart, and no level is set, for
   a token shop-auth never accepts or has revoked all the time the request was
   served, whatever fails. *)
RevokedStaysOut ==
    \A r \in pending \cup applied \cup level :
        kind[r] \notin Public => /\ sessions[r] # {"revoked"}
                                 /\ input[r] # "refused"

(* The level is set only for a user who was an administrator at some time
   while the request was served (README.md:116, middleware/README.md:149;
   http/v1/README.md:98 says that the route is not protected). *)
AdminOnly == \A r \in level : "admin" \in sessions[r]

(* A 401 is sent only for a request without a bearer token, or after
   shop-auth refused the token, the credentials or the user (auth.go:143-145
   and writeAuthError): clients drop their tokens on a 401 and the login limit
   counts it, so an outage of shop-auth must not cause one. *)
UnauthorizedIsGenuine ==
    \A r \in Request :
        status[r] = 401 => \/ input[r] = "no bearer" /\ kind[r] \notin Public
                           \/ input[r] = "refused"
                           \/ "revoked" \in sessions[r]

(* The prices a product had while a request was served. *)
PricesOf(r, id) == IF id = ProductId THEN prices[r] ELSE {}

(* A price in the cart is one the product of the line had while the request
   that put it there was served, to the cent, although it travels as a double
   and the catalog is asked for the id without its blanks; and it is not
   negative (README.md:95: the price is the server's, not the client's). *)
PriceWasReal ==
    \A r \in applied :
        kind[r] = "AddItem" =>
            /\ Line(r).price \in PricesOf(r, TrimSpace(Line(r).id))
            /\ Line(r).price >= 0

(* Every request is answered, even when no service ever answers a call. *)
EveryCallAnswered ==
    \A r \in Request : (r \in Served) ~> (phase[r] = "answered")
=============================================================================
