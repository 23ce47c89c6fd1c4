------------------------- MODULE ServiceCallProofs -------------------------
(***************************************************************************)
(* ServiceCall for any set of requests, any prices, any unit and error     *)
(* they are received with, and any number of changes of the user and of    *)
(* the price.  That every request is answered is left to TLC.              *)
(***************************************************************************)
EXTENDS ServiceCall, TLAPS

(* The calls that may change something, and what a service answers to a call
   it has not executed. *)
LastCall == {"cart", "auth"}
Declined == {"InvalidArgument", "AlreadyExists", "NotFound",
             "Unauthenticated", "ResourceExhausted"}

(* Which routes make which call. *)
RouteInv(r) ==
    /\ phase[r] = "handler" => kind[r] \in Public
    /\ phase[r] = "auth" => kind[r] \in AuthRoute
    /\ phase[r] = "cart" => kind[r] \notin AuthRoute
    /\ phase[r] = "is admin" => kind[r] = "LogLevel"
    /\ phase[r] \in {"catalog", "cart", "auth"} => kind[r] # "LogLevel"
    /\ r \in pending \cup applied => kind[r] \in Write

(* Nothing is done for a request before its last call, and a level is set
   only with the answer. *)
NothingYet(r) ==
    /\ phase[r] \notin LastCall \cup {"answered"} => r \notin pending \cup applied
    /\ phase[r] # "answered" => r \notin level

(* What the reply of the cart or of shop-auth says of the write. *)
CallInv(r) ==
    /\ phase[r] \in LastCall /\ kind[r] \in Write =>
         /\ reply[r] = "none" => r \in pending
         /\ reply[r] = "OK" => r \in applied
         /\ reply[r] # "No"
    /\ phase[r] \in LastCall /\ reply[r] = "none" => r \notin applied
    /\ phase[r] \in LastCall /\ reply[r] \in Declined
         => r \notin pending \cup applied

(* The token or the credentials were refused with reason. *)
Refused(r) == input[r] = "refused" \/ "revoked" \in sessions[r]

(* What the status says of the effects. *)
ClientErrors == 400 .. 499

StatusInv(r) ==
    /\ status[r] \in ClientErrors => r \notin pending \cup applied \cup level
    /\ status[r] = 200 /\ kind[r] \in Write => r \in applied
    /\ status[r] = 401 => \/ input[r] = "no bearer" /\ kind[r] \notin Public
                          \/ Refused(r)

(* The user was accepted at some time while the request was served. *)
WasAccepted(r) == /\ input[r] # "refused"
                  /\ "admin" \in sessions[r] \/ "user" \in sessions[r]

(* What an answer of shop-auth says was true while the request was served. *)
AuthInv(r) ==
    /\ r \in Served => session \in sessions[r]
    /\ phase[r] = "validate" /\ reply[r] = "OK" => WasAccepted(r)
    /\ phase[r] \in {"validate", "is admin"} /\ reply[r] \in Refusal
         => Refused(r)
    /\ phase[r] = "auth" /\ reply[r] = "Unauthenticated" => Refused(r)
    /\ phase[r] = "is admin" /\ reply[r] = "OK" => "admin" \in sessions[r]

(* Who got past Auth was accepted. *)
AcceptedInv(r) ==
    /\ phase[r] \in {"is admin", "catalog", "cart", "auth"}
         => WasAccepted(r) \/ kind[r] \in Public
    /\ r \in pending \cup applied \cup level
         => WasAccepted(r) \/ kind[r] \in Public
    /\ r \in level => "admin" \in sessions[r]

(* The price AddItem carries was the product's while it was served, and is
   one Validate lets pass. *)
PricedWell(r) == snapshot[r] \in prices[r] /\ snapshot[r] >= 0

PriceInv(r) ==
    /\ r \in Served => price \in prices[r]
    /\ phase[r] = "catalog" /\ reply[r] = "OK" /\ kind[r] = "AddItem"
         => snapshot[r] \in prices[r]
    /\ phase[r] = "cart" /\ kind[r] = "AddItem" => PricedWell(r)
    /\ r \in pending \cup applied /\ kind[r] = "AddItem" => PricedWell(r)

RequestInv(r) == /\ RouteInv(r) /\ NothingYet(r) /\ CallInv(r)
                 /\ StatusInv(r) /\ AuthInv(r) /\ AcceptedInv(r)
                 /\ PriceInv(r)

Facts == \A r \in Request : RequestInv(r)

(* The inductive invariant. *)
IInv == TypeOK /\ Facts

-----------------------------------------------------------------------------
(* The statuses the operators choose. *)

LEMMA StatusMembers ==
  {200, 400, 401, 403, 404, 405, 409, 429, 500, 503, 504} \subseteq Status
  BY DEF Status

LEMMA ZeroIsNoStatus == 0 \notin Status /\ 0 \notin ClientErrors
  BY DEF Status, ClientErrors

LEMMA CodeMembers ==
  /\ {"OK", "No", "Internal"} \subseteq Code
  /\ Declined \subseteq Code
  /\ Refusal \subseteq Code
  /\ LostCall \subseteq Code
  /\ "NotFound" \in Refusal
  /\ "none" \notin Code
  /\ \A c \in LostCall : /\ c \notin Refusal /\ c \notin Declined
                        /\ c # "OK" /\ c # "No" /\ c # "NotFound"
  /\ \A c \in {"OK", "No", "Internal", "InvalidArgument"} : c \notin Refusal
  /\ \A c \in {"none", "OK", "No", "Internal"} : c \notin Declined
  BY DEF Code, Refusal, LostCall, Declined

LEMMA KindSets ==
  /\ \A k \in AuthRoute : k \notin CartWrite /\ k # "GetCart" /\ k # "AddItem"
  /\ \A k \in CartWrite : k \in Write /\ k \notin AuthRoute
  /\ {"GetCart", "LogLevel"} \cap (Write \cup AuthRoute) = {}
  /\ Product \cap Write = {}
  /\ "IsAdmin" \notin Write
  /\ Public \subseteq AuthRoute
  /\ "AddItem" \in CartWrite
  BY DEF AuthRoute, Public, AuthWrite, CartWrite, Write, Product

LEMMA UpstreamStatusValues ==
  ASSUME NEW c \in Code
  PROVE  /\ UpstreamStatus(c) \in {401, 500, 503, 504}
         /\ UpstreamStatus(c) = 401 => c \in Refusal
  BY DEF UpstreamStatus, Code, Refusal, LostCall

LEMMA RejectionValues ==
  ASSUME NEW r \in Request
  PROVE  Rejection(r) \in {0, 400, 405, 500}
  BY DEF Rejection

LEMMA ProductStatusValues ==
  ASSUME NEW r \in Request
  PROVE  /\ ProductStatus(r) \in {200, 400, 404, 500}
         /\ ProductStatus(r) = 200 <=> reply[r] = "OK" /\ snapshot[r] >= 0
  BY DEF ProductStatus

LEMMA CartStatusValues ==
  ASSUME NEW r \in Request
  PROVE  /\ CartStatus(r) \in {200, 404, 500}
         /\ CartStatus(r) = 200 => reply[r] = "OK"
         /\ CartStatus(r) = 404 => reply[r] = "NotFound"
  BY DEF CartStatus

LEMMA AuthStatusValues ==
  ASSUME NEW c \in Code
  PROVE  /\ AuthStatus(c) \in {200, 400, 401, 404, 409, 429, 500, 503, 504}
         /\ AuthStatus(c) = 200 => c \in {"OK", "No"}
         /\ AuthStatus(c) \in {400, 401, 404, 409, 429} => c \in Declined
         /\ AuthStatus(c) = 401 => c = "Unauthenticated"
  BY DEF AuthStatus, Code, Refusal, LostCall, Declined

-----------------------------------------------------------------------------
(* What the small steps change, and for which request. *)

Same(q) == /\ phase'[q] = phase[q]
           /\ kind'[q] = kind[q]
           /\ input'[q] = input[q]
           /\ reply'[q] = reply[q]
           /\ snapshot'[q] = snapshot[q]
           /\ status'[q] = status[q]
           /\ sessions'[q] = sessions[q]
           /\ prices'[q] = prices[q]
           /\ q \in pending' <=> q \in pending
           /\ q \in applied' <=> q \in applied
           /\ q \in level' <=> q \in level

(* A request nothing happens to keeps its facts. *)
LEMMA Frame ==
  ASSUME NEW q \in Request, RequestInv(q), Same(q),
         session' = session, price' = price
  PROVE  RequestInv(q)'
<1> USE DEF RequestInv, Same
<1>0. RouteInv(q)'
  BY DEF RouteInv
<1>1. NothingYet(q)'
  BY DEF NothingYet
<1>2. CallInv(q)'
  BY DEF CallInv
<1>3. StatusInv(q)'
  BY DEF StatusInv, Refused
<1>4. AuthInv(q)'
  BY DEF AuthInv, WasAccepted, Refused, Served
<1>5. AcceptedInv(q)'
  BY DEF AcceptedInv, WasAccepted
<1>6. PriceInv(q)'
  BY DEF PriceInv, PricedWell, Served
<1> QED BY <1>0, <1>1, <1>2, <1>3, <1>4, <1>5, <1>6

(* Status 0 means that there is no answer yet. *)
LEMMA ZeroBefore ==
  ASSUME TypeOK
  PROVE  \A q \in Request : (status[q] = 0) <=> (phase[q] # "answered")
  BY DEF TypeOK

(* A request without an answer has nothing to say of it. *)
LEMMA OpenStatus ==
  ASSUME NEW r \in Request, status'[r] = 0
  PROVE  StatusInv(r)'
<1>1. status'[r] \notin ClientErrors /\ status'[r] # 200 /\ status'[r] # 401
  BY ZeroIsNoStatus
<1> QED BY <1>1 DEF StatusInv

LEMMA AnswerSets ==
  ASSUME TypeOK, NEW r \in Request, NEW s \in Status, Answer(r, s)
  PROVE  /\ phase'[r] = "answered" /\ status'[r] = s /\ reply' = reply
         /\ \A q \in Request \ {r} : phase'[q] = phase[q] /\ status'[q] = status[q]
         /\ phase' \in [Request -> Phase]
         /\ status' \in [Request -> Status \cup {0}]
  BY DEF TypeOK, Answer, Phase

LEMMA CallSets ==
  ASSUME TypeOK, NEW r \in Request,
         NEW service \in Services \cup {"handler"},
         Call(r, service)
  PROVE  /\ phase'[r] = service /\ reply'[r] = "none" /\ status' = status
         /\ \A q \in Request \ {r} : phase'[q] = phase[q] /\ reply'[q] = reply[q]
         /\ phase' \in [Request -> Phase]
         /\ reply' \in [Request -> Code \cup {"none"}]
  BY DEF TypeOK, Call, Phase

LEMMA ReplySets ==
  ASSUME TypeOK, NEW r \in Request, NEW c \in Code, Reply(r, c)
  PROVE  /\ reply'[r] = c /\ phase' = phase /\ status' = status
         /\ level' = level /\ kind' = kind /\ input' = input
         /\ session' = session /\ price' = price /\ changes' = changes
         /\ sessions' = sessions /\ prices' = prices
         /\ \A q \in Request \ {r} : reply'[q] = reply[q]
         /\ reply' \in [Request -> Code \cup {"none"}]
  BY DEF TypeOK, Reply, world, request

-----------------------------------------------------------------------------
(* A status tells the truth about what was done for the request. *)
Truthful(r, s) ==
    /\ s \in ClientErrors => r \notin pending \cup applied \cup level'
    /\ s = 200 /\ kind[r] \in Write => r \in applied
    /\ s = 401 => Refused(r)

(* An answer keeps the invariant when its status tells the truth. *)
LEMMA AnswerKeeps ==
  ASSUME TypeOK, Facts, NEW r \in Request, NEW s \in Status,
         phase[r] # "new", Answer(r, s),
         UNCHANGED <<world, request, pending, applied, snapshot>>,
         level' \in {level, level \cup {r}},
         Truthful(r, s),
         r \in level' => /\ "admin" \in sessions[r]
                         /\ WasAccepted(r) \/ kind[r] \in Public
  PROVE  TypeOK' /\ Facts'
<1>1. UNCHANGED <<session, price, changes, sessions, prices, kind, input,
                  pending, applied, snapshot>>
  BY DEF world, request
<1>2. TypeOK'
  <2>1. level' \in SUBSET Request
    BY Zenon DEF TypeOK
  <2>2. ASSUME NEW q \in Request
        PROVE  (status'[q] = 0) <=> (phase'[q] # "answered")
    <3>1. CASE q = r
      <4>1. status'[q] \in Status /\ phase'[q] = "answered"
        BY <3>1, AnswerSets
      <4> QED BY <4>1, ZeroIsNoStatus
    <3>2. CASE q # r
      BY <3>2, AnswerSets, ZeroBefore
    <3> QED BY <3>1, <3>2
  <2> QED BY <1>1, <2>1, <2>2, AnswerSets DEF TypeOK
<1>3. \A q \in Request \ {r} : RequestInv(q)'
  <2>1. \A q \in Request \ {r} : Same(q)
    BY <1>1, AnswerSets DEF Same
  <2> QED BY <1>1, <2>1, Frame DEF Facts
<1>4. RequestInv(r)
  BY DEF Facts
<1>0. RouteInv(r)'
  BY <1>1, <1>4, AnswerSets DEF RequestInv, RouteInv
<1>5. NothingYet(r)'
  BY <1>1, <1>4, AnswerSets DEF RequestInv, NothingYet
<1>6. CallInv(r)'
  BY <1>1, <1>4, AnswerSets DEF RequestInv, CallInv, LastCall
<1>7. StatusInv(r)'
  <2>1. status'[r] = s
    BY AnswerSets
  <2>2. status'[r] \in ClientErrors
          => r \notin pending' \cup applied' \cup level'
    BY <1>1, <2>1 DEF Truthful
  <2>3. status'[r] = 200 /\ kind'[r] \in Write => r \in applied'
    BY <1>1, <2>1 DEF Truthful
  <2>4. status'[r] = 401 => Refused(r)'
    BY <1>1, <2>1 DEF Truthful, Refused
  <2> QED BY <2>2, <2>3, <2>4, Zenon DEF StatusInv
<1>8. AuthInv(r)'
  BY <1>1, <1>4, AnswerSets DEF RequestInv, AuthInv, Served
<1>9. AcceptedInv(r)'
  BY <1>1, <1>4, AnswerSets DEF RequestInv, AcceptedInv, WasAccepted
<1>10. PriceInv(r)'
  BY <1>1, <1>4, AnswerSets DEF RequestInv, PriceInv, PricedWell, Served
<1> QED BY <1>0, <1>2, <1>3, <1>5, <1>6, <1>7, <1>8, <1>9, <1>10
        DEF Facts, RequestInv

(* A call keeps the invariant when shop-auth accepted the user, and what it
   sends is in order. *)
LEMMA CallKeeps ==
  ASSUME TypeOK, Facts, NEW r \in Request,
         NEW service \in {"is admin", "catalog", "cart", "auth"},
         r \in Served, r \notin pending \cup applied, Call(r, service),
         UNCHANGED <<world, request, level, applied, snapshot>>,
         pending' = IF service \in LastCall /\ kind[r] \in Write
                    THEN pending \cup {r} ELSE pending,
         WasAccepted(r) \/ kind[r] \in Public,
         service = "is admin" <=> kind[r] = "LogLevel",
         service = "auth" <=> kind[r] \in AuthRoute,
         service = "cart" /\ kind[r] = "AddItem" => PricedWell(r)
  PROVE  TypeOK' /\ Facts'
<1>1. UNCHANGED <<session, price, changes, sessions, prices, kind, input,
                  level, applied, snapshot>>
  BY DEF world, request
<1>0. service \in Services /\ service \notin {"answered", "handler", "validate"}
  BY DEF Services
<1>2. TypeOK'
  <2>1. pending' \in SUBSET Request
    BY DEF TypeOK
  <2>2. \A q \in Request : (status'[q] = 0) <=> (phase'[q] # "answered")
    BY <1>0, CallSets, ZeroBefore DEF Served
  <2> QED BY <1>0, <1>1, <2>1, <2>2, CallSets DEF TypeOK
<1>3. \A q \in Request \ {r} : RequestInv(q)'
  <2>1. \A q \in Request \ {r} : Same(q)
    BY <1>0, <1>1, CallSets DEF Same
  <2> QED BY <1>1, <2>1, Frame DEF Facts
<1>4. RequestInv(r)
  BY DEF Facts
<1>5. status[r] = 0 /\ status' = status /\ phase'[r] = service
        /\ reply'[r] = "none"
  BY <1>0, CallSets, ZeroBefore DEF Served
<1>6. "none" \notin Refusal /\ "none" \notin Declined
  BY CodeMembers
<1>7. r \in pending' => service \in LastCall /\ kind[r] \in Write
  OBVIOUS
<1>8. RouteInv(r)'
  BY <1>1, <1>4, <1>5, <1>7 DEF RequestInv, RouteInv
<1>9. NothingYet(r)'
  BY <1>1, <1>4, <1>5, <1>7 DEF RequestInv, NothingYet, Served
<1>10. CallInv(r)'
  BY <1>1, <1>5, <1>6 DEF CallInv
<1>11. StatusInv(r)'
  BY <1>5, OpenStatus
<1>12. AuthInv(r)'
  BY <1>1, <1>4, <1>5, <1>6 DEF RequestInv, AuthInv, Served
<1>13. AcceptedInv(r)'
  BY <1>1, <1>4, <1>5 DEF RequestInv, AcceptedInv, WasAccepted
<1>14. PriceInv(r)'
  <2>1. r \in pending' /\ kind[r] = "AddItem" => service = "cart"
    BY <1>7, KindSets DEF LastCall
  <2> QED BY <1>1, <1>4, <1>5, <2>1 DEF RequestInv, PriceInv, PricedWell, Served
<1> QED BY <1>2, <1>3, <1>8, <1>9, <1>10, <1>11, <1>12, <1>13, <1>14
        DEF Facts, RequestInv

(* A reply tells what is so. *)
Informed(r, c) ==
    /\ phase[r] \in LastCall =>
         c \notin Declined /\ (kind[r] \in Write => c # "OK" /\ c # "No")
    /\ phase[r] = "catalog" => c # "OK"
    /\ phase[r] = "validate" /\ c = "OK" => ~Refuses(r)
    /\ phase[r] = "is admin" /\ c = "OK" => session = "admin"
    /\ phase[r] \in {"validate", "is admin"} /\ c \in Refusal => Refuses(r)

(* A reply that changes nothing else keeps the invariant when it tells what
   is so. *)
LEMMA ReplyKeeps ==
  ASSUME TypeOK, Facts, NEW r \in Request, NEW c \in Code,
         r \in Served, Reply(r, c), UNCHANGED <<snapshot, pending, applied>>,
         Informed(r, c)
  PROVE  TypeOK' /\ Facts'
<1>1. TypeOK'
  BY ReplySets DEF TypeOK
<1>2. \A q \in Request \ {r} : RequestInv(q)'
  <2>1. \A q \in Request \ {r} : Same(q)
    BY ReplySets DEF Same
  <2> QED BY <2>1, Frame, ReplySets DEF Facts
<1>3. RequestInv(r)
  BY DEF Facts
<1>4. c # "none"
  BY CodeMembers
<1>5. session \in {"admin", "user", "revoked"} /\ session \in sessions[r]
  BY <1>3 DEF TypeOK, Sessions, RequestInv, AuthInv
<1>0. RouteInv(r)'
  <2>1. UNCHANGED <<phase, kind, pending, applied>>
    BY ReplySets
  <2> QED BY <1>3, <2>1 DEF RequestInv, RouteInv
<1>6. NothingYet(r)'
  BY <1>3, ReplySets DEF RequestInv, NothingYet
<1>7. CallInv(r)'
  BY <1>3, <1>4, ReplySets DEF RequestInv, CallInv, Informed
<1>8. StatusInv(r)'
  <2>1. status'[r] = 0
    BY ReplySets, ZeroBefore DEF Served
  <2> QED BY <2>1, OpenStatus
<1>9. AuthInv(r)'
  <2>1. reply'[r] = c /\ phase' = phase /\ session' = session
          /\ sessions' = sessions /\ input' = input
    BY ReplySets
  <2>2. phase[r] = "auth" => c # "Unauthenticated"
    BY DEF Informed, LastCall, Declined
  <2>3. Refuses(r) => Refused(r)
    BY <1>5 DEF Refuses, Refused
  <2>4. ~Refuses(r) => WasAccepted(r)
    BY <1>5 DEF Refuses, WasAccepted
  <2> QED BY <1>5, <2>1, <2>2, <2>3, <2>4
          DEF AuthInv, Informed, WasAccepted, Refused
<1>10. AcceptedInv(r)'
  BY <1>3, ReplySets DEF RequestInv, AcceptedInv, WasAccepted
<1>11. PriceInv(r)'
  BY <1>3, <1>4, ReplySets
           DEF RequestInv, PriceInv, PricedWell, Informed, Served
<1> QED BY <1>0, <1>1, <1>2, <1>6, <1>7, <1>8, <1>9, <1>10, <1>11
        DEF Facts, RequestInv

-----------------------------------------------------------------------------
(* The invariant holds initially. *)
LEMMA InitIInv == Init => IInv
<1> SUFFICES ASSUME Init PROVE IInv
  OBVIOUS
<1>1. TypeOK
  <2>1. changes \in 0 .. MaxChanges
    BY MaxChangesAssumption DEF Init
  <2>2. level \in SUBSET Request /\ pending \in SUBSET Request
          /\ applied \in SUBSET Request
    BY DEF Init
  <2>3. session \in Sessions /\ price \in Price
    BY DEF Init, Sessions
  <2>4. phase \in [Request -> Phase]
    BY DEF Init, Phase
  <2> QED BY <2>1, <2>2, <2>3, <2>4 DEF Init, TypeOK
<1>2. ASSUME NEW r \in Request PROVE RequestInv(r)
  <2>1. /\ phase[r] = "new" /\ reply[r] = "none" /\ status[r] = 0
        /\ r \notin pending \cup applied \cup level
    BY DEF Init
  <2>2. r \notin Served
    BY <2>1 DEF Served
  <2>3. NothingYet(r)
    BY <2>1 DEF NothingYet
  <2>0. RouteInv(r)
    BY <2>1 DEF RouteInv
  <2>4. CallInv(r)
    BY <2>1 DEF CallInv, LastCall
  <2>5. StatusInv(r)
    <3>1. status[r] \notin ClientErrors /\ status[r] # 200 /\ status[r] # 401
      BY <2>1, ZeroIsNoStatus
    <3> QED BY <3>1 DEF StatusInv
  <2>6. AuthInv(r)
    BY <2>1, <2>2 DEF AuthInv
  <2>7. AcceptedInv(r)
    BY <2>1 DEF AcceptedInv
  <2>8. PriceInv(r)
    BY <2>1, <2>2 DEF PriceInv, PricedWell
  <2> QED BY <2>0, <2>3, <2>4, <2>5, <2>6, <2>7, <2>8 DEF RequestInv
<1> QED BY <1>1, <1>2 DEF IInv, Facts

LEMMA MoreChanges ==
  ASSUME NEW n \in 0 .. MaxChanges, n < MaxChanges
  PROVE  n + 1 \in 0 .. MaxChanges
  BY MaxChangesAssumption

(* The services change. *)
LEMMA SessionChangesKeeps ==
  ASSUME TypeOK, Facts, SessionChanges
  PROVE  TypeOK' /\ Facts'
<1> USE DEF SessionChanges
<1>1. sessions' \in [Request -> SUBSET Sessions]
  BY DEF TypeOK
<1>2. TypeOK'
  <2>1. changes \in 0 .. MaxChanges
    BY DEF TypeOK
  <2>2. changes < MaxChanges /\ changes' = changes + 1
    OBVIOUS
  <2>3. changes' \in 0 .. MaxChanges
    BY <2>1, <2>2, MoreChanges
  <2> QED BY <1>1, <2>3 DEF TypeOK
<1>3. ASSUME NEW r \in Request PROVE RequestInv(r)'
  <2>1. /\ phase'[r] = phase[r] /\ kind'[r] = kind[r] /\ input'[r] = input[r]
        /\ reply'[r] = reply[r] /\ snapshot'[r] = snapshot[r]
        /\ status'[r] = status[r] /\ prices'[r] = prices[r] /\ price' = price
        /\ pending' = pending /\ applied' = applied /\ level' = level
    OBVIOUS
  <2>2. sessions[r] \subseteq sessions'[r]
    OBVIOUS
  <2>3. r \in Served => session' \in sessions'[r]
    OBVIOUS
  <2>4. RequestInv(r)
    BY DEF Facts
  <2> HIDE DEF SessionChanges
  <2>0. RouteInv(r)'
    BY <2>1, <2>4 DEF RequestInv, RouteInv
  <2>5. NothingYet(r)'
    BY <2>1, <2>4 DEF RequestInv, NothingYet
  <2>6. CallInv(r)'
    BY <2>1, <2>4 DEF RequestInv, CallInv
  <2>7. StatusInv(r)'
    BY <2>1, <2>2, <2>4 DEF RequestInv, StatusInv, Refused
  <2>8. AuthInv(r)'
    BY <2>1, <2>2, <2>3, <2>4 DEF RequestInv, AuthInv, WasAccepted, Refused, Served
  <2>9. AcceptedInv(r)'
    BY <2>1, <2>2, <2>4 DEF RequestInv, AcceptedInv, WasAccepted
  <2>10. PriceInv(r)'
    BY <2>1, <2>4 DEF RequestInv, PriceInv, PricedWell, Served
  <2> QED BY <2>0, <2>5, <2>6, <2>7, <2>8, <2>9, <2>10 DEF RequestInv
<1> QED BY <1>2, <1>3 DEF Facts

LEMMA PriceChangesKeeps ==
  ASSUME TypeOK, Facts, PriceChanges
  PROVE  TypeOK' /\ Facts'
<1> USE DEF PriceChanges
<1>1. prices' \in [Request -> SUBSET Price]
  BY DEF TypeOK
<1>2. TypeOK'
  <2>1. changes \in 0 .. MaxChanges
    BY DEF TypeOK
  <2>2. changes < MaxChanges /\ changes' = changes + 1
    OBVIOUS
  <2>3. changes' \in 0 .. MaxChanges
    BY <2>1, <2>2, MoreChanges
  <2> QED BY <1>1, <2>3 DEF TypeOK
<1>3. ASSUME NEW r \in Request PROVE RequestInv(r)'
  <2>1. /\ phase'[r] = phase[r] /\ kind'[r] = kind[r] /\ input'[r] = input[r]
        /\ reply'[r] = reply[r] /\ snapshot'[r] = snapshot[r]
        /\ status'[r] = status[r] /\ sessions'[r] = sessions[r]
        /\ session' = session
        /\ pending' = pending /\ applied' = applied /\ level' = level
    OBVIOUS
  <2>2. prices[r] \subseteq prices'[r]
    OBVIOUS
  <2>3. r \in Served => price' \in prices'[r]
    OBVIOUS
  <2>4. RequestInv(r)
    BY DEF Facts
  <2> HIDE DEF PriceChanges
  <2>0. RouteInv(r)'
    BY <2>1, <2>4 DEF RequestInv, RouteInv
  <2>5. NothingYet(r)'
    BY <2>1, <2>4 DEF RequestInv, NothingYet
  <2>6. CallInv(r)'
    BY <2>1, <2>4 DEF RequestInv, CallInv
  <2>7. StatusInv(r)'
    BY <2>1, <2>4 DEF RequestInv, StatusInv, Refused
  <2>8. AuthInv(r)'
    BY <2>1, <2>4 DEF RequestInv, AuthInv, WasAccepted, Refused, Served
  <2>9. AcceptedInv(r)'
    BY <2>1, <2>4 DEF RequestInv, AcceptedInv, WasAccepted
  <2>10. PriceInv(r)'
    BY <2>1, <2>2, <2>3, <2>4 DEF RequestInv, PriceInv, PricedWell, Served
  <2> QED BY <2>0, <2>5, <2>6, <2>7, <2>8, <2>9, <2>10 DEF RequestInv
<1> QED BY <1>2, <1>3 DEF Facts

(* A request arrives. *)
LEMMA ArriveKeeps ==
  ASSUME TypeOK, Facts, NEW r \in Request, Arrive(r)
  PROVE  TypeOK' /\ Facts'
<1> DEFINE Rightly == input[r] = "no bearer" /\ kind[r] \notin Public
           TurnedAway == /\ phase'[r] = "answered" /\ reply' = reply
                         /\ status'[r] \in Status
                         /\ status'[r] # 200
                         /\ status'[r] = 401 => Rightly
           Asks == /\ \/ phase'[r] = "validate"
                      \/ phase'[r] = "handler" /\ kind[r] \in Public
                   /\ reply'[r] = "none"
                   /\ status'[r] = status[r]
<1>1. /\ session' = session /\ price' = price /\ changes' = changes
      /\ kind' = kind /\ input' = input /\ level' = level /\ pending' = pending
      /\ applied' = applied /\ snapshot' = snapshot
  BY DEF Arrive, request, effects
<1>2. /\ sessions' \in [Request -> SUBSET Sessions]
      /\ sessions'[r] = {session}
      /\ \A q \in Request \ {r} : sessions'[q] = sessions[q]
  BY DEF Arrive, TypeOK
<1>3. /\ prices' \in [Request -> SUBSET Price]
      /\ prices'[r] = {price}
      /\ \A q \in Request \ {r} : prices'[q] = prices[q]
  BY DEF Arrive, TypeOK
<1> DEFINE Turns(s) == /\ Answer(r, s)
                       /\ s # 200
                       /\ s = 401 => Rightly
<1>4. \/ \E s \in Status : Turns(s)
      \/ Call(r, "validate")
      \/ Call(r, "handler") /\ kind[r] \in Public
  <2>0. CASE kind[r] \in Public
    BY <2>0 DEF Arrive
  <2>1. CASE kind[r] \notin Public /\ input[r] = "no bearer"
    <3>1. Answer(r, 401)
      BY <2>1 DEF Arrive
    <3>2. 401 \in Status /\ 401 # 200
      BY StatusMembers
    <3>3. Turns(401)
      BY <2>1, <3>1, <3>2
    <3> HIDE DEF Turns
    <3> QED BY <3>2, <3>3
  <2>2. CASE kind[r] \notin Public /\ input[r] = "no app id"
    <3>1. Answer(r, 400)
      BY <2>2 DEF Arrive
    <3>2. 400 \in Status /\ 400 # 200 /\ 400 # 401
      BY StatusMembers
    <3>3. Turns(400)
      BY <3>1, <3>2
    <3> HIDE DEF Turns
    <3> QED BY <3>2, <3>3
  <2>3. CASE kind[r] \notin Public /\ input[r] \notin {"no bearer", "no app id"}
    BY <2>3 DEF Arrive
  <2> QED BY <2>0, <2>1, <2>2, <2>3
<1> DEFINE Others == \A q \in Request \ {r} : /\ phase'[q] = phase[q]
                                               /\ reply'[q] = reply[q]
                                               /\ status'[q] = status[q]
           Ranges == /\ phase' \in [Request -> Phase]
                     /\ reply' \in [Request -> Code \cup {"none"}]
                     /\ status' \in [Request -> Status \cup {0}]
<1>5. (TurnedAway \/ Asks) /\ Others /\ Ranges
  <2>1. reply \in [Request -> Code \cup {"none"}]
          /\ status \in [Request -> Status \cup {0}]
    BY DEF TypeOK
  <2>2. ASSUME NEW s \in Status, Turns(s)
        PROVE  TurnedAway /\ Others /\ Ranges
    <3>1. phase'[r] = "answered" /\ status'[r] = s /\ reply' = reply
      BY <2>2, AnswerSets
    <3>2. TurnedAway
      BY <2>2, <3>1
    <3>3. Others
      BY <2>2, <3>1, AnswerSets
    <3>4. Ranges
      BY <2>1, <2>2, <3>1, AnswerSets
    <3> QED BY <3>2, <3>3, <3>4
  <2>3. "validate" \in Services
    BY DEF Services
  <2>4. ASSUME NEW service \in Services \cup {"handler"}, Call(r, service)
        PROVE  /\ phase'[r] = service /\ reply'[r] = "none" /\ status' = status
               /\ Others /\ Ranges
    BY <2>1, <2>4, CallSets
  <2> HIDE DEF Others, Ranges
  <2>5. CASE Call(r, "validate")
    <3>1. /\ phase'[r] = "validate" /\ reply'[r] = "none" /\ status' = status
          /\ Others /\ Ranges
      BY <2>3, <2>4, <2>5, Zenon
    <3> QED BY <3>1
  <2>6. CASE Call(r, "handler") /\ kind[r] \in Public
    <3>1. /\ phase'[r] = "handler" /\ reply'[r] = "none" /\ status' = status
          /\ Others /\ Ranges
      BY <2>4, <2>6, Zenon
    <3> QED BY <2>6, <3>1
  <2> QED BY <1>4, <2>2, <2>5, <2>6
<1>6. phase[r] = "new" /\ status[r] = 0
  BY ZeroBefore DEF Arrive
<1>7. r \notin pending \cup applied \cup level
  BY <1>6 DEF Facts, RequestInv, NothingYet, LastCall
<1>8. TypeOK'
  <2>1. (status'[r] = 0) <=> (phase'[r] # "answered")
    BY <1>5, <1>6, ZeroIsNoStatus
  <2>2. \A q \in Request \ {r} : (status'[q] = 0) <=> (phase'[q] # "answered")
    BY <1>5, ZeroBefore
  <2> QED BY <1>1, <1>2, <1>3, <1>5, <2>1, <2>2 DEF TypeOK
<1>9. \A q \in Request \ {r} : RequestInv(q)'
  <2>1. \A q \in Request \ {r} : Same(q)
    BY <1>1, <1>2, <1>3, <1>5 DEF Same
  <2> QED BY <1>1, <2>1, Frame DEF Facts
<1>10. /\ phase'[r] \in {"validate", "handler", "answered"}
       /\ phase'[r] = "validate" => reply'[r] = "none"
       /\ phase'[r] = "handler" => kind[r] \in Public
  BY <1>5
<1>0. RouteInv(r)'
  BY <1>1, <1>7, <1>10 DEF RouteInv
<1>11. NothingYet(r)'
  BY <1>1, <1>7, <1>10 DEF NothingYet
<1>12. CallInv(r)'
  BY <1>10 DEF CallInv, LastCall
<1>13. StatusInv(r)'
  <2>1. CASE TurnedAway
    <3>1. status'[r] # 200
            /\ (status'[r] = 401 => input'[r] = "no bearer" /\ kind'[r] \notin Public)
      BY <1>1, <2>1
    <3>2. r \notin pending' \cup applied' \cup level'
      BY <1>1, <1>7
    <3> QED BY <3>1, <3>2, Zenon DEF StatusInv
  <2>2. CASE Asks
    BY <1>6, <2>2, OpenStatus
  <2> QED BY <1>5, <2>1, <2>2
<1>14. "none" \notin Refusal
  BY CodeMembers
<1>15. AuthInv(r)'
  BY <1>1, <1>2, <1>10, <1>14 DEF AuthInv, Served
<1>16. AcceptedInv(r)'
  BY <1>1, <1>7, <1>10 DEF AcceptedInv
<1>17. PriceInv(r)'
  BY <1>1, <1>3, <1>7, <1>10 DEF PriceInv, PricedWell, Served
<1> QED BY <1>0, <1>8, <1>9, <1>11, <1>12, <1>13, <1>15, <1>16, <1>17
        DEF Facts, RequestInv

(* A handler runs before the answer. *)
LEMMA HandlePhases ==
  ASSUME NEW r \in Request, Handle(r)
  PROVE  phase[r] \in Services \cup {"handler"}
<1> USE DEF Got, Services
<1>1. ASSUME AuthRefuses(r) \/ AtHandler(r)
      PROVE  phase[r] \in {"validate", "handler"}
  BY <1>1 DEF AuthRefuses, AtHandler, AuthPasses
<1>2. ASSUME RequireAdminRefuses(r) \/ LogLevel(r)
      PROVE  phase[r] = "is admin"
  BY <1>2 DEF RequireAdminRefuses, LogLevel
<1>3. ASSUME ProductDone(r) \/ AddItemPriced(r) PROVE phase[r] = "catalog"
  BY <1>3 DEF ProductDone, AddItemPriced
<1>4. ASSUME CartDone(r) PROVE phase[r] = "cart"
  BY <1>4 DEF CartDone
<1>5. ASSUME ShopAuthDone(r) PROVE phase[r] = "auth"
  BY <1>5 DEF ShopAuthDone
<1>6. ASSUME \/ RequireAdmin(r) \/ HandlerRejects(r) \/ AskCatalog(r)
             \/ AskCart(r) \/ AskShopAuth(r)
      PROVE  AtHandler(r)
  BY <1>6 DEF RequireAdmin, HandlerRejects, AskCatalog, AskCart, AskShopAuth,
              AtHandler
<1> QED BY <1>1, <1>2, <1>3, <1>4, <1>5, <1>6 DEF Handle

(* The middleware and the handlers, one action after the other. *)
LEMMA HandleKeeps ==
  ASSUME TypeOK, Facts, NEW r \in Request, Handle(r)
  PROVE  TypeOK' /\ Facts'
<1>1. RequestInv(r)
  BY DEF Facts
<1>0. phase[r] \notin {"new", "answered"}
  BY HandlePhases DEF Services
<1>2. phase[r] \in LastCall \/ r \notin pending \cup applied \cup level
  BY <1>0, <1>1 DEF RequestInv, NothingYet
<1>3. phase[r] # "answered" => r \notin level
  BY <1>1 DEF RequestInv, NothingYet
<1>4. reply[r] # "none" => reply[r] \in Code
  BY DEF TypeOK
<1>5. CASE AuthRefuses(r)
  <2> DEFINE s == UpstreamStatus(reply[r])
  <2>1. Got(r, "validate") /\ reply[r] \in Code
    BY <1>4, <1>5 DEF AuthRefuses, Got
  <2>2. s \in Status /\ s # 200
    BY <2>1, UpstreamStatusValues, StatusMembers
  <2>3. s = 401 => Refused(r)
    BY <1>1, <2>1, UpstreamStatusValues DEF RequestInv, AuthInv, Got
  <2>4. /\ phase[r] = "validate" /\ Answer(r, s) /\ level' = level
        /\ UNCHANGED <<world, request, pending, applied, snapshot>>
    BY <1>5 DEF AuthRefuses, Got, effects
  <2>5. Truthful(r, s)
    BY <1>2, <2>2, <2>3, <2>4 DEF Truthful, LastCall
  <2> HIDE DEF s
  <2> QED BY <1>3, <2>2, <2>4, <2>5, AnswerKeeps
<1>6. CASE RequireAdminRefuses(r)
  <2> DEFINE s == IF reply[r] = "No" THEN 403 ELSE UpstreamStatus(reply[r])
  <2>1. Got(r, "is admin") /\ reply[r] \in Code
    BY <1>4, <1>6 DEF RequireAdminRefuses, Got
  <2>2. s \in {401, 403, 500, 503, 504} /\ (s = 401 => reply[r] \in Refusal)
    <3>1. CASE reply[r] = "No"
      BY <3>1
    <3>2. CASE reply[r] # "No"
      <4>1. s = UpstreamStatus(reply[r])
        BY <3>2
      <4> HIDE DEF s
      <4>2. PICK c \in Code : c = reply[r]
        BY <2>1
      <4>3. /\ UpstreamStatus(c) \in {401, 500, 503, 504}
            /\ UpstreamStatus(c) = 401 => c \in Refusal
        BY UpstreamStatusValues
      <4> QED BY <4>1, <4>2, <4>3
    <3> QED BY <3>1, <3>2
  <2>3. s \in Status /\ s # 200
    <3> HIDE DEF s
    <3> QED BY <2>2, StatusMembers
  <2>4. s = 401 => Refused(r)
    <3> HIDE DEF s
    <3> QED BY <1>1, <2>1, <2>2 DEF RequestInv, AuthInv, Got
  <2>5. /\ phase[r] = "is admin" /\ Answer(r, s) /\ level' = level
        /\ UNCHANGED <<world, request, pending, applied, snapshot>>
    BY <1>6 DEF RequireAdminRefuses, Got, effects
  <2>6. Truthful(r, s)
    <3> HIDE DEF s
    <3> QED BY <1>2, <2>3, <2>4, <2>5 DEF Truthful, LastCall
  <2> HIDE DEF s
  <2> QED BY <1>3, <2>3, <2>5, <2>6, AnswerKeeps
<1>7. CASE LogLevel(r)
  <2> DEFINE s == IF input[r] = "method" THEN 405 ELSE 200
  <2>1. s \in Status /\ s # 401
    BY StatusMembers
  <2>2. /\ phase[r] = "is admin" /\ reply[r] = "OK" /\ Answer(r, s)
        /\ level' \in {level, level \cup {r}}
        /\ s # 200 => level' = level
        /\ UNCHANGED <<world, request, pending, applied, snapshot>>
    BY <1>7 DEF LogLevel, Got, AdminPasses
  <2>3. "admin" \in sessions[r] /\ (WasAccepted(r) \/ kind[r] \in Public)
    BY <1>1, <2>2 DEF RequestInv, AuthInv, AcceptedInv
  <2>4. 200 \notin ClientErrors
    BY DEF ClientErrors
  <2>5. kind[r] \notin Write
    BY <1>1, <2>2, KindSets DEF RequestInv, RouteInv
  <2>6. Truthful(r, s)
    <3>1. s = 200 \/ r \notin pending \cup applied \cup level'
      BY <1>2, <2>2 DEF LastCall
    <3>2. s \in ClientErrors => r \notin pending \cup applied \cup level'
      BY <2>4, <3>1
    <3> HIDE DEF s
    <3> QED BY <2>1, <2>5, <3>2 DEF Truthful
  <2> HIDE DEF s
  <2> QED BY <2>1, <2>2, <2>3, <2>6, AnswerKeeps
<1>8. CASE HandlerRejects(r)
  <2> DEFINE s == Rejection(r)
  <2>1. /\ phase[r] \in {"validate", "handler"} /\ Answer(r, s)
        /\ level' = level /\ s # 0
        /\ UNCHANGED <<world, request, pending, applied, snapshot>>
    BY <1>8 DEF HandlerRejects, AtHandler, AuthPasses, Got, effects
  <2>2. s \in Status /\ s # 200 /\ s # 401
    BY <2>1, RejectionValues, StatusMembers
  <2>3. Truthful(r, s)
    BY <1>2, <2>1, <2>2 DEF Truthful, LastCall
  <2> HIDE DEF s
  <2> QED BY <1>3, <2>1, <2>2, <2>3, AnswerKeeps
<1>9. CASE ProductDone(r)
  <2> DEFINE s == ProductStatus(r)
  <2>1. /\ phase[r] = "catalog" /\ Answer(r, s) /\ level' = level
        /\ kind[r] \in Product \/ s # 200
        /\ UNCHANGED <<world, request, pending, applied, snapshot>>
    BY <1>9 DEF ProductDone, Got, effects
  <2>2. s \in Status /\ s # 401
    BY ProductStatusValues, StatusMembers
  <2>3. s = 200 => kind[r] \notin Write
    BY <2>1, KindSets
  <2>4. Truthful(r, s)
    BY <1>2, <2>1, <2>2, <2>3 DEF Truthful, LastCall
  <2> HIDE DEF s
  <2> QED BY <1>3, <2>1, <2>2, <2>4, AnswerKeeps
<1>10. CASE CartDone(r)
  <2> DEFINE s == CartStatus(r)
  <2>1. /\ phase[r] = "cart" /\ Answer(r, s) /\ level' = level
        /\ UNCHANGED <<world, request, pending, applied, snapshot>>
    BY <1>10 DEF CartDone, Got, effects
  <2>2. s \in Status /\ s # 401
    BY CartStatusValues, StatusMembers
  <2>3. s \in ClientErrors => r \notin pending \cup applied \cup level'
    <3>1. s \in ClientErrors => s = 404
      BY CartStatusValues DEF ClientErrors
    <3>2. s = 404 => r \notin pending \cup applied
      BY <1>1, <2>1, CartStatusValues DEF RequestInv, CallInv, LastCall, Declined
    <3> QED BY <1>3, <2>1, <3>1, <3>2
  <2>4. s = 200 /\ kind[r] \in Write => r \in applied
    BY <1>1, <2>1, CartStatusValues DEF RequestInv, CallInv, LastCall
  <2>5. Truthful(r, s)
    BY <2>2, <2>3, <2>4 DEF Truthful
  <2> HIDE DEF s
  <2> QED BY <1>3, <2>1, <2>2, <2>5, AnswerKeeps
<1>11. CASE ShopAuthDone(r)
  <2>1. PICK c \in Code : c = reply[r]
    BY <1>4, <1>11 DEF ShopAuthDone, Got
  <2> DEFINE s == AuthStatus(c)
  <2>2. /\ phase[r] = "auth" /\ Answer(r, s) /\ level' = level
        /\ UNCHANGED <<world, request, pending, applied, snapshot>>
    BY <1>11, <2>1 DEF ShopAuthDone, Got, effects
  <2>3. s \in Status
    BY AuthStatusValues, StatusMembers
  <2>4. s \in ClientErrors => r \notin pending \cup applied \cup level'
    <3>1. s \in ClientErrors => c \in Declined
      BY AuthStatusValues DEF ClientErrors
    <3>2. c \in Declined => r \notin pending \cup applied
      BY <1>1, <2>1, <2>2 DEF RequestInv, CallInv, LastCall
    <3> QED BY <1>3, <2>2, <3>1, <3>2
  <2>5. s = 200 /\ kind[r] \in Write => r \in applied
    <3>1. s = 200 => c \in {"OK", "No"}
      BY AuthStatusValues
    <3> QED BY <1>1, <2>1, <2>2, <3>1 DEF RequestInv, CallInv, LastCall
  <2>6. s = 401 => Refused(r)
    <3>1. s = 401 => c = "Unauthenticated"
      BY AuthStatusValues
    <3> QED BY <1>1, <2>1, <2>2, <3>1 DEF RequestInv, AuthInv
  <2>7. Truthful(r, s)
    BY <2>4, <2>5, <2>6 DEF Truthful
  <2> HIDE DEF s
  <2> QED BY <1>3, <2>2, <2>3, <2>7, AnswerKeeps
<1>12. CASE RequireAdmin(r)
  <2>1. /\ phase[r] = "validate" /\ reply[r] = "OK" /\ Call(r, "is admin")
        /\ pending' = pending /\ kind[r] = "LogLevel"
        /\ UNCHANGED <<world, request, level, applied, snapshot>>
    BY <1>12 DEF RequireAdmin, AuthPasses, Got, Passes, effects
  <2>2. WasAccepted(r)
    BY <1>1, <2>1 DEF RequestInv, AuthInv
  <2> QED BY <1>2, <2>1, <2>2, KindSets, CallKeeps DEF Served, LastCall
<1>13. CASE AskCatalog(r)
  <2>1. /\ phase[r] = "validate" /\ reply[r] = "OK" /\ Call(r, "catalog")
        /\ pending' = pending /\ kind[r] \in Product \cup {"AddItem"}
        /\ UNCHANGED <<world, request, level, applied, snapshot>>
    BY <1>13 DEF AskCatalog, AuthPasses, Got, Passes, effects
  <2>2. WasAccepted(r)
    BY <1>1, <2>1 DEF RequestInv, AuthInv
  <2>3. kind[r] \notin AuthRoute /\ kind[r] # "LogLevel"
    BY <2>1 DEF AuthRoute, Public, AuthWrite, Product
  <2> QED BY <1>2, <2>1, <2>2, <2>3, CallKeeps DEF Served, LastCall
<1>14. CASE AskCart(r)
  <2>1. /\ phase[r] = "validate" /\ reply[r] = "OK" /\ Call(r, "cart")
        /\ pending' = IF kind[r] \in Write THEN pending \cup {r} ELSE pending
        /\ kind[r] \in {"ChangeCart", "GetCart"}
        /\ UNCHANGED <<world, request, level, applied, snapshot>>
    BY <1>14 DEF AskCart, AuthPasses, Got, Passes
  <2>2. WasAccepted(r)
    BY <1>1, <2>1 DEF RequestInv, AuthInv
  <2>3. kind[r] \notin AuthRoute /\ kind[r] # "AddItem"
    BY <2>1 DEF AuthRoute, Public, AuthWrite
  <2> QED BY <1>2, <2>1, <2>2, <2>3, CallKeeps DEF Served, LastCall
<1>15. CASE AddItemPriced(r)
  <2>1. /\ phase[r] = "catalog" /\ reply[r] = "OK" /\ Call(r, "cart")
        /\ pending' = pending \cup {r} /\ kind[r] = "AddItem"
        /\ snapshot[r] >= 0
        /\ UNCHANGED <<world, request, level, applied, snapshot>>
    BY <1>15, ProductStatusValues DEF AddItemPriced, Got
  <2>2. kind[r] \in Write /\ kind[r] \notin AuthRoute /\ kind[r] # "LogLevel"
    BY <2>1, KindSets
  <2>3. WasAccepted(r)
    BY <1>1, <2>1, <2>2, KindSets DEF RequestInv, AcceptedInv
  <2>4. PricedWell(r)
    BY <1>1, <2>1 DEF RequestInv, PriceInv, PricedWell
  <2> QED BY <1>2, <2>1, <2>2, <2>3, <2>4, CallKeeps DEF Served, LastCall
<1>16. CASE AskShopAuth(r)
  <2>1. /\ phase[r] \in {"validate", "handler"} /\ Call(r, "auth")
        /\ pending' = IF kind[r] \in Write THEN pending \cup {r} ELSE pending
        /\ kind[r] \in AuthRoute
        /\ UNCHANGED <<world, request, level, applied, snapshot>>
    BY <1>16 DEF AskShopAuth, AtHandler, AuthPasses, Got
  <2>2. WasAccepted(r) \/ kind[r] \in Public
    BY <1>1, <1>16 DEF AskShopAuth, AtHandler, AuthPasses, Got, Passes,
                       RequestInv, AuthInv, RouteInv
  <2>3. kind[r] # "LogLevel"
    BY <2>1, KindSets
  <2> QED BY <1>2, <2>1, <2>2, <2>3, CallKeeps DEF Served, LastCall
<1> QED BY <1>5, <1>6, <1>7, <1>8, <1>9, <1>10, <1>11, <1>12, <1>13, <1>14,
           <1>15, <1>16 DEF Handle

(* Shop-auth replies, or a call ends without an answer. *)
LEMMA InformedReplies ==
  ASSUME TypeOK, Facts, NEW r \in Request,
         ValidateTokenReplies(r) \/ IsAdminReplies(r) \/ CallEnds(r)
  PROVE  TypeOK' /\ Facts'
<1>1. CASE ValidateTokenReplies(r)
  <2>1. PICK c \in Code :
          /\ c \in {"Internal"} \cup (IF Refuses(r) THEN Refusal ELSE {"OK"})
          /\ Reply(r, c)
    BY <1>1 DEF ValidateTokenReplies
  <2>2. phase[r] = "validate" /\ UNCHANGED <<snapshot, pending, applied>>
    BY <1>1 DEF ValidateTokenReplies, Waits
  <2>3. "Internal" \notin Refusal /\ "OK" \notin Refusal
    BY CodeMembers
  <2>4. Informed(r, c)
    BY <2>1, <2>2, <2>3 DEF Informed, LastCall
  <2> QED BY <2>1, <2>2, <2>4, ReplyKeeps DEF Served
<1>2. CASE IsAdminReplies(r)
  <2>1. PICK c \in Code :
          /\ c \in CASE session = "admin"   -> {"OK", "Internal"}
                     [] session = "user"    -> {"No", "Internal"}
                     [] session = "revoked" -> {"No", "NotFound", "Internal"}
          /\ Reply(r, c)
    BY <1>2 DEF IsAdminReplies
  <2>2. phase[r] = "is admin" /\ UNCHANGED <<snapshot, pending, applied>>
    BY <1>2 DEF IsAdminReplies, Waits
  <2>3. {"OK", "No", "Internal"} \cap Refusal = {}
    BY CodeMembers
  <2>4. session \in {"admin", "user", "revoked"}
    BY DEF TypeOK, Sessions
  <2>5. (c = "OK" => session = "admin") /\ (c \in Refusal => session = "revoked")
    BY <2>1, <2>3, <2>4
  <2>6. Informed(r, c)
    BY <2>2, <2>5 DEF Informed, LastCall, Refuses
  <2> QED BY <2>1, <2>2, <2>6, ReplyKeeps DEF Served
<1>3. CASE CallEnds(r)
  <2>1. PICK c \in LostCall : Reply(r, c)
    BY <1>3 DEF CallEnds
  <2>2. r \in Served /\ UNCHANGED <<snapshot, pending, applied>>
    BY <1>3 DEF CallEnds, Waiting, Served, Services
  <2>3. c \in Code /\ c \notin Refusal /\ c \notin Declined /\ c # "OK" /\ c # "No"
    BY CodeMembers
  <2>4. Informed(r, c)
    BY <2>3 DEF Informed
  <2> QED BY <2>1, <2>2, <2>3, <2>4, ReplyKeeps
<1> QED BY <1>1, <1>2, <1>3

(* The quotient of a number and its remainder. *)
LEMMA Quotient ==
  ASSUME NEW n \in Nat \ {0}, NEW q \in Int, NEW m \in 0 .. n - 1
  PROVE  (n * q + m) \div n = q
  OBVIOUS

(* What is received of a price, to less than half a cent, is rounded to that
   price. *)
LEMMA CentsExact ==
  ASSUME TypeOK, NEW p \in Received
  PROVE  Cents(p) = price
<1>1. PICK d \in -Drift .. Drift : p = PartsPerCent * price + d
  BY DEF Received
<1>2. /\ price \in Int /\ d \in Int /\ PartsPerCent \in Nat \ {0}
      /\ 2 * d < PartsPerCent /\ -(2 * d) < PartsPerCent
  BY PriceAssumption DEF TypeOK
<1> DEFINE n == 2 * PartsPerCent
<1>3. n \in Nat \ {0}
  BY <1>2
<1>4. CASE p >= 0
  <2>1. 2 * p + PartsPerCent = n * price + (2 * d + PartsPerCent)
    BY <1>1, <1>2
  <2>2. 2 * d + PartsPerCent \in 0 .. n - 1
    BY <1>2
  <2>3. (2 * p + PartsPerCent) \div n = price
    <3> HIDE DEF n
    <3> QED BY <1>2, <1>3, <2>1, <2>2, Quotient
  <2> QED BY <1>4, <2>3 DEF Cents
<1>5. CASE ~(p >= 0)
  <2>1. PartsPerCent - 2 * p = n * (-price) + (PartsPerCent - 2 * d)
    BY <1>1, <1>2
  <2>2. PartsPerCent - 2 * d \in 0 .. n - 1
    BY <1>2
  <2>3. (PartsPerCent - 2 * p) \div n = -price
    <3>1. -price \in Int
      BY <1>2
    <3> HIDE DEF n
    <3> QED BY <1>3, <2>1, <2>2, <3>1, Quotient
  <2> QED BY <1>2, <1>5, <2>3 DEF Cents
<1> QED BY <1>4, <1>5

(* The catalog replies: the snapshot is the price of this moment. *)
LEMMA GetProductRepliesKeeps ==
  ASSUME TypeOK, Facts, NEW r \in Request, GetProductReplies(r)
  PROVE  TypeOK' /\ Facts'
<1>1. PICK c \in {"OK", "NotFound", "InvalidArgument", "Internal"} :
        /\ Reply(r, c)
        /\ \/ snapshot' = [snapshot EXCEPT ![r] = price]
           \/ snapshot' = snapshot /\ (c = "OK" => kind[r] = "ListProducts")
  BY CentsExact DEF GetProductReplies
<1>2. phase[r] = "catalog" /\ UNCHANGED <<pending, applied>>
  BY DEF GetProductReplies, Waits
<1>3. c \in Code
  BY DEF Code, Refusal
<1>4. /\ snapshot' \in [Request -> Int]
      /\ \A q \in Request \ {r} : snapshot'[q] = snapshot[q]
      /\ c = "OK" /\ kind[r] = "AddItem" => snapshot'[r] = price
  BY <1>1, PriceAssumption DEF TypeOK
<1>5. /\ reply'[r] = c /\ phase' = phase /\ status' = status
      /\ level' = level /\ kind' = kind /\ input' = input
      /\ session' = session /\ price' = price /\ changes' = changes
      /\ sessions' = sessions /\ prices' = prices
      /\ \A q \in Request \ {r} : reply'[q] = reply[q]
      /\ reply' \in [Request -> Code \cup {"none"}]
  BY <1>1, <1>3, ReplySets
<1>6. TypeOK'
  BY <1>2, <1>4, <1>5 DEF TypeOK
<1>7. \A q \in Request \ {r} : RequestInv(q)'
  <2>1. \A q \in Request \ {r} : Same(q)
    BY <1>2, <1>4, <1>5 DEF Same
  <2> QED BY <1>5, <2>1, Frame DEF Facts
<1>8. RequestInv(r)
  BY DEF Facts
<1>0. RouteInv(r)'
  BY <1>2, <1>5, <1>8 DEF RequestInv, RouteInv
<1>9. NothingYet(r)'
  BY <1>2, <1>5, <1>8 DEF RequestInv, NothingYet
<1>10. CallInv(r)'
  BY <1>2, <1>5 DEF CallInv, LastCall
<1>11. StatusInv(r)'
  <2>1. status'[r] = 0
    BY <1>2, <1>5, ZeroBefore
  <2> QED BY <2>1, OpenStatus
<1>12. AuthInv(r)'
  BY <1>2, <1>5, <1>8 DEF RequestInv, AuthInv, Served
<1>13. AcceptedInv(r)'
  BY <1>2, <1>5, <1>8 DEF RequestInv, AcceptedInv, WasAccepted
<1>14. PriceInv(r)'
  <2>1. price \in prices[r]
    BY <1>2, <1>8 DEF RequestInv, PriceInv, PricedWell, Served
  <2>2. r \notin pending \cup applied
    BY <1>2, <1>8 DEF RequestInv, NothingYet, LastCall
  <2> QED BY <1>2, <1>4, <1>5, <2>1, <2>2 DEF PriceInv, PricedWell
<1> QED BY <1>0, <1>6, <1>7, <1>9, <1>10, <1>11, <1>12, <1>13, <1>14
        DEF Facts, RequestInv

(* A service replies, or executes or loses a write that was given up.  A write
   that was given up was answered with no client error. *)
LEMMA ExecutesKeeps ==
  ASSUME TypeOK, Facts, NEW r \in Request, NEW service \in LastCall,
         NEW codes \in SUBSET Code, Executes(r, service, codes),
         \A c \in codes : c \in Declined \/ c \in {"OK", "No", "Internal"}
                                          \/ c = "Unauthenticated",
         "No" \in codes => kind[r] \notin Write,
         "Unauthenticated" \in codes => Refuses(r),
         (phase[r] \in LastCall /\ reply[r] = "none") => phase[r] = service
  PROVE  TypeOK' /\ Facts'
<1>1. PICK c \in codes :
        /\ \/ Waits(r, service) /\ Reply(r, c)
           \/ /\ ~Waits(r, service)
              /\ UNCHANGED <<world, request, phase, level, status, reply>>
        /\ applied' = IF c = "OK" /\ r \in pending THEN applied \cup {r}
                                                  ELSE applied
  BY DEF Executes
<1>2. /\ r \in pending \/ Waits(r, service)
      /\ pending' = pending \ {r} /\ snapshot' = snapshot
  BY DEF Executes
<1>3. c \in Code
  OBVIOUS
<1>4. /\ phase' = phase /\ status' = status
      /\ level' = level /\ kind' = kind /\ input' = input
      /\ session' = session /\ price' = price /\ changes' = changes
      /\ sessions' = sessions /\ prices' = prices
      /\ \A q \in Request \ {r} : reply'[q] = reply[q]
      /\ reply' \in [Request -> Code \cup {"none"}]
  <2>1. CASE Reply(r, c)
    BY <1>3, <2>1, ReplySets
  <2>2. CASE UNCHANGED <<world, request, phase, level, status, reply>>
    <3>1. reply \in [Request -> Code \cup {"none"}]
      BY DEF TypeOK
    <3> QED BY <2>2, <3>1 DEF world, request
  <2> QED BY <1>1, <2>1, <2>2
<1>5. \/ phase[r] = service /\ reply[r] = "none" /\ reply'[r] = c
      \/ ~(phase[r] \in LastCall /\ reply[r] = "none") /\ reply'[r] = reply[r]
  <2>1. CASE Waits(r, service) /\ Reply(r, c)
    <3>1. reply'[r] = c
      BY <1>3, <2>1, ReplySets
    <3> QED BY <2>1, <3>1 DEF Waits
  <2>2. CASE ~Waits(r, service) /\ reply' = reply
    BY <2>2 DEF Waits
  <2> QED BY <1>1, <2>1, <2>2
<1>6. TypeOK'
  <2>1. pending' \in SUBSET Request /\ applied' \in SUBSET Request
    BY <1>1, <1>2 DEF TypeOK
  <2> QED BY <1>2, <1>4, <2>1 DEF TypeOK
<1>7. \A q \in Request \ {r} : RequestInv(q)'
  <2>1. \A q \in Request \ {r} : Same(q)
    BY <1>1, <1>2, <1>4 DEF Same
  <2> QED BY <1>4, <2>1, Frame DEF Facts
<1>8. RequestInv(r)
  BY DEF Facts
<1>9. r \notin pending' /\ (r \in applied' => r \in pending \cup applied)
        /\ (r \in applied => r \in applied')
  BY <1>1, <1>2
<1>0. RouteInv(r)'
  BY <1>4, <1>8, <1>9 DEF RequestInv, RouteInv
<1>10. NothingYet(r)'
  BY <1>4, <1>8, <1>9 DEF RequestInv, NothingYet
<1>11. CallInv(r)'
  <2>1. CASE phase[r] = service /\ reply[r] = "none" /\ reply'[r] = c
    <3>1. kind[r] \in Write => r \in pending
      BY <1>8, <2>1 DEF RequestInv, CallInv
    <3>2. kind[r] \in Write /\ c = "OK" => r \in applied'
      BY <1>1, <3>1
    <3>3. c # "OK" => applied' = applied
      BY <1>1
    <3>4. r \notin applied
      BY <1>8, <2>1 DEF RequestInv, CallInv
    <3>5. c \in Declined => c # "OK"
      BY CodeMembers
    <3>6. c # "none"
      BY <1>3, CodeMembers
    <3> QED BY <1>4, <1>9, <2>1, <3>2, <3>3, <3>4, <3>5, <3>6 DEF CallInv
  <2>2. CASE ~(phase[r] \in LastCall /\ reply[r] = "none") /\ reply'[r] = reply[r]
    BY <1>4, <1>8, <1>9, <2>2 DEF RequestInv, CallInv
  <2> QED BY <1>5, <2>1, <2>2
<1>12. StatusInv(r)'
  <2>1. status'[r] \in ClientErrors
          => r \notin pending' \cup applied' \cup level'
    BY <1>4, <1>8, <1>9 DEF RequestInv, StatusInv
  <2>2. status'[r] = 200 /\ kind'[r] \in Write => r \in applied'
    BY <1>4, <1>8, <1>9 DEF RequestInv, StatusInv
  <2>3. status'[r] = 401 => \/ input'[r] = "no bearer" /\ kind'[r] \notin Public
                            \/ Refused(r)'
    BY <1>4, <1>8 DEF RequestInv, StatusInv, Refused
  <2> QED BY <2>1, <2>2, <2>3, Zenon DEF StatusInv
<1>13. AuthInv(r)'
  <2>1. CASE phase[r] = service /\ reply[r] = "none" /\ reply'[r] = c
    <3>1. session \in sessions[r]
      BY <1>8, <2>1 DEF RequestInv, AuthInv, Served, LastCall
    <3>2. c = "Unauthenticated" => Refused(r)
      BY <3>1 DEF Refuses, Refused
    <3>3. phase[r] \in LastCall /\ phase[r] \notin {"validate", "is admin"}
      BY <2>1 DEF LastCall
    <3> QED BY <1>4, <2>1, <3>1, <3>2, <3>3 DEF AuthInv, Refused
  <2>2. CASE reply'[r] = reply[r]
    BY <1>4, <1>8, <2>2 DEF RequestInv, AuthInv, WasAccepted, Refused, Served
  <2> QED BY <1>5, <2>1, <2>2
<1>14. AcceptedInv(r)'
  BY <1>4, <1>8, <1>9 DEF RequestInv, AcceptedInv, WasAccepted
<1>15. PriceInv(r)'
  <2>1. phase[r] = "catalog" => reply'[r] = reply[r]
    BY <1>5 DEF LastCall
  <2> QED BY <1>2, <1>4, <1>8, <1>9, <2>1
           DEF RequestInv, PriceInv, PricedWell, Served
<1> QED BY <1>0, <1>6, <1>7, <1>10, <1>11, <1>12, <1>13, <1>14, <1>15
        DEF Facts, RequestInv

(* The cart and shop-auth are such services. *)
LEMMA CartRepliesKeeps ==
  ASSUME TypeOK, Facts, NEW r \in Request, CartReplies(r)
  PROVE  TypeOK' /\ Facts'
<1> DEFINE codes == {"OK", "NotFound", "InvalidArgument", "Internal"}
<1>1. kind[r] \in CartWrite \cup {"GetCart"} /\ Executes(r, "cart", codes)
  BY DEF CartReplies
<1>2. codes \in SUBSET Code
  BY DEF Code, Refusal
<1>3. /\ \A c \in codes : c \in Declined \/ c \in {"OK", "No", "Internal"}
      /\ "No" \notin codes /\ "Unauthenticated" \notin codes
  BY DEF Declined
<1>4. RouteInv(r)
  BY DEF Facts, RequestInv
<1>5. phase[r] # "auth"
  BY <1>1, <1>4, KindSets DEF RouteInv
<1>6. phase[r] \in LastCall => phase[r] = "cart"
  BY <1>5 DEF LastCall
<1>7. "cart" \in LastCall
  BY DEF LastCall
<1> HIDE DEF codes
<1> QED BY <1>1, <1>2, <1>3, <1>6, <1>7, ExecutesKeeps

LEMMA ShopAuthRepliesKeeps ==
  ASSUME TypeOK, Facts, NEW r \in Request, ShopAuthReplies(r)
  PROVE  TypeOK' /\ Facts'
<1> DEFINE codes == AuthAnswers(r)
<1>1. kind[r] \in AuthRoute /\ Executes(r, "auth", codes)
  BY DEF ShopAuthReplies
<1>2. codes \in SUBSET Code
  BY DEF Code, Refusal, AuthAnswers
<1>3. \A c \in codes : c \in Declined \/ c \in {"OK", "No", "Internal"}
  BY DEF Declined, AuthAnswers
<1>4. "No" \in codes => kind[r] = "IsAdmin"
  BY DEF AuthAnswers
<1>5. "Unauthenticated" \in codes => Refuses(r)
  BY DEF AuthAnswers
<1>6. RouteInv(r)
  BY DEF Facts, RequestInv
<1>7. phase[r] \in LastCall => phase[r] = "auth"
  BY <1>1, <1>6 DEF RouteInv, LastCall
<1>8. "auth" \in LastCall
  BY DEF LastCall
<1>9. "No" \in codes => kind[r] \notin Write
  BY <1>4, KindSets
<1> HIDE DEF codes
<1> QED BY <1>1, <1>2, <1>3, <1>5, <1>7, <1>8, <1>9, ExecutesKeeps

-----------------------------------------------------------------------------
(* Every step keeps the invariant. *)
LEMMA NextIInv == IInv /\ [Next]_vars => IInv'
<1> SUFFICES ASSUME TypeOK, Facts, [Next]_vars PROVE TypeOK' /\ Facts'
  BY DEF IInv
<1>1. CASE SessionChanges
  BY <1>1, SessionChangesKeeps
<1>2. CASE PriceChanges
  BY <1>2, PriceChangesKeeps
<1>3. ASSUME NEW r \in Request, Arrive(r) PROVE TypeOK' /\ Facts'
  BY <1>3, ArriveKeeps
<1>4. ASSUME NEW r \in Request, Handle(r) PROVE TypeOK' /\ Facts'
  BY <1>4, HandleKeeps
<1>5. ASSUME NEW r \in Request, Service(r) PROVE TypeOK' /\ Facts'
  BY <1>5, InformedReplies, GetProductRepliesKeeps, CartRepliesKeeps,
     ShopAuthRepliesKeeps DEF Service
<1>6. ASSUME NEW r \in Request, CallEnds(r) PROVE TypeOK' /\ Facts'
  BY <1>6, InformedReplies
<1>7. CASE UNCHANGED vars
  <2>1. UNCHANGED <<session, price, level, changes, phase, kind, input, reply,
                    snapshot, pending, applied, status, sessions, prices>>
    BY <1>7 DEF vars
  <2>2. TypeOK'
    BY <2>1 DEF TypeOK
  <2>3. \A q \in Request : Same(q)
    BY <2>1 DEF Same
  <2> QED BY <2>1, <2>2, <2>3, Frame DEF Facts
<1> QED BY <1>1, <1>2, <1>3, <1>4, <1>5, <1>6, <1>7 DEF Next

(* In every reachable state what is known of every request holds. *)
THEOREM ServiceInvariant == Spec => []IInv
  BY InitIInv, NextIInv, PTL DEF Spec

(* Type correctness of the requests. *)
THEOREM ServiceTypeCorrect == Spec => []TypeOK
<1>1. IInv => TypeOK
  BY DEF IInv
<1> QED BY <1>1, ServiceInvariant, PTL

(* What a status says is so. *)
LEMMA StatusTruth == IInv => \A r \in Request : StatusInv(r)
  BY DEF IInv, Facts, RequestInv

(* A 4xx is final: nothing was changed for the request, and no call of it can
   still change something. *)
THEOREM ClientErrorChangedNothingHolds == Spec => []ClientErrorChangedNothing
<1>1. IInv => ClientErrorChangedNothing
  <2> SUFFICES ASSUME IInv, NEW r \in Request, status[r] \in ClientErrors
               PROVE  r \notin applied \cup pending \cup level
    BY DEF ClientErrors, ClientErrorChangedNothing
  <2>1. StatusInv(r)
    BY StatusTruth
  <2>2. r \notin pending \cup applied \cup level
    BY <2>1, Zenon DEF StatusInv
  <2> QED BY <2>2
<1> QED BY <1>1, ServiceInvariant, PTL

(* A 200 to a write means that its service has executed it. *)
THEOREM SuccessIsAppliedHolds == Spec => []SuccessIsApplied
<1>1. IInv => SuccessIsApplied
  <2> SUFFICES ASSUME IInv, NEW r \in Request, status[r] = 200, kind[r] \in Write
               PROVE  r \in applied
    BY Zenon DEF SuccessIsApplied
  <2>1. StatusInv(r)
    BY StatusTruth
  <2>2. status[r] = 200 /\ kind[r] \in Write => r \in applied
    BY <2>1, Zenon DEF StatusInv
  <2> QED BY <2>2
<1> QED BY <1>1, ServiceInvariant, PTL

(* No write to the cart and no log level for a token shop-auth never accepts
   or had revoked all the time its request was served, whatever fails. *)
THEOREM RevokedStaysOutHolds == Spec => []RevokedStaysOut
<1>1. IInv => RevokedStaysOut
  <2> SUFFICES ASSUME IInv, NEW r \in pending \cup applied \cup level,
                      kind[r] \notin Public
               PROVE  sessions[r] # {"revoked"} /\ input[r] # "refused"
    BY DEF RevokedStaysOut
  <2>1. r \in Request
    BY DEF IInv, TypeOK
  <2>2. WasAccepted(r)
    BY <2>1 DEF IInv, Facts, RequestInv, AcceptedInv
  <2> QED BY <2>2 DEF WasAccepted
<1> QED BY <1>1, ServiceInvariant, PTL

(* The level is set only for a user who was an administrator at some time
   while the request was served. *)
THEOREM AdminOnlyHolds == Spec => []AdminOnly
<1>1. IInv => AdminOnly
  <2> SUFFICES ASSUME IInv, NEW r \in level PROVE "admin" \in sessions[r]
    BY DEF AdminOnly
  <2>1. r \in Request
    BY DEF IInv, TypeOK
  <2> QED BY <2>1 DEF IInv, Facts, RequestInv, AcceptedInv
<1> QED BY <1>1, ServiceInvariant, PTL

(* A 401 is sent only without a bearer token or after shop-auth refused: an
   outage of shop-auth logs nobody out and is no failed login. *)
THEOREM UnauthorizedIsGenuineHolds == Spec => []UnauthorizedIsGenuine
<1>1. IInv => UnauthorizedIsGenuine
  <2> SUFFICES ASSUME IInv, NEW r \in Request, status[r] = 401
               PROVE  \/ input[r] = "no bearer" /\ kind[r] \notin Public
                      \/ input[r] = "refused"
                      \/ "revoked" \in sessions[r]
    BY Zenon DEF UnauthorizedIsGenuine
  <2>1. StatusInv(r)
    BY StatusTruth
  <2>2. status[r] = 401 => \/ input[r] = "no bearer" /\ kind[r] \notin Public
                           \/ Refused(r)
    BY <2>1, Zenon DEF StatusInv
  <2> QED BY <2>2 DEF Refused
<1> QED BY <1>1, ServiceInvariant, PTL

(* A price in the cart is one the product had while the request that put it
   there was served, for every unit prices are told in and every error of less
   than half a cent on their way: math.Round undoes it. *)
THEOREM PriceWasRealHolds == Spec => []PriceWasReal
<1>1. IInv => PriceWasReal
  <2> SUFFICES ASSUME IInv, NEW r \in applied, kind[r] = "AddItem"
               PROVE  PricedWell(r)
    BY DEF PriceWasReal, PricedWell, PricesOf, Line, WrittenId, TrimSpace
  <2>1. r \in Request
    BY DEF IInv, TypeOK
  <2> QED BY <2>1 DEF IInv, Facts, RequestInv, PriceInv, PricedWell
<1> QED BY <1>1, ServiceInvariant, PTL

-----------------------------------------------------------------------------
(* ServiceCall implements WriteOutcome. *)

(* What a status tells. *)
Meaning(s) == CASE s = 0           -> "nothing"
                [] s = 200         -> "done"
                [] s \in 400 .. 499 -> "refused"
                [] OTHER           -> "unknown"

LEMMA Meanings ==
  /\ Meaning(0) = "nothing"
  /\ \A s \in Status : \/ s = 200 /\ Meaning(s) = "done"
                       \/ s # 200 /\ s \in ClientErrors /\ Meaning(s) = "refused"
                       \/ s # 200 /\ s \notin ClientErrors /\ Meaning(s) = "unknown"
<1>1. Meaning(0) = "nothing" /\ Meaning(200) = "done"
  BY DEF Meaning
<1>2. ASSUME NEW s \in Status, s # 200, s \in 400 .. 499
      PROVE  Meaning(s) = "refused"
  BY <1>2, ZeroIsNoStatus DEF Meaning
<1>3. ASSUME NEW s \in Status, s # 200, s \notin 400 .. 499
      PROVE  Meaning(s) = "unknown"
  BY <1>3, ZeroIsNoStatus DEF Meaning
<1> QED BY <1>1, <1>2, <1>3 DEF ClientErrors

LEMMA ToldMeaning == Told = [r \in Request |-> Meaning(status[r])]
  BY DEF Told, Meaning

(* An answer is all a client is told. *)
LEMMA AnswerTells ==
  ASSUME TypeOK, NEW r \in Request, NEW s \in Status, phase[r] # "answered",
         Answer(r, s)
  PROVE  Told[r] = "nothing" /\ Told' = [Told EXCEPT ![r] = Meaning(s)]
<1>1. status[r] = 0 /\ Told[r] = "nothing"
  BY ZeroBefore, ToldMeaning, Meanings
<1>2. status' = [status EXCEPT ![r] = s] /\ status \in [Request -> Status \cup {0}]
  BY DEF Answer, TypeOK
<1>3. Told' = [q \in Request |-> Meaning(status'[q])]
  BY DEF Told, Meaning
<1>4. Told' = [q \in Request |-> IF q = r THEN Meaning(s) ELSE Meaning(status[q])]
  BY <1>2, <1>3, Zenon
<1> QED BY <1>1, <1>4, ToldMeaning

(* Which requests ask for a change never changes. *)
LEMMA ChangingStays ==
  ASSUME UNCHANGED <<kind, input>>
  PROVE  Changing' = Changing
  BY DEF Changing

(* A step that neither answers nor touches a write. *)
LEMMA Unnoticed ==
  ASSUME UNCHANGED <<kind, input, status, pending, applied, level>>
  PROVE  UNCHANGED Promise!vars
<1>1. Told' = Told
  BY DEF Told
<1> QED BY <1>1, ChangingStays DEF Promise!vars

(* An answer whose status is true of the write, the level being untouched. *)
LEMMA AnswerStep ==
  ASSUME IInv, IInv', NEW r \in Request, NEW s \in Status,
         phase[r] # "answered", Answer(r, s),
         UNCHANGED <<request, pending, applied, level>>,
         s = 200 /\ kind[r] = "LogLevel" => input[r] = "no value"
  PROVE  Promise!Next
<1>1. TypeOK /\ TypeOK'
  BY DEF IInv
<1>2. Told[r] = "nothing" /\ Told' = [Told EXCEPT ![r] = Meaning(s)]
  BY <1>1, AnswerTells
<1>3. status'[r] = s
  BY <1>1, AnswerSets
<1>4. StatusInv(r)'
  BY DEF IInv, Facts, RequestInv
<1>5. Changing' = Changing /\ kind' = kind /\ input' = input
  BY ChangingStays DEF request
<1>6. CASE s = 200
  <2>1. Meaning(s) = "done"
    BY <1>6, Meanings
  <2>2. kind[r] \in Write => r \in applied
    BY <1>3, <1>4, <1>5, <1>6 DEF StatusInv
  <2>3. r \in Changing => r \in applied \cup level
    BY <1>6, <2>2 DEF Changing
  <2>4. Promise!Done(r)
    BY <1>2, <1>5, <2>1, <2>3 DEF Promise!Done, Promise!Tell
  <2> QED BY <2>4 DEF Promise!Next
<1>7. CASE s # 200 /\ s \in ClientErrors
  <2>1. Meaning(s) = "refused"
    BY <1>7, Meanings
  <2>2. r \notin pending \cup applied \cup level
    BY <1>3, <1>4, <1>7, Zenon DEF StatusInv
  <2>3. Promise!Refuse(r)
    BY <1>2, <1>5, <2>1, <2>2 DEF Promise!Refuse, Promise!Tell
  <2> QED BY <2>3 DEF Promise!Next
<1>8. CASE s # 200 /\ s \notin ClientErrors
  <2>1. Meaning(s) = "unknown"
    BY <1>8, Meanings
  <2>2. Promise!Fail(r)
    BY <1>2, <1>5, <2>1 DEF Promise!Fail, Promise!Tell
  <2> QED BY <2>2 DEF Promise!Next
<1> QED BY <1>6, <1>7, <1>8

(* The write of a request is sent once, before the answer. *)
LEMMA SendStep ==
  ASSUME IInv, NEW r \in Request, AskCart(r) \/ AskShopAuth(r) \/ AddItemPriced(r)
  PROVE  [Promise!Next]_(Promise!vars)
<1>1. /\ status' = status /\ kind' = kind /\ input' = input
      /\ level' = level /\ applied' = applied
      /\ phase[r] \notin LastCall \cup {"answered"}
  BY DEF AskCart, AskShopAuth, AddItemPriced, Call, request, AtHandler,
         AuthPasses, Got, LastCall
<1>2. CASE pending' = pending
  BY <1>1, <1>2, Unnoticed
<1>3. CASE pending' = pending \cup {r} /\ kind[r] \in Write
  <2>1. r \notin pending \cup applied \cup level
    BY <1>1 DEF IInv, Facts, RequestInv, NothingYet
  <2>2. Told[r] = "nothing" /\ Told' = Told
    BY <1>1, ZeroBefore, ToldMeaning, Meanings DEF IInv, Told
  <2>3. r \in Changing /\ Changing' = Changing
    BY <1>1, <1>3, ChangingStays DEF Changing
  <2>4. Promise!Send(r)
    BY <1>1, <1>3, <2>1, <2>2, <2>3 DEF Promise!Send
  <2> QED BY <2>4 DEF Promise!Next
<1>4. \/ pending' = pending
      \/ pending' = pending \cup {r} /\ kind[r] \in Write
  BY KindSets DEF AskCart, AskShopAuth, AddItemPriced
<1> QED BY <1>2, <1>3, <1>4

(* A service executes the write, or it is lost: the client is told nothing. *)
LEMMA ExecuteStep ==
  ASSUME IInv, NEW r \in Request, CartReplies(r) \/ ShopAuthReplies(r)
  PROVE  [Promise!Next]_(Promise!vars)
<1>1. /\ UNCHANGED <<status, kind, input, level>>
      /\ pending' = pending \ {r}
      /\ \/ applied' = applied
         \/ applied' = applied \cup {r} /\ r \in pending
  BY DEF CartReplies, ShopAuthReplies, Executes, Reply, request
<1>2. Told' = Told /\ Changing' = Changing
  BY <1>1, ChangingStays DEF Told
<1>3. CASE applied' = applied
  <2>1. Promise!Drop(r)
    BY <1>1, <1>2, <1>3 DEF Promise!Drop
  <2> QED BY <2>1 DEF Promise!Next
<1>4. CASE applied' = applied \cup {r} /\ r \in pending
  <2>1. Promise!Make(r)
    BY <1>1, <1>2, <1>4 DEF Promise!Make
  <2> QED BY <2>1 DEF Promise!Next
<1> QED BY <1>1, <1>3, <1>4

(* The answers of the middleware and the handlers but LogLevel. *)
LEMMA HandleAnswer ==
  ASSUME TypeOK, Facts, NEW r \in Request,
         \/ AuthRefuses(r) \/ RequireAdminRefuses(r) \/ HandlerRejects(r)
         \/ ProductDone(r) \/ CartDone(r) \/ ShopAuthDone(r)
  PROVE  /\ phase[r] # "answered"
         /\ UNCHANGED <<request, pending, applied, level>>
         /\ \E s \in Status : /\ Answer(r, s)
                              /\ s # 200 \/ kind[r] # "LogLevel"
<1>1. phase[r] # "answered"
  BY HandlePhases DEF Handle, Services
<1>2. UNCHANGED <<request, pending, applied, level>>
  BY DEF AuthRefuses, RequireAdminRefuses, HandlerRejects, ProductDone,
         CartDone, ShopAuthDone, effects
<1>3. phase[r] \in {"catalog", "cart", "auth"} => kind[r] # "LogLevel"
  BY DEF Facts, RequestInv, RouteInv
<1>4. reply[r] # "none" => reply[r] \in Code
  BY DEF TypeOK
<1>5. CASE AuthRefuses(r)
  <2>1. reply[r] \in Code /\ Answer(r, UpstreamStatus(reply[r]))
    BY <1>4, <1>5 DEF AuthRefuses, Got
  <2>2. UpstreamStatus(reply[r]) \in Status \ {200}
    BY <2>1, UpstreamStatusValues, StatusMembers
  <2> QED BY <1>1, <1>2, <2>1, <2>2
<1>6. CASE RequireAdminRefuses(r)
  <2> DEFINE s == IF reply[r] = "No" THEN 403 ELSE UpstreamStatus(reply[r])
  <2>1. reply[r] \in Code /\ Answer(r, s)
    BY <1>4, <1>6 DEF RequireAdminRefuses, Got
  <2>2. UpstreamStatus(reply[r]) \in Status \ {200}
    BY <2>1, UpstreamStatusValues, StatusMembers
  <2>3. s \in Status \ {200}
    BY <2>2, StatusMembers
  <2> HIDE DEF s
  <2> QED BY <1>1, <1>2, <2>1, <2>3
<1>7. CASE HandlerRejects(r)
  <2>1. Answer(r, Rejection(r)) /\ Rejection(r) # 0
    BY <1>7 DEF HandlerRejects
  <2>2. Rejection(r) \in Status \ {200}
    BY <2>1, RejectionValues, StatusMembers
  <2> QED BY <1>1, <1>2, <2>1, <2>2
<1>8. CASE ProductDone(r)
  <2>1. phase[r] = "catalog" /\ Answer(r, ProductStatus(r))
    BY <1>8 DEF ProductDone, Got
  <2>2. ProductStatus(r) \in Status
    BY ProductStatusValues, StatusMembers
  <2> QED BY <1>1, <1>2, <1>3, <2>1, <2>2
<1>9. CASE CartDone(r)
  <2>1. phase[r] = "cart" /\ Answer(r, CartStatus(r))
    BY <1>9 DEF CartDone, Got
  <2>2. CartStatus(r) \in Status
    BY CartStatusValues, StatusMembers
  <2> QED BY <1>1, <1>2, <1>3, <2>1, <2>2
<1>10. CASE ShopAuthDone(r)
  <2>1. /\ phase[r] = "auth" /\ reply[r] \in Code
        /\ Answer(r, AuthStatus(reply[r]))
    BY <1>4, <1>10 DEF ShopAuthDone, Got
  <2>2. AuthStatus(reply[r]) \in Status
    BY <2>1, AuthStatusValues, StatusMembers
  <2> QED BY <1>1, <1>2, <1>3, <2>1, <2>2
<1> QED BY <1>5, <1>6, <1>7, <1>8, <1>9, <1>10

(* LogLevel sets the level with its answer, reads it, or refuses. *)
LEMMA LogLevelStep ==
  ASSUME IInv, IInv', NEW r \in Request, LogLevel(r)
  PROVE  Promise!Next
<1>1. TypeOK
  BY DEF IInv
<1> DEFINE s == IF input[r] = "method" THEN 405 ELSE 200
<1>0. s \in Status
  BY StatusMembers
<1>2. /\ s \in Status /\ Answer(r, s) /\ phase[r] = "is admin"
      /\ UNCHANGED <<request, pending, applied>>
      /\ level' = IF input[r] \in {"method", "no value"} THEN level
                                                        ELSE level \cup {r}
  <2>1. Answer(r, s)
    BY Zenon DEF LogLevel
  <2> QED BY <1>0, <2>1 DEF LogLevel, Got
<1>3. CASE input[r] \in {"method", "no value"}
  <2>1. level' = level
    BY <1>2, <1>3
  <2>2. s = 200 => input[r] = "no value"
    <3>1. CASE input[r] = "method"
      <4>1. s = 405
        BY <3>1
      <4>2. 405 # 200
        OBVIOUS
      <4> HIDE DEF s
      <4> QED BY <4>1, <4>2, Zenon
    <3>2. CASE input[r] = "no value"
      BY <3>2
    <3> QED BY <1>3, <3>1, <3>2
  <2> HIDE DEF s
  <2> QED BY <1>2, <2>1, <2>2, AnswerStep
<1>4. CASE input[r] \notin {"method", "no value"}
  <2>1. level' = level \cup {r} /\ s = 200
    BY <1>2, <1>4
  <2>2. Told[r] = "nothing" /\ Told' = [Told EXCEPT ![r] = "done"]
    <3>1. Meaning(200) = "done" /\ 200 \in Status
      BY StatusMembers, Meanings
    <3> HIDE DEF s
    <3> QED BY <1>1, <1>2, <2>1, <3>1, AnswerTells
  <2>3. Changing' = Changing
    BY <1>2, ChangingStays DEF request
  <2>4. r \notin pending \cup applied \cup level
    BY <1>2 DEF IInv, Facts, RequestInv, NothingYet, LastCall
  <2>5. r \in Changing
    BY <1>2, <1>4 DEF Changing, IInv, Facts, RequestInv, RouteInv
  <2>6. Promise!MakeHere(r)
    BY <1>2, <2>1, <2>2, <2>3, <2>4, <2>5
       DEF Promise!MakeHere, Promise!Tell
  <2> QED BY <2>6 DEF Promise!Next
<1> QED BY <1>3, <1>4

(* A request without a bearer token or an app id is answered at once, any
   other goes on. *)
LEMMA ArriveStep ==
  ASSUME IInv, IInv', NEW r \in Request, Arrive(r)
  PROVE  [Promise!Next]_(Promise!vars)
<1>1. /\ phase[r] = "new"
      /\ UNCHANGED <<request, level, pending, applied>>
      /\ \/ status' = status
         \/ Answer(r, 401)
         \/ Answer(r, 400)
  BY DEF Arrive, effects, Call
<1>2. CASE status' = status
  BY <1>1, <1>2, Unnoticed DEF request
<1>3. CASE Answer(r, 401)
  <2>1. 401 \in Status /\ 401 # 200
    BY StatusMembers
  <2>2. phase[r] # "answered"
    BY <1>1
  <2>3. PICK s \in Status : s # 200 /\ Answer(r, s)
    BY <1>3, <2>1
  <2> QED BY <1>1, <2>2, <2>3, AnswerStep
<1>4. CASE Answer(r, 400)
  <2>1. 400 \in Status /\ 400 # 200
    BY StatusMembers
  <2>2. phase[r] # "answered"
    BY <1>1
  <2>3. PICK s \in Status : s # 200 /\ Answer(r, s)
    BY <1>4, <2>1
  <2> QED BY <1>1, <2>2, <2>3, AnswerStep
<1> QED BY <1>1, <1>2, <1>3, <1>4

LEMMA InitPromise == Init => Promise!Init
<1> SUFFICES ASSUME Init PROVE Promise!Init
  OBVIOUS
<1>1. \A r \in Request : status[r] = 0
  BY DEF Init
<1>2. Told = [r \in Request |-> "nothing"]
  BY <1>1, ToldMeaning, Meanings
<1>3. pending = {} /\ applied \cup level = {}
  BY DEF Init
<1>4. Changing \in SUBSET Request
  BY DEF Changing
<1> QED BY <1>2, <1>3, <1>4 DEF Promise!Init

(* Every step is a step of the promise or a stutter. *)
LEMMA StepPromise ==
  IInv /\ IInv' /\ [Next]_vars => [Promise!Next]_(Promise!vars)
<1> SUFFICES ASSUME IInv, IInv', [Next]_vars
             PROVE  [Promise!Next]_(Promise!vars)
  OBVIOUS
<1>1. CASE SessionChanges \/ PriceChanges \/ UNCHANGED vars
  <2>1. UNCHANGED <<kind, input, status, pending, applied, level>>
    BY <1>1 DEF SessionChanges, PriceChanges, vars
  <2> QED BY <2>1, Unnoticed
<1>2. ASSUME NEW r \in Request, Arrive(r)
      PROVE  [Promise!Next]_(Promise!vars)
  BY <1>2, ArriveStep
<1>3. ASSUME NEW r \in Request,
             \/ ValidateTokenReplies(r) \/ IsAdminReplies(r)
             \/ GetProductReplies(r) \/ CallEnds(r)
             \/ RequireAdmin(r) \/ AskCatalog(r)
      PROVE  [Promise!Next]_(Promise!vars)
  <2>1. UNCHANGED <<kind, input, status, pending, applied, level>>
    BY <1>3 DEF ValidateTokenReplies, IsAdminReplies, GetProductReplies,
      CallEnds, RequireAdmin, AskCatalog, Reply, Call, request, effects
  <2> QED BY <2>1, Unnoticed
<1>4. ASSUME NEW r \in Request, CartReplies(r) \/ ShopAuthReplies(r)
      PROVE  [Promise!Next]_(Promise!vars)
  BY <1>4, ExecuteStep
<1>5. ASSUME NEW r \in Request,
             AskCart(r) \/ AskShopAuth(r) \/ AddItemPriced(r)
      PROVE  [Promise!Next]_(Promise!vars)
  BY <1>5, SendStep
<1>6. ASSUME NEW r \in Request, LogLevel(r)
      PROVE  [Promise!Next]_(Promise!vars)
  BY <1>6, LogLevelStep
<1>7. ASSUME NEW r \in Request,
             \/ AuthRefuses(r) \/ RequireAdminRefuses(r) \/ HandlerRejects(r)
             \/ ProductDone(r) \/ CartDone(r) \/ ShopAuthDone(r)
      PROVE  [Promise!Next]_(Promise!vars)
  <2>1. PICK s \in Status : Answer(r, s) /\ (s # 200 \/ kind[r] # "LogLevel")
    BY <1>7, HandleAnswer DEF IInv
  <2>2. phase[r] # "answered" /\ UNCHANGED <<request, pending, applied, level>>
    BY <1>7, HandleAnswer DEF IInv
  <2> QED BY <2>1, <2>2, AnswerStep
<1> QED BY <1>1, <1>2, <1>3, <1>4, <1>5, <1>6, <1>7 DEF Next, Handle, Service

(* The middleware, the handlers, the gateway and the clients implement
   WriteOutcome for any number of requests, whatever call is lost and however
   late a service acts: every change is made once at most, and what the status
   tells of it is true and stays true. *)
THEOREM ServiceKeepsPromise == Spec => KeepsPromise
  BY InitPromise, ServiceInvariant, StepPromise, PTL
     DEF Spec, Promise!Spec, KeepsPromise
=============================================================================
