-------------------------- MODULE ProductStream --------------------------
(***************************************************************************)
(* GET /products/stream: the catalog's gRPC stream of products becomes a   *)
(* stream of server-sent events, one product at a time.                    *)
(*                                                                         *)
(* The catalog, the gateway's loop and the HTTP connection run side by     *)
(* side.  The catalog may stall, end or fail; the client may leave; and    *)
(* http.Server.WriteTimeout cuts a response that takes too long.  Over     *)
(* HTTP/2 the cut resets the stream and cancels the request's context;     *)
(* over HTTP/1 it is noticed by the next write, which net/http answers by  *)
(* cancelling the context.                                                 *)
(*                                                                         *)
(* The client asks for a page.  Its numbers are read, a missing or senseless *)
(* limit becomes the default, a large one the maximum, and the catalog is  *)
(* asked in words of fixed width (GET /products asks in the same way).     *)
(*                                                                         *)
(* The catalog's products are numbered from 1 in its own order.            *)
(***************************************************************************)
EXTENDS Integers, Sequences

CONSTANTS
    MaxProducts,   \* products in the catalog
    DefaultLimit,  \* defaultListLimit
    MaxLimit,      \* maxListLimit
    MaxWord,       \* maxUint32Value: the greatest number of the contract
    Numbers        \* bound: what a client writes as limit and offset

ASSUME StreamAssumption ==
    /\ {MaxProducts, DefaultLimit, MaxLimit, MaxWord} \subseteq Nat
    /\ Numbers \subseteq Int

VARIABLES
    query,      \* the client's limit and offset, and whether they are numbers
    page,       \* what the catalog was asked for
    protocol,   \* of the client's connection, as TLS negotiated it
    source,     \* what the catalog does with its side of the stream
    sent,       \* products the catalog has sent
    received,   \* products stream.Recv has returned
    phase,      \* where the handler is
    context,    \* the request's context
    late,       \* WriteTimeout has passed
    connection, \* of the client
    delivered,  \* products the client was sent
    ending      \* the event that closed the client's stream, or "none"

vars == <<query, page, protocol, source, sent, received, phase, context,
          late, connection, delivered, ending>>

request == <<query, page>>
catalog == <<source, sent>>
client  == <<protocol, late, connection>>
events  == <<delivered, ending>>

NoPage == [limit |-> 0, offset |-> 0]

(* parsePagination reads a limit or an offset that is missing as 0. *)
Queries == [readable : BOOLEAN, limit : Numbers, offset : Numbers]

Init ==
    /\ query \in Queries
    /\ page = NoPage
    /\ protocol \in {"HTTP/1", "HTTP/2"}
    /\ source = "none"
    /\ sent = 0
    /\ received = 0
    /\ phase = "opening"
    /\ context = "live"
    /\ late = FALSE
    /\ connection = "up"
    /\ delivered = <<>>
    /\ ending = "none"

-----------------------------------------------------------------------------
(* The page asked for *)

(* normalizePagination: a limit there is no sense in is the default, and none
   is above the maximum. *)
EffectiveLimit(limit) ==
    LET chosen == IF limit <= 0 THEN DefaultLimit ELSE limit
    IN  IF chosen > MaxLimit THEN MaxLimit ELSE chosen

(* A plausible bug: the conversion is not checked. *)
InvalidPageUnchecked(q) == ~q.readable \/ q.offset < 0

(* No number, a negative offset, or more than a word of the contract holds:
   the handler, the service and the adapter refuse in this order. *)
InvalidPage(q) ==
    \/ ~q.readable
    \/ q.offset < 0
    \/ EffectiveLimit(q.limit) > MaxWord \/ q.offset > MaxWord

(* uint32(n) *)
Word(n) == n % (MaxWord + 1)

PageOf(q) == [limit  |-> Word(EffectiveLimit(q.limit)),
              offset |-> Word(q.offset)]

-----------------------------------------------------------------------------
(* The catalog and the connection *)

PageSent == sent = page.limit \/ page.offset + sent >= MaxProducts

Send ==
    /\ source = "open"
    /\ ~PageSent
    /\ sent' = sent + 1
    /\ UNCHANGED <<request, source, received, phase, context, client, events>>

EndStream ==
    /\ source = "open"
    /\ \/ source' = "ended" /\ PageSent
       \/ source' = "failed"
    /\ UNCHANGED <<request, sent, received, phase, context, client, events>>

(* net/http notices that the client closed the connection or the stream. *)
ClientLeaves ==
    /\ phase # "finished"
    /\ connection = "up"
    /\ connection' = "gone"
    /\ context' = "done"
    /\ UNCHANGED <<request, catalog, received, phase, protocol, late, events>>

WriteTimeout ==
    /\ phase # "finished"
    /\ ~late
    /\ late' = TRUE
    /\ connection' = IF protocol = "HTTP/2" THEN "gone" ELSE connection
    /\ context' = IF protocol = "HTTP/2" THEN "done" ELSE context
    /\ UNCHANGED <<request, catalog, received, phase, protocol, events>>

-----------------------------------------------------------------------------
(* The handler *)

(* 400: there is no such page. *)
RefusePage ==
    /\ phase = "opening"
    /\ InvalidPage(query)
    /\ phase' = "writeRefusal"
    /\ UNCHANGED <<request, catalog, received, context, client, events>>

(* GatewayService.StreamProducts, down to the client: the stream lives as
   long as the request's context. *)
Open ==
    /\ phase = "opening"
    /\ ~InvalidPage(query)
    /\ page' = PageOf(query)
    /\ source' = "open"
    /\ phase' = "checking"
    /\ UNCHANGED <<query, sent, received, context, client, events>>

(* The catalog is not there, or finds the page invalid (mapGRPCError). *)
OpenFails ==
    /\ phase = "opening"
    /\ ~InvalidPage(query)
    /\ phase' \in {"writeRefusal", "writeFailure"}
    /\ UNCHANGED <<request, catalog, received, context, client, events>>

(* The select at the head of the loop. *)
Check ==
    /\ phase = "checking"
    /\ phase' = IF context = "done" THEN "finished" ELSE "receiving"
    /\ UNCHANGED <<request, catalog, received, context, client, events>>

(* A plausible bug: the product is used before the error is looked at. *)
ReceivePastEnd ==
    /\ phase = "receiving"
    /\ received < sent \/ source = "ended"
    /\ received' = received + 1
    /\ phase' = "writeProduct"
    /\ UNCHANGED <<request, catalog, context, client, events>>

(* Recv returns a product, and the handler writes its event. *)
Receive ==
    /\ phase = "receiving"
    /\ received < sent
    /\ received' = received + 1
    /\ phase' = "writeProduct"
    /\ UNCHANGED <<request, catalog, context, client, events>>

(* A message without a product, or one that cannot be encoded. *)
BadMessage ==
    /\ phase = "receiving"
    /\ received < sent
    /\ received' = received + 1
    /\ phase' = "writeError"
    /\ UNCHANGED <<request, catalog, context, client, events>>

(* io.EOF: the catalog ended the stream, and all of it was received. *)
ReceiveEnd ==
    /\ phase = "receiving"
    /\ received = sent
    /\ source = "ended"
    /\ phase' = "writeEnd"
    /\ UNCHANGED <<request, catalog, received, context, client, events>>

StreamBroken == \/ received = sent /\ source = "failed"
                \/ context = "done"

(* A plausible bug: every error of Recv is taken for the end. *)
ReceiveErrorIsEnd ==
    /\ phase = "receiving"
    /\ StreamBroken
    /\ phase' = "writeEnd"
    /\ UNCHANGED <<request, catalog, received, context, client, events>>

(* A plausible bug: the handler returns without a word. *)
ReceiveErrorSilent ==
    /\ phase = "receiving"
    /\ StreamBroken
    /\ phase' = "finished"
    /\ UNCHANGED <<request, catalog, received, context, client, events>>

(* A plausible bug: the stream is not bound to the request's context. *)
ReceiveErrorUnbound ==
    /\ phase = "receiving"
    /\ received = sent
    /\ source = "failed"
    /\ phase' = "writeError"
    /\ UNCHANGED <<request, catalog, received, context, client, events>>

(* Recv returns another error: the stream failed, or the context is done. *)
ReceiveError ==
    /\ phase = "receiving"
    /\ StreamBroken
    /\ phase' = "writeError"
    /\ UNCHANGED <<request, catalog, received, context, client, events>>

(* The event or the status is written and flushed.  A client that is gone does
   not get it, nor does one for whom it is too late: net/http then cancels the
   context, and only the next select or Recv notices. *)
WriteEvent(what) ==
    /\ phase = what
    /\ phase' = IF what = "writeProduct" THEN "checking" ELSE "finished"
    /\ IF connection = "up" /\ ~late
       THEN /\ delivered' = IF what = "writeProduct"
                            THEN Append(delivered, page.offset + received)
                            ELSE delivered
            /\ ending' = CASE what = "writeEnd"     -> "end"
                           [] what = "writeError"   -> "error"
                           [] what = "writeRefusal" -> "badRequest"
                           [] what = "writeFailure" -> "internalError"
                           [] OTHER                 -> ending
            /\ UNCHANGED <<context, connection>>
       ELSE /\ connection' = "gone"
            /\ context' = "done"
            /\ UNCHANGED events
    /\ UNCHANGED <<request, catalog, received, protocol, late>>

Writing == {"writeProduct", "writeEnd", "writeError",
            "writeRefusal", "writeFailure"}

Handler == \/ RefusePage \/ Open \/ OpenFails \/ Check
           \/ Receive \/ BadMessage \/ ReceiveEnd \/ ReceiveError
           \/ \E what \in Writing : WriteEvent(what)

Next == Send \/ EndStream \/ ClientLeaves \/ WriteTimeout \/ Handler

(* The handler's goroutine runs and the server's timer fires.  The catalog
   and the client need not do anything. *)
Spec == Init /\ [][Next]_vars /\ WF_vars(Handler) /\ WF_vars(WriteTimeout)

-----------------------------------------------------------------------------
TypeOK ==
    /\ query \in Queries
    /\ page \in [limit : 0 .. MaxWord, offset : 0 .. MaxWord]
    /\ protocol \in {"HTTP/1", "HTTP/2"}
    /\ source \in {"none", "open", "ended", "failed"}
    /\ sent \in 0 .. MaxProducts
    /\ received \in 0 .. sent
    /\ phase \in {"opening", "checking", "receiving", "finished"} \cup Writing
    /\ context \in {"live", "done"}
    /\ late \in BOOLEAN
    /\ connection \in {"up", "gone"}
    /\ delivered \in Seq(1 .. MaxProducts)
    /\ ending \in {"none", "end", "error", "badRequest", "internalError"}

(* The client gets the page it asked for, never another: the products after
   its offset in the order of the catalog and without a gap, no more than its
   limit or the maximum, whatever fails on the way. *)
PageAsked ==
    /\ \A i \in DOMAIN delivered : delivered[i] = query.offset + i
    /\ Len(delivered) <= MaxLimit
    /\ query.limit > 0 => Len(delivered) <= query.limit

(* A stream closed by "end" is complete: the catalog ended it, and either the
   whole page or all the catalog has after the offset reached the client
   (products.go:176). *)
EndMeansComplete ==
    ending = "end" =>
        /\ source = "ended"
        /\ \/ Len(delivered) = EffectiveLimit(query.limit)
           \/ query.offset + Len(delivered) >= MaxProducts

(* A client that is still there when the response ends was told how it ended:
   a stream never just stops. *)
NeverCutSilently ==
    phase = "finished" /\ connection = "up" => ending # "none"

(* The products the client asked for: its page, as far as the catalog goes. *)
PageLength == IF InvalidPage(query) \/ query.offset >= MaxProducts THEN 0
              ELSE IF EffectiveLimit(query.limit) < MaxProducts - query.offset
              THEN EffectiveLimit(query.limit) ELSE MaxProducts - query.offset
Wanted == [i \in 1 .. PageLength |-> query.offset + i]

(* The catalog, the loop and the connection together implement PageDelivery:
   whoever ends the stream, and whenever, the client gets its page product by
   product and is told the truth about its end. *)
Promise == INSTANCE PageDelivery WITH
    wanted <- Wanted, shown <- delivered,
    there <- connection = "up", over <- phase = "finished"
KeepsPromise == Promise!Spec

(* The handler ends when the catalog has ended the stream, or the client's
   side of it is over.  Over HTTP/2 it ends in any case: a catalog that stops
   sending keeps no handler, since WriteTimeout resets the client's stream and
   Recv returns with the request's context. *)
HandlerEnds ==
    (source \in {"ended", "failed"} \/ context = "done" \/ protocol = "HTTP/2")
        ~> (phase = "finished")

(* internal/client/grpc/README.md:63: every call has a timeout of its own and
   will not wait for ever, even when its context has no deadline. *)
NeverWaitsForever == (phase = "receiving") ~> (phase # "receiving")
=============================================================================
