------------------------ MODULE ProductStreamProofs ------------------------
(***************************************************************************)
(* What holds of ProductStream for a catalog of any size, pages and words  *)
(* of any size and whatever limit and offset the client writes, over       *)
(* HTTP/1 and HTTP/2.  Liveness is left to TLC.                            *)
(***************************************************************************)
EXTENDS ProductStream, TLAPS

(* The catalog's stream exists from Open on. *)
SourceInv == phase = "opening" => source = "none"

(* The catalog is asked for the client's page, which fits the contract. *)
PageInv ==
    source # "none" =>
        /\ page.offset = query.offset
        /\ page.limit = EffectiveLimit(query.limit)

(* The catalog sends no more than the page, and nothing it has not; it ends
   the stream when that is sent. *)
CatalogInv ==
    /\ source = "none" => sent = 0
    /\ sent <= page.limit
    /\ sent > 0 => page.offset + sent <= MaxProducts
    /\ source = "ended" => PageSent

(* A context that is done means a connection that is gone. *)
ContextInv == context = "done" => connection = "gone"

(* A client that is still there was sent everything that was received, but
   for the product being written and a message that was no product. *)
DeliveryInv ==
    connection = "up" =>
        /\ phase \in {"opening", "checking", "receiving", "writeEnd"}
             => Len(delivered) = received
        /\ phase = "writeProduct" => Len(delivered) + 1 = received

(* The end is written only after the catalog's, and closes the stream. *)
EndInv ==
    /\ phase = "writeEnd" => source = "ended" /\ received = sent
    /\ phase \in {"writeProduct", "receiving", "checking", "writeError"}
         => source # "none"
    /\ ending # "none" => phase = "finished"

(* What the invariant says beside the types. *)
Facts == /\ SourceInv
         /\ PageInv
         /\ CatalogInv
         /\ ContextInv
         /\ DeliveryInv
         /\ EndInv
         /\ PageAsked
         /\ EndMeansComplete
         /\ NeverCutSilently

(* The inductive invariant. *)
IInv == TypeOK /\ Facts

(* The constants one by one. *)
LEMMA ConstantTypes ==
  /\ MaxProducts \in Nat
  /\ DefaultLimit \in Nat
  /\ MaxLimit \in Nat
  /\ MaxWord \in Nat
  BY StreamAssumption

(* A query is read as two integers. *)
LEMMA QueryTypes ==
  ASSUME NEW q \in Queries
  PROVE  q.limit \in Int /\ q.offset \in Int
  BY StreamAssumption DEF Queries

(* The limit that is used: at most the maximum, and at most what a client that
   wrote a sensible one wants. *)
LEMMA LimitBounds ==
  ASSUME NEW n \in Int
  PROVE  /\ EffectiveLimit(n) \in Nat
         /\ EffectiveLimit(n) <= MaxLimit
         /\ n > 0 => EffectiveLimit(n) <= n
  BY ConstantTypes DEF EffectiveLimit

(* A number that fits the contract's word survives the conversion. *)
LEMMA WordFits ==
  ASSUME NEW n \in Nat, n <= MaxWord
  PROVE  Word(n) = n
  BY ConstantTypes DEF Word

(* So a page that is not invalid is the page asked for. *)
LEMMA PageOfQuery ==
  ASSUME NEW q \in Queries, ~InvalidPage(q)
  PROVE  /\ PageOf(q)
              = [limit |-> EffectiveLimit(q.limit), offset |-> q.offset]
         /\ PageOf(q) \in [limit : 0 .. MaxWord, offset : 0 .. MaxWord]
<1>1. EffectiveLimit(q.limit) \in Nat /\ q.offset \in Nat
      BY QueryTypes, LimitBounds DEF InvalidPage
<1>2. EffectiveLimit(q.limit) <= MaxWord /\ q.offset <= MaxWord
      BY <1>1, ConstantTypes DEF InvalidPage
<1>3. /\ Word(EffectiveLimit(q.limit)) = EffectiveLimit(q.limit)
      /\ Word(q.offset) = q.offset
      BY <1>1, <1>2, WordFits
<1> QED BY <1>1, <1>2, <1>3, ConstantTypes DEF PageOf

(* The initial states. *)
LEMMA InitTypes == Init => TypeOK
<1> SUFFICES ASSUME Init PROVE TypeOK
    OBVIOUS
<1>1. late \in BOOLEAN
      BY Zenon DEF Init
<1>2. query \in Queries
      BY Zenon DEF Init
<1> QED BY <1>1, <1>2, ConstantTypes DEF Init, TypeOK, Writing, NoPage

(* A stream that was not opened has delivered nothing. *)
LEMMA InitFacts == Init => Facts
<1> SUFFICES ASSUME Init PROVE Facts
    OBVIOUS
<1>1. SourceInv /\ PageInv /\ CatalogInv /\ ContextInv /\ DeliveryInv
      BY DEF Init, SourceInv, PageInv, CatalogInv, ContextInv, DeliveryInv,
         NoPage
<1>2. EndInv /\ EndMeansComplete /\ NeverCutSilently
      BY DEF Init, EndInv, EndMeansComplete, NeverCutSilently
<1>3. PageAsked
  <2>1. delivered = <<>> /\ Len(delivered) = 0 /\ DOMAIN delivered = {}
    BY DEF Init
  <2>2. query.limit \in Int
    BY QueryTypes DEF Init
  <2> QED BY <2>1, <2>2, ConstantTypes DEF PageAsked
<1> QED BY <1>1, <1>2, <1>3 DEF Facts

(* Appending the product after the last leaves no gap. *)
LEMMA AppendNext ==
  ASSUME NEW n \in Nat, NEW o \in Nat, NEW s \in Seq(1 .. n), NEW x \in 1 .. n,
         x = o + Len(s) + 1,
         \A i \in DOMAIN s : s[i] = o + i
  PROVE  /\ Append(s, x) \in Seq(1 .. n)
         /\ Len(Append(s, x)) = Len(s) + 1
         /\ \A i \in DOMAIN Append(s, x) : Append(s, x)[i] = o + i
  OBVIOUS

(* The numbers behind the ranges. *)
LEMMA Sizes ==
  ASSUME TypeOK
  PROVE  /\ received \in Nat /\ sent \in Nat /\ Len(delivered) \in Nat
         /\ received <= sent /\ sent <= MaxProducts /\ MaxProducts \in Nat
         /\ page.limit \in Nat /\ page.offset \in Nat
         /\ query.limit \in Int /\ query.offset \in Int
<1>1. query.limit \in Int /\ query.offset \in Int
      BY QueryTypes DEF TypeOK
<1>2. page.limit \in Nat /\ page.offset \in Nat
  <2>1. page \in [limit : 0 .. MaxWord, offset : 0 .. MaxWord]
    BY DEF TypeOK
  <2> QED BY <2>1, ConstantTypes
<1>3. delivered \in Seq(1 .. MaxProducts)
      BY DEF TypeOK
<1>4. Len(delivered) \in Nat
      BY <1>3
<1>5. /\ received \in Nat /\ sent \in Nat
      /\ received <= sent /\ sent <= MaxProducts /\ MaxProducts \in Nat
  <2>1. sent \in 0 .. MaxProducts /\ received \in 0 .. sent
    BY DEF TypeOK
  <2> QED BY <2>1, ConstantTypes
<1> QED BY <1>1, <1>2, <1>4, <1>5

(* The catalog sends a product of the page, if it has one. *)
LEMMA SendsOfPage ==
  ASSUME TypeOK, Facts, Send
  PROVE  /\ sent' = sent + 1
         /\ sent' <= page.limit
         /\ page.offset + sent' <= MaxProducts
<1>1. sent' = sent + 1 /\ sent # page.limit /\ page.offset + sent < MaxProducts
      BY Sizes DEF Send, PageSent
<1>2. sent <= page.limit
      BY DEF Facts, CatalogInv
<1> QED BY <1>1, <1>2, Sizes

(* A product that is received was sent, and the catalog sends no more than it
   has. *)
LEMMA CountersStep ==
  ASSUME TypeOK, Facts, [Next]_vars
  PROVE  sent' \in 0 .. MaxProducts /\ received' \in 0 .. sent'
<1>1. CASE Send
  <2>1. received' = received
    BY <1>1 DEF Send
  <2> QED BY <1>1, <2>1, Sizes, SendsOfPage
<1>2. CASE Receive \/ BadMessage
  <2>1. sent' = sent
    BY <1>2 DEF Receive, BadMessage, catalog
  <2>2. received < sent /\ received' = received + 1
    BY <1>2 DEF Receive, BadMessage
  <2> QED BY <2>1, <2>2, Sizes
<1>3. CASE ~(Send \/ Receive \/ BadMessage)
  <2>1. sent' = sent /\ received' = received
    BY <1>3 DEF Next, Handler, vars, catalog, EndStream, ClientLeaves,
       WriteTimeout, RefusePage, Open, OpenFails, Check, ReceiveEnd,
       ReceiveError, WriteEvent
  <2> QED BY <2>1, Sizes
<1> QED BY <1>1, <1>2, <1>3

(* The page asked for is the client's, and keeps its type. *)
LEMMA RequestStep ==
  ASSUME TypeOK, Facts, [Next]_vars
  PROVE  /\ query' \in Queries
         /\ page' \in [limit : 0 .. MaxWord, offset : 0 .. MaxWord]
         /\ PageInv'
<1>0. query \in Queries
      BY DEF TypeOK
<1>1. CASE Open
  <2>1. query' = query /\ page' = PageOf(query) /\ ~InvalidPage(query)
    BY <1>1 DEF Open
  <2> QED BY <1>0, <2>1, PageOfQuery DEF PageInv
<1>2. CASE ~Open
  <2>1. query' = query /\ page' = page
    BY <1>2 DEF Next, Handler, vars, request, Send, EndStream, ClientLeaves,
       WriteTimeout, RefusePage, OpenFails, Check, Receive, BadMessage,
       ReceiveEnd, ReceiveError, WriteEvent
  <2>2. source' # "none" => source # "none"
    BY <1>2 DEF Next, Handler, vars, catalog, Send, EndStream, ClientLeaves,
       WriteTimeout, RefusePage, OpenFails, Check, Receive, BadMessage,
       ReceiveEnd, ReceiveError, WriteEvent
  <2> QED BY <2>1, <2>2 DEF TypeOK, Facts, PageInv
<1> QED BY <1>1, <1>2

(* The product that is written is the one after those delivered, and on the
   page. *)
LEMMA NextOfPage ==
  ASSUME TypeOK, Facts, connection = "up", phase = "writeProduct"
  PROVE  /\ received = Len(delivered) + 1
         /\ page.offset = query.offset
         /\ page.offset + received \in 1 .. MaxProducts
         /\ Len(delivered) + 1 <= EffectiveLimit(query.limit)
<1>1. received = Len(delivered) + 1
      BY Sizes DEF Facts, DeliveryInv
<1>2. /\ page.offset = query.offset
      /\ page.limit = EffectiveLimit(query.limit)
      BY DEF Facts, EndInv, PageInv
<1>3. sent <= page.limit /\ (sent > 0 => page.offset + sent <= MaxProducts)
      BY DEF Facts, CatalogInv
<1>4. /\ received \in Nat /\ sent \in Nat /\ Len(delivered) \in Nat
      /\ received <= sent /\ MaxProducts \in Nat
      BY Sizes
<1>a. received >= 1 /\ sent > 0
      BY <1>1, <1>4
<1>b. page.limit \in Nat /\ page.offset \in Nat
      BY Sizes
<1>5. page.offset + sent <= MaxProducts /\ received <= page.limit
      BY <1>3, <1>4, <1>a, <1>b
<1>6. page.offset + received \in 1 .. MaxProducts
      BY <1>4, <1>5, <1>a, <1>b
<1>7. Len(delivered) + 1 <= EffectiveLimit(query.limit)
      BY <1>1, <1>2, <1>5
<1> QED BY <1>1, <1>2, <1>6, <1>7

(* The products delivered are numbers of products that were received. *)
LEMMA DeliveredTypes ==
  ASSUME TypeOK, Facts, NEW what \in Writing, WriteEvent(what)
  PROVE  /\ delivered' \in Seq(1 .. MaxProducts)
         /\ PageAsked'
         /\ connection' = "up" /\ what = "writeProduct"
              => Len(delivered') = received
         /\ what # "writeProduct" => delivered' = delivered
<1>0. query' = query
      BY DEF WriteEvent, request
<1>1. CASE connection = "up" /\ ~late /\ what = "writeProduct"
  <2>0. phase = "writeProduct"
    BY <1>1 DEF WriteEvent
  <2>1. delivered' = Append(delivered, page.offset + received)
    BY <1>1 DEF WriteEvent
  <2>2. MaxProducts \in Nat /\ delivered \in Seq(1 .. MaxProducts)
    BY ConstantTypes DEF TypeOK
  <2>3. \A i \in DOMAIN delivered : delivered[i] = page.offset + i
    BY <1>1, <2>0, NextOfPage DEF Facts, PageAsked
  <2>4. /\ page.offset + received \in 1 .. MaxProducts
        /\ page.offset + received = page.offset + Len(delivered) + 1
    <3>1. received = Len(delivered) + 1
      BY <1>1, <2>0, NextOfPage
    <3>2. page.offset + received \in 1 .. MaxProducts
      BY <1>1, <2>0, NextOfPage
    <3> QED BY <3>1, <3>2, Sizes
  <2>5. /\ delivered' \in Seq(1 .. MaxProducts)
        /\ Len(delivered') = Len(delivered) + 1
        /\ \A i \in DOMAIN delivered' : delivered'[i] = page.offset + i
    <3>1. page.offset \in Nat
      BY Sizes
    <3> QED BY <2>1, <2>2, <2>3, <2>4, <3>1, AppendNext
  <2>6. /\ Len(delivered') <= MaxLimit
        /\ query.limit > 0 => Len(delivered') <= query.limit
    <3>1. Len(delivered) + 1 <= EffectiveLimit(query.limit)
      BY <1>1, <2>0, NextOfPage
    <3>2. /\ EffectiveLimit(query.limit) \in Nat
          /\ EffectiveLimit(query.limit) <= MaxLimit
          /\ query.limit > 0 => EffectiveLimit(query.limit) <= query.limit
      BY Sizes, LimitBounds
    <3> QED BY <2>5, <3>1, <3>2, Sizes, ConstantTypes
  <2>7. PageAsked'
    BY <1>0, <1>1, <2>0, <2>5, <2>6, NextOfPage DEF PageAsked
  <2>8. Len(delivered') = received
    BY <1>1, <2>0, <2>5, NextOfPage
  <2> QED BY <1>1, <2>5, <2>7, <2>8
<1>2. CASE ~(connection = "up" /\ ~late /\ what = "writeProduct")
  <2>1. delivered' = delivered
    BY <1>2 DEF WriteEvent, events
  <2>2. ~(connection' = "up" /\ what = "writeProduct")
    BY <1>2 DEF WriteEvent
  <2> QED BY <1>0, <2>1, <2>2 DEF TypeOK, Facts, PageAsked
<1> QED BY <1>1, <1>2

(* Every step keeps the types. *)
LEMMA TypeStep == TypeOK /\ Facts /\ [Next]_vars => TypeOK'
<1> SUFFICES ASSUME TypeOK, Facts, [Next]_vars PROVE TypeOK'
    OBVIOUS
<1>1. late' \in BOOLEAN
      BY Zenon DEF TypeOK, Next, Handler, vars, catalog, client, events, Send,
         EndStream, ClientLeaves, WriteTimeout, RefusePage, Open, OpenFails,
         Check, Receive, BadMessage, ReceiveEnd, ReceiveError, WriteEvent
<1>0. sent' \in 0 .. MaxProducts /\ received' \in 0 .. sent'
      BY CountersStep
<1>a. /\ query' \in Queries
      /\ page' \in [limit : 0 .. MaxWord, offset : 0 .. MaxWord]
      BY RequestStep
<1> USE <1>0, <1>1, <1>a DEF TypeOK, Writing, catalog, client, events
<1>2. CASE Send
      BY <1>2 DEF Send
<1>3. CASE EndStream
      BY <1>3 DEF EndStream
<1>4. CASE ClientLeaves
      BY <1>4 DEF ClientLeaves
<1>5. CASE WriteTimeout
      BY <1>5 DEF WriteTimeout
<1>6. CASE RefusePage \/ Open \/ OpenFails
      BY <1>6 DEF RefusePage, Open, OpenFails
<1>7. CASE Check
      BY <1>7 DEF Check
<1>8. CASE Receive
      BY <1>8 DEF Receive
<1>9. CASE BadMessage
      BY <1>9 DEF BadMessage
<1>10. CASE ReceiveEnd
      BY <1>10 DEF ReceiveEnd
<1>11. CASE ReceiveError
      BY <1>11 DEF ReceiveError
<1>12. ASSUME NEW what \in Writing, WriteEvent(what) PROVE TypeOK'
      BY <1>12, DeliveredTypes DEF WriteEvent
<1>13. CASE UNCHANGED vars
      BY <1>13 DEF vars
<1> QED
      BY <1>2, <1>3, <1>4, <1>5, <1>6, <1>7, <1>8, <1>9, <1>10, <1>11,
         <1>12, <1>13 DEF Next, Handler

(* What the catalog has sent stays within the page. *)
LEMMA CatalogStep == TypeOK /\ Facts /\ [Next]_vars => CatalogInv'
<1> SUFFICES ASSUME TypeOK, Facts, [Next]_vars PROVE CatalogInv'
    OBVIOUS
<1>1. CASE Send
  <2>1. page' = page /\ source' = "open"
    BY <1>1 DEF Send, request
  <2> QED BY <1>1, <2>1, SendsOfPage DEF CatalogInv
<1>2. CASE EndStream
  <2>1. sent' = sent /\ page' = page /\ source' # "none"
    BY <1>2 DEF EndStream, request
  <2>2. source' = "ended" => PageSent
    BY <1>2 DEF EndStream
  <2> QED BY <2>1, <2>2 DEF Facts, CatalogInv, PageSent
<1>3. CASE Open
  <2>1. sent' = sent /\ source = "none" /\ source' = "open"
    BY <1>3 DEF Open, Facts, SourceInv
  <2>2. page'.limit \in Nat
    BY RequestStep, ConstantTypes
  <2> QED BY <2>1, <2>2 DEF Facts, CatalogInv
<1>4. CASE ~(Send \/ EndStream \/ Open)
  <2>1. sent' = sent /\ source' = source /\ page' = page
    BY <1>4 DEF Next, Handler, vars, catalog, request, ClientLeaves,
       WriteTimeout, RefusePage, OpenFails, Check, Receive, BadMessage,
       ReceiveEnd, ReceiveError, WriteEvent
  <2> QED BY <2>1 DEF Facts, CatalogInv, PageSent
<1> QED BY <1>1, <1>2, <1>3, <1>4

(* Only writing a product delivers anything. *)
LEMMA PageAskedStep == TypeOK /\ Facts /\ [Next]_vars => PageAsked'
<1> SUFFICES ASSUME TypeOK, Facts, [Next]_vars PROVE PageAsked'
    OBVIOUS
<1>1. ASSUME NEW what \in Writing, WriteEvent(what) PROVE PageAsked'
      BY <1>1, DeliveredTypes
<1>2. CASE ~\E what \in Writing : WriteEvent(what)
  <2>1. delivered' = delivered /\ query' = query
    BY <1>2 DEF Next, Handler, vars, events, request, Send, EndStream,
       ClientLeaves, WriteTimeout, RefusePage, Open, OpenFails, Check,
       Receive, BadMessage, ReceiveEnd, ReceiveError
  <2> QED BY <2>1 DEF Facts, PageAsked
<1> QED BY <1>1, <1>2

(* The event "end" closes a complete stream, and stays true. *)
LEMMA CompleteStep == TypeOK /\ Facts /\ [Next]_vars => EndMeansComplete'
<1> SUFFICES ASSUME TypeOK, Facts, [Next]_vars, ending' = "end"
             PROVE  /\ source' = "ended"
                    /\ \/ Len(delivered') = EffectiveLimit(query'.limit)
                       \/ query'.offset + Len(delivered') >= MaxProducts
    BY DEF EndMeansComplete
<1>0. query' = query
      BY DEF Next, Handler, vars, request, Send, EndStream, ClientLeaves,
         WriteTimeout, RefusePage, Open, OpenFails, Check, Receive, BadMessage,
         ReceiveEnd, ReceiveError, WriteEvent
<1>1. CASE ending = "end"
  <2>1. phase = "finished" /\ source = "ended"
    BY <1>1 DEF Facts, EndInv, EndMeansComplete
  <2>2. source' = source /\ delivered' = delivered
    BY <2>1 DEF Next, Handler, vars, catalog, events, Send, EndStream,
       ClientLeaves, WriteTimeout, RefusePage, Open, OpenFails, Check,
       Receive, BadMessage, ReceiveEnd, ReceiveError, WriteEvent, Writing
  <2> QED BY <1>0, <1>1, <2>1, <2>2 DEF Facts, EndMeansComplete
<1>2. CASE ending # "end"
  <2>1. WriteEvent("writeEnd") /\ connection = "up"
    BY <1>2 DEF Next, Handler, vars, events, Send, EndStream, ClientLeaves,
       WriteTimeout, RefusePage, Open, OpenFails, Check, Receive, BadMessage,
       ReceiveEnd, ReceiveError, WriteEvent, Writing
  <2>2. phase = "writeEnd" /\ source' = source /\ delivered' = delivered
    BY <2>1 DEF WriteEvent, catalog, events
  <2>3. source = "ended" /\ received = sent /\ Len(delivered) = received
    BY <2>1, <2>2 DEF Facts, EndInv, DeliveryInv
  <2>4. PageSent /\ page.limit = EffectiveLimit(query.limit)
        /\ page.offset = query.offset
    BY <2>3 DEF Facts, CatalogInv, PageInv
  <2> QED BY <1>0, <2>2, <2>3, <2>4 DEF PageSent
<1> QED BY <1>1, <1>2

(* Every step keeps the facts. *)
LEMMA FactsStep == TypeOK /\ Facts /\ [Next]_vars => Facts'
<1> SUFFICES ASSUME TypeOK, Facts, [Next]_vars PROVE Facts'
    OBVIOUS
<1>a. PageInv' /\ CatalogInv' /\ PageAsked' /\ EndMeansComplete'
      BY RequestStep, CatalogStep, PageAskedStep, CompleteStep
<1> DEFINE Rest == /\ SourceInv /\ ContextInv /\ DeliveryInv
                   /\ EndInv /\ NeverCutSilently
<1>b. Rest'
  <2> USE DEF SourceInv, ContextInv, DeliveryInv, EndInv, NeverCutSilently,
              catalog, client, events
  <2> USE Sizes
  <2>0. SourceInv /\ ContextInv /\ DeliveryInv /\ EndInv /\ NeverCutSilently
    BY DEF Facts
  <2>1. CASE Send
    BY <2>0, <2>1 DEF Send
  <2>2. CASE EndStream
    BY <2>0, <2>2 DEF EndStream
  <2>3. CASE ClientLeaves
    BY <2>0, <2>3 DEF ClientLeaves
  <2>4. CASE WriteTimeout
    BY <2>0, <2>4 DEF WriteTimeout
  <2>5. CASE RefusePage
    BY <2>0, <2>5 DEF RefusePage
  <2>6. CASE Open
    BY <2>0, <2>6 DEF Open
  <2>7. CASE OpenFails
    BY <2>0, <2>7 DEF OpenFails
  <2>8. CASE Check
    BY <2>0, <2>8 DEF Check
  <2>9. CASE Receive
    BY <2>0, <2>9 DEF Receive
  <2>10. CASE BadMessage
    BY <2>0, <2>10 DEF BadMessage
  <2>11. CASE ReceiveEnd
    BY <2>0, <2>11 DEF ReceiveEnd
  <2>12. CASE ReceiveError
    BY <2>0, <2>12 DEF ReceiveError, StreamBroken
  <2>13. ASSUME NEW what \in Writing, WriteEvent(what) PROVE Rest'
    BY <2>0, <2>13, DeliveredTypes DEF WriteEvent, Writing
  <2>14. CASE UNCHANGED vars
    BY <2>0, <2>14 DEF vars
  <2> QED
    BY <2>1, <2>2, <2>3, <2>4, <2>5, <2>6, <2>7, <2>8, <2>9, <2>10, <2>11,
       <2>12, <2>13, <2>14 DEF Next, Handler
<1> QED BY <1>a, <1>b DEF Facts

(* The two together are inductive. *)
LEMMA NextIInv == IInv /\ [Next]_vars => IInv'
  BY TypeStep, FactsStep DEF IInv

(* The inductive invariant holds of every state. *)
THEOREM StreamInvariant == Spec => []IInv
  <1>1. Init => IInv
      BY InitTypes, InitFacts DEF IInv
<1> QED BY <1>1, NextIInv, PTL DEF Spec

(* Every variable of the stream keeps its type (ProductStream!TypeOK). *)
THEOREM StreamTypeCorrect == Spec => []TypeOK
<1>1. IInv => TypeOK
      BY DEF IInv
<1> QED BY <1>1, StreamInvariant, PTL

(* Whatever the client got is the beginning of the page it asked for, without
   a gap and never above the maximum (the checks of gateway.go:942 and of the
   adapter before uint32, and the loop of products.go, which writes each
   product before the next Recv). *)
THEOREM PageAskedHolds == Spec => []PageAsked
<1>1. IInv => PageAsked
      BY DEF IInv, Facts
<1> QED BY <1>1, StreamInvariant, PTL

(* The event "end" is the truth: the whole page was delivered, or all the
   catalog has after its offset. *)
THEOREM EndMeansCompleteHolds == Spec => []EndMeansComplete
<1>1. IInv => EndMeansComplete
      BY DEF IInv, Facts
<1> QED BY <1>1, StreamInvariant, PTL

(* A client that is still there learns how its stream ended, or why there is
   none. *)
THEOREM NeverCutSilentlyHolds == Spec => []NeverCutSilently
<1>1. IInv => NeverCutSilently
      BY DEF IInv, Facts
<1> QED BY <1>1, StreamInvariant, PTL

-----------------------------------------------------------------------------
(* The refinement of PageDelivery *)

(* The catalog is asked for valid pages only, and before it is asked nothing
   is delivered; a refusal comes without having asked. *)
OpenInv ==
    /\ source # "none" => ~InvalidPage(query)
    /\ phase \in {"opening", "writeRefusal", "writeFailure"} => source = "none"
    /\ source = "none" => delivered = <<>>

LEMMA OpenStep == IInv /\ OpenInv /\ [Next]_vars => OpenInv'
<1> SUFFICES ASSUME TypeOK, Facts, OpenInv, [Next]_vars PROVE OpenInv'
    BY DEF IInv
<1> USE DEF OpenInv
<1>1. CASE Open
      BY <1>1 DEF Open, InvalidPage, events
<1>2. CASE RefusePage \/ OpenFails
      BY <1>2 DEF RefusePage, OpenFails, request, catalog, events, Facts,
         SourceInv, InvalidPage
<1>3. CASE EndStream
      BY <1>3 DEF EndStream, request, events, Facts, SourceInv, InvalidPage
<1>4. ASSUME NEW what \in Writing, WriteEvent(what) PROVE OpenInv'
  <2>1. UNCHANGED <<query, source>>
    BY <1>4 DEF WriteEvent, request, catalog
  <2>2. phase' \in {"checking", "finished"}
    BY <1>4 DEF WriteEvent
  <2>3. CASE what = "writeProduct"
    <3>1. source # "none"
      BY <1>4, <2>3 DEF WriteEvent, Facts, EndInv
    <3> QED BY <2>1, <2>2, <3>1 DEF InvalidPage
  <2>4. CASE what # "writeProduct"
    <3>1. delivered' = delivered
      BY <1>4, <2>4 DEF WriteEvent, events
    <3> QED BY <2>1, <2>2, <3>1 DEF InvalidPage
  <2> QED BY <2>3, <2>4
<1>5. CASE \/ Send \/ ClientLeaves \/ WriteTimeout \/ Check \/ Receive
           \/ BadMessage \/ ReceiveEnd \/ ReceiveError \/ UNCHANGED vars
  <2>1. UNCHANGED <<query, source, delivered>>
    BY <1>5 DEF Send, ClientLeaves, WriteTimeout, Check, Receive, BadMessage,
       ReceiveEnd, ReceiveError, vars, request, catalog, events
  <2>2. phase' = phase
        \/ phase' \in {"finished", "receiving", "writeProduct", "writeError",
                       "writeEnd"}
    BY <1>5 DEF Send, ClientLeaves, WriteTimeout, Check, Receive, BadMessage,
       ReceiveEnd, ReceiveError, vars
  <2> QED BY <2>1, <2>2 DEF InvalidPage
<1> QED BY <1>1, <1>2, <1>3, <1>4, <1>5 DEF Next, Handler

LEMMA OpenHolds == Spec => []OpenInv
<1>1. Init => OpenInv
      BY DEF Init, OpenInv
<1> QED BY <1>1, OpenStep, StreamInvariant, PTL DEF Spec

(* The page is a sequence of products. *)
LEMMA WantedTypes ==
  ASSUME TypeOK
  PROVE  /\ PageLength \in Nat
         /\ Wanted \in Seq(Nat)
         /\ Len(Wanted) = PageLength
         /\ \A i \in 1 .. PageLength : Wanted[i] = query.offset + i
<1>1. EffectiveLimit(query.limit) \in Nat
      BY Sizes, LimitBounds
<1>2. PageLength \in Nat
      BY <1>1, Sizes DEF PageLength
<1>3. ASSUME NEW i \in 1 .. PageLength PROVE query.offset + i \in Nat
  <2>1. ~InvalidPage(query)
    BY <1>3 DEF PageLength
  <2> QED BY <1>2, <2>1, Sizes DEF InvalidPage
<1>4. Wanted \in [1 .. PageLength -> Nat]
      BY <1>3 DEF Wanted
<1>5. Wanted \in Seq(Nat) /\ Len(Wanted) = PageLength
      BY <1>2, <1>4
<1> QED BY <1>2, <1>5 DEF Wanted

(* The catalog sends the page, and has sent all of it when it may end. *)
LEMMA SentOfPage ==
  ASSUME IInv, OpenInv, source # "none"
  PROVE  /\ sent <= PageLength
         /\ PageSent => sent = PageLength
<1>1. /\ ~InvalidPage(query)
      /\ page.offset = query.offset
      /\ page.limit = EffectiveLimit(query.limit)
      /\ sent <= page.limit
      /\ sent > 0 => page.offset + sent <= MaxProducts
      BY DEF IInv, Facts, OpenInv, PageInv, CatalogInv
<1>2. TypeOK
      BY DEF IInv
<1>3. CASE query.offset >= MaxProducts
  <2>1. sent = 0 /\ PageLength = 0
    BY <1>1, <1>2, <1>3, Sizes DEF PageLength
  <2> QED BY <2>1
<1>4. CASE query.offset < MaxProducts
  <2>1. PageLength = IF page.limit < MaxProducts - page.offset
                     THEN page.limit ELSE MaxProducts - page.offset
    BY <1>1, <1>2, <1>4, Sizes DEF PageLength
  <2> QED BY <1>1, <1>2, <1>4, <2>1, Sizes DEF PageSent
<1> QED BY <1>2, <1>3, <1>4, Sizes

(* Two sequences of the same length and members are the same. *)
LEMMA SameSequence ==
  ASSUME NEW S, NEW T, NEW s \in Seq(S), NEW t \in Seq(T), Len(s) = Len(t),
         \A i \in 1 .. Len(s) : s[i] = t[i]
  PROVE  s = t
  OBVIOUS

(* A step that a client does not see is a stutter. *)
LEMMA Unseen ==
  ASSUME UNCHANGED <<query, delivered, ending, connection>>,
         phase' = "finished" <=> phase = "finished"
  PROVE  UNCHANGED Promise!vars
  BY DEF Promise!vars, Wanted, PageLength, InvalidPage

LEMMA InitPromise == Init => Promise!Init
<1> SUFFICES ASSUME Init PROVE Promise!Init
    OBVIOUS
<1>1. Wanted \in Seq(Nat)
      BY InitTypes, WantedTypes
<1> QED BY <1>1 DEF Init, Promise!Init

(* An event reaches the client, or the client is gone. *)
LEMMA EventStep ==
  ASSUME IInv, OpenInv, NEW what \in Writing, WriteEvent(what)
  PROVE  Promise!Next
<1>0. TypeOK /\ phase = what /\ Wanted' = Wanted
      BY DEF IInv, WriteEvent, request, Wanted, PageLength, InvalidPage
<1>1. CASE ~(connection = "up" /\ ~late)
  <2>1. UNCHANGED <<delivered, ending>> /\ connection' = "gone"
    BY <1>1 DEF WriteEvent, events
  <2>2. phase # "finished"
    BY <1>0 DEF Writing
  <2>3. (phase' = "finished") \in BOOLEAN
    OBVIOUS
  <2>4. Promise!Leave
    BY <1>0, <2>1, <2>2, <2>3 DEF Promise!Leave
  <2> QED BY <2>4 DEF Promise!Next
<1>2. CASE connection = "up" /\ ~late /\ what = "writeProduct"
  <2>1. /\ delivered' = Append(delivered, page.offset + received)
        /\ UNCHANGED <<ending, connection>>
        /\ phase' = "checking"
    BY <1>2 DEF WriteEvent
  <2>2. source # "none" /\ received = Len(delivered) + 1
        /\ page.offset = query.offset
    BY <1>0, <1>2, NextOfPage DEF IInv, Facts, EndInv
  <2>3. Len(delivered) + 1 \in 1 .. PageLength
    BY <1>0, <2>2, SentOfPage, Sizes, WantedTypes
  <2>4. page.offset + received = Wanted[Len(delivered) + 1]
        /\ Len(delivered) < Len(Wanted)
    BY <1>0, <2>2, <2>3, Sizes, WantedTypes
  <2>5. Promise!Show
    BY <1>0, <1>2, <2>1, <2>4 DEF Promise!Show
  <2> QED BY <2>5 DEF Promise!Next
<1>3. CASE connection = "up" /\ ~late /\ what # "writeProduct"
  <2>1. UNCHANGED <<delivered, connection>> /\ phase' = "finished"
    BY <1>3 DEF WriteEvent
  <2>2. phase # "finished"
    BY <1>0 DEF Writing
  <2>3. CASE what = "writeEnd"
    <3>1. ending' = "end"
      BY <1>3, <2>3 DEF WriteEvent
    <3>2. /\ source = "ended" /\ received = sent /\ Len(delivered) = received
          /\ PageSent
      BY <1>0, <1>3, <2>3 DEF IInv, Facts, EndInv, DeliveryInv, CatalogInv
    <3>3. Len(delivered) = Len(Wanted)
      BY <1>0, <3>2, SentOfPage, WantedTypes
    <3>4. \A i \in 1 .. Len(delivered) : delivered[i] = Wanted[i]
      BY <1>0, <3>3, WantedTypes DEF IInv, Facts, PageAsked, TypeOK
    <3>5. delivered = Wanted
      BY <1>0, <3>3, <3>4, WantedTypes, SameSequence DEF TypeOK
    <3> QED BY <1>0, <1>3, <2>1, <2>2, <3>1, <3>5
            DEF Promise!Finish, Promise!Next
  <2>4. CASE what = "writeError"
    <3>1. ending' = "error"
      BY <1>3, <2>4 DEF WriteEvent
    <3> QED BY <1>0, <1>3, <2>1, <2>2, <3>1 DEF Promise!Finish, Promise!Next
  <2>5. CASE what \in {"writeRefusal", "writeFailure"}
    <3>1. ending' \in Promise!Refusals
      BY <1>3, <2>5 DEF WriteEvent, Promise!Refusals
    <3>2. delivered = <<>>
      BY <1>0, <2>5 DEF OpenInv
    <3> QED BY <1>0, <1>3, <2>1, <2>2, <3>1, <3>2
            DEF Promise!Finish, Promise!Next
  <2> QED BY <1>3, <2>3, <2>4, <2>5 DEF Writing
<1> QED BY <1>1, <1>2, <1>3

(* Every step is a step of the promise or a stutter. *)
LEMMA StepPromise ==
  IInv /\ OpenInv /\ [Next]_vars => [Promise!Next]_(Promise!vars)
<1> SUFFICES ASSUME IInv, OpenInv, [Next]_vars
             PROVE  Promise!Next \/ UNCHANGED Promise!vars
    OBVIOUS
<1>1. ASSUME NEW what \in Writing, WriteEvent(what)
      PROVE  Promise!Next \/ UNCHANGED Promise!vars
      BY <1>1, EventStep
<1>2. CASE ClientLeaves \/ WriteTimeout
  <2>1. /\ UNCHANGED <<query, delivered, ending, phase>>
        /\ phase # "finished"
        /\ connection' = connection \/ connection' = "gone"
    BY <1>2 DEF ClientLeaves, WriteTimeout, request, events
  <2>2. Wanted' = Wanted
    BY <2>1 DEF Wanted, PageLength, InvalidPage
  <2>3. CASE connection' = connection
    BY <2>1, <2>3, Unseen
  <2>4. CASE connection' = "gone"
    <3>1. Promise!Leave
      BY <2>1, <2>2, <2>4 DEF Promise!Leave
    <3> QED BY <3>1 DEF Promise!Next
  <2> QED BY <2>1, <2>3, <2>4
<1>3. CASE Check
  <2>1. UNCHANGED <<query, delivered, ending, connection>>
        /\ phase = "checking"
    BY <1>3 DEF Check, request, client, events
  <2>2. CASE context = "done"
    <3>1. phase' = "finished" /\ connection = "gone"
      BY <1>3, <2>2 DEF Check, IInv, Facts, ContextInv
    <3>2. Wanted' = Wanted
      BY <2>1 DEF Wanted, PageLength, InvalidPage
    <3>3. Promise!Leave
      BY <2>1, <3>1, <3>2 DEF Promise!Leave
    <3> QED BY <3>3 DEF Promise!Next
  <2>3. CASE context # "done"
    <3>1. phase' = "receiving"
      BY <1>3, <2>3 DEF Check
    <3> QED BY <2>1, <3>1, Unseen
  <2> QED BY <2>2, <2>3
<1>4. CASE \/ Send \/ EndStream \/ RefusePage \/ Open \/ OpenFails \/ Receive
           \/ BadMessage \/ ReceiveEnd \/ ReceiveError \/ UNCHANGED vars
  <2>1. UNCHANGED <<query, delivered, ending, connection>>
    BY <1>4 DEF Send, EndStream, RefusePage, Open, OpenFails, Receive,
       BadMessage, ReceiveEnd, ReceiveError, vars, request, client, events
  <2>2. phase' = "finished" <=> phase = "finished"
    BY <1>4 DEF Send, EndStream, RefusePage, Open, OpenFails, Receive,
       BadMessage, ReceiveEnd, ReceiveError, vars
  <2> QED BY <2>1, <2>2, Unseen
<1> QED BY <1>1, <1>2, <1>3, <1>4 DEF Next, Handler

(* The catalog, the handler and the connection together implement
   PageDelivery, for a catalog and pages of any size (products.go:120-190). *)
THEOREM StreamKeepsPromise == Spec => KeepsPromise
<1> QED BY InitPromise, StreamInvariant, OpenHolds, StepPromise, PTL
        DEF Spec, Promise!Spec, KeepsPromise
=============================================================================
