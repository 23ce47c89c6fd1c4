---------------------------- MODULE AuthErrors ----------------------------
(***************************************************************************)
(* What an error of shop-auth becomes on its way to the HTTP client: the   *)
(* gRPC codes, and the statuses the middleware (writeUpstreamError) and    *)
(* the handlers (writeAuthError) choose for them.  Between the client and  *)
(* the handler the error is wrapped, never changed.                        *)
(***************************************************************************)
EXTENDS Integers

(* gRPC codes the gateway tells apart; "No" is IsAdmin's answer false. *)
Refusal  == {"Unauthenticated", "NotFound"}
LostCall == {"Unavailable", "DeadlineExceeded", "Canceled"}
Code     == {"OK", "No", "Internal", "InvalidArgument", "AlreadyExists",
             "ResourceExhausted"} \cup Refusal \cup LostCall

Status == {200, 400, 401, 403, 404, 405, 409, 429, 500, 503, 504}

-----------------------------------------------------------------------------
(* A plausible bug: a call that was lost is the fault of the upstream. *)
UpstreamStatusBadGateway(c) == CASE c \in Refusal  -> 401
                                 [] c \in LostCall -> 502
                                 [] OTHER          -> 500

(* writeUpstreamError *)
UpstreamStatus(c) == CASE c \in Refusal           -> 401
                       [] c = "Unavailable"       -> 503
                       [] c = "DeadlineExceeded"  -> 504
                       [] OTHER                   -> 500

(* A plausible bug: shop-auth not answering is taken for its refusal. *)
AuthStatusLostIsRefusal(c) == CASE c \in {"OK", "No"}    -> 200
                                [] c = "InvalidArgument" -> 400
                                [] c \in LostCall        -> 401
                                [] OTHER                 -> 500

(* writeAuthError *)
AuthStatus(c) == CASE c \in {"OK", "No"}      -> 200
                   [] c = "InvalidArgument"   -> 400
                   [] c = "AlreadyExists"     -> 409
                   [] c = "NotFound"          -> 404
                   [] c = "Unauthenticated"   -> 401
                   [] c = "ResourceExhausted" -> 429
                   [] c = "Unavailable"       -> 503
                   [] c = "DeadlineExceeded"  -> 504
                   [] OTHER                   -> 500

=============================================================================
