-------------------------- MODULE Lifecycle --------------------------
(***************************************************************************)
(* The life of a gateway process: main.go builds the application, starts   *)
(* its HTTP server, waits for a signal or for the server to fail, and      *)
(* shuts the application down within cfg.ShutdownTimeout.                  *)
(*                                                                         *)
(* Building the application (app.New) dials the three gRPC clients one     *)
(* after the other, each with retryWithExponentialBackoff.  The goroutine  *)
(* that app.Run starts, the requests being served and the deadline of the  *)
(* shutdown context run beside the main goroutine.                         *)
(*                                                                         *)
(* Left out: the Redis client, which is never closed and needs no          *)
(* connection to be built; the branches of app.New that no configuration   *)
(* Validate accepts can reach; the number of seconds anything takes.       *)
(***************************************************************************)
EXTENDS Integers, FiniteSets

CONSTANTS Requests,     \* requests that may reach the server
          MaxRetries    \* cfg.Retry.MaxRetries, dial attempts for each client

\* Validate does not look at it: with none, the start fails without a dial.
ASSUME MaxRetriesAssumption == MaxRetries \in Int

Clients == 1 .. 3       \* catalog, auth, cart: in the order they are dialled

VARIABLES
    stage,        \* where the main goroutine is
    attempt,      \* failed dials of the client being dialled
    open,         \* clients whose connection is open
    server,       \* the goroutine of app.Run and its http.Server
    errCh,        \* app.errCh holds an error nobody has received yet
    active,       \* requests being served
    cut,          \* requests that lost a client or were left without an answer
    expired,      \* the deadline of the shutdown context has passed
    shutdownErr,  \* App.Shutdown has an error to return
    exit          \* how the process ended, or "none"

vars == <<stage, attempt, open, server, errCh, active, cut, expired,
          shutdownErr, exit>>

Starting == {"dialling", "pausing", "built", "started"}
Stopping == {"stopping", "draining", "flushing", "closing"}
Stages   == Starting \cup {"waiting", "exited"} \cup Stopping

Init == /\ stage = "dialling"
        /\ attempt = 0
        /\ open = {}
        /\ server = "none"
        /\ errCh = FALSE
        /\ active = {}
        /\ cut = {}
        /\ expired = FALSE
        /\ shutdownErr = FALSE
        /\ exit = "none"

(* The process ends: whatever is being served stays without an answer. *)
EndProcess(how) == /\ stage' = "exited"
                   /\ exit' = how
                   /\ cut' = cut \cup active
                   /\ active' = {}

-----------------------------------------------------------------------------
(* app.New, and main up to the select *)

(* The client being dialled is the first one not open yet. *)
Dialled == CHOOSE c \in Clients : c \notin open /\ 1 .. (c - 1) \subseteq open

DialSucceeds ==
    /\ stage = "dialling"
    /\ attempt < MaxRetries
    /\ open' = open \cup {Dialled}
    /\ attempt' = 0
    /\ stage' = IF open' = Clients THEN "built" ELSE "dialling"
    /\ UNCHANGED <<server, errCh, active, cut, expired, shutdownErr, exit>>

(* A plausible bug: the attempts are not counted. *)
DialFailsUncounted ==
    /\ stage = "dialling"
    /\ stage' = "pausing"
    /\ UNCHANGED <<attempt, open, server, errCh, active, cut, expired,
                   shutdownErr, exit>>

(* A plausible bug: one attempt more than configured. *)
DialFailsOnceMore ==
    /\ stage = "dialling"
    /\ attempt < MaxRetries
    /\ attempt' = attempt + 1
    /\ stage' = "pausing"
    /\ UNCHANGED <<open, server, errCh, active, cut, expired, shutdownErr,
                   exit>>

(* A failed dial sleeps unless it was the last one. *)
DialFails ==
    /\ stage = "dialling"
    /\ attempt + 1 < MaxRetries
    /\ attempt' = attempt + 1
    /\ stage' = "pausing"
    /\ UNCHANGED <<open, server, errCh, active, cut, expired, shutdownErr,
                   exit>>

PauseEnds ==
    /\ stage = "pausing"
    /\ stage' = "dialling"
    /\ UNCHANGED <<attempt, open, server, errCh, active, cut, expired,
                   shutdownErr, exit>>

(* What the error branch for client c closes before app.New returns. *)
ClosedOnFailure(c) == 1 .. (c - 1)

(* The last dial failed: close what was opened, and main calls log.Fatalf. *)
StartFails ==
    /\ stage = "dialling"
    /\ attempt + 1 >= MaxRetries
    /\ open' = open \ ClosedOnFailure(Dialled)
    /\ EndProcess("fatal")
    /\ UNCHANGED <<attempt, server, errCh, expired, shutdownErr>>

(* app.Run: the goroutine is started, the server does not listen yet. *)
Run ==
    /\ stage = "built"
    /\ stage' = "started"
    /\ server' = "spawned"
    /\ UNCHANGED <<attempt, open, errCh, active, cut, expired, shutdownErr,
                   exit>>

(* From here on main handles SIGINT and SIGTERM. *)
NotifyContext ==
    /\ stage = "started"
    /\ stage' = "waiting"
    /\ UNCHANGED <<attempt, open, server, errCh, active, cut, expired,
                   shutdownErr, exit>>

(* A signal before signal.NotifyContext ends the process at once; one that
   main waits for begins the shutdown; a later one is caught and ignored. *)
Signal ==
    /\ exit = "none"
    /\ \/ /\ stage \in Starting
          /\ EndProcess("killed")
       \/ /\ stage = "waiting"
          /\ stage' = "stopping"
          /\ UNCHANGED <<active, cut, exit>>
    /\ UNCHANGED <<attempt, open, server, errCh, expired, shutdownErr>>

(* The other branch of the select in main. *)
ErrorReceived ==
    /\ stage = "waiting"
    /\ errCh
    /\ errCh' = FALSE
    /\ stage' = "stopping"
    /\ UNCHANGED <<attempt, open, server, active, cut, expired, shutdownErr,
                   exit>>

-----------------------------------------------------------------------------
(* The goroutine of app.Run, and the requests *)

(* http.Server.Shutdown was called: ListenAndServe returns ErrServerClosed,
   which httpapp.Run does not report. *)
ShuttingDown == stage \in Stopping \ {"stopping"}

Listen ==
    /\ exit = "none"
    /\ server = "spawned"
    /\ server' = IF ShuttingDown THEN "closed" ELSE "listening"
    /\ UNCHANGED <<stage, attempt, open, errCh, active, cut, expired,
                   shutdownErr, exit>>

(* Listening or accepting fails: httpapp.Run returns the error and the
   goroutine puts it into the channel of capacity 1, its only sender. *)
ServerFails ==
    /\ exit = "none"
    /\ server \in {"spawned", "listening"}
    /\ server' = "failed"
    /\ errCh' = TRUE
    /\ UNCHANGED <<stage, attempt, open, active, cut, expired, shutdownErr,
                   exit>>

RequestArrives(r) ==
    /\ exit = "none"
    /\ server = "listening"
    /\ r \notin active \cup cut
    /\ active' = active \cup {r}
    /\ UNCHANGED <<stage, attempt, open, server, errCh, cut, expired,
                   shutdownErr, exit>>

RequestServed(r) ==
    /\ exit = "none"
    /\ r \in active
    /\ active' = active \ {r}
    /\ UNCHANGED <<stage, attempt, open, server, errCh, cut, expired,
                   shutdownErr, exit>>

-----------------------------------------------------------------------------
(* App.Shutdown, under the deadline that main puts on it *)

DeadlinePasses ==
    /\ stage \in Stopping
    /\ ~expired
    /\ expired' = TRUE
    /\ UNCHANGED <<stage, attempt, open, server, errCh, active, cut,
                   shutdownErr, exit>>

(* http.Server.Shutdown closes the listener, and then waits. *)
StopServer ==
    /\ stage = "stopping"
    /\ stage' = "draining"
    /\ server' = IF server = "listening" THEN "closed" ELSE server
    /\ UNCHANGED <<attempt, open, errCh, active, cut, expired, shutdownErr,
                   exit>>

(* A plausible bug: Stop does not wait for the requests. *)
DrainedAtOnce ==
    /\ stage = "draining"
    /\ stage' = "flushing"
    /\ UNCHANGED <<attempt, open, server, errCh, active, cut, expired,
                   shutdownErr, exit>>

(* Stop returns nil once nothing is being served. *)
Drained ==
    /\ stage = "draining"
    /\ active = {}
    /\ stage' = "flushing"
    /\ UNCHANGED <<attempt, open, server, errCh, active, cut, expired,
                   shutdownErr, exit>>

(* A plausible bug: the error of Stop is logged and dropped. *)
DrainTimesOutSilently ==
    /\ stage = "draining"
    /\ expired
    /\ stage' = "flushing"
    /\ UNCHANGED <<attempt, open, server, errCh, active, cut, expired,
                   shutdownErr, exit>>

(* A plausible bug: Stop is given a context without a deadline. *)
DrainWaitsForever ==
    /\ stage = "draining"
    /\ active = {}
    /\ stage' = "flushing"
    /\ UNCHANGED <<attempt, open, server, errCh, active, cut, expired,
                   shutdownErr, exit>>

(* Stop returns the error of the context; Shutdown joins it and goes on. *)
DrainTimesOut ==
    /\ stage = "draining"
    /\ expired
    /\ shutdownErr' = TRUE
    /\ stage' = "flushing"
    /\ UNCHANGED <<attempt, open, server, errCh, active, cut, expired, exit>>

(* shutdownTracing, nil or not: the last spans may be lost. *)
FlushTracing ==
    /\ stage = "flushing"
    /\ shutdownErr' \in {shutdownErr, TRUE}
    /\ stage' = "closing"
    /\ UNCHANGED <<attempt, open, server, errCh, active, cut, expired, exit>>

(* The next client is closed; a request still being served may need it.
   Closing a connection once, as here, returns no error. *)
CloseClient ==
    /\ stage = "closing"
    /\ \E c \in open :
         /\ \A d \in open : c <= d
         /\ open' = open \ {c}
    /\ \E lost \in SUBSET active : cut' = cut \cup lost
    /\ UNCHANGED <<stage, attempt, server, errCh, active, expired,
                   shutdownErr, exit>>

(* main returns, or calls os.Exit(1). *)
Exit ==
    /\ stage = "closing"
    /\ open = {}
    /\ EndProcess(IF shutdownErr THEN "error" ELSE "ok")
    /\ UNCHANGED <<attempt, open, server, errCh, expired, shutdownErr>>

Ended == stage = "exited" /\ UNCHANGED vars

-----------------------------------------------------------------------------
Main == \/ PauseEnds \/ Run \/ NotifyContext \/ ErrorReceived
        \/ StopServer \/ Drained \/ DrainTimesOut \/ FlushTracing
        \/ CloseClient \/ Exit

Next == \/ DialSucceeds \/ DialFails \/ StartFails
        \/ Main
        \/ Signal
        \/ Listen \/ ServerFails
        \/ \E r \in Requests : RequestArrives(r) \/ RequestServed(r)
        \/ DeadlinePasses
        \/ Ended

(* The main goroutine runs, a dial returns within cfg.*GRPC.Timeout, and the
   shutdown context expires.  Nothing promises that a request is ever served,
   that the server listens, or that a signal comes. *)
Spec == /\ Init
        /\ [][Next]_vars
        /\ WF_vars(Main)
        /\ WF_vars(DialSucceeds \/ DialFails \/ StartFails)
        /\ WF_vars(DeadlinePasses)

-----------------------------------------------------------------------------
TypeOK ==
    /\ stage \in Stages
    /\ attempt \in Nat /\ (attempt = 0 \/ attempt < MaxRetries)
    /\ open \in SUBSET Clients
    /\ server \in {"none", "spawned", "listening", "failed", "closed"}
    /\ errCh \in BOOLEAN
    /\ active \in SUBSET Requests
    /\ cut \in SUBSET Requests
    /\ expired \in BOOLEAN
    /\ shutdownErr \in BOOLEAN
    /\ exit \in {"none", "fatal", "killed", "error", "ok"}
    /\ (exit = "none") <=> (stage # "exited")

(* A process that ends by itself, a failed start included, has closed every
   client it had opened: each error branch of app.New and every path through
   App.Shutdown reach the same Close calls. *)
NothingLeftOpen == exit \in {"fatal", "error", "ok"} => open = {}

(* While the deadline has not passed, no request is served without all three
   clients: they are opened before the server listens, and closed only after
   http.Server.Shutdown returned. *)
ServedWithClients == active # {} /\ ~expired => open = Clients

(* Exit status 0 means that no request lost a client or its answer. *)
CleanExitCutsNobody == exit = "ok" => cut = {}

(* The process implements GracefulService, in whatever order the server's
   goroutine, the signals, the deadline and the requests act: clients outlive
   the requests but for the deadline, and the exit status tells the truth. *)
Mode == CASE stage \in {"dialling", "pausing", "built"} -> "starting"
          [] stage \in {"started", "waiting"} -> "up"
          [] stage \in Stopping -> "stopping"
          [] stage = "exited" -> "over"

Promise == INSTANCE GracefulService WITH
    mode <- Mode, late <- expired, outcome <- exit
KeepsPromise == Promise!Spec

(* A shutdown, once begun, ends the process even when some request is never
   served; and so does a server that fails, at any moment after app.Run: its
   error is not lost, although main may not be listening to the channel yet. *)
ProcessEnds == (stage = "stopping" \/ server = "failed") ~> (exit # "none")

(* Building the application ends, whatever the services do. *)
StartDecided == <>(stage \notin {"dialling", "pausing"})

(* README.md:308 and internal/app/README.md:68 say that a SIGTERM during
   the retries is ignored until they end. *)
SignalIgnoredDuringStart ==
    [][(stage \in {"dialling", "pausing"}) => (exit' # "killed")]_vars
=============================================================================
