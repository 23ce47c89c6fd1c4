----------------------------- MODULE Readiness -----------------------------
(***************************************************************************)
(* GET /ready: health checks of the services the gateway depends on, one   *)
(* after the other, each over a connection of its own and each with a      *)
(* timeout, all within the time the handler gives the whole request.       *)
(*                                                                         *)
(* The services start, stop, hang and refuse while they are being asked,   *)
(* and the client may leave.  Time passes in ticks and only while the      *)
(* gateway waits: its own steps take none, and a timer that has come is    *)
(* served before the next tick.                                            *)
(***************************************************************************)
EXTENDS Integers, Sequences

CONSTANTS
    Services,      \* catalog, auth and cart
    Checkers,      \* MultiReadinessChecker.Checkers: the order of the checks
    Configured,    \* timeout of each service in the configuration, in ticks
    DefaultCheck,  \* timeout of a check without a positive one
    ReadyTimeout,  \* the handler's timeout for all of them
    MaxChanges     \* bound: changes of the services' condition

ASSUME ReadinessAssumption ==
    /\ Checkers \in Seq(Services)
    /\ Len(Checkers) > 0
    /\ Configured \in [Services -> Int]
    /\ DefaultCheck \in Nat \ {0}
    /\ ReadyTimeout \in Nat \ {0}
    /\ MaxChanges \in Nat

VARIABLES
    condition,  \* of each service
    changes,    \* of the conditions so far
    files,      \* the CA and the client certificates can be read
    connected,  \* the client waits for its answer
    now,        \* ticks since the request arrived
    stage,      \* where the handler is
    index,      \* of the checker at work
    deadline,   \* of that checker's context
    verdict,    \* of the service asked, when it has answered
    open,       \* services to which a check holds a connection
    reply,      \* the status of the answer, 0 before it
    served,     \* history: services that were serving during the request
    troubled    \* history: services that were not

world   == <<condition, changes, served, troubled>>
handler == <<stage, index, deadline, verdict, open, reply>>
vars    == <<world, files, connected, now, handler>>

Condition == {"serving", "refusing", "hung", "down"}

Init ==
    /\ condition \in [Services -> Condition]
    /\ changes = 0
    /\ files \in BOOLEAN
    /\ connected = TRUE
    /\ now = 0
    /\ stage = "arrived"
    /\ index = 1
    /\ deadline = 0
    /\ verdict = "none"
    /\ open = {}
    /\ reply = 0
    /\ served = {s \in Services : condition[s] = "serving"}
    /\ troubled = Services \ served

Current == Checkers[index]
Waiting == stage \in {"dialling", "asking"}

-----------------------------------------------------------------------------
(* The services, the client and time *)

Change(s, c) ==
    /\ stage # "done"
    /\ changes < MaxChanges
    /\ condition[s] # c
    /\ condition' = [condition EXCEPT ![s] = c]
    /\ changes' = changes + 1
    /\ served' = IF c = "serving" THEN served \cup {s} ELSE served
    /\ troubled' = IF c = "serving" THEN troubled ELSE troubled \cup {s}
    /\ UNCHANGED <<files, connected, now, handler>>

(* The service answers for what it is at that moment.  One that stops breaks
   the connection; one that hangs says nothing. *)
ServiceAnswers ==
    /\ stage = "asking"
    /\ verdict = "none"
    /\ condition[Current] # "hung"
    /\ verdict' = condition[Current]
    /\ UNCHANGED <<world, files, connected, now,
                   stage, index, deadline, open, reply>>

ClientLeaves ==
    /\ stage # "done"
    /\ connected
    /\ connected' = FALSE
    /\ UNCHANGED <<world, files, now, handler>>

Tick ==
    /\ Waiting
    /\ now < deadline
    /\ now' = now + 1
    /\ UNCHANGED <<world, files, connected, handler>>

-----------------------------------------------------------------------------
(* The handler and its checkers *)

(* A plausible bug: the connection is closed only where the check succeeds. *)
AnswerLeavesOpen(code) ==
    /\ stage' = "done"
    /\ reply' = code
    /\ UNCHANGED <<index, deadline, verdict, open>>

(* The handler answers; a checker that returns has closed its connection. *)
Answer(code) ==
    /\ stage' = "done"
    /\ reply' = code
    /\ open' = {}
    /\ UNCHANGED <<index, deadline, verdict>>

(* HealthHandler.Ready: 405 for any other method. *)
Arrive ==
    /\ stage = "arrived"
    /\ \/ Answer(405)
       \/ /\ stage' = "next"
          /\ UNCHANGED <<index, deadline, verdict, open, reply>>
    /\ UNCHANGED <<world, files, connected, now>>

(* A plausible bug: a timeout left out of the configuration is none at all. *)
CheckTimeoutAsConfigured(s) == IF Configured[s] < 0 THEN 0 ELSE Configured[s]

CheckTimeout(s) == IF Configured[s] <= 0 THEN DefaultCheck ELSE Configured[s]

(* A plausible bug: the check's context is not derived from the request's. *)
CheckDeadlineOfItsOwn == now + CheckTimeout(Current)

(* context.WithTimeout(ctx, timeout): no later than the handler's deadline. *)
CheckDeadline ==
    LET own == now + CheckTimeout(Current)
    IN  IF own < ReadyTimeout THEN own ELSE ReadyTimeout

(* The credentials are read again for every check. *)
StartCheck ==
    /\ stage = "next"
    /\ IF files
       THEN /\ stage' = "dialling"
            /\ deadline' = CheckDeadline
            /\ verdict' = "none"
            /\ UNCHANGED <<index, open, reply>>
       ELSE Answer(503)
    /\ UNCHANGED <<world, files, connected, now>>

(* grpc.DialContext with WithBlock: again and again until someone listens. *)
Dialled ==
    /\ stage = "dialling"
    /\ condition[Current] # "down"
    /\ stage' = "asking"
    /\ open' = open \cup {Current}
    /\ UNCHANGED <<world, files, connected, now,
                   index, deadline, verdict, reply>>

(* A plausible bug: an answer is taken for a good one. *)
AnyAnswer == verdict \in {"serving", "refusing"}

Healthy == verdict = "serving"

(* A plausible bug: one checker too many. *)
LastCheckAfterAll == index > Len(Checkers)

LastCheck == index = Len(Checkers)

CheckPassed ==
    /\ stage = "asking"
    /\ Healthy
    /\ IF LastCheck
       THEN Answer(200)
       ELSE /\ index' = index + 1
            /\ stage' = "next"
            /\ open' = {}
            /\ UNCHANGED <<deadline, verdict, reply>>
    /\ UNCHANGED <<world, files, connected, now>>

(* NOT_SERVING, an error of the service, or a connection that broke. *)
CheckFailed ==
    /\ stage = "asking"
    /\ verdict # "none"
    /\ ~Healthy
    /\ Answer(503)
    /\ UNCHANGED <<world, files, connected, now>>

(* The context of the check is done, by its timeout or by the client. *)
CheckExpires ==
    /\ Waiting
    /\ now >= deadline \/ ~connected
    /\ Answer(503)
    /\ UNCHANGED <<world, files, connected, now>>

Handler == \/ Arrive \/ StartCheck \/ Dialled
           \/ CheckPassed \/ CheckFailed \/ CheckExpires

Next == \/ Handler
        \/ \E s \in Services, c \in Condition : Change(s, c)
        \/ ServiceAnswers \/ ClientLeaves \/ Tick

(* The handler's goroutine runs and its timers come.  A service may never
   answer. *)
Spec == Init /\ [][Next]_vars /\ WF_vars(Handler) /\ WF_vars(Tick)

-----------------------------------------------------------------------------
TypeOK ==
    /\ condition \in [Services -> Condition]
    /\ changes \in 0 .. MaxChanges
    /\ files \in BOOLEAN
    /\ connected \in BOOLEAN
    /\ now \in Nat
    /\ stage \in {"arrived", "next", "dialling", "asking", "done"}
    /\ index \in 1 .. Len(Checkers)
    /\ deadline \in Nat
    /\ verdict \in {"none", "serving", "refusing", "down"}
    /\ open \subseteq Services
    /\ reply \in {0, 200, 405, 503}
    /\ served \subseteq Services
    /\ troubled \subseteq Services

(* 200 is the truth: every service that is checked was serving at some time
   since the request came (multi_readiness.go:15).  It need not be true of one
   moment, since the services are asked in turn. *)
ReadyMeansServing ==
    reply = 200 => \A i \in DOMAIN Checkers : Checkers[i] \in served

(* 503 has a reason: a service was in trouble during the request, a check ran
   out of the time the configuration gives it or of the default, the handler's
   time was over, the files could not be read, or the client left. *)
NotReadyHasCause ==
    reply = 503 => \/ troubled # {}
                   \/ \E s \in Services :
                         now >= Configured[s] /\ Configured[s] > 0
                   \/ now >= DefaultCheck \/ now >= ReadyTimeout
                   \/ ~files
                   \/ ~connected

(* A check holds one connection at a time and leaves none behind, however it
   ends: probes that fail every few seconds would pile them up. *)
NoConnectionLeft ==
    /\ \A s, t \in open : s = t
    /\ stage # "asking" => open = {}

(* Every probe is answered before the handler's timeout has passed, whatever
   the services do, and not only after the sum of theirs (health.go:43). *)
AnsweredInTime == <>(reply # 0 /\ now <= ReadyTimeout)
=============================================================================
