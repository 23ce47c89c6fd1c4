-------------------------- MODULE ReadinessProofs --------------------------
(***************************************************************************)
(* What holds of Readiness for any services, checkers and timeouts.  That  *)
(* a probe is answered at all is liveness and left to TLC; that none goes  *)
(* on after the handler's timeout is proved.                               *)
(***************************************************************************)
EXTENDS Readiness, TLAPS

(* A check that has passed was told "serving" during this request. *)
PassedInv ==
    /\ \A i \in 1 .. index - 1 : Checkers[i] \in served
    /\ verdict = "serving" /\ stage = "asking" => Current \in served
    /\ reply = 200 => \A i \in 1 .. Len(Checkers) : Checkers[i] \in served

(* A service is in trouble now only if the history says so. *)
HistoryInv ==
    \A s \in Services : /\ condition[s] = "serving" => s \in served
                        /\ condition[s] # "serving" => s \in troubled

(* A bad verdict was given by a service in trouble, and each check waits for a
   verdict of its own. *)
VerdictInv == /\ verdict \in {"refusing", "down"} => troubled # {}
              /\ stage = "dialling" => verdict = "none"

(* A check ends no later than the handler's timeout and no earlier than the
   least of the timeouts. *)
DeadlineInv ==
    /\ now <= ReadyTimeout
    /\ Waiting =>
         /\ now <= deadline /\ deadline <= ReadyTimeout
         /\ \/ deadline >= ReadyTimeout \/ deadline >= DefaultCheck
            \/ \E s \in Services :
                  deadline >= Configured[s] /\ Configured[s] > 0

(* The answer ends the request. *)
AnswerInv == reply # 0 <=> stage = "done"

(* What the invariant says beside the types. *)
Facts == /\ PassedInv
         /\ HistoryInv
         /\ VerdictInv
         /\ DeadlineInv
         /\ AnswerInv
         /\ NotReadyHasCause
         /\ NoConnectionLeft

(* The inductive invariant. *)
IInv == TypeOK /\ Facts

(* The checkers by number. *)
LEMMA CheckerTypes ==
  /\ Len(Checkers) \in Nat /\ Len(Checkers) >= 1
  /\ DOMAIN Checkers = 1 .. Len(Checkers)
  /\ \A i \in 1 .. Len(Checkers) : Checkers[i] \in Services
  BY ReadinessAssumption

(* The checker at work asks one of the services. *)
LEMMA CurrentService == TypeOK => Current \in Services
  BY CheckerTypes DEF TypeOK, Current

(* A check is given some time, either its own or the default. *)
LEMMA CheckTimeoutBounds ==
  ASSUME NEW s \in Services
  PROVE  /\ CheckTimeout(s) \in Nat /\ CheckTimeout(s) > 0
         /\ \/ CheckTimeout(s) = DefaultCheck
            \/ CheckTimeout(s) = Configured[s] /\ Configured[s] > 0
<1>1. Configured[s] \in Int /\ DefaultCheck \in Nat /\ DefaultCheck > 0
      BY ReadinessAssumption
<1> QED BY <1>1 DEF CheckTimeout

(* A check's deadline is no later than the handler's, and leaves it the time
   of its configuration if the handler has that. *)
LEMMA CheckDeadlineBounds ==
  ASSUME TypeOK, now <= ReadyTimeout
  PROVE  /\ CheckDeadline \in Nat
         /\ now <= CheckDeadline /\ CheckDeadline <= ReadyTimeout
         /\ \/ CheckDeadline >= ReadyTimeout \/ CheckDeadline >= DefaultCheck
            \/ \E s \in Services :
                 CheckDeadline >= Configured[s] /\ Configured[s] > 0
<1>1. Current \in Services
      BY CurrentService
<1> DEFINE t == CheckTimeout(Current)
<1>2. /\ t \in Nat /\ t > 0
      /\ \/ t = DefaultCheck
         \/ t = Configured[Current] /\ Configured[Current] > 0
      BY <1>1, CheckTimeoutBounds
<1>3. now \in Nat /\ ReadyTimeout \in Nat /\ DefaultCheck \in Nat
      BY ReadinessAssumption DEF TypeOK
<1>4. CheckDeadline = IF now + t < ReadyTimeout THEN now + t ELSE ReadyTimeout
      BY DEF CheckDeadline
<1> HIDE DEF t
<1>5. CASE now + t < ReadyTimeout
  <2>1. CheckDeadline = now + t /\ CheckDeadline >= t
    BY <1>2, <1>3, <1>4, <1>5
  <2>2. \/ CheckDeadline >= DefaultCheck
        \/ CheckDeadline >= Configured[Current] /\ Configured[Current] > 0
    BY <1>2, <2>1
  <2> QED BY <1>1, <1>2, <1>3, <1>5, <2>1, <2>2
<1>6. CASE ~(now + t < ReadyTimeout)
      BY <1>3, <1>4, <1>6
<1> QED BY <1>5, <1>6

(* The initial states. *)
LEMMA InitIInv == Init => IInv
<1> SUFFICES ASSUME Init PROVE IInv
    OBVIOUS
<1>1. files \in BOOLEAN /\ connected \in BOOLEAN
      BY Zenon DEF Init
<1>2. TypeOK
      BY <1>1, CheckerTypes, ReadinessAssumption DEF Init, TypeOK
<1>3. HistoryInv
      BY DEF Init, HistoryInv
<1>4. PassedInv /\ VerdictInv /\ DeadlineInv
      BY CheckerTypes, ReadinessAssumption
         DEF Init, PassedInv, VerdictInv, DeadlineInv, Waiting
<1>5. AnswerInv /\ NotReadyHasCause /\ NoConnectionLeft
      BY DEF Init, AnswerInv, NotReadyHasCause, NoConnectionLeft
<1> QED BY <1>2, <1>3, <1>4, <1>5 DEF IInv, Facts

(* Every step keeps the types. *)
LEMMA TypeStep == TypeOK /\ Facts /\ [Next]_vars => TypeOK'
<1> SUFFICES ASSUME TypeOK, Facts, [Next]_vars PROVE TypeOK'
    OBVIOUS
<1>a. files' \in BOOLEAN /\ connected' \in BOOLEAN
  <2>1. files' = files /\ (connected' = connected \/ connected' = FALSE)
    BY DEF Next, Handler, vars, world, handler, Change, Arrive, StartCheck,
       Dialled, CheckPassed, CheckFailed, CheckExpires, ServiceAnswers,
       ClientLeaves, Tick
  <2> QED BY Zenon, <2>1 DEF TypeOK
<1>b. Current \in Services /\ Len(Checkers) \in Nat
      BY CurrentService, CheckerTypes
<1>c. CheckDeadline \in Nat
      BY CheckDeadlineBounds DEF Facts, DeadlineInv
<1> USE <1>a, ReadinessAssumption DEF TypeOK, world, handler, Answer
<1>1. ASSUME NEW s \in Services, NEW c \in Condition, Change(s, c)
      PROVE  TypeOK'
      BY <1>1 DEF Change
<1>2. CASE Arrive
      BY <1>2 DEF Arrive
<1>3. CASE StartCheck
      BY <1>3, <1>c DEF StartCheck
<1>4. CASE Dialled
      BY <1>4, <1>b DEF Dialled
<1>5. CASE CheckPassed
      BY <1>5, <1>b DEF CheckPassed, LastCheck
<1>6. CASE CheckFailed
      BY <1>6 DEF CheckFailed
<1>7. CASE CheckExpires
      BY <1>7 DEF CheckExpires
<1>8. CASE ServiceAnswers
      BY <1>8, <1>b DEF ServiceAnswers, Condition
<1>9. CASE ClientLeaves
      BY <1>9 DEF ClientLeaves
<1>10. CASE Tick
      BY <1>10 DEF Tick
<1>11. CASE UNCHANGED vars
      BY <1>11 DEF vars
<1> QED
      BY <1>1, <1>2, <1>3, <1>4, <1>5, <1>6, <1>7, <1>8, <1>9, <1>10, <1>11
         DEF Next, Handler

(* The history records every condition. *)
LEMMA HistoryStep == TypeOK /\ Facts /\ [Next]_vars => HistoryInv'
<1> SUFFICES ASSUME TypeOK, Facts, [Next]_vars PROVE HistoryInv'
    OBVIOUS
<1> USE DEF Facts, HistoryInv, world, handler
<1>1. ASSUME NEW s \in Services, NEW c \in Condition, Change(s, c)
      PROVE  HistoryInv'
      BY <1>1 DEF Change, TypeOK
<1>2. ASSUME ~\E s \in Services, c \in Condition : Change(s, c)
      PROVE  HistoryInv'
      BY <1>2 DEF
         Next, Handler, vars, Arrive, StartCheck, Dialled, CheckPassed,
         CheckFailed, CheckExpires, ServiceAnswers, ClientLeaves, Tick
<1> QED BY <1>1, <1>2

(* What was serving once stays so in the history. *)
LEMMA PassedStep == TypeOK /\ Facts /\ [Next]_vars => PassedInv'
<1> SUFFICES ASSUME TypeOK, Facts, [Next]_vars PROVE PassedInv'
    OBVIOUS
<1>a. Current \in Services /\ Len(Checkers) \in Nat
      BY CurrentService, CheckerTypes
<1> USE <1>a DEF Facts, PassedInv, Current, TypeOK, world, handler, Answer
<1>1. CASE StartCheck
      BY <1>1 DEF StartCheck
<1>2. CASE Dialled
      BY <1>2 DEF Dialled, VerdictInv
<1>3. CASE CheckPassed
      BY <1>3 DEF CheckPassed, LastCheck, Healthy
<1>4. CASE ServiceAnswers
      BY <1>4 DEF ServiceAnswers, HistoryInv
<1>5. CASE ~(StartCheck \/ Dialled \/ CheckPassed \/ ServiceAnswers)
      BY <1>5 DEF
         Next, Handler, vars, Change, Arrive, CheckFailed, CheckExpires,
         ClientLeaves, Tick
<1> QED BY <1>1, <1>2, <1>3, <1>4, <1>5

(* A bad verdict is the service's at the time. *)
LEMMA VerdictStep == TypeOK /\ Facts /\ [Next]_vars => VerdictInv'
<1> SUFFICES ASSUME TypeOK, Facts, [Next]_vars PROVE VerdictInv'
    OBVIOUS
<1>a. Current \in Services
      BY CurrentService
<1> USE <1>a DEF Facts, VerdictInv, world, handler, Answer
<1>1. CASE StartCheck
      BY <1>1 DEF StartCheck
<1>2. CASE Dialled
      BY <1>2 DEF Dialled
<1>3. CASE ServiceAnswers
      BY <1>3 DEF ServiceAnswers, HistoryInv
<1>4. CASE ~(StartCheck \/ ServiceAnswers \/ Dialled)
      BY <1>4 DEF
         Next, Handler, vars, Change, Arrive, CheckPassed, CheckFailed,
         CheckExpires, ClientLeaves, Tick
<1> QED BY <1>1, <1>2, <1>3, <1>4

(* Time does not pass the deadline of the check that waits. *)
LEMMA DeadlineStep == TypeOK /\ Facts /\ [Next]_vars => DeadlineInv'
<1> SUFFICES ASSUME TypeOK, Facts, [Next]_vars PROVE DeadlineInv'
    OBVIOUS
<1>a. now \in Nat /\ deadline \in Nat /\ ReadyTimeout \in Nat
      BY ReadinessAssumption DEF TypeOK
<1>b. now <= ReadyTimeout
      BY DEF Facts, DeadlineInv
<1> USE <1>a, <1>b DEF Facts, DeadlineInv, Waiting, world, handler, Answer
<1>1. CASE StartCheck
      BY <1>1, CheckDeadlineBounds DEF StartCheck
<1>2. CASE Tick
      BY <1>2 DEF Tick
<1>3. CASE ~(StartCheck \/ Tick)
      BY <1>3 DEF
         Next, Handler, vars, Change, Arrive, Dialled, CheckPassed,
         CheckFailed, CheckExpires, ServiceAnswers, ClientLeaves
<1> QED BY <1>1, <1>2, <1>3

(* The answer is the last step of the handler. *)
LEMMA AnswerStep == TypeOK /\ Facts /\ [Next]_vars => AnswerInv'
<1> SUFFICES ASSUME TypeOK, Facts, [Next]_vars PROVE AnswerInv'
    OBVIOUS
<1> USE DEF Facts, AnswerInv, world, handler, Answer
<1>1. ASSUME NEW s \in Services, NEW c \in Condition, Change(s, c)
      PROVE  AnswerInv'
      BY <1>1 DEF Change
<1>2. ASSUME ~\E s \in Services, c \in Condition : Change(s, c)
      PROVE  AnswerInv'
      BY <1>2 DEF
         Next, Handler, vars, Arrive, StartCheck, Dialled, CheckPassed,
         CheckFailed, CheckExpires, ServiceAnswers, ClientLeaves, Tick,
         Waiting
<1> QED BY <1>1, <1>2

(* A 503 has its cause when it is given, and keeps it. *)
LEMMA CauseStep == TypeOK /\ Facts /\ [Next]_vars => NotReadyHasCause'
<1> SUFFICES ASSUME TypeOK, Facts, [Next]_vars PROVE NotReadyHasCause'
    OBVIOUS
<1>a. now \in Nat /\ deadline \in Nat
      BY DEF TypeOK
<1> USE <1>a DEF Facts, NotReadyHasCause, AnswerInv, world, handler, Answer
<1>1. CASE CheckFailed
      BY <1>1 DEF CheckFailed, TypeOK, VerdictInv, Healthy
<1>2. CASE CheckExpires
      BY <1>2 DEF CheckExpires, Waiting, DeadlineInv
<1>3. CASE ~(CheckFailed \/ CheckExpires)
      BY <1>3 DEF
         Next, Handler, vars, Change, Arrive, StartCheck, Dialled,
         CheckPassed, ServiceAnswers, ClientLeaves, Tick, Waiting
<1> QED BY <1>1, <1>2, <1>3

(* The connection of a check is closed when the check returns. *)
LEMMA ConnectionStep == TypeOK /\ Facts /\ [Next]_vars => NoConnectionLeft'
<1> SUFFICES ASSUME TypeOK, Facts, [Next]_vars PROVE NoConnectionLeft'
    OBVIOUS
<1> USE DEF Facts, NoConnectionLeft, world, handler, Answer
<1>1. CASE Dialled
      BY <1>1 DEF Dialled
<1>2. CASE ~(Dialled)
      BY <1>2 DEF
         Next, Handler, vars, Change, Arrive, StartCheck, CheckPassed,
         CheckFailed, CheckExpires, ServiceAnswers, ClientLeaves, Tick,
         Waiting
<1> QED BY <1>1, <1>2

(* The facts together. *)
LEMMA NextIInv == IInv /\ [Next]_vars => IInv'
<1> SUFFICES ASSUME TypeOK, Facts, [Next]_vars PROVE TypeOK' /\ Facts'
    BY DEF IInv
<1>1. TypeOK' /\ PassedInv' /\ HistoryInv' /\ VerdictInv'
      BY TypeStep, PassedStep, HistoryStep, VerdictStep
<1>2. DeadlineInv' /\ AnswerInv' /\ NotReadyHasCause' /\ NoConnectionLeft'
      BY DeadlineStep, AnswerStep, CauseStep, ConnectionStep
<1> QED BY <1>1, <1>2 DEF Facts

(* The inductive invariant holds of every state. *)
THEOREM ReadinessInvariant == Spec => []IInv
<1> QED BY InitIInv, NextIInv, PTL DEF Spec

(* Every variable of the probe keeps its type (Readiness!TypeOK). *)
THEOREM ReadinessTypeCorrect == Spec => []TypeOK
<1>1. IInv => TypeOK
      BY DEF IInv
<1> QED BY <1>1, ReadinessInvariant, PTL

(* A 200 of /ready is the truth about every service that is checked
   (multi_readiness.go:15 stops at the first error). *)
THEOREM ReadyMeansServingHolds == Spec => []ReadyMeansServing
<1>1. IInv => ReadyMeansServing
      BY CheckerTypes DEF IInv, Facts, PassedInv, ReadyMeansServing
<1> QED BY <1>1, ReadinessInvariant, PTL

(* A 503 of /ready has a reason, and the absence of a configured timeout is
   none (the default of each checker). *)
THEOREM NotReadyHasCauseHolds == Spec => []NotReadyHasCause
<1>1. IInv => NotReadyHasCause
      BY DEF IInv, Facts
<1> QED BY <1>1, ReadinessInvariant, PTL

(* No check leaves a connection behind (defer conn.Close of each checker). *)
THEOREM NoConnectionLeftHolds == Spec => []NoConnectionLeft
<1>1. IInv => NoConnectionLeft
      BY DEF IInv, Facts
<1> QED BY <1>1, ReadinessInvariant, PTL

(* No probe goes on after the handler's timeout, however many checks there are
   and whatever timeouts they are given (health.go:43): the safety half of
   AnsweredInTime. *)
THEOREM NeverOverdue == Spec => [](now <= ReadyTimeout)
<1>1. IInv => now <= ReadyTimeout
      BY DEF IInv, Facts, DeadlineInv
<1> QED BY <1>1, ReadinessInvariant, PTL
=============================================================================
