------------------------ MODULE LifecycleProofs ------------------------
(***************************************************************************)
(* Lifecycle for any set of requests and any number of dial attempts: the  *)
(* types, and the three invariants its run checks.                         *)
(***************************************************************************)
EXTENDS Lifecycle, TLAPS

(* While the clients are dialled nothing else exists yet, and those that are
   open are the first ones. *)
DialInv ==
    stage \in {"dialling", "pausing"} =>
        /\ server = "none"
        /\ \E c \in Clients : open = 1 .. (c - 1)

(* From the last dial to the closing all the clients are open. *)
OpenInv ==
    stage \in {"built", "started", "waiting", "stopping", "draining",
               "flushing"} => open = Clients

(* Requests exist only while the server runs or after it did; it no longer
   accepts any once http.Server.Shutdown was called. *)
ServerInv ==
    /\ stage \in {"dialling", "pausing", "built"} =>
           server = "none" /\ active = {}
    /\ stage \in {"draining", "flushing", "closing"} => server # "listening"
    /\ stage = "exited" => active = {}

(* Main leaves the draining with nothing being served, or with an error. *)
DrainInv ==
    /\ expired => stage \in Stopping \cup {"exited"}
    /\ stage \in {"flushing", "closing"} =>
           active = {} \/ (expired /\ shutdownErr)

(* A request is cut only by an end of the process that is not clean, or after
   the draining failed. *)
CutInv ==
    /\ exit = "none" /\ stage # "closing" => cut = {}
    /\ exit = "none" /\ cut # {} => shutdownErr
    /\ exit = "ok" => cut = {}

IInv == /\ TypeOK
        /\ DialInv
        /\ OpenInv
        /\ ServerInv
        /\ DrainInv
        /\ CutInv
        /\ NothingLeftOpen

-----------------------------------------------------------------------------
(* The client being dialled is the one after those that are open. *)
LEMMA DialledIsNext ==
    ASSUME NEW c \in Clients, open = 1 .. (c - 1)
    PROVE  /\ Dialled = c
           /\ open \cup {Dialled} = 1 .. c
<1> DEFINE P(d) == d \notin open /\ 1 .. (d - 1) \subseteq open
<1>1. P(c)
  BY DEF Clients
<1>2. ASSUME NEW d \in Clients, P(d) PROVE d = c
  <2>1. ~(d < c)
    BY <1>2 DEF Clients
  <2>2. ~(c < d)
    BY <1>2 DEF Clients
  <2> QED BY <2>1, <2>2 DEF Clients
<1>3. Dialled = c
  BY <1>1, <1>2 DEF Dialled
<1> QED BY <1>3 DEF Clients

(* The initial state has the invariant. *)
LEMMA InitInv == Init => IInv
<1> SUFFICES ASSUME Init PROVE IInv
  OBVIOUS
<1>1. TypeOK
  <2>1. errCh \in BOOLEAN /\ expired \in BOOLEAN /\ shutdownErr \in BOOLEAN
    BY Zenon DEF Init
  <2> QED BY <2>1 DEF Init, TypeOK, Stages, Starting
<1>2. DialInv
  <2>1. open = 1 .. (1 - 1)
    BY DEF Init
  <2> QED BY <2>1 DEF Init, DialInv, Clients
<1>3. OpenInv /\ ServerInv /\ DrainInv /\ CutInv /\ NothingLeftOpen
  BY DEF Init, OpenInv, ServerInv, DrainInv, CutInv, NothingLeftOpen
<1> QED BY <1>1, <1>2, <1>3 DEF IInv

(* Every step preserves it. *)
LEMMA StepInv == IInv /\ [Next]_vars => IInv'
<1> SUFFICES ASSUME IInv, [Next]_vars PROVE IInv'
  OBVIOUS
<1> USE DEF IInv
<1>1. CASE DialSucceeds
  <2>1. PICK c \in Clients : open = 1 .. (c - 1)
    BY <1>1 DEF DialSucceeds, DialInv
  <2>2. open' = 1 .. c
    BY <1>1, <2>1, DialledIsNext DEF DialSucceeds
  <2>3. CASE c = 3
    <3>1. open' = Clients /\ stage' = "built"
      BY <1>1, <2>2, <2>3 DEF DialSucceeds, Clients
    <3> QED BY <1>1, <3>1, MaxRetriesAssumption
      DEF DialSucceeds, TypeOK, Stages, Starting, Stopping, DialInv, OpenInv,
          ServerInv, DrainInv, CutInv, NothingLeftOpen
  <2>4. CASE c # 3
    <3>1. c + 1 \in Clients /\ open' = 1 .. ((c + 1) - 1)
      BY <2>2, <2>4 DEF Clients
    <3>2. open' # Clients /\ open' \subseteq Clients
      BY <2>2, <2>4 DEF Clients
    <3>3. stage' = "dialling"
      BY <1>1, <3>2 DEF DialSucceeds
    <3>4. DialInv'
      BY <1>1, <3>1 DEF DialSucceeds, DialInv
    <3> QED BY <1>1, <3>2, <3>3, <3>4, MaxRetriesAssumption
      DEF DialSucceeds, TypeOK, Stages, Starting, Stopping, OpenInv,
          ServerInv, DrainInv, CutInv, NothingLeftOpen
  <2> QED BY <2>3, <2>4
<1>2. CASE DialFails
  BY <1>2, MaxRetriesAssumption
    DEF DialFails, TypeOK, Stages, Starting, Stopping, DialInv, OpenInv,
        ServerInv, DrainInv, CutInv, NothingLeftOpen
<1>3. CASE StartFails
  <2>1. PICK c \in Clients : open = 1 .. (c - 1)
    BY <1>3 DEF StartFails, DialInv
  <2>2. open' = {}
    BY <1>3, <2>1, DialledIsNext DEF StartFails, ClosedOnFailure
  <2> QED BY <1>3, <2>2
    DEF StartFails, EndProcess, TypeOK, Stages, Starting, Stopping, DialInv,
        OpenInv, ServerInv, DrainInv, CutInv, NothingLeftOpen
<1>4. CASE PauseEnds \/ Run \/ NotifyContext
  BY <1>4
    DEF PauseEnds, Run, NotifyContext, TypeOK, Stages, Starting, Stopping,
        DialInv, OpenInv, ServerInv, DrainInv, CutInv, NothingLeftOpen
<1>5. CASE ErrorReceived
  <2>1. errCh' \in BOOLEAN
    BY <1>5, Zenon DEF ErrorReceived
  <2> QED BY <1>5, <2>1
    DEF ErrorReceived, TypeOK, Stages, Starting, Stopping, DialInv, OpenInv,
        ServerInv, DrainInv, CutInv, NothingLeftOpen
<1>6. CASE StopServer \/ Drained \/ DrainTimesOut \/ FlushTracing
  BY <1>6
    DEF StopServer, Drained, DrainTimesOut, FlushTracing, TypeOK, Stages,
        Starting, Stopping, DialInv, OpenInv, ServerInv, DrainInv, CutInv,
        NothingLeftOpen
<1>7. CASE CloseClient
  <2>1. open' \subseteq open /\ cut' \subseteq cut \cup active
    BY <1>7 DEF CloseClient
  <2>2. cut' # {} => shutdownErr
    BY <1>7, <2>1 DEF CloseClient, DrainInv, CutInv, TypeOK
  <2> QED BY <1>7, <2>1, <2>2
    DEF CloseClient, TypeOK, Stages, Starting, Stopping, DialInv, OpenInv,
        ServerInv, DrainInv, CutInv, NothingLeftOpen
<1>8. CASE Exit
  BY <1>8
    DEF Exit, EndProcess, TypeOK, Stages, Starting, Stopping, DialInv,
        OpenInv, ServerInv, DrainInv, CutInv, NothingLeftOpen
<1>9. CASE Signal
  BY <1>9
    DEF Signal, EndProcess, TypeOK, Stages, Starting, Stopping, DialInv,
        OpenInv, ServerInv, DrainInv, CutInv, NothingLeftOpen
<1>10. CASE Listen
  BY <1>10
    DEF Listen, ShuttingDown, TypeOK, Stages, Starting, Stopping, DialInv,
        OpenInv, ServerInv, DrainInv, CutInv, NothingLeftOpen
<1>11. CASE ServerFails
  <2>1. errCh' \in BOOLEAN
    BY <1>11, Zenon DEF ServerFails
  <2> QED BY <1>11, <2>1
    DEF ServerFails, TypeOK, Stages, Starting, Stopping, DialInv, OpenInv,
        ServerInv, DrainInv, CutInv, NothingLeftOpen
<1>12. ASSUME NEW r \in Requests, RequestArrives(r) \/ RequestServed(r)
       PROVE  IInv'
  BY <1>12
    DEF RequestArrives, RequestServed, TypeOK, Stages, Starting, Stopping,
        DialInv, OpenInv, ServerInv, DrainInv, CutInv, NothingLeftOpen
<1>13. CASE DeadlinePasses
  BY <1>13
    DEF DeadlinePasses, TypeOK, Stages, Starting, Stopping, DialInv, OpenInv,
        ServerInv, DrainInv, CutInv, NothingLeftOpen
<1>14. CASE UNCHANGED vars
  BY <1>14
    DEF vars, TypeOK, DialInv, OpenInv, ServerInv, DrainInv, CutInv,
        NothingLeftOpen
<1> QED
  BY <1>1, <1>2, <1>3, <1>4, <1>5, <1>6, <1>7, <1>8, <1>9, <1>10, <1>11,
     <1>12, <1>13, <1>14 DEF Next, Main, Ended

LEMMA InvHolds == Spec => []IInv
BY InitInv, StepInv, PTL DEF Spec

-----------------------------------------------------------------------------
(* Type correctness of the process, for main.go, app.go and httpapp. *)
THEOREM LifecycleTypeCorrect == Spec => []TypeOK
<1>1. IInv => TypeOK
  BY DEF IInv
<1> QED BY InvHolds, <1>1, PTL

(* Every error branch of app.New and every path through App.Shutdown closes
   all the clients that were opened, whatever failed on the way. *)
THEOREM NothingLeftOpenHolds == Spec => []NothingLeftOpen
<1>1. IInv => NothingLeftOpen
  BY DEF IInv
<1> QED BY InvHolds, <1>1, PTL

(* Until the deadline of the shutdown, a request is served with all three
   clients open. *)
THEOREM ServedWithClientsHolds == Spec => []ServedWithClients
<1>1. IInv => ServedWithClients
  <2> SUFFICES ASSUME IInv, active # {}, ~expired PROVE open = Clients
    BY DEF ServedWithClients
  <2>1. stage \in {"started", "waiting", "stopping", "draining"}
    BY DEF IInv, TypeOK, Stages, Starting, Stopping, ServerInv, DrainInv
  <2> QED BY <2>1 DEF IInv, OpenInv
<1> QED BY InvHolds, <1>1, PTL

(* Exit status 0 means that no request was cut. *)
THEOREM CleanExitHolds == Spec => []CleanExitCutsNobody
<1>1. IInv => CleanExitCutsNobody
  BY DEF IInv, CutInv, CleanExitCutsNobody
<1> QED BY InvHolds, <1>1, PTL

-----------------------------------------------------------------------------
(* The refinement of GracefulService *)

(* The stages behind the modes. *)
LEMMA ModeOfStage ==
    ASSUME TypeOK
    PROVE  /\ Mode = "starting" <=> stage \in {"dialling", "pausing", "built"}
           /\ Mode = "up" <=> stage \in {"started", "waiting"}
           /\ Mode = "stopping" <=> stage \in Stopping
           /\ Mode = "over" <=> stage = "exited"
BY DEF Mode, TypeOK, Stages, Starting, Stopping

LEMMA ModeOfNextStage ==
    ASSUME TypeOK'
    PROVE  /\ Mode' = "starting" <=> stage' \in {"dialling", "pausing", "built"}
           /\ Mode' = "up" <=> stage' \in {"started", "waiting"}
           /\ Mode' = "stopping" <=> stage' \in Stopping
           /\ Mode' = "over" <=> stage' = "exited"
BY DEF Mode, TypeOK, Stages, Starting, Stopping

(* A step that nobody outside of the process sees is a stutter. *)
LEMMA Unseen ==
    ASSUME Mode' = Mode, UNCHANGED <<open, active, cut, expired, exit>>
    PROVE  UNCHANGED Promise!vars
BY DEF Promise!vars

LEMMA InitPromise == Init => Promise!Init
<1> SUFFICES ASSUME Init PROVE Promise!Init
  OBVIOUS
<1>1. TypeOK /\ stage = "dialling"
  BY InitInv DEF IInv, Init
<1>2. Mode = "starting"
  BY <1>1, ModeOfStage
<1> QED BY <1>2 DEF Init, Promise!Init

(* A request is taken, and served, by a process that is up or stopping; it is
   taken with every client open. *)
LEMMA RequestStep ==
    ASSUME IInv, IInv', NEW r \in Requests,
           RequestArrives(r) \/ RequestServed(r)
    PROVE  Promise!Accept(r) \/ Promise!Serve(r)
<1>1. TypeOK /\ TypeOK'
  BY DEF IInv
<1>2. UNCHANGED <<stage, open, cut, expired, exit>> /\ stage # "exited"
  BY <1>1 DEF RequestArrives, RequestServed, TypeOK
<1>3. Mode' = Mode
  BY <1>2 DEF Mode
<1>4. CASE RequestArrives(r)
  <2>1. server = "listening" /\ active' = active \cup {r}
    BY <1>4 DEF RequestArrives
  <2>2. stage \in {"started", "waiting", "stopping"}
    BY <1>1, <1>2, <2>1 DEF IInv, TypeOK, Stages, Starting, Stopping, ServerInv
  <2>3. Mode \in {"up", "stopping"} /\ open = Clients
    BY <1>1, <2>2, ModeOfStage DEF IInv, OpenInv, Stopping
  <2> QED BY <1>2, <1>3, <2>1, <2>3 DEF Promise!Accept
<1>5. CASE RequestServed(r)
  <2>1. r \in active /\ active' = active \ {r}
    BY <1>5 DEF RequestServed
  <2>2. stage \in {"started", "waiting"} \cup Stopping
    BY <1>1, <1>2, <2>1 DEF IInv, TypeOK, Stages, Starting, ServerInv
  <2>3. Mode \in {"up", "stopping"}
    BY <1>1, <2>2, ModeOfStage
  <2> QED BY <1>2, <1>3, <2>1, <2>3 DEF Promise!Serve
<1> QED BY <1>4, <1>5

(* A client is closed when nobody is served any more, or after the deadline. *)
LEMMA CloseStep ==
    ASSUME IInv, CloseClient
    PROVE  \E c \in Clients : Promise!CloseClient(c)
<1>1. PICK c \in open : open' = open \ {c}
  BY DEF CloseClient
<1>2. c \in Clients
  BY <1>1 DEF IInv, TypeOK
<1>3. UNCHANGED <<stage, active, expired, exit>> /\ stage = "closing"
  BY DEF CloseClient
<1>4. Mode = "stopping" /\ Mode' = Mode
  BY <1>3, ModeOfStage DEF IInv, Stopping, Mode
<1>5. active = {} \/ expired
  BY <1>3 DEF IInv, DrainInv
<1>6. \E lost \in SUBSET active : cut' = cut \cup lost
  BY DEF CloseClient
<1>7. Promise!CloseClient(c)
  BY <1>1, <1>3, <1>4, <1>5, <1>6 DEF Promise!CloseClient
<1> QED BY <1>2, <1>7

(* The ways a process ends. *)
LEMMA EndStep ==
    ASSUME IInv, IInv', StartFails \/ Exit \/ (Signal /\ stage' = "exited")
    PROVE  Promise!FailToStart \/ Promise!BeKilled \/ Promise!Finish
<1>1. TypeOK /\ TypeOK'
  BY DEF IInv
<1>2. CASE StartFails
  <2>1. Mode = "starting" /\ Mode' = "over"
    BY <1>1, <1>2, ModeOfStage, ModeOfNextStage DEF StartFails, EndProcess
  <2>2. open' = {}
    BY <1>2 DEF IInv, NothingLeftOpen, StartFails, EndProcess
  <2> QED BY <1>2, <2>1, <2>2
    DEF StartFails, EndProcess, Promise!FailToStart, Promise!End
<1>3. CASE Exit
  <2>1. Mode = "stopping" /\ Mode' = "over"
    BY <1>1, <1>3, ModeOfStage, ModeOfNextStage DEF Exit, EndProcess, Stopping
  <2>2. ~shutdownErr => active \cup cut = {}
    BY <1>1, <1>3 DEF Exit, IInv, TypeOK, DrainInv, CutInv
  <2>3. exit' = "error" \/ (exit' = "ok" /\ ~shutdownErr)
    BY <1>3 DEF Exit, EndProcess
  <2> QED BY <1>3, <2>1, <2>2, <2>3
    DEF Exit, EndProcess, Promise!Finish, Promise!End
<1>4. CASE Signal /\ stage' = "exited"
  <2>1. /\ stage \in Starting /\ EndProcess("killed")
        /\ UNCHANGED <<open, expired>>
    BY <1>4 DEF Signal
  <2>2. Mode \in {"starting", "up"} /\ Mode' = "over"
    BY <1>1, <1>4, <2>1, ModeOfStage, ModeOfNextStage DEF Starting
  <2> QED BY <2>1, <2>2 DEF EndProcess, Promise!BeKilled, Promise!End
<1> QED BY <1>2, <1>3, <1>4

(* The main goroutine opens the clients, is up, and begins to stop. *)
LEMMA AdvanceStep ==
    ASSUME IInv, IInv',
           \/ DialSucceeds \/ Run \/ ErrorReceived \/ DeadlinePasses
           \/ Signal /\ stage' # "exited"
    PROVE  \/ \E c \in Clients : Promise!OpenClient(c)
           \/ Promise!Up \/ Promise!Stop \/ Promise!TimeIsUp
<1>1. TypeOK /\ TypeOK'
  BY DEF IInv
<1>2. CASE DialSucceeds
  <2>1. PICK c \in Clients : open = 1 .. (c - 1)
    BY <1>2 DEF DialSucceeds, IInv, DialInv
  <2>2. open' = open \cup {c}
    BY <1>2, <2>1, DialledIsNext DEF DialSucceeds
  <2>3. stage = "dialling" /\ stage' \in {"dialling", "built"}
    BY <1>2 DEF DialSucceeds
  <2>4. Mode = "starting" /\ Mode' = "starting"
    BY <1>1, <2>3, ModeOfStage, ModeOfNextStage
  <2>5. Promise!OpenClient(c)
    BY <1>2, <2>2, <2>4 DEF DialSucceeds, Promise!OpenClient
  <2> QED BY <2>5
<1>3. CASE Run
  <2>1. Mode = "starting" /\ Mode' = "up"
    BY <1>1, <1>3, ModeOfStage, ModeOfNextStage DEF Run
  <2>2. open = Clients
    BY <1>3 DEF Run, IInv, OpenInv
  <2> QED BY <1>3, <2>1, <2>2 DEF Run, Promise!Up
<1>4. CASE ErrorReceived \/ (Signal /\ stage' # "exited")
  <2>1. /\ stage = "waiting" /\ stage' = "stopping"
        /\ UNCHANGED <<open, active, cut, expired, exit>>
    BY <1>4 DEF ErrorReceived, Signal, EndProcess
  <2>2. Mode = "up" /\ Mode' = "stopping"
    BY <1>1, <2>1, ModeOfStage, ModeOfNextStage DEF Stopping
  <2> QED BY <2>1, <2>2 DEF Promise!Stop
<1>5. CASE DeadlinePasses
  <2>1. Mode = "stopping" /\ Mode' = Mode
    BY <1>1, <1>5, ModeOfStage DEF DeadlinePasses, Mode
  <2> QED BY <1>5, <2>1 DEF DeadlinePasses, Promise!TimeIsUp
<1> QED BY <1>2, <1>3, <1>4, <1>5

(* Every step is a step of the promise or a stutter. *)
LEMMA StepPromise ==
    IInv /\ IInv' /\ [Next]_vars => [Promise!Next]_(Promise!vars)
<1> SUFFICES ASSUME IInv, IInv', [Next]_vars
             PROVE  Promise!Next \/ UNCHANGED Promise!vars
  OBVIOUS
<1>1. CASE DialSucceeds \/ Run \/ ErrorReceived \/ DeadlinePasses
  BY <1>1, AdvanceStep DEF Promise!Next
<1>2. CASE Signal
  BY <1>2, AdvanceStep, EndStep DEF Promise!Next
<1>3. CASE StartFails \/ Exit
  BY <1>3, EndStep DEF Promise!Next
<1>4. ASSUME NEW r \in Requests, RequestArrives(r) \/ RequestServed(r)
      PROVE  Promise!Next
  BY <1>4, RequestStep DEF Promise!Next
<1>5. CASE CloseClient
  BY <1>5, CloseStep DEF Promise!Next
<1>6. CASE \/ DialFails \/ PauseEnds \/ NotifyContext \/ StopServer
           \/ Drained \/ DrainTimesOut \/ FlushTracing \/ Listen
           \/ ServerFails \/ UNCHANGED vars
  <2>1. UNCHANGED <<open, active, cut, expired, exit>>
    BY <1>6 DEF DialFails, PauseEnds, NotifyContext, StopServer, Drained,
      DrainTimesOut, FlushTracing, Listen, ServerFails, vars
  <2>2. Mode' = Mode
    BY <1>6 DEF DialFails, PauseEnds, NotifyContext, StopServer, Drained,
      DrainTimesOut, FlushTracing, Listen, ServerFails, vars, Mode, Stopping
  <2> QED BY <2>1, <2>2, Unseen
<1> QED BY <1>1, <1>2, <1>3, <1>4, <1>5, <1>6 DEF Next, Main, Ended

(* The process implements GracefulService for any set of requests and any
   number of dial attempts (main.go, app.go, httpapp). *)
THEOREM LifecycleKeepsPromise == Spec => KeepsPromise
<1> QED BY InitPromise, InvHolds, StepPromise, PTL
        DEF Spec, Promise!Spec, KeepsPromise
=============================================================================
