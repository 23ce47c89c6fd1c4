---------------------- MODULE LoginFailureLimitProofs ----------------------
(***************************************************************************)
(* Theorems about LoginFailureLimit, for every number of logins in flight, *)
(* every limit and every window.                                           *)
(***************************************************************************)
EXTENDS LoginFailureLimit, FiniteSetTheorems, TLAPS

\* The workers whose request may still add a failure to the key: they were not
\* refused, and did not read a count at the limit.
MayFail == {w \in Worker : \/ phase[w] = "checking" /\ seen[w] < Limit
                           \/ phase[w] \in {"login", "rejected"}}

\* Once the limit is reached, what may still be added is already in flight.
InFlightBound ==
  count >= Limit =>
    count + Cardinality(MayFail) <= Limit - 1 + Cardinality(Worker)

\* The failure that reached the limit in the present key, while Fail has not
\* returned.
Unwarned == {w \in current : phase[w] = "counted" /\ seen[w] = Limit}

\* A key below the limit has no block to warn about, and one at the limit has
\* one: either it is still to be logged, or it was logged.
WarnInv ==
  /\ \A w \in current : phase[w] = "counted" => seen[w] <= count
  /\ count < Limit => warnings = 0
  /\ warnings \in {0, 1}
  /\ \A a, b \in Unwarned : a = b
  /\ warnings = 1 => Unwarned = {}

\* What is about to be counted was refused by shop-auth.
GuessInv ==
  \A w \in Worker : phase[w] = "rejected" => verdict[w] = "Unauthenticated"

IInv == TypeOK /\ CounterExpires /\ InFlightBound /\ WarnInv /\ GuessInv

-----------------------------------------------------------------------------
\* Any set of workers has a size, and the size follows inclusion.
LEMMA WorkerSubset ==
  ASSUME NEW S \in SUBSET Worker, NEW T \in SUBSET S
  PROVE  /\ IsFiniteSet(S) /\ Cardinality(S) \in Nat
         /\ Cardinality(T) \in Nat
         /\ Cardinality(T) <= Cardinality(S)
<1>1. IsFiniteSet(S)
  BY WorkerAssumption, FS_Subset
<1>2. IsFiniteSet(T) /\ Cardinality(T) <= Cardinality(S)
  BY <1>1, FS_Subset
<1> QED
  BY <1>1, <1>2, FS_CardinalityType

\* Without one of its members a set of workers is smaller by one.
LEMMA WorkerRemove ==
  ASSUME NEW S \in SUBSET Worker, NEW w \in S
  PROVE  Cardinality(S \ {w}) = Cardinality(S) - 1
<1>1. IsFiniteSet(S)
  BY WorkerSubset
<1> QED
  BY <1>1, FS_RemoveElement

LEMMA InitIInv == Init => IInv
<1> SUFFICES ASSUME Init PROVE IInv
  OBVIOUS
<1>1. TypeOK
  BY ConfigAssumption DEF Init, TypeOK, Phase
<1>2. CounterExpires
  BY DEF Init, CounterExpires
<1>3. InFlightBound
  BY ConfigAssumption DEF Init, InFlightBound
<1>4. WarnInv
  BY DEF Init, WarnInv, Unwarned
<1>5. GuessInv
  BY DEF Init, GuessInv
<1> QED
  BY <1>1, <1>2, <1>3, <1>4, <1>5 DEF IInv

LEMMA TypeStep == TypeOK /\ [Next]_vars => TypeOK'
<1> SUFFICES ASSUME TypeOK, [Next]_vars PROVE TypeOK'
  OBVIOUS
<1> USE ConfigAssumption DEF TypeOK
<1>1. CASE Tick
  BY <1>1 DEF Tick
<1>2. ASSUME NEW w \in Worker, Step(w) PROVE TypeOK'
  <2>1. CASE ReadCount(w)
    BY <2>1 DEF ReadCount, Goto, Phase
  <2>2. CASE Fail(w)
    BY <2>2 DEF Fail, Goto, Phase
  <2>3. CASE FailReturns(w)
    BY <2>3 DEF FailReturns, Goto, Phase
  <2>4. CASE \/ CheckPasses(w) \/ CheckRefuses(w) \/ CheckFails(w)
             \/ LoginNotAsked(w) \/ LoginAnswered(w) \/ FailLost(w)
             \/ Leave(w)
    BY <2>4 DEF CheckPasses, CheckRefuses, CheckFails, LoginNotAsked,
                LoginAnswered, FailLost, Leave, Goto, Phase
  <2> QED
    BY <1>2, <2>1, <2>2, <2>3, <2>4 DEF Step
<1>3. CASE UNCHANGED vars
  BY <1>3 DEF vars
<1> QED
  BY <1>1, <1>2, <1>3 DEF Next

\* The transaction sets value and expiry together, and both go together.
LEMMA CounterExpiresStep ==
  TypeOK /\ CounterExpires /\ [Next]_vars => CounterExpires'
<1> SUFFICES ASSUME TypeOK, CounterExpires, [Next]_vars PROVE CounterExpires'
  OBVIOUS
<1> USE ConfigAssumption DEF TypeOK, CounterExpires
<1>1. CASE Tick
  BY <1>1 DEF Tick
<1>2. ASSUME NEW w \in Worker, Fail(w) PROVE CounterExpires'
  BY <1>2 DEF Fail
<1>3. CASE UNCHANGED <<count, ttl>>
  BY <1>3
<1>4. Tick \/ (\E w \in Worker : Fail(w)) \/ UNCHANGED <<count, ttl>>
  BY DEF Next, Step, vars, ReadCount, CheckPasses, CheckRefuses, CheckFails,
         LoginNotAsked, LoginAnswered, FailReturns, FailLost, Leave
<1> QED
  BY <1>1, <1>2, <1>3, <1>4

\* While the count stays at the limit or above, nobody joins MayFail, and each
\* counted failure takes its worker out of it.
LEMMA InFlightBoundStep ==
  TypeOK /\ CounterExpires /\ InFlightBound /\ [Next]_vars => InFlightBound'
<1> SUFFICES ASSUME TypeOK, CounterExpires, InFlightBound, [Next]_vars,
                    count' >= Limit
             PROVE  count' + Cardinality(MayFail')
                      <= Limit - 1 + Cardinality(Worker)
  BY DEF InFlightBound
<1>0. /\ Cardinality(MayFail) \in Nat /\ Cardinality(MayFail') \in Nat
      /\ Cardinality(Worker) \in Nat
      /\ MayFail \in SUBSET Worker /\ MayFail' \in SUBSET Worker
  BY WorkerSubset DEF MayFail
<1>1. ASSUME NEW w \in Worker, Fail(w)
      PROVE  count' + Cardinality(MayFail')
               <= Limit - 1 + Cardinality(Worker)
  <2>1. w \in MayFail /\ MayFail' \subseteq MayFail \ {w}
    BY <1>1 DEF Fail, Goto, MayFail, TypeOK
  <2>2. Cardinality(MayFail \ {w}) = Cardinality(MayFail) - 1
    BY <1>0, <2>1, WorkerRemove
  <2>3. Cardinality(MayFail') <= Cardinality(MayFail \ {w})
    BY <1>0, <2>1, WorkerSubset
  <2>4. Cardinality(MayFail) <= Cardinality(Worker)
    BY <1>0, WorkerSubset
  <2>5. count' = count + 1 /\ count \in Nat
    BY <1>1 DEF Fail, TypeOK
  <2>6. CASE count >= Limit
    BY <1>0, <2>2, <2>3, <2>5, <2>6, ConfigAssumption DEF InFlightBound
  <2>7. CASE ~(count >= Limit)
    <3>1. count' = Limit
      BY <2>5, <2>7, ConfigAssumption
    <3> QED
      BY <1>0, <2>2, <2>3, <2>4, <3>1, ConfigAssumption
  <2> QED
    BY <2>6, <2>7
<1>2. CASE ~\E w \in Worker : Fail(w)
  <2>1. count' = count /\ count \in Nat
    BY <1>2, ConfigAssumption
       DEF Next, Step, vars, Tick, ReadCount, CheckPasses, CheckRefuses,
           CheckFails, LoginNotAsked, LoginAnswered, FailReturns, FailLost,
           Leave, TypeOK
  <2>2. MayFail' \subseteq MayFail
    <3>1. ttl # 0
      BY <2>1, ConfigAssumption DEF CounterExpires, TypeOK
    <3>2. ASSUME NEW w \in Worker, Step(w) PROVE MayFail' \subseteq MayFail
      BY <1>2, <2>1, <3>1, <3>2, ConfigAssumption
         DEF Step, ReadCount, CheckPasses, CheckRefuses, CheckFails,
             LoginNotAsked, LoginAnswered, FailReturns, FailLost, Leave,
             Goto, MayFail, TypeOK
    <3>3. CASE UNCHANGED <<phase, seen>>
      BY <3>3 DEF MayFail
    <3> QED
      BY <3>2, <3>3 DEF Next, Tick, vars
  <2>3. Cardinality(MayFail') <= Cardinality(MayFail)
    BY <1>0, <2>2, WorkerSubset
  <2> QED
    BY <1>0, <2>1, <2>3, ConfigAssumption DEF InFlightBound
<1> QED
  BY <1>1, <1>2

\* INCR hands out each count once, so one failure alone reaches the limit; it
\* leaves Unwarned when Fail returns.
LEMMA WarnInvStep ==
  TypeOK /\ WarnInv /\ [Next]_vars => WarnInv'
<1> SUFFICES ASSUME TypeOK, WarnInv, [Next]_vars PROVE WarnInv'
  OBVIOUS
<1> USE ConfigAssumption DEF TypeOK
<1>1. CASE Tick
  <2>1. CASE ttl = 1
    BY <1>1, <2>1 DEF Tick, WarnInv, Unwarned
  <2>2. CASE ttl # 1
    BY <1>1, <2>2 DEF Tick, WarnInv, Unwarned
  <2> QED
    BY <2>1, <2>2
<1>2. ASSUME NEW w \in Worker, Fail(w) PROVE WarnInv'
  <2>1. /\ count' = count + 1 /\ warnings' = warnings
        /\ current' = current \cup {w}
        /\ phase' = [phase EXCEPT ![w] = "counted"]
        /\ seen' = [seen EXCEPT ![w] = count + 1]
    BY <1>2 DEF Fail, Goto
  <2>2. \A a \in current' : phase'[a] = "counted" => seen'[a] <= count'
    BY <2>1 DEF WarnInv
  <2>3. CASE count + 1 = Limit
    <3>1. \A a \in Unwarned' : a = w
      BY <2>1, <2>3 DEF Unwarned, WarnInv
    <3> QED
      BY <2>1, <2>2, <2>3, <3>1 DEF WarnInv
  <2>4. CASE count + 1 # Limit
    <3>1. Unwarned' \subseteq Unwarned
      BY <2>1, <2>4 DEF Unwarned
    <3> QED
      BY <2>1, <2>2, <2>4, <3>1 DEF WarnInv
  <2> QED
    BY <2>3, <2>4
<1>3. ASSUME NEW w \in Worker, FailReturns(w) PROVE WarnInv'
  <2>1. /\ count' = count /\ current' = current /\ seen' = seen
        /\ phase[w] = "counted"
        /\ phase' = [phase EXCEPT ![w] = "idle"]
    BY <1>3 DEF FailReturns, Goto
  <2>2. Unwarned' = Unwarned \ {w}
    BY <2>1 DEF Unwarned
  <2>3. \A a \in current' : phase'[a] = "counted" => seen'[a] <= count'
    BY <2>1 DEF WarnInv
  <2>4. CASE w \in Unwarned
    <3>1. warnings' = warnings + 1 /\ warnings = 0
      BY <1>3, <2>4 DEF FailReturns, BlockedNow, Unwarned, WarnInv
    <3>2. Unwarned' = {} /\ ~(count < Limit)
      BY <2>2, <2>4 DEF WarnInv, Unwarned
    <3> QED
      BY <2>1, <2>3, <3>1, <3>2 DEF WarnInv
  <2>5. CASE w \notin Unwarned
    <3>1. warnings' = warnings
      BY <1>3, <2>1, <2>5 DEF FailReturns, BlockedNow, Unwarned
    <3> QED
      BY <2>1, <2>2, <2>3, <3>1 DEF WarnInv
  <2> QED
    BY <2>4, <2>5
<1>4. ASSUME NEW w \in Worker, ReadCount(w) PROVE WarnInv'
  <2>1. /\ UNCHANGED <<count, current, warnings>>
        /\ phase[w] = "idle"
        /\ phase' = [phase EXCEPT ![w] = "checking"]
        /\ seen' = [seen EXCEPT ![w] = count]
    BY <1>4 DEF ReadCount, Goto
  <2>2. Unwarned' = Unwarned
    BY <2>1 DEF Unwarned
  <2> QED
    BY <2>1, <2>2 DEF WarnInv
<1>5. ASSUME NEW w \in Worker,
             \/ CheckPasses(w) \/ CheckRefuses(w) \/ CheckFails(w)
             \/ LoginNotAsked(w) \/ LoginAnswered(w) \/ FailLost(w)
             \/ Leave(w)
      PROVE  WarnInv'
  <2>1. UNCHANGED <<count, current, warnings, seen>>
    BY <1>5 DEF CheckPasses, CheckRefuses, CheckFails, LoginNotAsked,
                LoginAnswered, FailLost, Leave
  <2>2. \A a \in Worker : phase'[a] = "counted" => phase[a] = "counted"
    BY <1>5 DEF CheckPasses, CheckRefuses, CheckFails, LoginNotAsked,
                LoginAnswered, FailLost, Leave, Goto
  <2>3. Unwarned' \subseteq Unwarned
    BY <2>1, <2>2 DEF Unwarned
  <2> QED
    BY <2>1, <2>2, <2>3 DEF WarnInv
<1>6. CASE UNCHANGED vars
  BY <1>6 DEF vars, WarnInv, Unwarned
<1> QED
  BY <1>1, <1>2, <1>3, <1>4, <1>5, <1>6 DEF Next, Step

\* A 401 of the login handler is shop-auth's refusal.
LEMMA RefusalStatus ==
  \A c \in Code : AuthStatus(c) = 401 => c = "Unauthenticated"
  BY DEF AuthStatus, Code, Refusal, LostCall

LEMMA GuessInvStep == TypeOK /\ GuessInv /\ [Next]_vars => GuessInv'
<1> SUFFICES ASSUME TypeOK, GuessInv, [Next]_vars PROVE GuessInv'
  OBVIOUS
<1> USE DEF GuessInv
<1>1. ASSUME NEW w \in Worker, LoginAnswered(w) PROVE GuessInv'
  <2>1. \/ \E c \in Code : /\ CountedStatus(AuthStatus(c))
                          /\ verdict' = [verdict EXCEPT ![w] = c]
                          /\ phase' = [phase EXCEPT ![w] = "rejected"]
        \/ verdict' = verdict /\ phase' = [phase EXCEPT ![w] = "idle"]
    BY <1>1 DEF LoginAnswered, Goto
  <2>2. ASSUME NEW c \in Code, CountedStatus(AuthStatus(c)),
               verdict' = [verdict EXCEPT ![w] = c],
               phase' = [phase EXCEPT ![w] = "rejected"]
        PROVE  GuessInv'
    <3>1. c = "Unauthenticated"
      BY <2>2, RefusalStatus DEF CountedStatus
    <3> QED
      BY <2>2, <3>1 DEF TypeOK
  <2>3. CASE verdict' = verdict /\ phase' = [phase EXCEPT ![w] = "idle"]
    BY <2>3 DEF TypeOK
  <2> QED
    BY <2>1, <2>2, <2>3
<1>2. ASSUME NEW w \in Worker, FailReturns(w) \/ FailLost(w) PROVE GuessInv'
  BY <1>2 DEF FailReturns, FailLost, Goto, TypeOK
<1>3. ASSUME NEW w \in Worker,
             \/ ReadCount(w) \/ CheckPasses(w) \/ CheckRefuses(w)
             \/ CheckFails(w) \/ LoginNotAsked(w) \/ Fail(w) \/ Leave(w)
      PROVE  GuessInv'
  BY <1>3 DEF ReadCount, CheckPasses, CheckRefuses, CheckFails, LoginNotAsked,
              Fail, Leave, Goto, TypeOK
<1>4. CASE Tick
  BY <1>4 DEF Tick
<1>5. CASE UNCHANGED vars
  BY <1>5 DEF vars
<1> QED
  BY <1>1, <1>2, <1>3, <1>4, <1>5 DEF Next, Step

-----------------------------------------------------------------------------
(* The theorems.                                                           *)

LEMMA InvariantHolds == Spec => []IInv
<1>1. IInv /\ [Next]_vars => IInv'
  BY TypeStep, CounterExpiresStep, InFlightBoundStep, WarnInvStep, GuessInvStep
     DEF IInv
<1> QED
  BY <1>1, InitIInv, PTL DEF Spec

\* The variables keep their types; the time to live stays within the window.
THEOREM LoginTypeCorrect == Spec => []TypeOK
<1>1. IInv => TypeOK
  BY DEF IInv
<1> QED
  BY <1>1, InvariantHolds, PTL

\* While the limit is reached, what is counted and what may still be fits.
LEMMA FailureBoundOfIInv == IInv => FailureBound
<1> SUFFICES ASSUME IInv PROVE FailureBound
  OBVIOUS
<1>1. Cardinality(MayFail) \in Nat /\ Cardinality(Worker) \in Nat
  BY WorkerSubset DEF MayFail
<1>2. count \in Nat /\ InFlightBound
  BY DEF IInv, TypeOK
<1>3. CASE count >= Limit
  BY <1>1, <1>2, <1>3, ConfigAssumption DEF InFlightBound, FailureBound
<1>4. CASE ~(count >= Limit)
  BY <1>1, <1>2, <1>4, ConfigAssumption DEF FailureBound
<1> QED
  BY <1>3, <1>4

LEMMA FailureBoundKept == IInv' => FailureBound'
  BY FailureBoundOfIInv, PTL

\* The failures of one window overrun the limit by less than the number of
\* logins in flight at one time.
THEOREM FailureBoundHolds == Spec => []FailureBound
<1> QED
  BY FailureBoundOfIInv, InvariantHolds, PTL

\* There is never a key without a time to live, nor a failure forgotten before.
THEOREM CounterExpiresHolds == Spec => []CounterExpires
<1>1. IInv => CounterExpires
  BY DEF IInv
<1> QED
  BY <1>1, InvariantHolds, PTL

\* One block is logged at most once.
THEOREM WarnedOnceHolds == Spec => []WarnedOnce
<1>1. IInv => WarnedOnce
  BY DEF IInv, WarnInv, WarnedOnce
<1> QED
  BY <1>1, InvariantHolds, PTL

\* No failure prolongs a window that has begun.
THEOREM WindowIsFixed == Spec => WindowFromFirstFailure
<1>1. IInv /\ [Next]_vars => [count > 0 /\ count' > 0 => ttl' <= ttl]_vars
  <2> SUFFICES ASSUME IInv, [Next]_vars, count > 0, count' > 0
               PROVE  ttl' <= ttl
    OBVIOUS
  <2> USE ConfigAssumption DEF IInv, TypeOK, CounterExpires
  <2>1. CASE Tick
    BY <2>1 DEF Tick
  <2>2. ASSUME NEW w \in Worker, Fail(w) PROVE ttl' <= ttl
    BY <2>2 DEF Fail
  <2>3. CASE UNCHANGED ttl
    BY <2>3
  <2>4. Tick \/ (\E w \in Worker : Fail(w)) \/ UNCHANGED ttl
    BY DEF Next, Step, vars, ReadCount, CheckPasses, CheckRefuses, CheckFails,
           LoginNotAsked, LoginAnswered, FailReturns, FailLost, Leave
  <2> QED
    BY <2>1, <2>2, <2>3, <2>4
<1> QED
  BY <1>1, InvariantHolds, PTL DEF Spec, WindowFromFirstFailure

\* Only logins that shop-auth refused move an address towards its block.
THEOREM OnlyGuessesCountHolds == Spec => OnlyGuessesCount
<1>1. IInv /\ [Next]_vars
        => [count' > count =>
              \E w \in Worker : /\ phase[w] = "rejected"
                               /\ verdict[w] = "Unauthenticated"]_vars
  <2> SUFFICES ASSUME IInv, [Next]_vars, count' > count
               PROVE  \E w \in Worker : /\ phase[w] = "rejected"
                                        /\ verdict[w] = "Unauthenticated"
    OBVIOUS
  <2>1. count \in Nat
    BY DEF IInv, TypeOK
  <2>2. ~Tick /\ count' # count
    BY <2>1 DEF Tick
  <2>3. PICK w \in Worker : Fail(w)
    BY <2>2 DEF Next, Step, vars, ReadCount, CheckPasses, CheckRefuses,
           CheckFails, LoginNotAsked, LoginAnswered, FailReturns, FailLost,
           Leave
  <2> QED
    BY <2>3 DEF Fail, IInv, GuessInv
<1> QED
  BY <1>1, InvariantHolds, PTL DEF Spec, OnlyGuessesCount

-----------------------------------------------------------------------------
(* The refinement of FailureWindow.                                        *)

\* The values the mapping needs, and how many failures fit in a window.
LEMMA MappedValues ==
  ASSUME IInv
  PROVE  /\ count \in Nat /\ ttl \in Nat /\ warnings \in {0, 1}
         /\ Cardinality(Worker) \in Nat
         /\ count > 0 <=> ttl > 0
         /\ count <= Limit - 1 + Cardinality(Worker)
<1>1. FailureBound
  BY FailureBoundOfIInv
<1>2. Cardinality(Worker) \in Nat
  BY WorkerSubset
<1> QED
  BY <1>1, <1>2, ConfigAssumption
     DEF IInv, TypeOK, CounterExpires, WarnInv, FailureBound

\* A step that leaves count, time to live and warnings alone is a stutter.
LEMMA Stutter ==
  ASSUME UNCHANGED <<count, ttl, warnings>>
  PROVE  UNCHANGED Promise!vars
  BY DEF Promise!vars

LEMMA InitPromise == Init => Promise!Init
  BY DEF Init, Promise!Init

\* Fail begins a window or adds to it.
LEMMA FailStep ==
  ASSUME IInv, IInv', NEW w \in Worker, Fail(w)
  PROVE  Promise!Begin \/ Promise!CountOneMore
<1>1. count' = count + 1 /\ UNCHANGED warnings
  BY DEF Fail
<1>2. CASE count = 0
  <2>1. ttl = 0
    BY <1>2, MappedValues
  <2> QED
    BY <1>1, <1>2, <2>1 DEF Fail, Promise!Begin
<1>3. CASE count # 0
  <2>1. ttl # 0
    BY <1>3, MappedValues
  <2>2. count \in 1 .. (Limit + Cardinality(Worker) - 2)
    <3>1. count + 1 <= Limit - 1 + Cardinality(Worker)
      BY <1>1, FailureBoundKept DEF FailureBound
    <3> QED
      BY <1>3, <3>1, MappedValues, ConfigAssumption
  <2> QED
    BY <1>1, <2>1, <2>2 DEF Fail, Promise!CountOneMore
<1> QED
  BY <1>2, <1>3

\* The reply to Fail reports the block, if it is the failure that reached the
\* limit in the present key, and nothing else.
LEMMA FailReturnsStep ==
  ASSUME IInv, NEW w \in Worker, FailReturns(w)
  PROVE  Promise!Report \/ UNCHANGED Promise!vars
<1>1. UNCHANGED <<count, ttl>> /\ phase[w] = "counted"
  BY DEF FailReturns
<1>2. CASE BlockedNow(w) /\ w \in current
  <2>1. w \in Unwarned
    BY <1>1, <1>2 DEF BlockedNow, Unwarned
  <2>2. warnings = 0 /\ Limit <= count
    BY <1>1, <1>2, <2>1 DEF IInv, WarnInv, BlockedNow
  <2>3. warnings' = 1
    BY <1>2, <2>2 DEF FailReturns
  <2> QED
    BY <1>1, <2>2, <2>3, MappedValues, ConfigAssumption DEF Promise!Report
<1>3. CASE ~(BlockedNow(w) /\ w \in current)
  <2>1. UNCHANGED warnings
    BY <1>3 DEF FailReturns
  <2> QED
    BY <1>1, <2>1, Stutter
<1> QED
  BY <1>2, <1>3

LEMMA TickStep ==
  ASSUME IInv, Tick
  PROVE  Promise!TimePasses \/ Promise!Forget
<1>1. CASE ttl = 1
  BY <1>1 DEF Tick, Promise!Forget
<1>2. CASE ttl # 1
  BY <1>2, MappedValues DEF Tick, Promise!TimePasses
<1> QED
  BY <1>1, <1>2

LEMMA StepPromise ==
  IInv /\ IInv' /\ [Next]_vars => [Promise!Next]_(Promise!vars)
<1> SUFFICES ASSUME IInv, IInv', [Next]_vars
             PROVE  Promise!Next \/ UNCHANGED Promise!vars
  OBVIOUS
<1>1. CASE Tick
  BY <1>1, TickStep DEF Promise!Next
<1>2. ASSUME NEW w \in Worker, Fail(w) PROVE Promise!Next
  BY <1>2, FailStep DEF Promise!Next
<1>3. ASSUME NEW w \in Worker, FailReturns(w)
      PROVE  Promise!Next \/ UNCHANGED Promise!vars
  BY <1>3, FailReturnsStep DEF Promise!Next
<1>4. CASE UNCHANGED <<count, ttl, warnings>>
  BY <1>4, Stutter
<1>5. \/ Tick
      \/ \E w \in Worker : Fail(w) \/ FailReturns(w)
      \/ UNCHANGED <<count, ttl, warnings>>
  BY DEF Next, Step, vars, ReadCount, CheckPasses, CheckRefuses, CheckFails,
         LoginNotAsked, LoginAnswered, FailLost, Leave
<1> QED
  BY <1>1, <1>2, <1>3, <1>4, <1>5

\* The limiter implements FailureWindow for any number of logins in flight,
\* however their reads, logins, counts and replies interleave.
THEOREM LoginKeepsPromise == Spec => KeepsPromise
<1> QED
  BY InitPromise, InvariantHolds, StepPromise, PTL
     DEF Spec, Promise!Spec, KeepsPromise

=============================================================================
