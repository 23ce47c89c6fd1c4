------------------------ MODULE SlidingWindowProofs ------------------------
(***************************************************************************)
(* Theorems about SlidingWindow, for every set of requests, every limit    *)
(* and window, and every bound on delay, skew and retries.                 *)
(***************************************************************************)
EXTENDS SlidingWindow, FiniteSetTheorems, TLAPS

\* The entry the script writes for a request.
Entry(q) == [member |-> q, score |-> stamp[q]]

\* The sorted set never outgrows the limit.
SetBound == IsFiniteSet(zset) /\ Cardinality(zset) <= Limit

\* A clock reading is at most MaxSkew away from the time it was taken at, and
\* was taken in the past.
StampBound ==
  \A r \in Request :
    /\ sentAt[r] <= stamp[r]
    /\ stamp[r] <= sentAt[r] + MaxSkew
    /\ sentAt[r] <= clock

\* An admitted request was admitted at most MaxDelay after its reading, and
\* the key outlives the window that starts at its admission.
AdmitBound ==
  \A q \in Request : admitAt[q] # Never =>
    /\ phase[q] # "idle"
    /\ admitAt[q] <= clock
    /\ admitAt[q] <= sentAt[q] + MaxDelay
    /\ admitAt[q] + Window <= expireAt

\* What is too young to have been purged is still in the set.
RecentKept == \A q \in Recent : Entry(q) \in zset

\* The inductive invariant.
IInv == TypeOK /\ SetBound /\ StampBound /\ AdmitBound /\ RecentKept

-----------------------------------------------------------------------------
(* Lemmas.                                                                 *)

\* A set of requests that all have their entry in a finite set of entries is
\* no larger than that set: the members are unique.
LEMMA EntriesCount ==
  ASSUME NEW Z, IsFiniteSet(Z), NEW R \in SUBSET Request,
         \A q \in R : Entry(q) \in Z
  PROVE  IsFiniteSet(R) /\ Cardinality(R) <= Cardinality(Z)
<1> DEFINE f == [q \in R |-> Entry(q)]
<1>1. f \in [R -> Z]
  OBVIOUS
<1>2. \A a, b \in R : f[a] = f[b] => a = b
  BY DEF Entry
<1>3. f \in Injection(R, Z)
  BY <1>1, <1>2 DEF Injection, IsInjective
<1> QED
  BY <1>3, FS_Injection

\* The purge leaves a part of the set.
LEMMA PurgedSmaller ==
  ASSUME SetBound, NEW now
  PROVE  /\ Purged(now) \subseteq zset
         /\ IsFiniteSet(Purged(now))
         /\ Cardinality(Purged(now)) \in Nat
         /\ Cardinality(Purged(now)) <= Limit
<1>1. Purged(now) \subseteq zset
  BY DEF Purged, Live
<1>2. IsFiniteSet(Purged(now)) /\ Cardinality(Purged(now)) <= Cardinality(zset)
  BY <1>1, FS_Subset DEF SetBound
<1>3. Cardinality(Purged(now)) \in Nat /\ Cardinality(zset) \in Nat
  BY <1>2, FS_CardinalityType DEF SetBound
<1> QED
  BY <1>1, <1>2, <1>3, ConfigAssumption DEF SetBound

\* A script that executes in time purges no recently admitted request.
LEMMA RecentSurvives ==
  ASSUME IInv, NEW r \in Request, phase[r] = "calling", NEW q \in Recent
  PROVE  Entry(q) \in Purged(stamp[r])
<1>1. q \in Request /\ admitAt[q] # Never /\ admitAt[q] \in Nat
  BY DEF Recent, IInv, TypeOK
<1>2. clock < expireAt
  BY <1>1, ConfigAssumption, EnvAssumption DEF IInv, TypeOK, AdmitBound, Recent
<1>3. Entry(q) \in Live
  BY <1>2 DEF Live, IInv, RecentKept
<1>4. stamp[r] <= clock + MaxSkew
  BY EnvAssumption DEF IInv, TypeOK, StampBound
<1>5. stamp[q] + MaxDelay >= admitAt[q]
  BY <1>1, EnvAssumption DEF IInv, TypeOK, StampBound, AdmitBound
<1>6. stamp[q] > stamp[r] - Window
  BY <1>1, <1>4, <1>5, ConfigAssumption, EnvAssumption DEF IInv, TypeOK, Recent
<1> QED
  BY <1>3, <1>6 DEF Purged, Entry

-----------------------------------------------------------------------------
(* The invariant holds initially and every step keeps it.                  *)

LEMMA InitIInv == Init => IInv
<1> SUFFICES ASSUME Init PROVE IInv
  OBVIOUS
<1>1. TypeOK
  BY EnvAssumption DEF Init, TypeOK, Phase, Reply, NoReply
<1>2. SetBound
  BY FS_EmptySet, ConfigAssumption DEF Init, SetBound
<1>3. StampBound
  BY EnvAssumption DEF Init, StampBound
<1>4. AdmitBound
  BY DEF Init, AdmitBound
<1>5. RecentKept
  BY DEF Init, RecentKept, Recent
<1> QED
  BY <1>1, <1>2, <1>3, <1>4, <1>5 DEF IInv

\* The script writes well-formed entries of natural score.
LEMMA TypeStep == TypeOK /\ [Next]_vars => TypeOK'
<1> SUFFICES ASSUME TypeOK, [Next]_vars PROVE TypeOK'
  OBVIOUS
<1> USE DEF TypeOK
<1>0. Purged(0) \subseteq zset /\ \A now : Purged(now) \subseteq zset
  BY DEF Purged, Live
<1>1. CASE Tick
  BY <1>1 DEF Tick
<1>2. ASSUME NEW r \in Request, Bypass(r) PROVE TypeOK'
  BY <1>2 DEF Bypass, Phase
<1>3. ASSUME NEW r \in Request, ReadClock(r) PROVE TypeOK'
  <2>1. PICK ahead \in 0..MaxSkew : stamp' = [stamp EXCEPT ![r] = clock + ahead]
    BY <1>3 DEF ReadClock
  <2>2. clock + ahead \in Nat
    BY EnvAssumption
  <2> QED
    BY <1>3, <2>1, <2>2 DEF ReadClock, Phase
<1>4. ASSUME NEW r \in Request, ScriptAdmits(r) PROVE TypeOK'
  <2>1. zset' \subseteq [member : Request, score : Nat]
    BY <1>0, <1>4 DEF ScriptAdmits, ZAdd, Member
  <2>2. expireAt' \in Nat /\ admitAt' \in [Request -> Nat \cup {Never}]
    BY <1>4, ConfigAssumption DEF ScriptAdmits
  <2>3. reply' \in [Request -> Reply] /\ phase' \in [Request -> Phase]
    BY <1>4 DEF ScriptAdmits, Reply, Phase
  <2> QED
    BY <1>4, <2>1, <2>2, <2>3 DEF ScriptAdmits
<1>5. ASSUME NEW r \in Request, ScriptDenies(r) PROVE TypeOK'
  <2>1. PICK oldest \in Purged(stamp[r]) :
          reply' = [reply EXCEPT ![r] =
            [verdict |-> "deny",
             retryAfter |-> oldest.score + Window - stamp[r]]]
    BY <1>5 DEF ScriptDenies
  <2>2. oldest.score + Window - stamp[r] \in Int
    BY <1>0, <2>1, ConfigAssumption
  <2>3. reply' \in [Request -> Reply]
    BY <2>1, <2>2 DEF Reply
  <2>4. phase' \in [Request -> Phase]
    BY <1>5 DEF ScriptDenies, Phase
  <2>5. deniedAt' \in [Request -> Nat \cup {Never}]
    BY <1>5 DEF ScriptDenies
  <2>6. zset' \subseteq [member : Request, score : Nat]
    BY <1>0, <1>5 DEF ScriptDenies
  <2> QED
    BY <1>5, <2>3, <2>4, <2>5, <2>6 DEF ScriptDenies
<1>6. ASSUME NEW r \in Request, SendAgain(r) PROVE TypeOK'
  <2>1. retries' \in [Request -> 0..MaxRetries]
    BY <1>6, EnvAssumption DEF SendAgain
  <2> QED
    BY <1>6, <2>1 DEF SendAgain, Phase, Reply, NoReply
<1>7. ASSUME NEW r \in Request, FailOpen(r) PROVE TypeOK'
  BY <1>7 DEF FailOpen, Phase
<1>8. ASSUME NEW r \in Request, Decide(r) PROVE TypeOK'
  BY <1>8 DEF Decide, Phase
<1>9. CASE UNCHANGED vars
  BY <1>9 DEF vars
<1> QED
  BY <1>1, <1>2, <1>3, <1>4, <1>5, <1>6, <1>7, <1>8, <1>9 DEF Next, Progress

\* An admission adds one entry to a set that had room.
LEMMA SetBoundStep == SetBound /\ [Next]_vars => SetBound'
<1> SUFFICES ASSUME SetBound, [Next]_vars PROVE SetBound'
  OBVIOUS
<1>1. ASSUME NEW r \in Request, ScriptAdmits(r) PROVE SetBound'
  <2> DEFINE P == Purged(stamp[r])
             rest == {e \in P : e.member # Member(r)}
             new == [member |-> Member(r), score |-> stamp[r]]
  <2>1. zset' = rest \cup {new}
    BY <1>1 DEF ScriptAdmits, ZAdd
  <2>2. IsFiniteSet(P) /\ Cardinality(P) < Limit /\ Cardinality(P) \in Nat
    BY <1>1, PurgedSmaller DEF ScriptAdmits
  <2>3. IsFiniteSet(rest) /\ Cardinality(rest) <= Cardinality(P)
    BY <2>2, FS_Subset
  <2>4. Cardinality(rest) \in Nat
    BY <2>3, FS_CardinalityType
  <2> HIDE DEF P, rest, new
  <2>a. /\ IsFiniteSet(rest \cup {new})
        /\ Cardinality(rest \cup {new}) =
             IF new \in rest THEN Cardinality(rest) ELSE Cardinality(rest) + 1
    BY <2>3, FS_AddElement
  <2>5. /\ IsFiniteSet(rest \cup {new})
        /\ Cardinality(rest \cup {new}) <= Cardinality(rest) + 1
    BY <2>4, <2>a
  <2>6. Cardinality(rest \cup {new}) \in Nat
    BY <2>5, FS_CardinalityType
  <2> QED
    BY <2>1, <2>2, <2>3, <2>4, <2>5, <2>6, ConfigAssumption DEF SetBound
<1>2. ASSUME NEW r \in Request, ScriptDenies(r) PROVE SetBound'
  BY <1>2, PurgedSmaller DEF ScriptDenies, SetBound
<1>3. CASE UNCHANGED zset
  BY <1>3 DEF SetBound
<1>4. (\E r \in Request : ScriptAdmits(r) \/ ScriptDenies(r)) \/ UNCHANGED zset
  BY DEF Next, Progress, vars, Tick, Bypass, ReadClock, SendAgain, FailOpen,
         Decide
<1> QED
  BY <1>1, <1>2, <1>3, <1>4

\* Only ReadClock sets the two times, and only time itself moves the clock.
LEMMA StampBoundStep == TypeOK /\ StampBound /\ [Next]_vars => StampBound'
<1> SUFFICES ASSUME TypeOK, StampBound, [Next]_vars PROVE StampBound'
  OBVIOUS
<1> USE EnvAssumption DEF TypeOK, StampBound
<1>1. CASE Tick
  BY <1>1 DEF Tick
<1>2. ASSUME NEW q \in Request, ReadClock(q) PROVE StampBound'
  <2>1. PICK ahead \in 0..MaxSkew : stamp' = [stamp EXCEPT ![q] = clock + ahead]
    BY <1>2 DEF ReadClock
  <2>2. sentAt' = [sentAt EXCEPT ![q] = clock] /\ clock' = clock
    BY <1>2 DEF ReadClock
  <2> QED
    BY <2>1, <2>2
<1>3. CASE UNCHANGED <<stamp, sentAt, clock>>
  BY <1>3
<1>4. \/ Tick
      \/ \E q \in Request : ReadClock(q)
      \/ UNCHANGED <<stamp, sentAt, clock>>
  BY DEF Next, Progress, vars, Bypass, ScriptAdmits, ScriptDenies, SendAgain,
         FailOpen, Decide
<1> QED
  BY <1>1, <1>2, <1>3, <1>4

\* An admission happens within MaxDelay of the reading, and starts a new life
\* of the key; nothing shortens that life.
LEMMA AdmitBoundStep ==
  TypeOK /\ StampBound /\ AdmitBound /\ [Next]_vars => AdmitBound'
<1> SUFFICES ASSUME TypeOK, StampBound, AdmitBound, [Next]_vars,
                    NEW q \in Request, admitAt'[q] # Never
             PROVE  /\ phase'[q] # "idle"
                    /\ admitAt'[q] <= clock'
                    /\ admitAt'[q] <= sentAt'[q] + MaxDelay
                    /\ admitAt'[q] + Window <= expireAt'
  BY DEF AdmitBound
<1> USE EnvAssumption, ConfigAssumption DEF TypeOK, AdmitBound
<1>1. CASE Tick
  BY <1>1 DEF Tick, Never
<1>2. ASSUME NEW r \in Request, Bypass(r)
      PROVE  /\ phase'[q] # "idle"
             /\ admitAt'[q] <= clock'
             /\ admitAt'[q] <= sentAt'[q] + MaxDelay
             /\ admitAt'[q] + Window <= expireAt'
  BY <1>2 DEF Bypass
<1>3. ASSUME NEW r \in Request, ReadClock(r)
      PROVE  /\ phase'[q] # "idle"
             /\ admitAt'[q] <= clock'
             /\ admitAt'[q] <= sentAt'[q] + MaxDelay
             /\ admitAt'[q] + Window <= expireAt'
  <2>1. q # r
    BY <1>3 DEF ReadClock
  <2> QED
    BY <1>3, <2>1 DEF ReadClock
<1>4. ASSUME NEW r \in Request, ScriptAdmits(r)
      PROVE  /\ phase'[q] # "idle"
             /\ admitAt'[q] <= clock'
             /\ admitAt'[q] <= sentAt'[q] + MaxDelay
             /\ admitAt'[q] + Window <= expireAt'
  <2>1. CASE q = r
    BY <1>4, <2>1 DEF ScriptAdmits
  <2>2. CASE q # r
    BY <1>4, <2>2 DEF ScriptAdmits, Never
  <2> QED
    BY <2>1, <2>2
<1>5. ASSUME NEW r \in Request,
             ScriptDenies(r) \/ SendAgain(r) \/ FailOpen(r) \/ Decide(r)
      PROVE  /\ phase'[q] # "idle"
             /\ admitAt'[q] <= clock'
             /\ admitAt'[q] <= sentAt'[q] + MaxDelay
             /\ admitAt'[q] + Window <= expireAt'
  <2>1. UNCHANGED <<clock, sentAt, expireAt, admitAt>>
    BY <1>5 DEF ScriptDenies, SendAgain, FailOpen, Decide
  <2>2. phase'[q] # "idle"
    BY <1>5 DEF ScriptDenies, SendAgain, FailOpen, Decide
  <2> QED
    BY <2>1, <2>2
<1>6. CASE UNCHANGED vars
  BY <1>6 DEF vars
<1> QED
  BY <1>1, <1>2, <1>3, <1>4, <1>5, <1>6 DEF Next, Progress

\* A purge keeps the recent entries, and the script adds the entry of the
\* request it admits.
LEMMA RecentKeptStep == IInv /\ [Next]_vars => RecentKept'
<1> SUFFICES ASSUME IInv, [Next]_vars PROVE RecentKept'
  OBVIOUS
<1>1. CASE Tick
  <2>1. Recent' \subseteq Recent
    BY <1>1, EnvAssumption, ConfigAssumption
       DEF Tick, Recent, IInv, TypeOK
  <2> QED
    BY <1>1, <2>1 DEF Tick, RecentKept, IInv, Entry
<1>2. ASSUME NEW r \in Request, ReadClock(r) PROVE RecentKept'
  <2>1. Recent' = Recent
    BY <1>2 DEF ReadClock, Recent
  <2>2. ASSUME NEW q \in Recent PROVE stamp'[q] = stamp[q]
    <3>1. q \in Request /\ q # r
      BY <1>2, <2>2 DEF Recent, IInv, AdmitBound, ReadClock
    <3>2. PICK ahead \in 0..MaxSkew :
            stamp' = [stamp EXCEPT ![r] = clock + ahead]
      BY <1>2 DEF ReadClock
    <3> QED
      BY <3>1, <3>2 DEF IInv, TypeOK
  <2> QED
    BY <1>2, <2>1, <2>2 DEF ReadClock, RecentKept, IInv, Entry
<1>3. ASSUME NEW r \in Request, ScriptAdmits(r) PROVE RecentKept'
  <2> SUFFICES ASSUME NEW q \in Recent' PROVE Entry(q)' \in zset'
    BY DEF RecentKept
  <2>1. Entry(q)' = Entry(q) /\ phase[r] = "calling"
    BY <1>3 DEF ScriptAdmits, Entry
  <2>2. CASE q = r
    BY <1>3, <2>1, <2>2 DEF ScriptAdmits, ZAdd, Member, Entry
  <2>3. CASE q # r
    <3>1. q \in Recent
      BY <1>3, <2>3 DEF ScriptAdmits, Recent, IInv, TypeOK
    <3>2. Entry(q) \in Purged(stamp[r])
      BY <2>1, <3>1, RecentSurvives
    <3>3. Entry(q).member # Member(r)
      BY <2>3 DEF Entry, Member
    <3> QED
      BY <1>3, <2>1, <3>2, <3>3 DEF ScriptAdmits, ZAdd
  <2> QED
    BY <2>2, <2>3
<1>4. ASSUME NEW r \in Request, ScriptDenies(r) PROVE RecentKept'
  <2>1. Recent' = Recent /\ phase[r] = "calling"
    BY <1>4 DEF ScriptDenies, Recent
  <2>2. \A q \in Recent : Entry(q) \in Purged(stamp[r])
    BY <2>1, RecentSurvives
  <2> QED
    BY <1>4, <2>1, <2>2 DEF ScriptDenies, RecentKept, Entry
<1>5. CASE UNCHANGED <<clock, stamp, zset, admitAt>>
  BY <1>5 DEF RecentKept, Recent, Entry, IInv
<1>6. \/ Tick
      \/ \E r \in Request : ReadClock(r) \/ ScriptAdmits(r) \/ ScriptDenies(r)
      \/ UNCHANGED <<clock, stamp, zset, admitAt>>
  BY DEF Next, Progress, vars, Bypass, SendAgain, FailOpen, Decide
<1> QED
  BY <1>1, <1>2, <1>3, <1>4, <1>5, <1>6

LEMMA StepIInv == IInv /\ [Next]_vars => IInv'
  BY TypeStep, SetBoundStep, StampBoundStep, AdmitBoundStep, RecentKeptStep
     DEF IInv

-----------------------------------------------------------------------------
(* The theorems.                                                           *)

LEMMA InvariantHolds == Spec => []IInv
BY InitIInv, StepIInv, PTL DEF Spec

\* The variables keep their types: clock readings are natural numbers, the
\* sorted set holds one natural score per entry of a request.
THEOREM TypeCorrect == Spec => []TypeOK
<1>1. IInv => TypeOK
  BY DEF IInv
<1> QED
  BY <1>1, InvariantHolds, PTL

\* The limiter never admits more than Limit requests of a client in a stretch
\* of Window - MaxDelay - MaxSkew: they all still have their own entry in the
\* set, and the set never holds more than Limit entries.
THEOREM WindowBoundHolds == Spec => []WindowBound
<1>1. IInv => WindowBound
  <2> SUFFICES ASSUME IInv PROVE WindowBound
    OBVIOUS
  <2>1. Recent \in SUBSET Request
    BY DEF Recent
  <2>2. IsFiniteSet(zset) /\ Cardinality(zset) <= Limit
    BY DEF IInv, SetBound
  <2>3. \A q \in Recent : Entry(q) \in zset
    BY DEF IInv, RecentKept
  <2>4. IsFiniteSet(Recent) /\ Cardinality(Recent) <= Cardinality(zset)
    BY <2>1, <2>2, <2>3, EntriesCount
  <2>5. Cardinality(Recent) \in Nat /\ Cardinality(zset) \in Nat
    BY <2>2, <2>4, FS_CardinalityType
  <2> QED
    BY <2>2, <2>4, <2>5, ConfigAssumption DEF WindowBound
<1> QED
  BY <1>1, InvariantHolds, PTL

\* A denial adds no entry and leaves the life of the key alone, so a client
\* that keeps knocking does not prolong its own block.
THEOREM DenialIsFree == Spec => DenialCostsNothing
<1>1. IInv /\ [Next]_vars =>
        [\A r \in Request :
           /\ phase[r] = "calling"
           /\ phase'[r] = "answered"
           /\ reply'[r].verdict = "deny"
           => zset' \subseteq zset /\ expireAt' = expireAt]_vars
  <2> SUFFICES ASSUME IInv, [Next]_vars, NEW r \in Request,
                      phase[r] = "calling", phase'[r] = "answered",
                      reply'[r].verdict = "deny"
               PROVE  zset' \subseteq zset /\ expireAt' = expireAt
    OBVIOUS
  <2>1. ASSUME NEW q \in Request, ScriptAdmits(q) PROVE FALSE
    <3>1. q # r
      BY <2>1 DEF ScriptAdmits, IInv, TypeOK
    <3> QED
      BY <2>1, <3>1 DEF ScriptAdmits, IInv, TypeOK
  <2>2. ASSUME NEW q \in Request, ScriptDenies(q)
        PROVE  zset' \subseteq zset /\ expireAt' = expireAt
    BY <2>2 DEF ScriptDenies, Purged, Live
  <2>3. \/ \E q \in Request : ScriptAdmits(q) \/ ScriptDenies(q)
        \/ zset' = zset /\ expireAt' = expireAt
    BY DEF Next, Progress, vars, Tick, Bypass, ReadClock, SendAgain, FailOpen,
           Decide
  <2> QED
    BY <2>1, <2>2, <2>3
<1> QED
  BY <1>1, InvariantHolds, PTL DEF Spec, DenialCostsNothing

-----------------------------------------------------------------------------
(* What a denial says: a second invariant about the entries and replies.   *)

\* The requests the script has ever admitted.
Admitted == {q \in Request : admitAt[q] # Never}

\* Those of them whose reading lies in the window that ends at r's reading.
InWindowOf(r) == {q \in Request : /\ admitAt[q] # Never
                                  /\ stamp[q] > stamp[r] - Window}

\* Every entry belongs to an admitted request and carries its reading.
EntryOwner ==
  /\ IsFiniteSet(Admitted)
  /\ \A e \in zset : admitAt[e.member] # Never /\ e.score = stamp[e.member]

\* A denied request has arrived, found its window full, and was told to wait
\* for a time in range.
DenialSound ==
  \A r \in Request : reply[r].verdict = "deny" =>
    /\ phase[r] # "idle"
    /\ Cardinality(InWindowOf(r)) >= Limit
    /\ reply[r].retryAfter \in 1..(Window + MaxDelay + MaxSkew)

ReplyInv == EntryOwner /\ DenialSound

LEMMA InitReplyInv == Init => ReplyInv
<1> SUFFICES ASSUME Init PROVE ReplyInv
  OBVIOUS
<1>1. Admitted = {}
  BY DEF Init, Admitted
<1> QED
  BY <1>1, FS_EmptySet DEF Init, ReplyInv, EntryOwner, DenialSound, NoReply

LEMMA EntryOwnerStep == IInv /\ EntryOwner /\ [Next]_vars => EntryOwner'
<1> SUFFICES ASSUME IInv, EntryOwner, [Next]_vars PROVE EntryOwner'
  OBVIOUS
<1> USE DEF EntryOwner
<1>0. zset \subseteq [member : Request, score : Nat]
  BY DEF IInv, TypeOK
<1>1. ASSUME NEW r \in Request, ReadClock(r) PROVE EntryOwner'
  <2>1. Admitted' = Admitted
    BY <1>1 DEF ReadClock, Admitted
  <2>2. ASSUME NEW e \in zset PROVE e.member # r
    BY <1>1, <2>2, <1>0 DEF ReadClock, IInv, AdmitBound
  <2>3. PICK ahead \in 0..MaxSkew : stamp' = [stamp EXCEPT ![r] = clock + ahead]
    BY <1>1 DEF ReadClock
  <2>4. \A e \in zset : stamp'[e.member] = stamp[e.member]
    BY <1>0, <2>2, <2>3 DEF IInv, TypeOK
  <2> QED
    BY <1>1, <2>1, <2>4 DEF ReadClock
<1>2. ASSUME NEW r \in Request, ScriptAdmits(r) PROVE EntryOwner'
  <2>1. Admitted' = Admitted \cup {r}
    BY <1>2 DEF ScriptAdmits, Admitted, IInv, TypeOK, Never
  <2>2. IsFiniteSet(Admitted \cup {r})
    BY FS_AddElement
  <2>3. ASSUME NEW e \in zset'
        PROVE  admitAt'[e.member] # Never /\ e.score = stamp'[e.member]
    <3>1. \/ e \in zset /\ e.member # r
          \/ e = [member |-> r, score |-> stamp[r]]
      BY <1>2, <2>3 DEF ScriptAdmits, ZAdd, Member, Purged, Live
    <3>2. CASE e \in zset /\ e.member # r
      BY <1>0, <1>2, <3>2 DEF ScriptAdmits, IInv, TypeOK
    <3>3. CASE e = [member |-> r, score |-> stamp[r]]
      BY <1>2, <3>3 DEF ScriptAdmits, IInv, TypeOK, Never
    <3> QED
      BY <3>1, <3>2, <3>3
  <2> QED
    BY <2>1, <2>2, <2>3
<1>3. ASSUME NEW r \in Request, ScriptDenies(r) PROVE EntryOwner'
  <2>1. Admitted' = Admitted /\ zset' \subseteq zset
    BY <1>3 DEF ScriptDenies, Admitted, Purged, Live
  <2> QED
    BY <1>3, <2>1 DEF ScriptDenies
<1>4. CASE UNCHANGED <<stamp, zset, admitAt>>
  BY <1>4 DEF Admitted
<1>5. \/ \E r \in Request : ReadClock(r) \/ ScriptAdmits(r) \/ ScriptDenies(r)
      \/ UNCHANGED <<stamp, zset, admitAt>>
  BY DEF Next, Progress, vars, Tick, Bypass, SendAgain, FailOpen, Decide
<1> QED
  BY <1>1, <1>2, <1>3, <1>4, <1>5

\* At the moment of a denial the entries the purge left stand for at least
\* Limit admitted requests of the window, and the oldest of them leaves the
\* window after a time in range.
LEMMA DenialAtScript ==
  ASSUME IInv, EntryOwner, NEW r \in Request, ScriptDenies(r)
  PROVE  /\ Cardinality(InWindowOf(r)) >= Limit
         /\ reply'[r].retryAfter \in 1..(Window + MaxDelay + MaxSkew)
<1> DEFINE P == Purged(stamp[r])
           f == [e \in P |-> e.member]
<1>1. P \subseteq zset /\ P \subseteq [member : Request, score : Nat]
  BY DEF Purged, Live, IInv, TypeOK
<1>2. InWindowOf(r) \subseteq Admitted
  BY DEF InWindowOf, Admitted
<1>3. IsFiniteSet(InWindowOf(r))
  BY <1>2, FS_Subset DEF EntryOwner
<1>4. f \in [P -> InWindowOf(r)]
  BY <1>1 DEF EntryOwner, InWindowOf, Purged
<1>5. \A a, b \in P : f[a] = f[b] => a = b
  BY <1>1 DEF EntryOwner
<1>6. f \in Injection(P, InWindowOf(r))
  BY <1>4, <1>5 DEF Injection, IsInjective
<1>7. Cardinality(P) <= Cardinality(InWindowOf(r))
  BY <1>3, <1>6, FS_Injection
<1>8. Cardinality(P) \in Nat /\ Cardinality(InWindowOf(r)) \in Nat
  BY <1>3, PurgedSmaller, FS_CardinalityType DEF IInv
<1>9. ~(Cardinality(P) < Limit)
  BY DEF ScriptDenies
<1>10. Cardinality(InWindowOf(r)) >= Limit
  <2> HIDE DEF P, f
  <2> QED
    BY <1>7, <1>8, <1>9, ConfigAssumption
<1>11. PICK oldest \in P :
         reply' = [reply EXCEPT ![r] =
           [verdict |-> "deny",
            retryAfter |-> oldest.score + Window - stamp[r]]]
  BY DEF ScriptDenies
<1>12. oldest.member \in Request /\ oldest.score = stamp[oldest.member]
  BY <1>1 DEF EntryOwner
<1>13. oldest.score <= clock + MaxSkew
  BY <1>12, EnvAssumption DEF IInv, TypeOK, StampBound
<1>14. stamp[r] + MaxDelay >= clock
  BY EnvAssumption DEF ScriptDenies, IInv, TypeOK, StampBound
<1>15. oldest.score > stamp[r] - Window
  BY DEF Purged
<1>16. oldest.score + Window - stamp[r] \in 1..(Window + MaxDelay + MaxSkew)
  BY <1>1, <1>13, <1>14, <1>15, ConfigAssumption, EnvAssumption
     DEF IInv, TypeOK
<1> QED
  BY <1>10, <1>11, <1>16 DEF IInv, TypeOK

LEMMA DenialSoundStep ==
  IInv /\ ReplyInv /\ [Next]_vars => DenialSound'
<1> SUFFICES ASSUME IInv, ReplyInv, [Next]_vars,
                    NEW r \in Request, reply'[r].verdict = "deny"
             PROVE  /\ phase'[r] # "idle"
                    /\ Cardinality(InWindowOf(r)') >= Limit
                    /\ reply'[r].retryAfter \in 1..(Window + MaxDelay + MaxSkew)
  BY DEF DenialSound, InWindowOf
<1>1. CASE ScriptDenies(r)
  <2>1. InWindowOf(r)' = InWindowOf(r)
    BY <1>1 DEF ScriptDenies, InWindowOf
  <2>2. phase'[r] # "idle"
    BY <1>1 DEF ScriptDenies, IInv, TypeOK
  <2> QED
    BY <1>1, <2>1, <2>2, DenialAtScript DEF ReplyInv
<1>2. CASE ~ScriptDenies(r)
  <2>1. reply'[r] = reply[r]
    BY <1>2 DEF Next, Progress, vars, Tick, Bypass, ReadClock, ScriptAdmits,
       ScriptDenies, SendAgain, FailOpen, Decide, IInv, TypeOK, NoReply
  <2>2. /\ phase[r] # "idle"
        /\ Cardinality(InWindowOf(r)) >= Limit
        /\ reply[r].retryAfter \in 1..(Window + MaxDelay + MaxSkew)
    BY <2>1 DEF ReplyInv, DenialSound
  <2>3. phase'[r] # "idle"
    BY <2>2 DEF Next, Progress, vars, Tick, Bypass, ReadClock, ScriptAdmits,
       ScriptDenies, SendAgain, FailOpen, Decide, IInv, TypeOK
  <2>4. \A q \in Admitted \cup {r} : stamp'[q] = stamp[q]
    BY <2>2 DEF Next, Progress, vars, Tick, Bypass, ReadClock, ScriptAdmits,
       ScriptDenies, SendAgain, FailOpen, Decide, IInv, TypeOK, AdmitBound,
       Admitted
  <2>5. Admitted \subseteq Admitted'
    BY DEF Next, Progress, vars, Tick, Bypass, ReadClock, ScriptAdmits,
       ScriptDenies, SendAgain, FailOpen, Decide, IInv, TypeOK, Admitted, Never
  <2>6. InWindowOf(r) \subseteq InWindowOf(r)'
    BY <2>4, <2>5 DEF InWindowOf, Admitted
  <2>7. IsFiniteSet(InWindowOf(r)')
    <3>1. IsFiniteSet(Admitted')
      BY EntryOwnerStep DEF ReplyInv, EntryOwner
    <3>2. InWindowOf(r)' \subseteq Admitted'
      BY DEF InWindowOf, Admitted
    <3> QED
      BY <3>1, <3>2, FS_Subset
  <2>8. /\ Cardinality(InWindowOf(r)) <= Cardinality(InWindowOf(r)')
        /\ IsFiniteSet(InWindowOf(r))
    BY <2>6, <2>7, FS_Subset
  <2>9. /\ Cardinality(InWindowOf(r)) \in Nat
        /\ Cardinality(InWindowOf(r)') \in Nat
    BY <2>7, <2>8, FS_CardinalityType
  <2> QED
    BY <2>1, <2>2, <2>3, <2>8, <2>9, ConfigAssumption
<1> QED
  BY <1>1, <1>2

LEMMA ReplyInvariantHolds == Spec => []ReplyInv
<1>1. IInv /\ ReplyInv /\ [Next]_vars => ReplyInv'
  BY EntryOwnerStep, DenialSoundStep DEF ReplyInv
<1> QED
  BY <1>1, InitReplyInv, InvariantHolds, PTL DEF Spec

\* A request is denied only when Limit requests were admitted in its window.
THEOREM DenialIsJustified == Spec => []DeniedOnlyWhenFull
<1>1. ReplyInv => DeniedOnlyWhenFull
  BY DEF ReplyInv, DenialSound, DeniedOnlyWhenFull, InWindowOf
<1> QED
  BY <1>1, ReplyInvariantHolds, PTL

\* Retry-After is never zero and never longer than the window, the delay and
\* the skew together.
THEOREM RetryAfterBounded == Spec => []RetryAfterInRange
<1>1. ReplyInv => RetryAfterInRange
  BY DEF ReplyInv, DenialSound, RetryAfterInRange
<1> QED
  BY <1>1, ReplyInvariantHolds, PTL

-----------------------------------------------------------------------------
(* Retry-After tells the truth: a third invariant.                         *)

\* The header promises at least the ticks the script answered.
LEMMA HeaderCovers ==
  ASSUME NEW t \in Nat
  PROVE  /\ RetryAfterSeconds(t) \in Nat
         /\ RetryAfterSeconds(t) >= 1
         /\ TicksPerSecond * RetryAfterSeconds(t) \in Nat
         /\ TicksPerSecond * RetryAfterSeconds(t) >= t
         /\ TicksPerSecond * RetryAfterSeconds(t) >= 1
<1> DEFINE a == t + TicksPerSecond - 1
           s == a \div TicksPerSecond
<1>1. a \in Nat /\ TicksPerSecond \in Int /\ TicksPerSecond > 0
  BY EnvAssumption
<1>2. s \in Nat
  BY <1>1
<1>3. \A b \in Int, x \in Int : b > 0 => x < b * ((x \div b) + 1)
  BY SMTT(30)
<1>4. a < TicksPerSecond * (s + 1)
  BY <1>1, <1>3
<1>5. TicksPerSecond * (s + 1) = TicksPerSecond * s + TicksPerSecond
  BY <1>1, <1>2
<1>6. TicksPerSecond * s >= t /\ TicksPerSecond * s \in Nat
  <2>1. TicksPerSecond * s \in Nat
    BY <1>2, EnvAssumption
  <2> HIDE DEF s
  <2> QED
    BY <1>1, <1>4, <1>5, <2>1
<1>7. RetryAfterSeconds(t) = IF s < 1 THEN 1 ELSE s
  BY DEF RetryAfterSeconds
<1>8. CASE s < 1
  <2>1. s = 0
    BY <1>2, <1>8
  <2>2. t = 0
    BY <1>1, <1>6, <2>1
  <2> QED
    BY <1>1, <1>7, <1>8, <2>2
<1>9. CASE ~(s < 1)
  <2>1. TicksPerSecond * s >= TicksPerSecond
    BY <1>1, <1>2, <1>9
  <2> HIDE DEF s
  <2> QED
    BY <1>1, <1>2, <1>6, <1>7, <1>9, <2>1
<1> QED
  BY <1>8, <1>9

\* The entries that will still be in the window when r may come back.
StillThen(r) ==
  {e \in zset : e.score > stamp[r] + reply[r].retryAfter - Window}

\* Nobody has been admitted since r was denied.
NobodySince(r) == \A q \in Request : admitAt[q] # Never => admitAt[q] < deniedAt[r]

\* A denial is dated, not before its reading; unless somebody is admitted
\* after it, there is room when the Retry-After is over.
RoomInv ==
  \A r \in Request : reply[r].verdict = "deny" =>
    /\ deniedAt[r] \in Nat
    /\ sentAt[r] <= deniedAt[r]
    /\ deniedAt[r] <= clock
    /\ NobodySince(r) => Cardinality(StillThen(r)) < Limit

HonestInv == RoomInv /\ RetryAfterHonest

\* A denial that is not new is as it was.
LEMMA OldDenial ==
  ASSUME IInv, ReplyInv, [Next]_vars,
         NEW r \in Request, reply'[r].verdict = "deny", ~ScriptDenies(r)
  PROVE  UNCHANGED <<reply[r], deniedAt[r], stamp[r], sentAt[r]>>
<1>1. reply'[r] = reply[r]
  BY DEF Next, Progress, vars, Tick, Bypass, ReadClock, ScriptAdmits,
     ScriptDenies, SendAgain, FailOpen, Decide, IInv, TypeOK, NoReply
<1>2. phase[r] # "idle"
  BY <1>1 DEF ReplyInv, DenialSound
<1>3. deniedAt'[r] = deniedAt[r]
  BY DEF Next, Progress, vars, Tick, Bypass, ReadClock, ScriptAdmits,
     ScriptDenies, SendAgain, FailOpen, Decide, IInv, TypeOK
<1>4. stamp'[r] = stamp[r] /\ sentAt'[r] = sentAt[r]
  BY <1>2 DEF Next, Progress, vars, Tick, Bypass, ReadClock, ScriptAdmits,
     ScriptDenies, SendAgain, FailOpen, Decide, IInv, TypeOK
<1> QED
  BY <1>1, <1>3, <1>4

\* Admissions are only ever moved to a later date.
LEMMA AdmitMonotone ==
  ASSUME IInv, [Next]_vars, NEW q \in Request, admitAt[q] # Never
  PROVE  admitAt'[q] # Never /\ admitAt'[q] >= admitAt[q]
<1>1. ASSUME NEW r \in Request, ScriptAdmits(r)
      PROVE  admitAt'[q] # Never /\ admitAt'[q] >= admitAt[q]
  BY <1>1 DEF ScriptAdmits, IInv, TypeOK, AdmitBound, Never
<1>2. CASE UNCHANGED admitAt
  BY <1>2 DEF IInv, TypeOK, Never
<1>3. (\E r \in Request : ScriptAdmits(r)) \/ UNCHANGED admitAt
  BY DEF Next, Progress, vars, Tick, Bypass, ReadClock, ScriptDenies,
     SendAgain, FailOpen, Decide
<1> QED
  BY <1>1, <1>2, <1>3

LEMMA RoomStep == IInv /\ ReplyInv /\ RoomInv /\ [Next]_vars => RoomInv'
<1> SUFFICES ASSUME IInv, ReplyInv, RoomInv, [Next]_vars,
                    NEW r \in Request, reply'[r].verdict = "deny"
             PROVE  /\ deniedAt'[r] \in Nat
                    /\ sentAt'[r] <= deniedAt'[r]
                    /\ deniedAt'[r] <= clock'
                    /\ NobodySince(r)' => Cardinality(StillThen(r)') < Limit
  BY DEF RoomInv, NobodySince, StillThen
<1>0. IsFiniteSet(zset)
  BY DEF IInv, SetBound
<1>1. CASE ScriptDenies(r)
  <2> DEFINE P == Purged(stamp[r])
  <2>1. PICK oldest \in P :
          /\ \A e \in P : oldest.score <= e.score
          /\ reply' = [reply EXCEPT ![r] =
               [verdict |-> "deny",
                retryAfter |-> oldest.score + Window - stamp[r]]]
    BY <1>1 DEF ScriptDenies
  <2>2. /\ zset' = P /\ stamp' = stamp /\ clock' = clock /\ sentAt' = sentAt
        /\ deniedAt'[r] = clock
    BY <1>1 DEF ScriptDenies, IInv, TypeOK
  <2>3. /\ IsFiniteSet(P) /\ Cardinality(P) \in Nat /\ Cardinality(P) <= Limit
        /\ P \subseteq [member : Request, score : Nat]
    BY PurgedSmaller DEF IInv, TypeOK
  <2>4. reply'[r].retryAfter = oldest.score + Window - stamp[r]
    BY <2>1 DEF IInv, TypeOK
  <2>5. oldest.score \in Nat /\ stamp[r] \in Nat /\ Window \in Nat
    BY <2>1, <2>3, ConfigAssumption DEF IInv, TypeOK
  <2>6. stamp'[r] + reply'[r].retryAfter - Window = oldest.score
    BY <2>2, <2>4, <2>5
  <2>7. StillThen(r)' \subseteq P \ {oldest}
    BY <2>2, <2>5, <2>6 DEF StillThen
  <2>8. IsFiniteSet(P \ {oldest}) /\ Cardinality(P \ {oldest}) = Cardinality(P) - 1
    BY <2>1, <2>3, FS_RemoveElement
  <2>9. /\ Cardinality(StillThen(r)') <= Cardinality(P \ {oldest})
        /\ IsFiniteSet(StillThen(r)')
    BY <2>7, <2>8, FS_Subset
  <2>10. Cardinality(StillThen(r)') \in Nat
    BY <2>9, FS_CardinalityType
  <2>11. Cardinality(StillThen(r)') < Limit
    <3> HIDE DEF P
    <3> QED
      BY <2>3, <2>8, <2>9, <2>10, ConfigAssumption
  <2> QED
    BY <2>2, <2>11 DEF IInv, TypeOK, StampBound
<1>2. CASE ~ScriptDenies(r)
  <2>1. UNCHANGED <<reply[r], deniedAt[r], stamp[r], sentAt[r]>>
    BY <1>2, OldDenial
  <2>2. /\ deniedAt[r] \in Nat /\ sentAt[r] <= deniedAt[r]
        /\ deniedAt[r] <= clock
        /\ NobodySince(r) => Cardinality(StillThen(r)) < Limit
    BY <2>1 DEF RoomInv
  <2>3. clock' >= clock /\ clock' \in Nat /\ clock \in Nat
    BY TypeStep DEF Next, Progress, vars, Tick, Bypass, ReadClock, ScriptAdmits,
       ScriptDenies, SendAgain, FailOpen, Decide, IInv, TypeOK
  <2>4. ASSUME NobodySince(r)' PROVE Cardinality(StillThen(r)') < Limit
    <3>1. ASSUME NEW q \in Request, ScriptAdmits(q) PROVE FALSE
      <4>1. admitAt'[q] = clock /\ clock # Never
        BY <3>1 DEF ScriptAdmits, IInv, TypeOK, Never
      <4>2. clock < deniedAt[r]
        BY <2>1, <2>4, <4>1 DEF NobodySince
      <4> QED
        BY <2>2, <2>3, <4>2
    <3>2. admitAt' = admitAt /\ zset' \subseteq zset
      BY <3>1 DEF Next, Progress, vars, Tick, Bypass, ReadClock, ScriptDenies,
         SendAgain, FailOpen, Decide, Purged, Live
    <3>3. NobodySince(r)
      BY <2>1, <2>4, <3>2 DEF NobodySince
    <3>4. StillThen(r)' \subseteq StillThen(r)
      BY <2>1, <3>2 DEF StillThen
    <3>5. IsFiniteSet(StillThen(r))
      BY <1>0, FS_Subset DEF StillThen
    <3>6. /\ IsFiniteSet(StillThen(r)')
          /\ Cardinality(StillThen(r)') <= Cardinality(StillThen(r))
      BY <3>4, <3>5, FS_Subset
    <3>7. /\ Cardinality(StillThen(r)) \in Nat
          /\ Cardinality(StillThen(r)') \in Nat
      BY <3>5, <3>6, FS_CardinalityType
    <3> QED
      BY <2>2, <3>3, <3>6, <3>7, ConfigAssumption
  <2> QED
    BY <2>1, <2>2, <2>3, <2>4 DEF IInv, TypeOK
<1> QED
  BY <1>1, <1>2

\* A request whose reading is past the Retry-After of r can be denied only if
\* somebody took the room.
LEMMA DeniedAgain ==
  ASSUME IInv, ReplyInv, RoomInv,
         NEW r \in Request, reply[r].verdict = "deny",
         NEW again \in Request, ScriptDenies(again),
         sentAt[again] >= deniedAt[r] + MaxSkew
           + TicksPerSecond * RetryAfterSeconds(reply[r].retryAfter)
  PROVE  ~NobodySince(r)
<1> DEFINE wait == TicksPerSecond * RetryAfterSeconds(reply[r].retryAfter)
           P == Purged(stamp[again])
<1>1. reply[r].retryAfter \in Nat
  BY ConfigAssumption, EnvAssumption DEF ReplyInv, DenialSound
<1>2. wait \in Nat /\ wait >= reply[r].retryAfter
  BY <1>1, HeaderCovers
<1>3. /\ deniedAt[r] \in Nat /\ sentAt[r] <= deniedAt[r]
      /\ stamp[r] <= sentAt[r] + MaxSkew /\ sentAt[again] <= stamp[again]
      /\ stamp[r] \in Nat /\ stamp[again] \in Nat /\ sentAt[r] \in Nat
      /\ sentAt[again] \in Nat
  BY DEF RoomInv, IInv, TypeOK, StampBound
<1>4. sentAt[again] >= deniedAt[r] + MaxSkew + wait
  OBVIOUS
<1> HIDE DEF wait
<1>5. stamp[again] >= stamp[r] + reply[r].retryAfter
  BY <1>1, <1>2, <1>3, <1>4, EnvAssumption
<1>6. P \subseteq StillThen(r)
  <2> SUFFICES ASSUME NEW e \in P
               PROVE  e \in zset /\ e.score > stamp[r] + reply[r].retryAfter - Window
    BY DEF StillThen
  <2>1. e \in zset /\ e.score > stamp[again] - Window
    BY DEF Purged, Live
  <2>2. e.score \in Nat
    BY <2>1 DEF IInv, TypeOK
  <2> QED
    BY <1>1, <1>3, <1>5, <2>1, <2>2, ConfigAssumption
<1>7. IsFiniteSet(StillThen(r))
  BY FS_Subset DEF StillThen, IInv, SetBound
<1>8. IsFiniteSet(P) /\ Cardinality(P) <= Cardinality(StillThen(r))
  BY <1>6, <1>7, FS_Subset
<1>9. Cardinality(P) \in Nat /\ Cardinality(StillThen(r)) \in Nat
  BY <1>7, <1>8, FS_CardinalityType
<1>10. ~(Cardinality(P) < Limit)
  BY DEF ScriptDenies
<1> HIDE DEF P
<1>11. ~(Cardinality(StillThen(r)) < Limit)
  BY <1>8, <1>9, <1>10, ConfigAssumption
<1> QED
  BY <1>11 DEF RoomInv

LEMMA HonestStep ==
  IInv /\ ReplyInv /\ HonestInv /\ [Next]_vars => RetryAfterHonest'
<1> SUFFICES ASSUME IInv, ReplyInv, HonestInv, [Next]_vars,
                    NEW r \in Request, NEW again \in Request,
                    reply'[r].verdict = "deny", reply'[again].verdict = "deny",
                    sentAt'[again] >= deniedAt'[r] + MaxSkew
                      + TicksPerSecond * RetryAfterSeconds(reply'[r].retryAfter)
             PROVE  \E q \in Request : /\ admitAt'[q] # Never
                                       /\ admitAt'[q] >= deniedAt'[r]
  BY DEF RetryAfterHonest
<1>1. RoomInv'
  BY RoomStep DEF HonestInv
<1>2. reply'[r].retryAfter \in Nat
  BY DenialSoundStep, ConfigAssumption, EnvAssumption DEF DenialSound
<1>3. TicksPerSecond * RetryAfterSeconds(reply'[r].retryAfter) \in Nat \ {0}
  BY <1>2, HeaderCovers
<1>4. sentAt'[again] > deniedAt'[r]
  <2>1. deniedAt'[r] \in Nat /\ sentAt'[again] \in Nat
    BY <1>1, TypeStep DEF RoomInv, IInv, TypeOK
  <2> DEFINE wait == TicksPerSecond * RetryAfterSeconds(reply'[r].retryAfter)
  <2>2. wait \in Nat \ {0} /\ sentAt'[again] >= deniedAt'[r] + MaxSkew + wait
    BY <1>3
  <2> HIDE DEF wait
  <2> QED
    BY <2>1, <2>2, EnvAssumption
<1>5. CASE ScriptDenies(r)
  <2>1. deniedAt'[r] = clock /\ sentAt'[again] = sentAt[again]
    BY <1>5 DEF ScriptDenies, IInv, TypeOK
  <2>2. sentAt[again] <= clock /\ sentAt[again] \in Nat /\ clock \in Nat
    BY DEF IInv, TypeOK, StampBound
  <2> QED
    BY <1>4, <2>1, <2>2
<1>6. CASE ~ScriptDenies(r)
  <2>1. UNCHANGED <<reply[r], deniedAt[r]>>
    BY <1>6, OldDenial
  <2>2. ~NobodySince(r) =>
          \E q \in Request : admitAt[q] # Never /\ admitAt[q] >= deniedAt[r]
    BY <2>1 DEF NobodySince, RoomInv, HonestInv, IInv, TypeOK, Never
  <2>3. \E q \in Request : admitAt[q] # Never /\ admitAt[q] >= deniedAt[r]
    <3>1. CASE ScriptDenies(again)
      <4>1. sentAt'[again] = sentAt[again]
        BY <3>1 DEF ScriptDenies
      <4>2. sentAt[again] >= deniedAt[r] + MaxSkew
              + TicksPerSecond * RetryAfterSeconds(reply[r].retryAfter)
        BY <2>1, <4>1
      <4> QED
        BY <2>1, <2>2, <3>1, <4>2, DeniedAgain DEF HonestInv
    <3>2. CASE ~ScriptDenies(again)
      <4>1. UNCHANGED <<reply[again], sentAt[again]>>
        BY <3>2, OldDenial
      <4> QED
        BY <2>1, <4>1 DEF HonestInv, RetryAfterHonest
    <3> QED
      BY <3>1, <3>2
  <2>4. PICK q \in Request : admitAt[q] # Never /\ admitAt[q] >= deniedAt[r]
    BY <2>3
  <2>5. admitAt'[q] # Never /\ admitAt'[q] >= admitAt[q]
    BY <2>4, AdmitMonotone
  <2>6. /\ admitAt[q] \in Nat /\ deniedAt[r] \in Nat /\ deniedAt'[r] = deniedAt[r]
        /\ admitAt'[q] \in Nat
    BY <2>1, <2>4, <2>5, TypeStep DEF HonestInv, RoomInv, IInv, TypeOK
  <2> QED
    BY <2>4, <2>5, <2>6
<1> QED
  BY <1>5, <1>6

\* A client that waits as long as Retry-After says is admitted, unless some
\* request took the freed place since its denial.
THEOREM RetryAfterIsHonest == Spec => []RetryAfterHonest
<1>1. Init => HonestInv
  BY DEF Init, HonestInv, RoomInv, RetryAfterHonest, NoReply
<1>2. IInv /\ ReplyInv /\ HonestInv /\ [Next]_vars => HonestInv'
  BY RoomStep, HonestStep DEF HonestInv
<1>3. HonestInv => RetryAfterHonest
  BY DEF HonestInv
<1> QED
  BY <1>1, <1>2, <1>3, InvariantHolds, ReplyInvariantHolds, PTL DEF Spec

-----------------------------------------------------------------------------
(* What holds a client back: one more invariant, about the expiry.         *)

\* The life of the key was set by an admission, and nobody renewed it since.
ExpiryEarned ==
  \/ expireAt = 0
  \/ \E q \in Request : admitAt[q] # Never /\ expireAt <= admitAt[q] + Window

LEMMA ExpiryEarnedStep == IInv /\ ExpiryEarned /\ [Next]_vars => ExpiryEarned'
<1> SUFFICES ASSUME IInv, ExpiryEarned, [Next]_vars PROVE ExpiryEarned'
  OBVIOUS
<1>1. ASSUME NEW r \in Request, ScriptAdmits(r) PROVE ExpiryEarned'
  <2>1. admitAt'[r] = clock /\ expireAt' = clock + Window /\ clock \in Nat
    BY <1>1 DEF ScriptAdmits, IInv, TypeOK
  <2> QED
    BY <2>1, ConfigAssumption DEF ExpiryEarned, Never
<1>2. CASE UNCHANGED <<expireAt, admitAt>>
  BY <1>2 DEF ExpiryEarned
<1>3. \/ \E r \in Request : ScriptAdmits(r)
      \/ UNCHANGED <<expireAt, admitAt>>
  BY DEF Next, Progress, vars, Tick, Bypass, ReadClock, ScriptDenies,
         SendAgain, FailOpen, Decide
<1> QED
  BY <1>1, <1>2, <1>3

\* A client is held back by its admissions alone, and by each for one window:
\* a refused client that keeps knocking does not prolong its block.
THEOREM OnlyAdmissionsBlockHolds == Spec => []OnlyAdmissionsBlock
<1>1. Init => ExpiryEarned
  BY DEF Init, ExpiryEarned
<1>2. IInv /\ ReplyInv /\ ExpiryEarned => OnlyAdmissionsBlock
  <2> SUFFICES ASSUME IInv, ReplyInv, ExpiryEarned, Live # {}
               PROVE  /\ \E q \in Request : /\ admitAt[q] # Never
                                            /\ clock < admitAt[q] + Window
                      /\ \A e \in Live : admitAt[e.member] # Never
    BY DEF OnlyAdmissionsBlock
  <2>1. clock < expireAt /\ Live = zset
    BY DEF Live
  <2>2. clock \in Nat /\ expireAt \in Nat /\ Window \in Nat
    BY ConfigAssumption DEF IInv, TypeOK
  <2>3. PICK q \in Request : /\ admitAt[q] # Never
                             /\ expireAt <= admitAt[q] + Window
    BY <2>1, <2>2 DEF ExpiryEarned
  <2>4. admitAt[q] \in Nat
    BY <2>3 DEF IInv, TypeOK
  <2>5. clock < admitAt[q] + Window
    BY <2>1, <2>2, <2>3, <2>4
  <2> QED
    BY <2>1, <2>3, <2>5 DEF ReplyInv, EntryOwner
<1> QED
  BY <1>1, <1>2, ExpiryEarnedStep, InvariantHolds, ReplyInvariantHolds, PTL
     DEF Spec

=============================================================================
