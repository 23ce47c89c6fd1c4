------------------------- MODULE IdempotencyProofs -------------------------
(***************************************************************************)
(* What holds of Idempotency for any number of attempts, tokens, keys and  *)
(* bodies, whatever overlaps and whatever fails: its invariants, and that  *)
(* it implements OncePerKey.                                               *)
(***************************************************************************)
EXTENDS Idempotency, FiniteSetTheorems, TLAPS

(* An attempt asks one thing. *)
AskInv == \A a \in Attempt : ask[a] = {} \/ \E q \in Ask : ask[a] = {q}

(* The answer comes when the handler has ended, and an answer of its own when
   the effect has happened. *)
AnswerInv ==
  \A a \in Attempt :
    /\ answer[a].kind # "none" => phase[a] \in {"storing", "finished", "lost"}
    /\ answer[a].kind = "own" => a \in applied
    /\ phase[a] = "storing" => answer[a].kind = "own"

(* Where an attempt that took effect, or was stored, has come to. *)
EffectInv ==
  \A a \in Attempt :
    /\ phase[a] = "applied" => a \in applied
    /\ a \in applied => phase[a] \in {"applied", "storing", "finished", "lost"}
    /\ a \in stored => phase[a] = "finished" /\ answer[a].kind = "own"

(* What is cached was stored by an attempt that asked for it. *)
CacheInv ==
  \A e \in cache :
    /\ e.by \in stored
    /\ \E q \in ask[e.by] : e.at = CacheKeyOf(q) /\ e.hash = RequestHash(q)

(* Redis has one value for a key. *)
OneEntry == \A e, f \in cache : e.at = f.at => e = f

(* A stored answer stays until its key expires; another may take its place. *)
KeptInv ==
  \A b \in stored : \A q \in ask[b] :
    CacheKeyOf(q) \in expired \/ \E e \in cache : e.at = CacheKeyOf(q)

(* An attempt that went past the lookup found no answer of those before it. *)
BeforeInv ==
  \A a \in Attempt :
    /\ phase[a] \in {"idle", "lookup"} => before[a] = {}
    /\ \A b \in before[a] :
         /\ phase[b] = "finished"
         /\ b \in stored /\ SameKey(a, b)
              => \A q \in ask[a] : CacheKeyOf(q) \in expired

(* What the invariant says beside the types. *)
Facts == /\ AskInv
         /\ AnswerInv
         /\ EffectInv
         /\ CacheInv
         /\ OneEntry
         /\ KeptInv
         /\ BeforeInv
         /\ ReplayIsGenuine
         /\ ConflictIsGenuine

(* The inductive invariant. *)
IInv == TypeOK /\ Facts

(* A request is what was asked, when, and by whom. *)
LEMMA AskTypes ==
  ASSUME NEW q \in Ask
  PROVE  /\ q.token \in Token /\ q.key \in Key /\ q.body \in Body
         /\ CacheKeyOf(q) \in CacheKey /\ RequestHash(q) \in Body
  BY DEF Ask, CacheKeyOf, CacheKey, RequestHash

(* Two requests have a key in common if they have the cache key. *)
LEMMA SameCacheKey ==
  ASSUME NEW a \in Attempt, NEW b \in Attempt
  PROVE  SameKey(a, b) <=>
           \E p \in ask[a], q \in ask[b] : CacheKeyOf(p) = CacheKeyOf(q)
  BY DEF SameKey, CacheKeyOf

(* What an attempt asks for has its type. *)
LEMMA AsksTyped ==
  ASSUME TypeOK, NEW a \in Attempt, NEW q \in ask[a]
  PROVE  q \in Ask /\ CacheKeyOf(q) \in CacheKey /\ RequestHash(q) \in Body
<1>1. q \in Ask
      BY DEF TypeOK
<1> QED BY <1>1, AskTypes

(* The initial states. *)
LEMMA InitIInv == Init => IInv
<1> SUFFICES ASSUME Init PROVE IInv
    OBVIOUS
<1>1. TypeOK
      BY DEF Init, TypeOK, Phase, Answer
<1>2. /\ AskInv /\ AnswerInv /\ EffectInv
      /\ CacheInv /\ OneEntry /\ KeptInv /\ BeforeInv
      BY DEF Init, AskInv, AnswerInv, EffectInv, CacheInv, OneEntry, KeptInv,
         BeforeInv
<1>3. ReplayIsGenuine /\ ConflictIsGenuine
      BY DEF Init, ReplayIsGenuine, ConflictIsGenuine
<1> QED BY <1>1, <1>2, <1>3 DEF IInv, Facts

(* A request that comes in has its type. *)
LEMMA AskedTypes ==
  ASSUME TypeOK, NEW a \in Attempt, Asked(a)
  PROVE  /\ ask[a] = {}
         /\ \E q \in Ask : ask' = [ask EXCEPT ![a] = {q}]
<1>1. ask[a] = {}
      BY DEF TypeOK, Asked
<1>2. PICK t \in Token, k \in Key, b \in Body :
        ask' = [ask EXCEPT ![a] =
          {[token |-> t, key |-> k, body |-> b, revoked |-> t \in revoked]}]
      BY DEF Asked
<1>3. (t \in revoked) \in BOOLEAN
      OBVIOUS
<1>4. [token |-> t, key |-> k, body |-> b, revoked |-> t \in revoked] \in Ask
      BY <1>3 DEF Ask
<1> QED BY <1>1, <1>2, <1>4

(* What never changes once it is there: the request, the end of an attempt, its
   answer, and the histories. *)
LEMMA Frame ==
  ASSUME TypeOK, Facts, [Next]_vars
  PROVE  /\ \A b \in Attempt : ask[b] # {} => ask'[b] = ask[b]
         /\ \A b \in Attempt : phase[b] = "finished" => phase'[b] = "finished"
         /\ \A b \in Attempt :
              answer[b].kind # "none" => answer'[b] = answer[b]
         /\ applied \subseteq applied' /\ stored \subseteq stored'
         /\ expired \subseteq expired'
<1> DEFINE AskKept == \A b \in Attempt : ask[b] # {} => ask'[b] = ask[b]
           EndKept == \A b \in Attempt :
                        phase[b] = "finished" => phase'[b] = "finished"
           AnswerKept == \A b \in Attempt :
                           answer[b].kind # "none" => answer'[b] = answer[b]
           HistoryKept == /\ applied \subseteq applied'
                          /\ stored \subseteq stored'
                          /\ expired \subseteq expired'
<1>a. AskKept
  <2>1. ASSUME NEW a \in Attempt, Asked(a) PROVE AskKept
    BY <2>1, AskedTypes DEF TypeOK
  <2>2. CASE ~\E a \in Attempt : Asked(a)
    <3>1. ask' = ask
      BY <2>2 DEF Next, Step, vars, Arrive, Limited, Miss, Replay, Conflict,
         Unavailable, Authorize, AnswerError, Apply, AnswerErrorLate, Panic,
         AnswerOk, Store, StoreFails, Crash, Expire, Revoke
    <3> QED BY <3>1
  <2> QED BY <2>1, <2>2
<1>b. EndKept
      BY DEF TypeOK, Asked, Goto, Next, Step, Running, vars, Arrive, Limited,
         Miss, Replay, Conflict, Unavailable, Authorize, AnswerError, Apply,
         AnswerErrorLate, Panic, AnswerOk, Store, StoreFails, Crash, Expire,
         Revoke
<1>c. AnswerKept
      BY DEF Facts, AnswerInv, TypeOK, Asked, Respond, Next, Step, vars,
         Arrive, Limited, Miss, Replay, Conflict, Unavailable, Authorize,
         AnswerError, Apply, AnswerErrorLate, Panic, AnswerOk, Store,
         StoreFails, Crash, Expire, Revoke
<1>d. HistoryKept
      BY DEF Next, Step, vars, Arrive, Limited, Miss, Replay, Conflict,
         Unavailable, Authorize, AnswerError, Apply, AnswerErrorLate, Panic,
         AnswerOk, Store, StoreFails, Crash, Expire, Revoke
<1> QED BY <1>a, <1>b, <1>c, <1>d

(* With the frame at hand, what is common to two attempts stays so. *)
LEMMA SameStays ==
  ASSUME TypeOK, Facts, [Next]_vars, NEW a \in Attempt, NEW b \in Attempt
  PROVE  /\ SameKey(a, b) => SameKey(a, b)'
         /\ SameBody(a, b) => SameBody(a, b)'
         /\ ask[a] # {} /\ ask[b] # {} /\ ~SameBody(a, b) => ~SameBody(a, b)'
         /\ ask[a] # {} /\ ask[b] # {} /\ SameKey(a, b)' => SameKey(a, b)
  BY Frame DEF SameKey, SameBody

(* An attempt goes on asking what it asked. *)
LEMMA AskStep == TypeOK /\ Facts /\ [Next]_vars => AskInv'
<1> SUFFICES ASSUME TypeOK, Facts, [Next]_vars PROVE AskInv'
    OBVIOUS
<1>1. ASSUME NEW a \in Attempt, Arrive(a) \/ Limited(a) PROVE AskInv'
      BY <1>1, AskedTypes DEF Arrive, Limited, AskInv, Facts, TypeOK, Asked
<1>2. ASSUME NEW a \in Attempt,
             Miss(a) \/ Replay(a) \/ Conflict(a) \/ Unavailable(a) \/
             Authorize(a) \/ AnswerError(a) \/ Apply(a) \/ AnswerErrorLate(a)
             \/ Panic(a) \/ AnswerOk(a) \/ Store(a) \/ StoreFails(a) \/
             Crash(a)
      PROVE  AskInv'
      BY <1>2 DEF Miss, Replay, Conflict, Unavailable, Authorize,
         AnswerError, Apply, AnswerErrorLate, Panic, AnswerOk, Store,
         StoreFails, Crash, AskInv, Facts, TypeOK
<1>3. CASE Expire \/ Revoke \/ UNCHANGED vars
      BY <1>3 DEF Expire, Revoke, vars, AskInv, Facts, TypeOK
<1> QED BY <1>1, <1>2, <1>3 DEF Next, Step

(* The answer comes at the end, and once. *)
LEMMA AnswerStep == TypeOK /\ Facts /\ [Next]_vars => AnswerInv'
<1> SUFFICES ASSUME TypeOK, Facts, [Next]_vars PROVE AnswerInv'
    OBVIOUS
<1>1. ASSUME NEW a \in Attempt, Limited(a) PROVE AnswerInv'
      BY <1>1 DEF Limited, Goto, Respond, AnswerInv, TypeOK, Facts, Running,
         Asked
<1>2. ASSUME NEW a \in Attempt, AnswerOk(a) PROVE AnswerInv'
      BY <1>2 DEF AnswerOk, Goto, Respond, AnswerInv, EffectInv, TypeOK, Facts,
         Running
<1>3. ASSUME NEW a \in Attempt, Store(a) PROVE AnswerInv'
      BY <1>3 DEF Store, Goto, Respond, AnswerInv, TypeOK, Facts, Running
<1>4. ASSUME NEW a \in Attempt, Apply(a) PROVE AnswerInv'
      BY <1>4 DEF Apply, Goto, EffectInv, AnswerInv, TypeOK, Facts, Respond,
         Running
<1>5. ASSUME NEW a \in Attempt,
             Arrive(a) \/ Miss(a) \/ Replay(a) \/ Conflict(a) \/
             Unavailable(a) \/ Authorize(a) \/ AnswerError(a) \/
             AnswerErrorLate(a) \/ Panic(a) \/ StoreFails(a) \/ Crash(a)
      PROVE  AnswerInv'
      BY <1>5 DEF Arrive, Miss, Replay, Conflict, Unavailable, Authorize,
         AnswerError, AnswerErrorLate, Panic, StoreFails, Crash, AnswerInv,
         TypeOK, Facts, Goto, Respond, Running, Asked
<1>6. CASE Expire \/ Revoke \/ UNCHANGED vars
      BY <1>6 DEF Expire, Revoke, vars, AnswerInv, TypeOK, Facts, Goto,
         Respond, Running
<1> QED BY <1>1, <1>2, <1>3, <1>4, <1>5, <1>6 DEF Next, Step

(* The effect comes before the end, and the storing at it. *)
LEMMA EffectStep == TypeOK /\ Facts /\ [Next]_vars => EffectInv'
<1> SUFFICES ASSUME TypeOK, Facts, [Next]_vars PROVE EffectInv'
    OBVIOUS
<1>1. ASSUME NEW a \in Attempt, Store(a) PROVE EffectInv'
      BY <1>1 DEF Store, Goto, AnswerInv, EffectInv, TypeOK, Facts, Respond,
         Running
<1>2. ASSUME NEW a \in Attempt, AnswerOk(a) PROVE EffectInv'
      BY <1>2 DEF AnswerOk, Goto, Respond, EffectInv, AnswerInv, TypeOK,
         Facts, Running
<1>3. ASSUME NEW a \in Attempt,
             Arrive(a) \/ Limited(a) \/ Miss(a) \/ Replay(a) \/ Conflict(a)
             \/ Unavailable(a) \/ Authorize(a) \/ AnswerError(a) \/ Apply(a)
             \/ AnswerErrorLate(a) \/ Panic(a) \/ StoreFails(a) \/ Crash(a)
      PROVE  EffectInv'
      BY <1>3 DEF Arrive, Limited, Miss, Replay, Conflict, Unavailable,
         Authorize, AnswerError, Apply, AnswerErrorLate, Panic, StoreFails,
         Crash, EffectInv, AnswerInv, TypeOK, Facts, Goto, Respond, Running,
         Asked
<1>4. CASE Expire \/ Revoke \/ UNCHANGED vars
      BY <1>4 DEF Expire, Revoke, vars, EffectInv, AnswerInv, TypeOK, Facts,
         Goto, Respond, Running
<1> QED BY <1>1, <1>2, <1>3, <1>4 DEF Next, Step

(* Only Store adds to the cache, and it adds what it was asked for. *)
LEMMA CacheChange ==
  ASSUME TypeOK, Facts, [Next]_vars
  PROVE  \/ cache' \subseteq cache
         \/ \E a \in Attempt : Store(a)
  BY DEF Next, Step, vars, Arrive, Limited, Miss, Replay, Conflict,
     Unavailable, Authorize, AnswerError, Apply, AnswerErrorLate, Panic,
     AnswerOk, StoreFails, Crash, Expire, Revoke

(* What is cached was stored. *)
LEMMA CacheStep == TypeOK /\ Facts /\ [Next]_vars => CacheInv'
<1> SUFFICES ASSUME TypeOK, Facts, [Next]_vars, NEW e \in cache'
             PROVE  /\ e.by \in stored'
                    /\ \E q \in ask'[e.by] : /\ e.at = CacheKeyOf(q)
                                            /\ e.hash = RequestHash(q)
    BY DEF CacheInv
<1>1. CASE e \in cache
  <2>1. /\ e.by \in stored
        /\ \E q \in ask[e.by] : e.at = CacheKeyOf(q) /\ e.hash = RequestHash(q)
    BY <1>1 DEF Facts, CacheInv
  <2>2. e.by \in Attempt
    BY <2>1 DEF TypeOK
  <2> QED BY <2>1, <2>2, Frame
<1>2. ASSUME NEW a \in Attempt, Store(a), e \notin cache
      PROVE  /\ e.by \in stored'
             /\ \E q \in ask'[e.by] : /\ e.at = CacheKeyOf(q)
                                     /\ e.hash = RequestHash(q)
  <2>1. PICK q \in ask[a] :
          e = [at |-> CacheKeyOf(q), hash |-> RequestHash(q), by |-> a]
    BY <1>2 DEF Store
  <2>2. ask'[a] = ask[a]
    BY <2>1, Frame
  <2> QED BY <1>2, <2>1, <2>2 DEF Store
<1> QED BY <1>1, <1>2, CacheChange

(* Store replaces what Redis has for the key. *)
LEMMA OneEntryStep == TypeOK /\ Facts /\ [Next]_vars => OneEntry'
<1> SUFFICES ASSUME TypeOK, Facts, [Next]_vars PROVE OneEntry'
    OBVIOUS
<1>1. ASSUME NEW a \in Attempt, Store(a) PROVE OneEntry'
      BY <1>1 DEF Store, EntriesFor, OneEntry, Facts
<1>2. CASE cache' \subseteq cache
      BY <1>2 DEF OneEntry, Facts
<1> QED BY <1>1, <1>2, CacheChange

(* Only Expire takes a cache key out of the cache, and the history records it:
   Store replaces the entry of its cache key by another. *)
LEMMA KeyKept ==
  ASSUME TypeOK, Facts, [Next]_vars, NEW e \in cache
  PROVE  e.at \in expired' \/ \E f \in cache' : f.at = e.at
<1>1. ASSUME NEW a \in Attempt, Store(a)
      PROVE  \E f \in cache' : f.at = e.at
  <2>1. PICK q \in ask[a] :
          cache' = (cache \ EntriesFor(q)) \cup
            {[at |-> CacheKeyOf(q), hash |-> RequestHash(q), by |-> a]}
    BY <1>1 DEF Store
  <2>2. CASE e \in EntriesFor(q)
    BY <2>1, <2>2 DEF EntriesFor
  <2>3. CASE e \notin EntriesFor(q)
    BY <2>1, <2>3
  <2> QED BY <2>2, <2>3
<1>2. CASE Expire
      BY <1>2 DEF Expire
<1>3. CASE ~Expire /\ ~\E a \in Attempt : Store(a)
  <2>1. cache' = cache
    BY <1>3 DEF Next, Step, vars, Arrive, Limited, Miss, Replay, Conflict,
       Unavailable, Authorize, AnswerError, Apply, AnswerErrorLate, Panic,
       AnswerOk, StoreFails, Crash, Revoke
  <2> QED BY <2>1
<1> QED BY <1>1, <1>2, <1>3

(* Only Store adds to what was stored. *)
LEMMA StoredChange ==
  ASSUME TypeOK, Facts, [Next]_vars, NEW b \in stored', b \notin stored
  PROVE  b \in Attempt /\ Store(b)
  BY DEF Next, Step, vars, Store, Arrive, Limited, Miss, Replay, Conflict,
     Unavailable, Authorize, AnswerError, Apply, AnswerErrorLate, Panic,
     AnswerOk, StoreFails, Crash, Expire, Revoke

(* A stored answer stays until its key expires. *)
LEMMA KeptStep == TypeOK /\ Facts /\ [Next]_vars => KeptInv'
<1> SUFFICES ASSUME TypeOK, Facts, [Next]_vars,
                    NEW b \in stored', NEW q \in ask'[b]
             PROVE  \/ CacheKeyOf(q) \in expired'
                    \/ \E e \in cache' : e.at = CacheKeyOf(q)
    BY DEF KeptInv, CacheKeyOf
<1>1. CASE b \in stored
  <2>1. b \in Attempt /\ ask[b] # {}
    BY <1>1 DEF TypeOK, Facts, EffectInv
  <2>2. q \in ask[b]
    BY <2>1, Frame
  <2>3. CASE CacheKeyOf(q) \in expired
    BY <2>3, Frame
  <2>4. ASSUME NEW e \in cache, e.at = CacheKeyOf(q)
        PROVE  \/ CacheKeyOf(q) \in expired'
               \/ \E f \in cache' : f.at = CacheKeyOf(q)
    BY <2>4, KeyKept
  <2> QED BY <1>1, <2>2, <2>3, <2>4 DEF Facts, KeptInv
<1>2. CASE b \notin stored
  <2>1. b \in Attempt /\ Store(b)
    BY <1>2, StoredChange
  <2>2. PICK p \in ask[b] :
          cache' = (cache \ EntriesFor(p)) \cup
            {[at |-> CacheKeyOf(p), hash |-> RequestHash(p), by |-> b]}
    BY <2>1 DEF Store
  <2>3. p = q
    BY <2>1, <2>2, Frame DEF Facts, AskInv
  <2> DEFINE new == [at |-> CacheKeyOf(p), hash |-> RequestHash(p), by |-> b]
  <2>4. new \in cache' /\ new.at = CacheKeyOf(q)
    BY <2>2, <2>3
  <2> HIDE DEF new
  <2> QED BY <2>4
<1> QED BY <1>1, <1>2

(* Only a lookup that found nothing sets what was before an attempt. *)
LEMMA BeforeChange ==
  ASSUME TypeOK, Facts, [Next]_vars, NEW a \in Attempt, ~Miss(a)
  PROVE  before'[a] = before[a]
  BY DEF TypeOK, Next, Step, vars, Miss, Arrive, Limited, Replay, Conflict,
     Unavailable, Authorize, AnswerError, Apply, AnswerErrorLate, Panic,
     AnswerOk, Store, StoreFails, Crash, Expire, Revoke

(* An attempt at its lookup was there or came. *)
LEMMA EarlyBefore ==
  ASSUME TypeOK, Facts, [Next]_vars, NEW a \in Attempt, ~Miss(a),
         phase'[a] \in {"idle", "lookup"}
  PROVE  phase[a] \in {"idle", "lookup"}
  BY DEF TypeOK, Goto, Asked, Next, Step, vars, Miss, Arrive, Limited, Miss,
     Replay, Conflict, Unavailable, Authorize, AnswerError, Apply,
     AnswerErrorLate, Panic, AnswerOk, Store, StoreFails, Crash, Expire, Revoke

(* What an attempt found before it, and did not, stays true. *)
LEMMA BeforeStep == TypeOK /\ Facts /\ [Next]_vars => BeforeInv'
<1> SUFFICES ASSUME TypeOK, Facts, [Next]_vars, NEW a \in Attempt
             PROVE  /\ phase'[a] \in {"idle", "lookup"} => before'[a] = {}
                    /\ \A b \in before'[a] :
                         /\ phase'[b] = "finished"
                         /\ b \in stored' /\ SameKey(a, b)'
                              => \A q \in ask'[a] : CacheKeyOf(q) \in expired'
    BY DEF BeforeInv, CacheKeyOf
<1>1. CASE Miss(a)
  <2>1. /\ before'[a] = {b \in Attempt : phase[b] = "finished"}
        /\ phase'[a] = "handling"
    BY <1>1 DEF Miss, Goto, TypeOK
  <2>2. PICK q \in ask[a] : EntriesFor(q) = {}
    BY <1>1 DEF Miss
  <2>3. ask'[a] = ask[a] /\ \A r \in ask[a] : r = q
    BY <2>2, Frame DEF Facts, AskInv
  <2>4. ASSUME NEW b \in Attempt, phase[b] = "finished",
               b \in stored', SameKey(a, b)'
        PROVE  CacheKeyOf(q) \in expired'
    <3>1. b \in stored
      BY <1>1, <2>4 DEF Miss
    <3>2. ask[b] # {} /\ ask'[b] = ask[b]
      BY <2>4, Frame DEF TypeOK
    <3>3. PICK p \in ask[b] : CacheKeyOf(p) = CacheKeyOf(q)
      BY <2>3, <2>4, <3>2 DEF SameKey, CacheKeyOf
    <3>4. ~\E e \in cache : e.at = CacheKeyOf(q)
      BY <2>2 DEF EntriesFor
    <3>5. CacheKeyOf(q) \in expired
      BY <3>1, <3>3, <3>4 DEF Facts, KeptInv
    <3> QED BY <3>5, Frame
  <2>5. ASSUME NEW b \in before'[a]
        PROVE  b \in Attempt /\ phase[b] = "finished" /\ phase'[b] = "finished"
    BY <2>1, <2>5, Frame
  <2> QED BY <2>1, <2>3, <2>4, <2>5
<1>2. CASE ~Miss(a)
  <2>1. before'[a] = before[a]
    BY <1>2, BeforeChange
  <2>2. phase'[a] \in {"idle", "lookup"} => before'[a] = {}
    BY <1>2, <2>1, EarlyBefore DEF Facts, BeforeInv
  <2>3. ASSUME NEW b \in before'[a]
        PROVE  phase'[b] = "finished"
    BY <2>1, <2>3, Frame DEF Facts, BeforeInv, TypeOK
  <2>4. ASSUME NEW b \in before'[a], b \in stored', SameKey(a, b)'
        PROVE  \A q \in ask'[a] : CacheKeyOf(q) \in expired'
    <3>1. b \in Attempt /\ b \in before[a] /\ phase[b] = "finished"
      BY <2>1, <2>4 DEF Facts, BeforeInv, TypeOK
    <3>2. b \in stored
      BY <2>4, <3>1, StoredChange DEF Store
    <3>3. ask[a] # {} /\ ask[b] # {}
      BY <3>1 DEF Facts, BeforeInv, TypeOK
    <3>4. SameKey(a, b) /\ ask'[a] = ask[a]
      BY <2>4, <3>1, <3>3, SameStays, Frame
    <3>5. \A q \in ask[a] : CacheKeyOf(q) \in expired
      BY <3>1, <3>2, <3>4 DEF Facts, BeforeInv
    <3> QED BY <3>4, <3>5, Frame
  <2> QED BY <2>2, <2>3, <2>4
<1> QED BY <1>1, <1>2

(* An entry that is found was stored by an attempt with the same key, whose
   body its hash is of. *)
LEMMA Found ==
  ASSUME TypeOK, Facts, NEW a \in Attempt, NEW q \in ask[a],
         NEW e \in EntriesFor(q), phase[a] = "lookup"
  PROVE  /\ e.by \in Attempt /\ e.by # a
         /\ e.by \in applied /\ answer[e.by].kind = "own"
         /\ SameKey(a, e.by)
         /\ e.hash = RequestHash(q) <=> SameBody(a, e.by)
<1>1. e \in cache /\ e.at = CacheKeyOf(q)
      BY DEF EntriesFor
<1>2. e.by \in stored
      BY <1>1 DEF Facts, CacheInv
<1>3. e.by \in Attempt /\ e.by # a /\ answer[e.by].kind = "own"
      BY <1>2 DEF Facts, EffectInv, TypeOK
<1>4. PICK p \in ask[e.by] : e.at = CacheKeyOf(p) /\ e.hash = RequestHash(p)
      BY <1>1 DEF Facts, CacheInv
<1>5. SameKey(a, e.by)
      BY <1>1, <1>4 DEF SameKey, CacheKeyOf
<1>6. ask[a] = {q} /\ ask[e.by] = {p}
      BY <1>3, <1>4 DEF Facts, AskInv
<1>7. e.hash = RequestHash(q) <=> SameBody(a, e.by)
      BY <1>4, <1>6 DEF SameBody, RequestHash
<1>8. e.by \in applied
      BY <1>3 DEF Facts, AnswerInv
<1> QED BY <1>3, <1>5, <1>7, <1>8

(* Only a lookup that finds an entry gives a replay or a conflict. *)
LEMMA AnswerChange ==
  ASSUME TypeOK, Facts, [Next]_vars, NEW a \in Attempt,
         answer[a].kind = "none", answer'[a].kind \in {"replay", "conflict"}
  PROVE  \/ answer'[a].kind = "replay" /\ Replay(a)
         \/ answer'[a].kind = "conflict" /\ Conflict(a)
  BY DEF TypeOK, Respond, Next, Step, vars, Arrive, Limited, Miss, Replay,
     Conflict, Unavailable, Authorize, AnswerError, Apply, AnswerErrorLate,
     Panic, AnswerOk, Store, StoreFails, Crash, Expire, Revoke

(* A replay gives what an attempt of the same user, with the same key and
   body, was given. *)
LEMMA ReplayStep == TypeOK /\ Facts /\ [Next]_vars => ReplayIsGenuine'
<1> SUFFICES ASSUME TypeOK, Facts, [Next]_vars, NEW a \in Attempt,
                    answer'[a].kind = "replay", NEW b, b = answer'[a].by
             PROVE  /\ b # a /\ b \in applied' /\ answer'[b].kind = "own"
                    /\ SameKey(a, b)' /\ SameBody(a, b)'
    BY DEF ReplayIsGenuine
<1>1. b \in Attempt /\ b # a /\ b \in applied /\ answer[b].kind = "own"
      /\ SameKey(a, b) /\ SameBody(a, b)
  <2>1. CASE answer[a].kind = "none"
    <3>1. Replay(a)
      BY <2>1, AnswerChange
    <3>2. PICK q \in ask[a] : \E e \in EntriesFor(q) :
            e.hash = RequestHash(q) /\ Respond(a, "replay", e.by)
      BY <3>1 DEF Replay
    <3>3. PICK e \in EntriesFor(q) :
            e.hash = RequestHash(q) /\ Respond(a, "replay", e.by)
      BY <3>2
    <3>4. b = e.by
      BY <3>3 DEF Respond, TypeOK
    <3>5. phase[a] = "lookup"
      BY <3>1 DEF Replay
    <3> QED BY <3>3, <3>4, <3>5, Found
  <2>2. CASE answer[a].kind # "none"
    <3>1. answer'[a] = answer[a]
      BY <2>2, Frame
    <3> QED BY <3>1 DEF Facts, ReplayIsGenuine, TypeOK, Answer
  <2> QED BY <2>1, <2>2
<1> QED BY <1>1, Frame, SameStays

(* A conflict is with an attempt that took effect. *)
LEMMA ConflictStep == TypeOK /\ Facts /\ [Next]_vars => ConflictIsGenuine'
<1> SUFFICES ASSUME TypeOK, Facts, [Next]_vars, NEW a \in Attempt,
                    answer'[a].kind = "conflict"
             PROVE  \E b \in applied' :
                       b # a /\ SameKey(a, b)' /\ ~SameBody(a, b)'
    BY DEF ConflictIsGenuine
<1>1. PICK b \in applied : b # a /\ SameKey(a, b) /\ ~SameBody(a, b)
  <2>1. CASE answer[a].kind = "none"
    <3>1. Conflict(a)
      BY <2>1, AnswerChange
    <3>2. PICK q \in ask[a] : \E e \in EntriesFor(q) : e.hash # RequestHash(q)
      BY <3>1 DEF Conflict
    <3>3. PICK e \in EntriesFor(q) : e.hash # RequestHash(q)
      BY <3>2
    <3>4. phase[a] = "lookup"
      BY <3>1 DEF Conflict
    <3> QED BY <3>3, <3>4, Found
  <2>2. CASE answer[a].kind # "none"
    <3>1. answer'[a] = answer[a]
      BY <2>2, Frame
    <3> QED BY <3>1 DEF Facts, ConflictIsGenuine
  <2> QED BY <2>1, <2>2
<1>2. b \in Attempt /\ ask[a] # {} /\ ask[b] # {}
      BY <1>1 DEF TypeOK, SameKey
<1> QED BY <1>1, <1>2, Frame, SameStays

(* Every step keeps the types. *)
LEMMA TypeStep == TypeOK /\ Facts /\ [Next]_vars => TypeOK'
<1> SUFFICES ASSUME TypeOK, Facts, [Next]_vars PROVE TypeOK'
    OBVIOUS
<1>1. phase' \in [Attempt -> Phase]
      BY DEF TypeOK, Phase, Goto, Next, Step, vars, Arrive, Limited, Miss,
         Replay, Conflict, Unavailable, Authorize, AnswerError, Apply,
         AnswerErrorLate, Panic, AnswerOk, Store, StoreFails, Crash, Expire,
         Revoke
<1>2. ask' \in [Attempt -> SUBSET Ask]
  <2>1. ASSUME NEW a \in Attempt, Asked(a)
        PROVE  ask' \in [Attempt -> SUBSET Ask]
    BY <2>1, AskedTypes DEF TypeOK
  <2>2. CASE ~\E a \in Attempt : Asked(a)
    <3>1. ask' = ask
      BY <2>2 DEF Next, Step, vars, Arrive, Limited, Miss, Replay, Conflict,
         Unavailable, Authorize, AnswerError, Apply, AnswerErrorLate, Panic,
         AnswerOk, Store, StoreFails, Crash, Expire, Revoke
    <3> QED BY <3>1 DEF TypeOK
  <2> QED BY <2>1, <2>2
<1>3. \A b \in Attempt : phase'[b] = "idle" <=> ask'[b] = {}
  <2>1. ASSUME NEW a \in Attempt, Arrive(a) \/ Limited(a)
        PROVE  \A b \in Attempt : phase'[b] = "idle" <=> ask'[b] = {}
    BY <2>1, AskedTypes DEF Arrive, Limited, Goto, TypeOK
  <2>2. CASE ~\E a \in Attempt : Arrive(a) \/ Limited(a)
    <3>1. ask' = ask
      BY <2>2 DEF Next, Step, vars, Miss, Replay, Conflict, Unavailable,
         Authorize, AnswerError, Apply, AnswerErrorLate, Panic, AnswerOk,
         Store, StoreFails, Crash, Expire, Revoke
    <3>2. \A b \in Attempt : phase'[b] = "idle" <=> phase[b] = "idle"
      BY <2>2 DEF TypeOK, Goto, Running, Next, Step, vars, Miss, Replay,
         Conflict, Unavailable, Authorize, AnswerError, Apply, AnswerErrorLate,
         Panic, AnswerOk, Store, StoreFails, Crash, Expire, Revoke
    <3> QED BY <3>1, <3>2 DEF TypeOK
  <2> QED BY <2>1, <2>2
<1>4. answer' \in [Attempt -> Answer]
  <2>1. ASSUME NEW a \in Attempt, Replay(a)
        PROVE  answer' \in [Attempt -> Answer]
    <3>1. PICK q \in ask[a] :
            \E e \in EntriesFor(q) : Respond(a, "replay", e.by)
      BY <2>1 DEF Replay
    <3>2. PICK e \in EntriesFor(q) : Respond(a, "replay", e.by)
      BY <3>1
    <3>3. e.by \in Attempt
      BY <2>1, Found DEF Replay
    <3> QED BY <3>2, <3>3 DEF Respond, TypeOK, Answer
  <2>2. CASE ~\E a \in Attempt : Replay(a)
    BY <2>2 DEF TypeOK, Answer, Respond, Next, Step, vars, Arrive, Limited,
       Miss, Conflict, Unavailable, Authorize, AnswerError, Apply,
       AnswerErrorLate, Panic, AnswerOk, Store, StoreFails, Crash, Expire,
       Revoke
  <2> QED BY <2>1, <2>2
<1>5. cache' \subseteq Entry
  <2>1. ASSUME NEW a \in Attempt, Store(a) PROVE cache' \subseteq Entry
    <3>1. PICK q \in ask[a] :
            cache' = (cache \ EntriesFor(q)) \cup
              {[at |-> CacheKeyOf(q), hash |-> RequestHash(q), by |-> a]}
      BY <2>1 DEF Store
    <3>2. CacheKeyOf(q) \in CacheKey /\ RequestHash(q) \in Body
      BY AsksTyped
    <3> QED BY <3>1, <3>2 DEF Entry, TypeOK
  <2> QED BY <2>1, CacheChange DEF TypeOK
<1>6. revoked' \subseteq Token
      BY DEF TypeOK, Next, Step, vars, Arrive, Limited, Miss, Replay,
         Conflict, Unavailable, Authorize, AnswerError, Apply, AnswerErrorLate,
         Panic, AnswerOk, Store, StoreFails, Crash, Expire, Revoke
<1>7. applied' \subseteq Attempt /\ stored' \subseteq Attempt
      BY DEF TypeOK, Next, Step, vars, Arrive, Limited, Miss, Replay,
         Conflict, Unavailable, Authorize, AnswerError, Apply, AnswerErrorLate,
         Panic, AnswerOk, Store, StoreFails, Crash, Expire, Revoke
<1>8. expired' \subseteq CacheKey
  <2>1. CASE Expire
    <3>1. PICK e \in cache : expired' = expired \cup {e.at}
      BY <2>1 DEF Expire
    <3> QED BY <3>1 DEF TypeOK, Entry
  <2>2. CASE ~Expire
    <3>1. expired' = expired
      BY <2>2 DEF Next, Step, vars, Arrive, Limited, Miss, Replay, Conflict,
         Unavailable, Authorize, AnswerError, Apply, AnswerErrorLate, Panic,
         AnswerOk, Store, StoreFails, Crash, Revoke
    <3> QED BY <3>1 DEF TypeOK
  <2> QED BY <2>1, <2>2
<1>9. before' \in [Attempt -> SUBSET Attempt]
      BY DEF TypeOK, Next, Step, vars, Arrive, Limited, Miss, Replay,
         Conflict, Unavailable, Authorize, AnswerError, Apply, AnswerErrorLate,
         Panic, AnswerOk, Store, StoreFails, Crash, Expire, Revoke
<1> QED BY <1>1, <1>2, <1>3, <1>4, <1>5, <1>6, <1>7, <1>8, <1>9 DEF TypeOK

(* The invariant is inductive. *)
LEMMA NextIInv == IInv /\ [Next]_vars => IInv'
<1> SUFFICES ASSUME TypeOK, Facts, [Next]_vars PROVE TypeOK' /\ Facts'
    BY DEF IInv
<1>1. TypeOK' /\ AskInv' /\ AnswerInv' /\ EffectInv'
      BY TypeStep, AskStep, AnswerStep, EffectStep
<1>2. CacheInv' /\ OneEntry' /\ KeptInv' /\ BeforeInv'
      BY CacheStep, OneEntryStep, KeptStep, BeforeStep
<1>3. ReplayIsGenuine' /\ ConflictIsGenuine'
      BY ReplayStep, ConflictStep
<1> QED BY <1>1, <1>2, <1>3 DEF Facts

(* It holds of every state. *)
THEOREM IdempotencyInvariant == Spec => []IInv
<1> QED BY InitIInv, NextIInv, PTL DEF Spec

(* Every variable of the middleware keeps its type (Idempotency!TypeOK). *)
THEOREM IdempotencyTypeCorrect == Spec => []TypeOK
<1>1. IInv => TypeOK
      BY DEF IInv
<1> QED BY <1>1, IdempotencyInvariant, PTL

(* Nobody is replayed another user's answer, the answer to another body, or
   one that was never given (cache key and hash, idempotency.go:80). *)
THEOREM ReplayIsGenuineHolds == Spec => []ReplayIsGenuine
<1>1. IInv => ReplayIsGenuine
      BY DEF IInv, Facts
<1> QED BY <1>1, IdempotencyInvariant, PTL

(* An attempt that finished stored keeps every later one with its key from
   taking effect, until the key expires (idempotency.go:89). *)
THEOREM StoredProtectsHolds == Spec => []StoredProtects
<1>1. ASSUME IInv, NEW a \in Attempt, NEW b \in Attempt,
             b \in before[a] \cap stored, SameKey(a, b)
      PROVE  \E q \in ask[a] : CacheKeyOf(q) \in expired
  <2>1. \A q \in ask[a] : CacheKeyOf(q) \in expired
    BY <1>1 DEF IInv, Facts, BeforeInv
  <2> QED BY <1>1, <2>1 DEF SameKey
<1>2. IInv => StoredProtects
      BY <1>1 DEF StoredProtects
<1> QED BY <1>2, IdempotencyInvariant, PTL

(* 422 is never given for a key that was not used for another body
   (idempotency.go:91). *)
THEOREM ConflictIsGenuineHolds == Spec => []ConflictIsGenuine
<1>1. IInv => ConflictIsGenuine
      BY DEF IInv, Facts
<1> QED BY <1>1, IdempotencyInvariant, PTL

(* The mapping to OncePerKey: what is known of an attempt, who may take effect,
   and what is settled. *)
keys  == [a \in Attempt |-> {CacheKeyOf(q) : q \in ask[a]}]
begun == {a \in Attempt : phase[a] \in {"handling", "authorized"}}
kept  == {e.at : e \in cache}

(* A step that changes none of the three, nor the effects, is a stutter. *)
LEMMA Stutter ==
  ASSUME keys' = keys, begun' = begun, applied' = applied, kept' = kept
  PROVE  UNCHANGED Promise!vars
  BY DEF Promise!vars, keys, begun, kept

(* The initial states are initial states of the promise. *)
LEMMA InitPromise == Init => Promise!Init
  BY DEF Init, Promise!Init

(* Who has begun, when one attempt moves on. *)
LEMMA Moves ==
  ASSUME TypeOK, NEW a \in Attempt, NEW p, Goto(a, p)
  PROVE  begun' = IF p \in {"handling", "authorized"} THEN begun \cup {a}
                  ELSE begun \ {a}
  BY DEF TypeOK, Goto, begun

(* A request that comes in makes its cache key known. *)
LEMMA Comes ==
  ASSUME TypeOK, NEW a \in Attempt, Asked(a)
  PROVE  /\ keys[a] = {}
         /\ \E k \in CacheKey : keys' = [keys EXCEPT ![a] = {k}]
<1>1. PICK q \in Ask : ask[a] = {} /\ ask' = [ask EXCEPT ![a] = {q}]
      BY AskedTypes
<1>2. keys[a] = {}
      BY <1>1 DEF keys
<1>3. keys' = [keys EXCEPT ![a] = {CacheKeyOf(q)}]
  <2>1. \A b \in Attempt : keys'[b] = [keys EXCEPT ![a] = {CacheKeyOf(q)}][b]
    BY <1>1 DEF keys, TypeOK, CacheKeyOf
  <2> QED BY <2>1 DEF keys
<1>4. CacheKeyOf(q) \in CacheKey
      BY AskTypes
<1> QED BY <1>2, <1>3, <1>4

(* Storing settles the cache key and leaves the others. *)
LEMMA Settles ==
  ASSUME TypeOK, Facts, NEW a \in Attempt, Store(a)
  PROVE  kept' = kept \cup keys[a]
<1>1. PICK q \in ask[a] :
        cache' = (cache \ EntriesFor(q)) \cup
          {[at |-> CacheKeyOf(q), hash |-> RequestHash(q), by |-> a]}
      BY DEF Store
<1>2. keys[a] = {CacheKeyOf(q)}
      BY <1>1 DEF Facts, AskInv, keys
<1> DEFINE new == [at |-> CacheKeyOf(q), hash |-> RequestHash(q), by |-> a]
<1>3. new \in cache' /\ new.at = CacheKeyOf(q)
      BY <1>1
<1>4. ASSUME NEW k \in kept' PROVE k \in kept \cup {CacheKeyOf(q)}
      BY <1>1, <1>4 DEF kept
<1>5. ASSUME NEW e \in cache, e.at # CacheKeyOf(q) PROVE e \in cache'
      BY <1>1, <1>5 DEF EntriesFor
<1> HIDE DEF new
<1>6. ASSUME NEW k \in kept \cup {CacheKeyOf(q)} PROVE k \in kept'
  <2>1. CASE k = CacheKeyOf(q)
    BY <1>3, <2>1 DEF kept
  <2>2. CASE k # CacheKeyOf(q)
    BY <1>5, <1>6, <2>2 DEF kept
  <2> QED BY <2>1, <2>2
<1> QED BY <1>2, <1>4, <1>6

(* An entry that expires takes its cache key with it. *)
LEMMA Forgets ==
  ASSUME TypeOK, Facts, Expire
  PROVE  \E k \in CacheKey : kept' = kept \ {k}
<1>1. PICK e \in cache : cache' = cache \ {e}
      BY DEF Expire
<1>2. \A f \in cache : f.at = e.at => f = e
      BY DEF Facts, OneEntry
<1>3. kept' = kept \ {e.at}
      BY <1>1, <1>2 DEF kept
<1>4. e.at \in CacheKey
      BY DEF TypeOK, Entry
<1> QED BY <1>3, <1>4

(* Every step is a step of the promise or a stutter. *)
LEMMA StepPromise == IInv /\ [Next]_vars => [Promise!Next]_(Promise!vars)
<1> SUFFICES ASSUME TypeOK, Facts, [Next]_vars
             PROVE  Promise!Next \/ UNCHANGED Promise!vars
    BY DEF IInv
<1> DEFINE Goal == Promise!Next \/ UNCHANGED Promise!vars
<1>1. ASSUME NEW a \in Attempt, Arrive(a) \/ Limited(a) PROVE Goal
  <2>1. PICK k \in CacheKey : keys' = [keys EXCEPT ![a] = {k}]
    BY <1>1, Comes DEF Arrive, Limited
  <2>2. keys[a] = {} /\ a \notin begun
    BY <1>1, Comes DEF Arrive, Limited, begun, Asked
  <2>3. begun' = begun \ {a}
    BY <1>1, Moves DEF Arrive, Limited
  <2>4. begun' = begun /\ applied' = applied /\ kept' = kept
    BY <1>1, <2>2, <2>3 DEF Arrive, Limited, kept
  <2>5. Promise!Come(a, k)
    BY <2>1, <2>2, <2>4 DEF Promise!Come, keys, begun, kept
  <2> QED BY <2>5 DEF Promise!Next
<1>2. ASSUME NEW a \in Attempt, Miss(a) PROVE Goal
  <2>1. PICK q \in ask[a] : EntriesFor(q) = {}
    BY <1>2 DEF Miss
  <2>2. keys[a] = {CacheKeyOf(q)}
    BY <2>1 DEF Facts, AskInv, keys
  <2>3. keys[a] # {} /\ keys[a] \cap kept = {}
    BY <2>1, <2>2 DEF EntriesFor, kept
  <2>4. a \notin applied
    BY <1>2 DEF Miss, Facts, EffectInv
  <2>5. begun' = begun \cup {a}
    BY <1>2, Moves DEF Miss
  <2>6. keys' = keys /\ applied' = applied /\ kept' = kept
    BY <1>2 DEF Miss, keys, kept
  <2>7. Promise!Begin(a)
    BY <2>3, <2>4, <2>5, <2>6 DEF Promise!Begin, keys, begun, kept
  <2> QED BY <2>7 DEF Promise!Next
<1>3. ASSUME NEW a \in Attempt, AnswerError(a) \/ Panic(a) \/ Crash(a)
      PROVE  Goal
  <2>1. begun' = begun \ {a}
    BY <1>3, Moves DEF AnswerError, Panic, Crash
  <2>2. keys' = keys /\ applied' = applied /\ kept' = kept
    BY <1>3 DEF AnswerError, Panic, Crash, keys, kept
  <2>3. Promise!GiveUp(a)
    BY <2>1, <2>2 DEF Promise!GiveUp, keys, begun, kept
  <2> QED BY <2>3 DEF Promise!Next
<1>4. ASSUME NEW a \in Attempt, Apply(a) PROVE Goal
  <2>1. a \in begun /\ begun' = begun \ {a}
    BY <1>4, Moves DEF Apply, begun
  <2>2. keys' = keys /\ applied' = applied \cup {a} /\ kept' = kept
    BY <1>4 DEF Apply, keys, kept
  <2>3. Promise!Apply(a)
    BY <2>1, <2>2 DEF Promise!Apply, keys, begun, kept
  <2> QED BY <2>3 DEF Promise!Next
<1>5. ASSUME NEW a \in Attempt, Store(a) PROVE Goal
  <2>1. a \in applied /\ a \notin begun
    BY <1>5 DEF Store, begun, Facts, AnswerInv
  <2>2. begun' = begun
    BY <1>5, <2>1, Moves DEF Store
  <2>3. keys' = keys /\ applied' = applied /\ kept' = kept \cup keys[a]
    BY <1>5, Settles DEF Store, keys
  <2>4. Promise!Settle(a)
    BY <2>1, <2>2, <2>3 DEF Promise!Settle, keys, begun, kept
  <2> QED BY <2>4 DEF Promise!Next
<1>6. CASE Expire
  <2>1. PICK k \in CacheKey : kept' = kept \ {k}
    BY <1>6, Forgets
  <2>2. keys' = keys /\ begun' = begun /\ applied' = applied
    BY <1>6 DEF Expire, keys, begun
  <2>3. Promise!Forget(k)
    BY <2>1, <2>2 DEF Promise!Forget, keys, begun, kept
  <2> QED BY <2>3 DEF Promise!Next
<1>7. ASSUME NEW a \in Attempt,
             \/ Replay(a) \/ Conflict(a) \/ Unavailable(a)
             \/ AnswerErrorLate(a) \/ AnswerOk(a) \/ StoreFails(a)
      PROVE  Goal
  <2>1. a \notin begun /\ begun' = begun \ {a}
    BY <1>7, Moves DEF Replay, Conflict, Unavailable, AnswerErrorLate,
       AnswerOk, StoreFails, begun
  <2>2. keys' = keys /\ applied' = applied /\ kept' = kept
    BY <1>7 DEF Replay, Conflict, Unavailable, AnswerErrorLate, AnswerOk,
       StoreFails, keys, kept
  <2> QED BY <2>1, <2>2, Stutter
<1>8. ASSUME NEW a \in Attempt, Authorize(a) PROVE Goal
  <2>1. a \in begun /\ begun' = begun \cup {a}
    BY <1>8, Moves DEF Authorize, begun
  <2>2. keys' = keys /\ applied' = applied /\ kept' = kept
    BY <1>8 DEF Authorize, keys, kept
  <2> QED BY <2>1, <2>2, Stutter
<1>9. CASE Revoke \/ UNCHANGED vars
  <2>1. keys' = keys /\ begun' = begun /\ applied' = applied /\ kept' = kept
    BY <1>9 DEF Revoke, vars, keys, begun, kept
  <2> QED BY <2>1, Stutter
<1> QED BY <1>1, <1>2, <1>3, <1>4, <1>5, <1>6, <1>7, <1>8, <1>9
        DEF Next, Step

(* The middleware keeps the promise of OncePerKey for any number of attempts
   and gateways and whatever fails (Idempotency!KeepsPromise). *)
THEOREM KeepsPromiseHolds == Spec => KeepsPromise
<1> QED BY InitPromise, IdempotencyInvariant, StepPromise, PTL
        DEF Spec, Promise!Spec, KeepsPromise

-----------------------------------------------------------------------------
(* Revoked tokens. *)

(* What was revoked stays so, and Auth lets in only what was not. *)
RevokedInv ==
  \A a \in Attempt : \A q \in ask[a] :
    /\ q.revoked => q.token \in revoked
    /\ phase[a] = "authorized" \/ a \in applied => ~q.revoked

LEMMA InitRevoked == Init => RevokedInv
  BY DEF Init, RevokedInv

(* A request that comes in remembers whether its token was revoked. *)
LEMMA AskedRevoked ==
  ASSUME TypeOK, NEW a \in Attempt, Asked(a)
  PROVE  \A q \in ask'[a] : q.revoked => q.token \in revoked
<1>1. PICK t \in Token, k \in Key, b \in Body :
        ask' = [ask EXCEPT ![a] =
          {[token |-> t, key |-> k, body |-> b, revoked |-> t \in revoked]}]
      BY DEF Asked
<1> DEFINE new == [token |-> t, key |-> k, body |-> b, revoked |-> t \in revoked]
<1>2. new.revoked => new.token \in revoked
      OBVIOUS
<1>3. ask'[a] = {new}
      BY <1>1 DEF TypeOK
<1> HIDE DEF new
<1> QED BY <1>2, <1>3

LEMMA RevokedStep == IInv /\ RevokedInv /\ [Next]_vars => RevokedInv'
<1> SUFFICES ASSUME TypeOK, Facts, RevokedInv, [Next]_vars PROVE RevokedInv'
    BY DEF IInv
<1>1. ASSUME NEW a \in Attempt, Arrive(a) \/ Limited(a) PROVE RevokedInv'
  <2>1. /\ phase'[a] # "authorized" /\ applied' = applied /\ revoked' = revoked
        /\ Asked(a) /\ a \notin applied
    BY <1>1 DEF Arrive, Limited, Goto, TypeOK, Facts, EffectInv, Asked
  <2>2. \A q \in ask'[a] : q.revoked => q.token \in revoked
    BY <2>1, AskedRevoked
  <2>3. \A b \in Attempt \ {a} : ask'[b] = ask[b] /\ phase'[b] = phase[b]
    BY <1>1, <2>1, AskedTypes DEF Arrive, Limited, Goto, TypeOK
  <2> QED BY <2>1, <2>2, <2>3 DEF RevokedInv
<1>2. ASSUME NEW a \in Attempt, Authorize(a) PROVE RevokedInv'
  <2>1. /\ ask' = ask /\ revoked' = revoked /\ applied' = applied
        /\ phase' = [phase EXCEPT ![a] = "authorized"]
    BY <1>2 DEF Authorize, Goto
  <2>2. \A q \in ask[a] : ~q.revoked
    BY <1>2 DEF Authorize, RevokedInv, Facts, AskInv
  <2> QED BY <2>1, <2>2 DEF RevokedInv, TypeOK
<1>3. ASSUME NEW a \in Attempt, Apply(a) PROVE RevokedInv'
  <2>1. /\ ask' = ask /\ revoked' = revoked /\ applied' = applied \cup {a}
        /\ phase[a] = "authorized" /\ phase' = [phase EXCEPT ![a] = "applied"]
    BY <1>3 DEF Apply, Goto
  <2> QED BY <2>1 DEF RevokedInv, TypeOK
<1>4. ASSUME NEW a \in Attempt,
             Miss(a) \/ Replay(a) \/ Conflict(a) \/ Unavailable(a) \/
             AnswerError(a) \/ AnswerErrorLate(a) \/ Panic(a) \/
             AnswerOk(a) \/ Store(a) \/ StoreFails(a) \/ Crash(a)
      PROVE  RevokedInv'
  <2>1. /\ ask' = ask /\ revoked' = revoked /\ applied' = applied
        /\ \E p \in {"handling", "finished", "storing", "lost"} : Goto(a, p)
    BY <1>4 DEF Miss, Replay, Conflict, Unavailable, AnswerError,
       AnswerErrorLate, Panic, AnswerOk, Store, StoreFails, Crash
  <2>2. \A b \in Attempt : phase'[b] = "authorized" => phase[b] = "authorized"
    BY <2>1 DEF Goto, TypeOK
  <2> QED BY <2>1, <2>2 DEF RevokedInv
<1>5. CASE Expire \/ Revoke \/ UNCHANGED vars
  <2>1. /\ ask' = ask /\ applied' = applied /\ phase' = phase
        /\ revoked \subseteq revoked'
    BY <1>5 DEF Expire, Revoke, vars
  <2> QED BY <2>1 DEF RevokedInv
<1> QED BY <1>1, <1>2, <1>3, <1>4, <1>5 DEF Next, Step

(* A write whose token was revoked before it came takes no effect, whatever
   overlaps and whatever fails: Auth is inside of Idempotency (router.go:116).
   It may only be replayed an earlier answer. *)
THEOREM RevokedChangesNothingHolds == Spec => []RevokedChangesNothing
<1>1. TypeOK /\ RevokedInv => RevokedChangesNothing
      BY DEF RevokedInv, RevokedChangesNothing, TypeOK
<1>2. Spec => []RevokedInv
      BY InitRevoked, IdempotencyInvariant, RevokedStep, PTL DEF Spec
<1> QED BY <1>1, <1>2, IdempotencyTypeCorrect, PTL

-----------------------------------------------------------------------------
(* One attempt at a time, and no fault: the documented promise holds. *)

Serial == MaxInFlight = 1 /\ Faults = {}

(* Who is past the lookup. *)
Begun == {"handling", "authorized", "applied", "storing"}

(* One attempt runs; what took effect is being stored or was; nothing expires;
   and no other attempt with the key of one past its lookup took effect. *)
SerialInv ==
  /\ \A a, b \in Running : a = b
  /\ \A a \in applied : phase[a] \in {"applied", "storing"} \/ a \in stored
  /\ expired = {}
  /\ \A a \in Attempt : \A b \in applied :
       phase[a] \in Begun /\ SameKey(a, b) => a = b
  /\ \A a, b \in applied : SameKey(a, b) => a = b

LEMMA InitSerial == Init => SerialInv
  BY DEF Init, SerialInv, Running, Begun

(* A request comes in only when none runs. *)
LEMMA ComesAlone ==
  ASSUME Serial, SerialInv, NEW a \in Attempt, Asked(a)
  PROVE  Running = {}
<1>1. Cardinality(Running) < 1
      BY DEF Serial, Asked
<1>2. SUFFICES ASSUME NEW b \in Running PROVE FALSE
      OBVIOUS
<1>3. Running = {b}
      BY DEF SerialInv
<1>4. Cardinality(Running) = 1
      BY <1>3, FS_Singleton
<1> QED BY <1>1, <1>4

(* A lookup that finds nothing has no rival. *)
LEMMA MissIsFirst ==
  ASSUME TypeOK, Facts, SerialInv, NEW a \in Attempt, Miss(a),
         NEW b \in applied, SameKey(a, b)
  PROVE  FALSE
<1>1. a \in Running /\ b \in Attempt /\ phase[a] = "lookup"
      BY DEF Miss, Running, TypeOK
<1>2. b # a
      BY <1>1 DEF Facts, EffectInv
<1>3. phase[b] \notin {"applied", "storing"}
      BY <1>1, <1>2 DEF SerialInv, Running
<1>4. b \in stored
      BY <1>3 DEF SerialInv
<1>5. PICK q \in ask[a] : EntriesFor(q) = {}
      BY DEF Miss
<1>6. PICK p \in ask[b] : CacheKeyOf(p) = CacheKeyOf(q)
      BY <1>1, <1>5, SameCacheKey DEF Facts, AskInv
<1>7. \E e \in cache : e.at = CacheKeyOf(q)
      BY <1>4, <1>6 DEF Facts, KeptInv, SerialInv
<1> QED BY <1>5, <1>7 DEF EntriesFor

(* What runs after a step. *)
LEMMA RunsOn ==
  ASSUME TypeOK, Facts, Serial, SerialInv, [Next]_vars
  PROVE  \A a, b \in Running' : a = b
<1>1. ASSUME NEW a \in Attempt, Arrive(a) PROVE Running' \subseteq {a}
  <2>1. Running = {} /\ phase' = [phase EXCEPT ![a] = "lookup"]
    BY <1>1, ComesAlone DEF Arrive, Goto
  <2> QED BY <2>1 DEF Running, TypeOK
<1>2. CASE ~\E a \in Attempt : Arrive(a)
  <2>1. Running' \subseteq Running
    BY <1>2 DEF TypeOK, Goto, Asked, Next, Step, Running, vars, Limited, Miss,
       Replay, Conflict, Unavailable, Authorize, AnswerError, Apply,
       AnswerErrorLate, Panic, AnswerOk, Store, StoreFails, Crash, Expire,
       Revoke
  <2> QED BY <2>1 DEF SerialInv
<1> QED BY <1>1, <1>2 DEF SerialInv

(* Without a fault an attempt that took effect is stored. *)
LEMMA StoredInTheEnd ==
  ASSUME TypeOK, Facts, Serial, SerialInv, [Next]_vars
  PROVE  \A a \in applied' : phase'[a] \in {"applied", "storing"} \/ a \in stored'
<1>1. SUFFICES ASSUME NEW a \in applied', a \notin stored'
               PROVE  phase'[a] \in {"applied", "storing"}
      OBVIOUS
<1>2. a \in Attempt
      BY TypeStep DEF TypeOK
<1>3. CASE a \in applied
  <2>1. a \notin stored
    BY <1>1, <1>2, Frame
  <2>2. phase[a] \in {"applied", "storing"}
    BY <1>3, <2>1 DEF SerialInv
  <2>3. ~Store(a)
    BY <1>1 DEF Store
  <2> QED BY <1>2, <2>2, <2>3 DEF TypeOK, Goto, Asked, Serial, Next, Step,
       vars, Arrive, Limited, Miss, Replay, Conflict, Unavailable, Authorize,
       AnswerError, Apply, AnswerErrorLate, Panic, AnswerOk, Store,
       StoreFails, Crash, Expire, Revoke
<1>4. CASE a \notin applied
  <2>1. Apply(a)
    BY <1>4 DEF Next, Step, vars, Arrive, Limited, Miss, Replay, Conflict,
       Unavailable, Authorize, AnswerError, Apply, AnswerErrorLate, Panic,
       AnswerOk, Store, StoreFails, Crash, Expire, Revoke
  <2> QED BY <1>2, <2>1 DEF Apply, Goto, TypeOK
<1> QED BY <1>3, <1>4

(* Nobody past its lookup has a rival that took effect. *)
LEMMA NoRival ==
  ASSUME TypeOK, Facts, Serial, SerialInv, [Next]_vars,
         NEW a \in Attempt, NEW b \in applied',
         phase'[a] \in Begun, SameKey(a, b)'
  PROVE  a = b
<1>1. b \in Attempt
      BY TypeStep DEF TypeOK
<1>2. ASSUME NEW c \in Attempt, Apply(c) PROVE a = b
  <2>1. c \in Running' /\ a \in Running'
    BY <1>2 DEF Apply, Goto, TypeOK, Running, Begun
  <2>2. a = c
    BY <2>1, RunsOn
  <2>3. CASE b \in applied
    <3>1. phase[a] \in Begun /\ ask' = ask
      BY <1>2, <2>2 DEF Apply, Begun
    <3>2. SameKey(a, b)
      BY <3>1 DEF SameKey
    <3> QED BY <2>3, <3>1, <3>2 DEF SerialInv
  <2>4. CASE b = c
    BY <2>2, <2>4
  <2> QED BY <1>2, <2>3, <2>4 DEF Apply
<1>3. ASSUME NEW c \in Attempt, Miss(c) PROVE a = b
  <2>1. /\ b \in applied /\ ask' = ask /\ c \in Running
        /\ \A d \in Attempt \ {c} : phase'[d] = phase[d]
    BY <1>3 DEF Miss, Goto, TypeOK, Running
  <2>2. SameKey(a, b)
    BY <2>1 DEF SameKey
  <2>3. a = c
    BY <2>1 DEF SerialInv, Running, Begun
  <2> QED BY <1>3, <2>1, <2>2, <2>3, MissIsFirst
<1>4. CASE ~\E c \in Attempt : Apply(c) \/ Miss(c)
  <2>1. applied' = applied
    BY <1>4 DEF Next, Step, vars, Arrive, Limited, Replay, Conflict,
       Unavailable, Authorize, AnswerError, AnswerErrorLate, Panic,
       AnswerOk, Store, StoreFails, Crash, Expire, Revoke
  <2>2. phase[a] \in Begun
    BY <1>4 DEF TypeOK, Goto, Asked, Begun, Next, Step, vars, Arrive, Limited,
       Replay, Conflict, Unavailable, Authorize, AnswerError, AnswerErrorLate,
       Panic, AnswerOk, Store, StoreFails, Crash, Expire, Revoke
  <2>3. ask[a] # {} /\ ask[b] # {}
    BY <1>1, <2>1, <2>2 DEF TypeOK, Begun, Facts, EffectInv
  <2>4. SameKey(a, b)
    BY <1>1, <2>3, SameStays
  <2> QED BY <2>1, <2>2, <2>4 DEF SerialInv
<1> QED BY <1>2, <1>3, <1>4

LEMMA SerialStep == IInv /\ Serial /\ SerialInv /\ [Next]_vars => SerialInv'
<1> SUFFICES ASSUME TypeOK, Facts, Serial, SerialInv, [Next]_vars
             PROVE  SerialInv'
    BY DEF IInv
<1>1. \A a, b \in Running' : a = b
      BY RunsOn
<1>2. \A a \in applied' : phase'[a] \in {"applied", "storing"} \/ a \in stored'
      BY StoredInTheEnd
<1>3. expired' = {}
      BY DEF SerialInv, Serial, Next, Step, vars, Arrive, Limited, Miss,
         Replay, Conflict, Unavailable, Authorize, AnswerError, Apply,
         AnswerErrorLate, Panic, AnswerOk, Store, StoreFails, Crash, Expire,
         Revoke
<1>4. \A a \in Attempt : \A b \in applied' :
        phase'[a] \in Begun /\ SameKey(a, b)' => a = b
      BY NoRival
<1>5. ASSUME NEW a \in applied', NEW b \in applied', SameKey(a, b)'
      PROVE  a = b
  <2>1. a \in Attempt /\ b \in Attempt
    BY TypeStep DEF TypeOK
  <2>2. CASE phase'[a] \in Begun
    BY <1>4, <1>5, <2>1, <2>2
  <2>3. CASE phase'[b] \in Begun
    BY <1>4, <1>5, <2>1, <2>3 DEF SameKey
  <2>4. CASE phase'[a] \notin Begun /\ phase'[b] \notin Begun
    <3>1. a \in applied /\ b \in applied
      BY <2>1, <2>4 DEF TypeOK, Goto, Begun, Next, Step, vars, Arrive,
         Limited, Miss, Replay, Conflict, Unavailable, Authorize, AnswerError,
         Apply, AnswerErrorLate, Panic, AnswerOk, Store, StoreFails, Crash,
         Expire, Revoke
    <3>2. ask[a] # {} /\ ask[b] # {}
      BY <2>1, <3>1 DEF TypeOK, Facts, EffectInv
    <3>3. SameKey(a, b)
      BY <1>5, <2>1, <3>2, SameStays
    <3> QED BY <3>1, <3>3 DEF SerialInv
  <2> QED BY <2>2, <2>3, <2>4
<1> QED BY <1>1, <1>2, <1>3, <1>4, <1>5 DEF SerialInv

(* The documented promise of one result per key (README.md) holds of clients
   that wait for an answer before they retry, as long as no answer comes late,
   nothing panics or crashes, Redis answers and no key expires.  The run
   idempotency_concurrent shows that it fails as soon as two attempts overlap. *)
THEOREM AppliedOnceInTurn == ASSUME Serial PROVE Spec => []AppliedOnce
<1>1. SerialInv => AppliedOnce
      BY DEF SerialInv, AppliedOnce
<1>2. IInv /\ SerialInv /\ [Next]_vars => SerialInv'
      BY SerialStep
<1> QED BY <1>1, <1>2, InitSerial, IdempotencyInvariant, PTL DEF Spec
=============================================================================
