--------------------------- MODULE ApiAccessProofs ---------------------------
(***************************************************************************)
(* What holds of ApiAccess for any calls, keys, quotas and times, proved.  *)
(***************************************************************************)
EXTENDS ApiAccess, TLAPS

-----------------------------------------------------------------------------
(* The inductive invariant, in named parts *)

\* Each call has a token that its client presented, and none is in the gate for
\* longer than MaxGate.
CallInv ==
    \A c \in Calls : InFlight(c) =>
        /\ call[c].token \in ApiKeys
        /\ call[c].since <= now
        /\ InGate(c) => now <= call[c].since + MaxGate

\* A key is revoked after it was issued, if ever; until then its revocation lies
\* beyond the end of time.
KeyInv ==
    \A k \in ApiKeys :
        /\ k \notin issued => revokedAt[k] = Never
        /\ revokedAt[k] # Never => revokedAt[k] <= now

\* What a call has looked up was valid after the call began, and what the cache
\* keeps was looked up by such a call.
CacheInv ==
    /\ \A c \in Calls : At(c, "store") =>
           /\ call[c].token \in issued
           /\ call[c].since <= revokedAt[call[c].token]
    /\ \A k \in ApiKeys :
           /\ cache[k].until <= now + CacheTTL
           /\ cache[k].until <= revokedAt[k] + MaxGate + CacheTTL
           /\ cache[k].until > 0 => k \in issued

\* The server was not told to stop in the future.
DrainInv == server.since <= now

AInv ==
    /\ AccessTypeOK
    /\ CallInv
    /\ KeyInv
    /\ CacheInv
    /\ DrainInv
    /\ NoCallLosesItsStores

-----------------------------------------------------------------------------
(* The windows of the quota *)

LEMMA ProductGrows ==
    ASSUME NEW d \in Nat, NEW a \in Int, NEW b \in Int, a <= b
    PROVE  d * a <= d * b
BY SMT

LEMMA Quotient ==
    ASSUME NEW n \in Nat, NEW d \in Nat \ {0}
    PROVE  n \div d \in Int /\ d * (n \div d) <= n /\ n < d * (n \div d) + d
BY SMT

\* A later moment is in no earlier window.
LEMMA QuotientGrows ==
    ASSUME NEW n \in Nat, NEW m \in Nat, n <= m, NEW d \in Nat \ {0}
    PROVE  n \div d \in 0 .. (m \div d)
<1> DEFINE q == n \div d
           p == m \div d
<1>1. q \in Int /\ d * q <= n /\ n < d * q + d
    BY Quotient
<1>2. p \in Int /\ d * p <= m /\ m < d * p + d
    BY Quotient
<1> HIDE DEF p, q
<1>3. ~(p + 1 <= q)
    <2> SUFFICES ASSUME p + 1 <= q PROVE FALSE
        OBVIOUS
    <2>1. d * (p + 1) <= d * q
        BY <1>1, <1>2, ProductGrows
    <2>2. d * (p + 1) = d * p + d
        BY <1>2
    <2> QED BY <1>1, <1>2, <2>1, <2>2
<1>4. ~(q + 1 <= 0)
    <2> SUFFICES ASSUME q + 1 <= 0 PROVE FALSE
        OBVIOUS
    <2>1. d * (q + 1) <= d * 0
        BY <1>1, ProductGrows
    <2>2. d * (q + 1) = d * q + d
        BY <1>1
    <2>3. d * 0 = 0
        OBVIOUS
    <2> QED BY <1>1, <2>1, <2>2, <2>3
<1>5. q \in 0 .. p
    BY <1>1, <1>2, <1>3, <1>4
<1> QED BY <1>5 DEF p, q

LEMMA WindowOf == ASSUME NEW t \in 0 .. MaxTime PROVE t \div Window \in Windows
BY QuotientGrows, AccessAssumption DEF Windows

-----------------------------------------------------------------------------

LEMMA Times ==
    /\ Never \in Nat /\ MaxTime \in Nat /\ CacheTTL \in Nat /\ CounterTTL \in Nat
    /\ MaxGate \in Nat /\ DrainTime \in Nat
    /\ MaxTime < Never /\ CacheTTL > 0
    /\ MaxTime + CacheTTL < Never + MaxGate + CacheTTL
BY AccessAssumption DEF Never

LEMMA InitAInv == AccessInit => AInv
<1> SUFFICES ASSUME AccessInit PROVE AInv
    OBVIOUS
<1> USE Times
<1>1. 0 \in Windows
    <2>1. 0 \div Window \in Windows
        BY WindowOf
    <2>2. 0 \div Window = 0
        BY AccessAssumption
    <2> QED BY <2>1, <2>2
<1>2. AccessTypeOK
    <2>1. Blank \in CallRecords
        BY <1>1 DEF Blank, CallRecords, Points
    <2>2. call \in [Calls -> CallRecords]
        BY <2>1 DEF AccessInit
    <2>3. /\ cache \in [ApiKeys -> [rate : Nat, until : Nat]]
          /\ server \in [state : {"serving", "draining", "closed", "failed"}, since : 0 .. MaxTime]
        BY DEF AccessInit, NoEntry
    <2>4. /\ counter \in [ApiKeys -> [Windows -> Nat]]
          /\ counterUntil \in [ApiKeys -> [Windows -> Nat]]
          /\ admitted \in [ApiKeys -> [Windows -> Nat]]
        BY DEF AccessInit
    <2> QED BY <2>2, <2>3, <2>4 DEF AccessInit, AccessTypeOK
<1>3. \A c \in Calls : call[c].pc = "idle"
    BY DEF AccessInit, Blank
<1>4. CallInv /\ DrainInv /\ NoCallLosesItsStores
    BY <1>3 DEF AccessInit, CallInv, DrainInv, NoCallLosesItsStores, InFlight, InGate
<1>5. KeyInv
    BY DEF AccessInit, KeyInv
<1>6. CacheInv
    <2>1. \A k \in ApiKeys : cache[k].until = 0 /\ revokedAt[k] = Never
        BY DEF AccessInit, NoEntry
    <2> QED BY <1>3, <2>1 DEF AccessInit, CacheInv, At
<1> QED BY <1>2, <1>4, <1>5, <1>6 DEF AInv

\* A call that goes on keeps its token and its beginning, a call that is answered
\* is of no more interest, and the other calls do not change.
Going(c) ==
    /\ UNCHANGED <<now, keyVars, server>>
    /\ \A d \in Calls \ {c} : call'[d] = call[d]
    /\ \/ ~InFlight(c)'
       \/ InGate(c) /\ call'[c].token = call[c].token /\ call'[c].since = call[c].since

LEMMA GoingKeeps ==
    ASSUME AInv, AccessTypeOK', NEW c \in Calls, Going(c)
    PROVE  CallInv' /\ KeyInv' /\ DrainInv' /\ NoCallLosesItsStores'
<1>1. \A d \in Calls : InFlight(d)' =>
          /\ InGate(d)' => InGate(d)
          /\ InFlight(d) /\ call'[d].token = call[d].token /\ call'[d].since = call[d].since
    BY DEF Going, InFlight, InGate
<1>2. now' = now /\ issued' = issued /\ revokedAt' = revokedAt /\ server' = server
    BY DEF Going, keyVars
<1>3. CallInv' /\ DrainInv'
    BY <1>1, <1>2 DEF AInv, CallInv, DrainInv
<1>4. KeyInv' /\ NoCallLosesItsStores'
    BY <1>1, <1>2 DEF AInv, KeyInv, NoCallLosesItsStores
<1> QED BY <1>3, <1>4

\* The record of a call, and how a step moves it.
LEMMA CallRecord ==
    ASSUME AccessTypeOK, NEW c \in Calls
    PROVE  /\ call[c].pc \in Points
           /\ call[c].token \in ApiKeys \cup {NoToken}
           /\ call[c].since \in 0 .. MaxTime
           /\ call[c].limit \in Nat
           /\ call[c].window \in Windows
           /\ now \in 0 .. MaxTime
BY DEF AccessTypeOK, CallRecords

LEMMA CallMoves ==
    ASSUME AccessTypeOK, NEW c \in Calls, NEW p \in Points
    PROVE  [call EXCEPT ![c].pc = p] \in [Calls -> CallRecords]
<1>1. call \in [Calls -> CallRecords]
    BY DEF AccessTypeOK
<1> QED BY <1>1 DEF CallRecords

LEMMA CallGranted ==
    ASSUME AccessTypeOK, NEW c \in Calls, NEW p \in Points, NEW n \in Nat
    PROVE  [call EXCEPT ![c].pc = p, ![c].limit = n] \in [Calls -> CallRecords]
<1>1. call \in [Calls -> CallRecords]
    BY DEF AccessTypeOK
<1> QED BY <1>1 DEF CallRecords

LEMMA CallCounted ==
    ASSUME AccessTypeOK, NEW c \in Calls, NEW p \in Points, NEW w \in Windows
    PROVE  [call EXCEPT ![c].pc = p, ![c].window = w] \in [Calls -> CallRecords]
<1>1. call \in [Calls -> CallRecords]
    BY DEF AccessTypeOK
<1> QED BY <1>1 DEF CallRecords

LEMMA CallAdmitted ==
    ASSUME AccessTypeOK, NEW c \in Calls, Admit(c)
    PROVE  call' \in [Calls -> CallRecords]
<1>1. call \in [Calls -> CallRecords]
    BY DEF AccessTypeOK
<1>2. 0 \div Window = 0 /\ 0 \div Window \in Windows
    BY WindowOf, Times, AccessAssumption
<1>3. "handler" \in Points /\ 0 \in Nat /\ 0 \in Windows
    BY <1>2 DEF Points
<1> QED BY <1>1, <1>3 DEF Admit, CallRecords

LEMMA CallEnds ==
    ASSUME AccessTypeOK, NEW c \in Calls, Answered(c)
    PROVE  call' \in [Calls -> CallRecords] /\ ~InFlight(c)' /\ ~At(c, "window")'
               /\ ~At(c, "store")'
<1>1. 0 \div Window = 0 /\ 0 \div Window \in Windows
    BY WindowOf, AccessAssumption
<1>2. [Blank EXCEPT !.pc = "answered"] \in CallRecords
    BY <1>1, Times DEF Blank, CallRecords, Points
<1>3. call' \in [Calls -> CallRecords]
    BY <1>2 DEF Answered, AccessTypeOK
<1>4. call'[c].pc = "answered"
    BY DEF Answered, AccessTypeOK, Blank
<1> QED BY <1>3, <1>4 DEF InFlight, At

\* A step that leaves everything but the calls alone.
CallsOnly == UNCHANGED <<now, keyVars, redisVars, admitted, server>>

LEMMA CallsOnlyTypeOK ==
    ASSUME AccessTypeOK, CallsOnly, call' \in [Calls -> CallRecords]
    PROVE  AccessTypeOK'
BY DEF AccessTypeOK, CallsOnly, keyVars, redisVars

\* The steps of a call that leave the stores alone.
LEMMA ArriveType == ASSUME AInv, NEW c \in Calls, Arrive(c) PROVE AccessTypeOK'
<1>1. AccessTypeOK /\ CallsOnly
    BY DEF AInv, Arrive, CallsOnly
<1>2. CASE Answered(c)
    BY <1>1, <1>2, CallEnds, CallsOnlyTypeOK
<1>3. ASSUME NEW t \in ApiKeys \cup {NoToken},
             call' = [call EXCEPT ![c] = [Blank EXCEPT !.pc = "auth", !.token = t, !.since = now]]
      PROVE  AccessTypeOK'
    <2>1. 0 \div Window = 0 /\ 0 \div Window \in Windows
        BY WindowOf, Times, AccessAssumption
    <2>2. [Blank EXCEPT !.pc = "auth", !.token = t, !.since = now] \in CallRecords
        BY <1>1, <2>1, CallRecord DEF Blank, CallRecords, Points
    <2>3. call' \in [Calls -> CallRecords]
        BY <1>1, <1>3, <2>2 DEF AccessTypeOK
    <2> QED BY <1>1, <2>3, CallsOnlyTypeOK
<1> QED BY <1>2, <1>3 DEF Arrive

LEMMA CallStepsTypeOK ==
    ASSUME AInv, NEW c \in Calls,
           CacheHit(c) \/ CacheMiss(c) \/ Lookup(c) \/ ReadWindow(c) \/ Serve(c)
    PROVE  AccessTypeOK'
<1>1. AccessTypeOK /\ CallInv
    BY DEF AInv
<1>2. CallsOnly
    BY DEF CacheHit, CacheMiss, Lookup, ReadWindow, Serve, CallsOnly
<1>3. call' \in [Calls -> CallRecords]
    <2>1. CASE CacheHit(c)
        <3>1. call[c].token \in ApiKeys
            BY <1>1, <2>1 DEF CacheHit, CallInv, InFlight, At
        <3>2. cache[call[c].token].rate \in Nat
            BY <1>1, <3>1 DEF AccessTypeOK
        <3>3. "window" \in Points
            BY DEF Points
        <3> QED BY <1>1, <2>1, <3>2, <3>3, CallGranted DEF CacheHit, Grant
    <2>2. CASE CacheMiss(c)
        <3>1. "lookup" \in Points
            BY DEF Points
        <3> QED BY <1>1, <2>2, <3>1, CallMoves DEF CacheMiss, Goto
    <2>3. CASE Lookup(c)
        <3>1. call[c].token \in ApiKeys
            BY <1>1, <2>3 DEF Lookup, CallInv, InFlight, At
        <3>2. rate[call[c].token] \in Nat
            BY <1>1, <3>1 DEF AccessTypeOK
        <3>3. "store" \in Points
            BY DEF Points
        <3>4. CASE Answered(c)
            BY <1>1, <3>4, CallEnds
        <3>5. CASE call' = [call EXCEPT ![c].pc = "store", ![c].limit = rate[call[c].token]]
            BY <1>1, <3>2, <3>3, <3>5, CallGranted
        <3> QED BY <2>3, <3>4, <3>5 DEF Lookup
    <2>4. CASE ReadWindow(c)
        <3>1. now \div Window \in Windows
            BY <1>1, CallRecord, WindowOf
        <3>2. "handler" \in Points /\ "incr" \in Points
            BY DEF Points
        <3>3. CASE Admit(c)
            BY <1>1, <3>3, CallAdmitted
        <3>4. CASE call' = [call EXCEPT ![c].pc = "incr", ![c].window = now \div Window]
            BY <1>1, <3>1, <3>2, <3>4, CallCounted
        <3> QED BY <2>4, <3>3, <3>4 DEF ReadWindow
    <2>5. CASE Serve(c)
        BY <1>1, <2>5, CallEnds DEF Serve
    <2> QED BY <2>1, <2>2, <2>3, <2>4, <2>5
<1> QED BY <1>1, <1>2, <1>3, CallsOnlyTypeOK

\* What a step of a call does to the record of the call.
LEMMA GotoRecord ==
    ASSUME AccessTypeOK, NEW c \in Calls, NEW p, Goto(c, p)
    PROVE  /\ \A d \in Calls \ {c} : call'[d] = call[d]
           /\ call'[c].pc = p /\ call'[c].token = call[c].token
           /\ call'[c].since = call[c].since /\ call'[c].limit = call[c].limit
           /\ call'[c].window = call[c].window
BY DEF Goto, AccessTypeOK, CallRecords

LEMMA AdmitRecord ==
    ASSUME AccessTypeOK, NEW c \in Calls, Admit(c)
    PROVE  /\ \A d \in Calls \ {c} : call'[d] = call[d]
           /\ call'[c].pc = "handler" /\ call'[c].token = call[c].token
           /\ call'[c].since = call[c].since
BY DEF Admit, AccessTypeOK, CallRecords

LEMMA GrantRecord ==
    ASSUME AccessTypeOK, NEW c \in Calls, NEW p, NEW n,
           call' = [call EXCEPT ![c].pc = p, ![c].limit = n]
    PROVE  /\ \A d \in Calls \ {c} : call'[d] = call[d]
           /\ call'[c].pc = p /\ call'[c].token = call[c].token
           /\ call'[c].since = call[c].since /\ call'[c].limit = n
BY DEF AccessTypeOK, CallRecords

LEMMA CountRecord ==
    ASSUME AccessTypeOK, NEW c \in Calls, NEW p, NEW w,
           call' = [call EXCEPT ![c].pc = p, ![c].window = w]
    PROVE  /\ \A d \in Calls \ {c} : call'[d] = call[d]
           /\ call'[c].pc = p /\ call'[c].token = call[c].token
           /\ call'[c].since = call[c].since /\ call'[c].limit = call[c].limit
           /\ call'[c].window = w
BY DEF AccessTypeOK, CallRecords

LEMMA AnsweredRecord ==
    ASSUME AccessTypeOK, NEW c \in Calls, Answered(c)
    PROVE  (\A d \in Calls \ {c} : call'[d] = call[d]) /\ ~InFlight(c)' /\ call'[c].pc = "answered"
BY DEF Answered, AccessTypeOK, Blank, InFlight

\* Every step of a call is one in which it goes on; only a Lookup gets it to store,
\* with a key that is valid, and only a row or an entry past the authentication.
LEMMA CallStepGoes ==
    ASSUME AccessTypeOK, NEW c \in Calls, CallStep(c)
    PROVE  /\ Going(c)
           /\ At(c, "store")' => Lookup(c) /\ Valid(call[c].token)
           /\ At(c, "window")' => CacheHit(c) \/ CacheStore(c)
<1> DEFINE Good == /\ Going(c)
                   /\ At(c, "store")' => Lookup(c) /\ Valid(call[c].token)
                   /\ At(c, "window")' => CacheHit(c) \/ CacheStore(c)
           Others == \A d \in Calls \ {c} : call'[d] = call[d]
           Kept == call'[c].token = call[c].token /\ call'[c].since = call[c].since
<1> SUFFICES Good
    OBVIOUS
<1>1. UNCHANGED <<now, keyVars, server>> /\ (InGate(c) \/ Answered(c))
    BY DEF CallStep, CacheHit, CacheMiss, Lookup, CacheStore, ReadWindow, Incr, Expire, Serve,
        InFlight, InGate, At
<1>2. ASSUME NEW p, Others, call'[c].pc = p, Kept, p # "store",
             p = "window" => CacheHit(c) \/ CacheStore(c)
      PROVE  Good
    BY <1>1, <1>2, AnsweredRecord DEF Going, At
<1>3. CASE Answered(c)
    BY <1>1, <1>3, AnsweredRecord DEF Going, At
<1>4. ASSUME NEW p, Goto(c, p), p # "store", p # "window" PROVE Good
    BY <1>2, <1>4, GotoRecord
<1>11. CASE Admit(c)
    BY <1>2, <1>11, AdmitRecord
<1>5. ASSUME NEW n, Grant(c, n), CacheHit(c) \/ CacheStore(c) PROVE Good
    <2>1. Others /\ call'[c].pc = "window" /\ Kept
        BY <1>5, GrantRecord DEF Grant
    <2>2. "window" # "store"
        OBVIOUS
    <2> HIDE DEF Good, Others, Kept
    <2> QED BY <1>2, <1>5, <2>1, <2>2
<1>6. ASSUME NEW n, Judge(c, n) PROVE Good
    <2>1. Answered(c) \/ Admit(c)
        BY <1>6 DEF Judge
    <2>2. CASE Admit(c)
        BY <1>11, <2>2
    <2> HIDE DEF Good
    <2> QED BY <1>3, <2>1, <2>2
<1>7. CASE CacheHit(c) \/ CacheMiss(c) \/ CacheStore(c) \/ Serve(c)
    <2>1. CASE CacheHit(c)
        BY <1>5, <2>1 DEF CacheHit
    <2>2. CASE CacheMiss(c)
        BY <1>4, <2>2 DEF CacheMiss
    <2>3. CASE CacheStore(c)
        BY <1>5, <2>3 DEF CacheStore
    <2>4. CASE Serve(c)
        BY <1>3, <2>4 DEF Serve
    <2> QED BY <1>7, <2>1, <2>2, <2>3, <2>4
<1>8. CASE Lookup(c)
    <2>1. CASE call' = [call EXCEPT ![c].pc = "store", ![c].limit = rate[call[c].token]]
                   /\ Valid(call[c].token)
        <3>1. Others /\ call'[c].pc = "store" /\ Kept
            BY <2>1, GrantRecord
        <3>2. Going(c)
            BY <1>1, <1>8, <3>1 DEF Going, Lookup, InGate, InFlight, At
        <3> QED BY <1>8, <2>1, <3>1, <3>2 DEF At
    <2> QED BY <1>3, <1>8, <2>1 DEF Lookup
<1>9. CASE ReadWindow(c)
    <2>1. CASE call' = [call EXCEPT ![c].pc = "incr", ![c].window = now \div Window]
        <3>1. Others /\ call'[c].pc = "incr" /\ Kept
            BY <2>1, CountRecord
        <3>2. "incr" # "store" /\ "incr" # "window"
            OBVIOUS
        <3> HIDE DEF Good, Others, Kept
        <3> QED BY <1>2, <3>1, <3>2
    <2>2. CASE Admit(c)
        BY <1>11, <2>2
    <2>3. \/ Admit(c)
          \/ call' = [call EXCEPT ![c].pc = "incr", ![c].window = now \div Window]
        BY <1>9 DEF ReadWindow
    <2> HIDE DEF Good
    <2> QED BY <2>1, <2>2, <2>3
<1>10. CASE Incr(c) \/ Expire(c)
    BY <1>4, <1>6, <1>10, <1>11 DEF Incr, Expire
<1> QED BY <1>7, <1>8, <1>9, <1>10 DEF CallStep

\* The steps of a call that write to Redis.
LEMMA JudgeType ==
    ASSUME AccessTypeOK, NEW c \in Calls, NEW n, Judge(c, n), call[c].token \in ApiKeys
    PROVE  call' \in [Calls -> CallRecords] /\ admitted' \in [ApiKeys -> [Windows -> Nat]]
<1>1. call[c].window \in Windows
    BY CallRecord
<1>2. CASE Answered(c) /\ UNCHANGED admitted
    BY <1>2, CallEnds DEF AccessTypeOK
<1>3. CASE Admit(c)
           /\ admitted' = [admitted EXCEPT ![call[c].token][call[c].window] = @ + 1]
    <2>1. call' \in [Calls -> CallRecords]
        BY <1>3, CallAdmitted
    <2>2. admitted' \in [ApiKeys -> [Windows -> Nat]]
        BY <1>1, <1>3 DEF AccessTypeOK
    <2> QED BY <2>1, <2>2
<1> QED BY <1>2, <1>3 DEF Judge

LEMMA CacheStoreType == ASSUME AInv, NEW c \in Calls, CacheStore(c) PROVE AccessTypeOK'
<1>1. AccessTypeOK /\ CallInv
    BY DEF AInv
<1>2. "window" \in Points /\ call[c].limit \in Nat
    BY <1>1, CallRecord DEF Points
<1>3. call' \in [Calls -> CallRecords]
    BY <1>1, <1>2, CallGranted DEF CacheStore, Grant
<1>4. call[c].token \in ApiKeys
    BY <1>1 DEF CacheStore, CallInv, InFlight, At
<1>5. now + CacheTTL \in Nat /\ Reparsed(call[c].limit) \in Nat
    BY <1>1, <1>2, CallRecord, Times DEF Reparsed
<1>6. [rate |-> Reparsed(call[c].limit), until |-> now + CacheTTL] \in [rate : Nat, until : Nat]
    BY <1>5
<1>7. cache' \in [ApiKeys -> [rate : Nat, until : Nat]]
    BY <1>1, <1>4, <1>6 DEF CacheStore, AccessTypeOK
<1> QED BY <1>1, <1>3, <1>7 DEF CacheStore, AccessTypeOK, keyVars

LEMMA IncrType == ASSUME AInv, NEW c \in Calls, Incr(c) PROVE AccessTypeOK'
<1>1. AccessTypeOK /\ CallInv
    BY DEF AInv
<1>2. call[c].token \in ApiKeys
    BY <1>1 DEF Incr, CallInv, InFlight, At
<1>3. call[c].window \in Windows /\ "expire" \in Points
    BY <1>1, CallRecord DEF Points
<1>4. counter' \in [ApiKeys -> [Windows -> Nat]]
    <2>1. CASE counter' = [counter EXCEPT ![call[c].token][call[c].window] = @ + 1]
        BY <1>1, <1>2, <1>3, <2>1 DEF AccessTypeOK
    <2>2. CASE UNCHANGED counter
        BY <1>1, <2>2 DEF AccessTypeOK
    <2> QED BY <2>1, <2>2 DEF Incr
<1>5. unpinned' \subseteq ApiKeys \X Windows
    <2>1. <<call[c].token, call[c].window>> \in ApiKeys \X Windows
        BY <1>2, <1>3
    <2>2. unpinned' = unpinned \/ unpinned' = unpinned \cup {<<call[c].token, call[c].window>>}
        BY DEF Incr
    <2> QED BY <1>1, <2>1, <2>2 DEF AccessTypeOK
<1>6. call' \in [Calls -> CallRecords] /\ admitted' \in [ApiKeys -> [Windows -> Nat]]
    <2>1. ASSUME NEW p \in Points, Goto(c, p), UNCHANGED admitted
          PROVE  call' \in [Calls -> CallRecords] /\ admitted' \in [ApiKeys -> [Windows -> Nat]]
        BY <1>1, <2>1, CallMoves DEF Goto, AccessTypeOK
    <2>2. CASE Judge(c, counter[call[c].token][call[c].window] + 1)
        BY <1>1, <1>2, <2>2, JudgeType
    <2>3. CASE Goto(c, "expire") /\ UNCHANGED admitted
        BY <1>3, <2>1, <2>3
    <2>4. CASE Admit(c) /\ UNCHANGED admitted
        BY <1>1, <2>4, CallAdmitted DEF AccessTypeOK
    <2> QED BY <2>2, <2>3, <2>4 DEF Incr
<1> QED BY <1>1, <1>4, <1>5, <1>6 DEF Incr, AccessTypeOK, keyVars

LEMMA ExpireType == ASSUME AInv, NEW c \in Calls, Expire(c) PROVE AccessTypeOK'
<1>1. AccessTypeOK /\ CallInv
    BY DEF AInv
<1>2. call[c].token \in ApiKeys
    BY <1>1 DEF Expire, CallInv, InFlight, At
<1>3. call[c].window \in Windows /\ now + CounterTTL \in Nat
    BY <1>1, CallRecord, Times
<1>4. counterUntil' \in [ApiKeys -> [Windows -> Nat]]
    <2>1. CASE counterUntil' =
                  [counterUntil EXCEPT ![call[c].token][call[c].window] = now + CounterTTL]
        BY <1>1, <1>2, <1>3, <2>1 DEF AccessTypeOK
    <2>2. CASE UNCHANGED counterUntil
        BY <1>1, <2>2 DEF AccessTypeOK
    <2> QED BY <2>1, <2>2 DEF Expire
<1>5. unpinned' \subseteq ApiKeys \X Windows
    <2>1. <<call[c].token, call[c].window>> \in ApiKeys \X Windows
        BY <1>2, <1>3
    <2>2. unpinned' = unpinned \/ unpinned' = unpinned \cup {<<call[c].token, call[c].window>>}
        BY DEF Expire
    <2> QED BY <1>1, <2>1, <2>2 DEF AccessTypeOK
<1>6. call' \in [Calls -> CallRecords] /\ admitted' \in [ApiKeys -> [Windows -> Nat]]
    BY <1>1, <1>2, JudgeType DEF Expire
<1> QED BY <1>1, <1>4, <1>5, <1>6 DEF Expire, AccessTypeOK, keyVars

\* A step of a call keeps the invariant.
LEMMA CallStepCache ==
    ASSUME AInv, NEW c \in Calls, CallStep(c)
    PROVE  CacheInv'
<1>1. AccessTypeOK /\ CallInv /\ KeyInv /\ CacheInv /\ Going(c)
    BY CallStepGoes DEF AInv
<1>2. now' = now /\ issued' = issued /\ revokedAt' = revokedAt /\ now \in Nat
    BY <1>1, CallRecord, Times DEF Going, keyVars
<1>3. ASSUME NEW d \in Calls, At(d, "store")'
      PROVE  call'[d].token \in issued /\ call'[d].since <= revokedAt[call'[d].token]
    <2>1. CASE d = c
        <3>1. Valid(call[c].token)
            BY <1>1, <1>3, <2>1, CallStepGoes
        <3>2. call'[c].token = call[c].token /\ call'[c].since = call[c].since
            BY <1>1, <1>3, <2>1 DEF Going, InFlight, At
        <3>3. call[c].since <= Never
            BY <1>1, CallRecord, Times
        <3> QED BY <2>1, <3>1, <3>2, <3>3 DEF Valid
    <2>2. CASE d # c
        <3>1. call'[d] = call[d]
            BY <1>1, <2>2 DEF Going
        <3> QED BY <1>1, <1>3, <3>1 DEF CacheInv, At
    <2> QED BY <2>1, <2>2
<1>4. ASSUME NEW k \in ApiKeys
      PROVE  /\ cache'[k].until <= now + CacheTTL
             /\ cache'[k].until <= revokedAt[k] + MaxGate + CacheTTL
             /\ cache'[k].until > 0 => k \in issued
    <2>1. CASE cache'[k] = cache[k]
        BY <1>1, <2>1 DEF CacheInv
    <2>2. CASE cache'[k] # cache[k]
        <3>1. CacheStore(c)
            BY <2>2 DEF CallStep, CacheHit, CacheMiss, Lookup, ReadWindow, Incr, Expire, Serve,
                redisVars
        <3>2. k = call[c].token /\ cache'[k].until = now + CacheTTL
            BY <1>1, <2>2, <3>1 DEF CacheStore, AccessTypeOK
        <3>3. k \in issued /\ call[c].since <= revokedAt[k]
            BY <1>1, <3>1, <3>2 DEF CacheStore, CacheInv
        <3>4. now <= call[c].since + MaxGate
            BY <1>1, <3>1 DEF CacheStore, CallInv, InFlight, InGate, At
        <3>5. revokedAt[k] \in Nat /\ call[c].since \in Nat
            BY <1>1, CallRecord, Times DEF AccessTypeOK
        <3> QED BY <1>2, <3>2, <3>3, <3>4, <3>5, Times
    <2> QED BY <2>1, <2>2
<1> QED BY <1>2, <1>3, <1>4 DEF CacheInv

LEMMA CallStepAInv == ASSUME AInv, NEW c \in Calls, CallStep(c) PROVE AInv'
<1>1. AccessTypeOK'
    BY CallStepsTypeOK, CacheStoreType, IncrType, ExpireType DEF CallStep
<1>2. Going(c)
    BY CallStepGoes DEF AInv
<1> QED BY <1>1, <1>2, GoingKeeps, CallStepCache DEF AInv

-----------------------------------------------------------------------------
(* The other steps *)

\* A call begins, while the server serves or drains.
LEMMA ArriveAInv == ASSUME AInv, NEW c \in Calls, Arrive(c) PROVE AInv'
<1>1. AccessTypeOK /\ CallInv /\ CacheInv /\ KeyInv /\ DrainInv /\ AccessTypeOK'
    BY ArriveType DEF AInv
<1>2. UNCHANGED <<now, issued, revokedAt, cache, server>> /\ server.state # "closed"
    BY DEF Arrive, Connected, keyVars, redisVars
<1>3. /\ \A d \in Calls \ {c} : call'[d] = call[d]
      /\ ~At(c, "store")'
      /\ InFlight(c)' => call'[c].token \in ApiKeys /\ call'[c].since = now
    <2>1. CASE Answered(c)
        BY <1>1, <2>1, AnsweredRecord DEF At
    <2>2. ASSUME NEW t \in ApiKeys \cup {NoToken}, t # NoToken,
                 call' = [call EXCEPT ![c] = [Blank EXCEPT !.pc = "auth", !.token = t,
                                                           !.since = now]]
          PROVE  /\ \A d \in Calls \ {c} : call'[d] = call[d]
                 /\ call'[c].pc = "auth" /\ call'[c].token \in ApiKeys /\ call'[c].since = now
        BY <1>1, <2>2 DEF Blank, AccessTypeOK
    <2> QED BY <2>1, <2>2 DEF Arrive, At
<1>4. CallInv'
    BY <1>1, <1>2, <1>3, CallRecord, Times DEF CallInv, InFlight, InGate
<1>5. CacheInv'
    BY <1>1, <1>2, <1>3 DEF CacheInv, At
<1>6. KeyInv' /\ DrainInv' /\ NoCallLosesItsStores'
    BY <1>1, <1>2 DEF KeyInv, DrainInv, NoCallLosesItsStores
<1> QED BY <1>1, <1>4, <1>5, <1>6 DEF AInv

LEMMA IssueAInv == ASSUME AInv, NEW k \in ApiKeys, Issue(k) PROVE AInv'
<1>1. UNCHANGED <<now, revokedAt, cache, call, server>> /\ issued' = issued \cup {k}
    BY DEF Issue, redisVars
<1>2. AccessTypeOK'
    <2>1. PICK asked \in AskedRates :
              rate' = [rate EXCEPT ![k] = IF asked <= 0 THEN DefaultRate ELSE asked]
        BY DEF Issue
    <2>2. (IF asked <= 0 THEN DefaultRate ELSE asked) \in Nat
        BY AccessAssumption
    <2>3. rate' \in [ApiKeys -> Nat]
        BY <2>1, <2>2 DEF AInv, AccessTypeOK
    <2> QED BY <1>1, <2>3 DEF Issue, AInv, AccessTypeOK, redisVars
<1>3. CallInv' /\ DrainInv' /\ NoCallLosesItsStores'
    BY <1>1 DEF AInv, CallInv, DrainInv, NoCallLosesItsStores, InFlight, InGate
<1>4. KeyInv'
    BY <1>1 DEF AInv, KeyInv
<1>5. CacheInv'
    BY <1>1 DEF AInv, CacheInv, At
<1> QED BY <1>2, <1>3, <1>4, <1>5 DEF AInv

\* What is in the cache, or on its way there, was looked up by now.
LEMMA RevokeAInv == ASSUME AInv, NEW k \in ApiKeys, Revoke(k) PROVE AInv'
<1>1. /\ UNCHANGED <<now, issued, cache, call, server>>
      /\ revokedAt' = [revokedAt EXCEPT ![k] = now]
      /\ k \in issued
    BY DEF Revoke, redisVars, Valid
<1>2. AccessTypeOK /\ CallInv /\ KeyInv /\ CacheInv /\ now \in 0 .. Never
    BY Times DEF AInv, AccessTypeOK
<1>3. AccessTypeOK'
    BY <1>1, <1>2 DEF Revoke, AccessTypeOK, redisVars
<1>4. CallInv' /\ DrainInv' /\ NoCallLosesItsStores'
    BY <1>1 DEF AInv, CallInv, DrainInv, NoCallLosesItsStores, InFlight, InGate
<1>5. \A j \in ApiKeys : revokedAt'[j] = IF j = k THEN now ELSE revokedAt[j]
    BY <1>1, <1>2 DEF AccessTypeOK
<1>6. KeyInv'
    BY <1>1, <1>2, <1>5 DEF KeyInv
<1>7. CacheInv'
    <2>1. ASSUME NEW c \in Calls, At(c, "store")
          PROVE  call[c].token \in issued /\ call[c].since <= revokedAt'[call[c].token]
        <3>1. call[c].token \in ApiKeys /\ call[c].since <= now
            BY <1>2, <2>1 DEF CallInv, InFlight, At
        <3> QED BY <1>2, <1>5, <2>1, <3>1 DEF CacheInv
    <2>2. ASSUME NEW j \in ApiKeys
          PROVE  cache[j].until <= revokedAt'[j] + MaxGate + CacheTTL
        <3>1. cache[j].until \in Nat /\ cache[j].until <= now + CacheTTL
            BY <1>2 DEF AccessTypeOK, CacheInv
        <3>2. cache[j].until <= revokedAt[j] + MaxGate + CacheTTL
            BY <1>2 DEF CacheInv
        <3>3. now + CacheTTL <= now + MaxGate + CacheTTL
            BY <1>2, Times
        <3>4. CASE j = k
            BY <1>2, <1>5, <3>1, <3>3, <3>4, Times
        <3> QED BY <1>5, <3>2, <3>4
    <2> QED BY <1>1, <1>2, <2>1, <2>2 DEF CacheInv, At
<1> QED BY <1>3, <1>4, <1>6, <1>7 DEF AInv

\* The steps of the server. A call that began before the stop and is in flight when
\* Shutdown gives up has lasted DrainTime.
LEMMA ServerAInv == ASSUME AInv, Sigterm \/ ShutdownReturns \/ ListenerFails PROVE AInv'
<1>1. UNCHANGED <<now, keyVars, redisVars, call, admitted>> /\ AccessTypeOK /\ now \in 0 .. MaxTime
    BY DEF AInv, AccessTypeOK, Sigterm, ShutdownReturns, ListenerFails
<1>2. AccessTypeOK'
    <2>1. server' \in [state : {"serving", "draining", "closed", "failed"}, since : 0 .. MaxTime]
        BY <1>1 DEF AccessTypeOK, Sigterm, ShutdownReturns, ListenerFails
    <2> QED BY <1>1, <2>1 DEF AccessTypeOK, keyVars, redisVars
<1>3. CallInv' /\ KeyInv' /\ CacheInv'
    BY <1>1 DEF AInv, CallInv, KeyInv, CacheInv, InFlight, InGate, At, keyVars, redisVars
<1>4. DrainInv' /\ NoCallLosesItsStores'
    <2>1. CASE Sigterm
        BY <1>1, <2>1 DEF Sigterm, AInv, CallInv, DrainInv, NoCallLosesItsStores, InFlight, InGate
    <2>2. CASE ListenerFails
        BY <1>1, <2>2 DEF ListenerFails, AInv, AccessTypeOK, DrainInv, NoCallLosesItsStores
    <2>3. CASE ShutdownReturns
        <3>1. server.state = "draining" /\ server'.state = "closed"
            BY <2>3 DEF ShutdownReturns, AInv, AccessTypeOK
        <3>2. UNCHANGED <<call, now>> /\ server'.since = server.since
            BY <1>1, <2>3 DEF ShutdownReturns, AccessTypeOK
        <3>3. ASSUME NEW c \in Calls, InFlight(c), call[c].since <= server.since
              PROVE  now >= call[c].since + DrainTime
            <4>1. now - server.since >= DrainTime
                BY <2>3, <3>3 DEF ShutdownReturns
            <4>2. call[c].since \in Nat /\ server.since \in Nat
                BY <1>1, CallRecord, Times DEF AccessTypeOK
            <4> QED BY <1>1, <3>3, <4>1, <4>2, Times
        <3> QED BY <3>1, <3>2, <3>3 DEF AInv, DrainInv, NoCallLosesItsStores, InFlight
    <2> QED BY <2>1, <2>2, <2>3
<1> QED BY <1>2, <1>3, <1>4 DEF AInv

LEMMA TickAInv == ASSUME AInv, Tick PROVE AInv'
<1>1. /\ AccessTypeOK /\ now \in 0 .. MaxTime /\ now' = now + 1 /\ now' \in 0 .. MaxTime
      /\ UNCHANGED <<issued, rate, revokedAt, unpinned, call, admitted, server>>
    BY Times DEF AInv, AccessTypeOK, Tick, keyVars
<1>2. AccessTypeOK'
    <2>1. counter' \in [ApiKeys -> [Windows -> Nat]]
        BY <1>1 DEF AccessTypeOK, Tick
    <2>2. counterUntil' \in [ApiKeys -> [Windows -> Nat]]
        BY <1>1, Times DEF AccessTypeOK, Tick
    <2>3. cache' \in [ApiKeys -> [rate : Nat, until : Nat]]
        BY <1>1 DEF AccessTypeOK, Tick, NoEntry
    <2> QED BY <1>1, <2>1, <2>2, <2>3 DEF AccessTypeOK
<1>3. CallInv'
    <2> SUFFICES ASSUME NEW c \in Calls, InFlight(c)
                 PROVE  /\ call[c].token \in ApiKeys /\ call[c].since <= now'
                        /\ InGate(c) => now' <= call[c].since + MaxGate
        BY <1>1 DEF CallInv, InFlight, InGate
    <2>1. call[c].token \in ApiKeys /\ call[c].since <= now
        BY DEF AInv, CallInv
    <2>2. InGate(c) => now < call[c].since + MaxGate
        BY DEF Tick
    <2> QED BY <1>1, <2>1, <2>2, CallRecord, Times
<1>4. KeyInv'
    BY <1>1, Times DEF AInv, KeyInv, AccessTypeOK
<1>5. CacheInv'
    <2>1. AccessTypeOK /\ CacheInv
        BY DEF AInv
    <2>2. \A k \in ApiKeys : cache'[k].until \in {0, cache[k].until}
        BY DEF Tick, NoEntry
    <2>3. ASSUME NEW k \in ApiKeys
          PROVE  /\ cache'[k].until <= now' + CacheTTL
                 /\ cache'[k].until <= revokedAt[k] + MaxGate + CacheTTL
                 /\ cache'[k].until > 0 => k \in issued
        <3>1. /\ cache[k].until \in Nat /\ revokedAt[k] \in Nat /\ now \in Nat
              /\ MaxGate \in Nat /\ CacheTTL \in Nat
            BY <2>1, Times DEF AccessTypeOK
        <3>2. /\ cache[k].until <= now + CacheTTL
              /\ cache[k].until <= revokedAt[k] + MaxGate + CacheTTL
              /\ cache[k].until > 0 => k \in issued
            BY <2>1 DEF CacheInv
        <3> QED BY <1>1, <2>2, <3>1, <3>2
    <2> QED BY <1>1, <2>1, <2>3 DEF CacheInv, At
<1>6. DrainInv'
    BY <1>1, Times DEF AInv, AccessTypeOK, DrainInv
<1>7. NoCallLosesItsStores'
    <2> SUFFICES ASSUME server.state = "closed", NEW c \in Calls, InFlight(c),
                        call[c].since <= server.since
                 PROVE  now' >= call[c].since + DrainTime
        BY <1>1 DEF NoCallLosesItsStores, InFlight
    <2>1. now >= call[c].since + DrainTime
        BY DEF AInv, NoCallLosesItsStores
    <2>2. call[c].since \in Nat
        BY <1>1, CallRecord, Times
    <2> QED BY <1>1, <2>1, <2>2, Times
<1> QED BY <1>2, <1>3, <1>4, <1>5, <1>6, <1>7 DEF AInv

LEMMA NextAInv == AInv /\ [AccessNext]_accessVars => AInv'
<1> SUFFICES ASSUME AInv, [AccessNext]_accessVars PROVE AInv'
    OBVIOUS
<1>1. CASE UNCHANGED accessVars
    BY <1>1 DEF AInv, accessVars, keyVars, redisVars, AccessTypeOK, CallInv, KeyInv, CacheInv,
        DrainInv, NoCallLosesItsStores, InFlight, InGate, At
<1>2. CASE AccessNext
    BY <1>2, IssueAInv, RevokeAInv, ArriveAInv, CallStepAInv, ServerAInv, TickAInv DEF AccessNext
<1> QED BY <1>1, <1>2

THEOREM AccessInvariance == AccessSpec => []AInv
BY InitAInv, NextAInv, PTL DEF AccessSpec

-----------------------------------------------------------------------------
(* Results *)

\* Whatever calls are made, keys issued and stores failing, every variable keeps
\* its type.
THEOREM AccessTypeCorrect == AccessSpec => []AccessTypeOK
BY AccessInvariance, PTL DEF AInv

\* Shutdown takes Redis and Postgres away from no call that began before the stop
\* and has run for less than DrainTime, whatever else is in flight and however long
\* it takes.
THEOREM StoresStay == AccessSpec => []NoCallLosesItsStores
BY AccessInvariance, PTL DEF AInv

LEMMA OnlyTheseGrant ==
    ASSUME AccessTypeOK, [AccessNext]_accessVars, NEW c \in Calls,
           ~At(c, "window"), At(c, "window")'
    PROVE  CacheHit(c) \/ CacheStore(c)
<1>1. call'[c] # call[c]
    BY DEF At
<1>2. CASE \E k \in ApiKeys : Issue(k) \/ Revoke(k)
    BY <1>1, <1>2 DEF Issue, Revoke
<1>3. ASSUME NEW d \in Calls, Arrive(d) PROVE FALSE
    <2>1. CASE Answered(d)
        BY <1>1, <2>1, AnsweredRecord DEF At
    <2>2. ASSUME NEW t,
                 call' = [call EXCEPT ![d] = [Blank EXCEPT !.pc = "auth", !.token = t,
                                                           !.since = now]]
          PROVE  FALSE
        BY <1>1, <2>2 DEF Blank, AccessTypeOK, At
    <2> QED BY <1>3, <2>1, <2>2 DEF Arrive
<1>4. ASSUME NEW d \in Calls, CallStep(d) PROVE CacheHit(c) \/ CacheStore(c)
    <2>1. c = d
        BY <1>1, <1>4, CallStepGoes DEF Going
    <2> QED BY <1>4, <2>1, CallStepGoes
<1>5. CASE Sigterm \/ ShutdownReturns \/ ListenerFails \/ Tick
    BY <1>1, <1>5 DEF Sigterm, ShutdownReturns, ListenerFails, Tick
<1>6. CASE UNCHANGED accessVars
    BY <1>1, <1>6 DEF accessVars
<1> QED BY <1>2, <1>3, <1>4, <1>5, <1>6 DEF AccessNext

\* No call gets past the gate with a key never issued, nor with one revoked longer
\* ago than CacheTTL and the time of one call in the gate.
THEOREM RevokesAreHonoured == AccessSpec => RevokedIsRefused
<1> DEFINE Refused ==
        \A c \in Calls : ~At(c, "window") /\ At(c, "window")' =>
            /\ call[c].token \in issued
            /\ now < revokedAt[call[c].token] + CacheTTL + MaxGate
<1>1. ASSUME AInv, [AccessNext]_accessVars, NEW c \in Calls, ~At(c, "window"), At(c, "window")'
      PROVE  /\ call[c].token \in issued
             /\ now < revokedAt[call[c].token] + CacheTTL + MaxGate
    <2>1. AccessTypeOK /\ CallInv /\ CacheInv /\ now \in Nat
        BY <1>1, CallRecord, Times DEF AInv
    <2>2. CASE CacheHit(c)
        <3>1. call[c].token \in ApiKeys /\ cache[call[c].token].until > now
            BY <2>1, <2>2 DEF CacheHit, CallInv, InFlight, At
        <3>2. cache[call[c].token].until \in Nat /\ revokedAt[call[c].token] \in Nat
            BY <2>1, <3>1, Times DEF AccessTypeOK
        <3> QED BY <2>1, <3>1, <3>2, Times DEF CacheInv
    <2>3. CASE CacheStore(c)
        <3>1. call[c].token \in ApiKeys /\ now <= call[c].since + MaxGate
            BY <2>1, <2>3 DEF CacheStore, CallInv, InFlight, InGate, At
        <3>2. call[c].token \in issued /\ call[c].since <= revokedAt[call[c].token]
            BY <2>1, <2>3 DEF CacheStore, CacheInv
        <3>3. call[c].since \in Nat /\ revokedAt[call[c].token] \in Nat
            BY <2>1, <3>1, CallRecord, Times DEF AccessTypeOK
        <3> QED BY <2>1, <3>1, <3>2, <3>3, Times
    <2>4. CacheHit(c) \/ CacheStore(c)
        BY <1>1, <2>1, OnlyTheseGrant
    <2> QED BY <2>2, <2>3, <2>4
<1>2. AInv /\ [AccessNext]_accessVars => [Refused]_accessVars
    BY <1>1
<1> QED BY <1>2, AccessInvariance, PTL DEF AccessSpec, RevokedIsRefused

-----------------------------------------------------------------------------
(* The quota: a second invariant, on top of the first *)

\* Everybody who knows a quota knows the right one, and none is zero.
LimitInv ==
    /\ \A k \in ApiKeys : IF k \in issued THEN rate[k] > 0 ELSE rate[k] = 0
    /\ \A k \in ApiKeys : cache[k].until > 0 => cache[k].rate = rate[k]
    /\ \A c \in Calls : call[c].pc \in {"store", "window", "incr", "expire"} =>
           call[c].token \in issued /\ call[c].limit = rate[call[c].token]

\* The moment from which no call counts in window w any more.
Over(w) == Window * w + Window + MaxGate

\* A call counts in a window that has begun, and began itself before its end.
WindowInv ==
    \A c \in Calls : call[c].pc \in {"incr", "expire"} =>
        /\ Window * call[c].window <= now
        /\ call[c].since < Window * call[c].window + Window

\* The call has made the first INCR of its window and not yet the EXPIRE.
Pending(c, k, w) == At(c, "expire") /\ call[c].token = k /\ call[c].window = w

\* A counter outlives its window, but not for ever, unless its EXPIRE was not made.
UntilInv ==
    \A k \in ApiKeys, w \in Windows :
        /\ now < counterUntil[k][w]
        /\ counterUntil[k][w] # Never =>
               /\ Over(w) <= counterUntil[k][w]
               /\ counterUntil[k][w] < Over(w) + CounterTTL
        /\ counter[k][w] > 0 /\ counterUntil[k][w] = Never =>
               <<k, w>> \in unpinned \/ \E c \in Calls : Pending(c, k, w)

\* The counter counts every call let through by it, and the one that is pending,
\* until its window is over.
CountInv ==
    \A k \in ApiKeys, w \in Windows :
        /\ admitted[k][w] <= rate[k]
        /\ now < Over(w) => admitted[k][w] <= counter[k][w]
        /\ \A c \in Calls : Pending(c, k, w) =>
               admitted[k][w] < counter[k][w] /\ admitted[k][w] < rate[k]
        /\ \A c, d \in Calls : Pending(c, k, w) /\ Pending(d, k, w) => c = d

QInv == LimitInv /\ WindowInv /\ UntilInv /\ CountInv

LEMMA OverInt == ASSUME NEW w \in Windows PROVE Over(w) \in Int /\ Window * w \in Int
BY AccessAssumption, Times DEF Over, Windows

LEMMA InitQInv == AccessInit => QInv
<1> SUFFICES ASSUME AccessInit PROVE QInv
    OBVIOUS
<1>1. \A c \in Calls : call[c].pc = "idle"
    BY DEF AccessInit, Blank
<1>2. \A k \in ApiKeys, w \in Windows :
          counter[k][w] = 0 /\ counterUntil[k][w] = Never /\ admitted[k][w] = 0
    BY DEF AccessInit
<1>3. LimitInv
    BY <1>1 DEF AccessInit, LimitInv, NoEntry
<1>4. WindowInv
    BY <1>1 DEF WindowInv
<1>5. UntilInv
    BY <1>2, Times DEF AccessInit, UntilInv
<1>6. CountInv
    BY <1>1, <1>2 DEF AccessInit, CountInv, Pending, At
<1> QED BY <1>3, <1>4, <1>5, <1>6 DEF QInv

\* A call that counts does so before its window is over.
LEMMA InTime ==
    ASSUME AInv, WindowInv, NEW c \in Calls, call[c].pc \in {"incr", "expire"}
    PROVE  /\ now < Over(call[c].window)
           /\ call[c].window \in Windows /\ call[c].token \in ApiKeys
           /\ Window * call[c].window <= now
<1>1. call[c].token \in ApiKeys /\ now <= call[c].since + MaxGate
    BY DEF AInv, CallInv, InFlight, InGate
<1>2. /\ call[c].window \in Windows /\ call[c].since \in Nat /\ now \in Nat /\ MaxGate \in Nat
      /\ Window \in Nat
    BY CallRecord, Times, AccessAssumption DEF AInv
<1>3. Window * call[c].window <= now /\ call[c].since < Window * call[c].window + Window
    BY DEF WindowInv
<1>4. Window * call[c].window \in Int
    BY <1>2, OverInt
<1> QED BY <1>1, <1>2, <1>3, <1>4 DEF Over

\* A step that moves no call to or from its EXPIRE and leaves the counters alone.
LEMMA QuietKeeps ==
    ASSUME UntilInv, CountInv, UNCHANGED <<now, rate, counter, counterUntil, unpinned, admitted>>,
           \A d \in Calls : call'[d] = call[d] \/ ~(At(d, "expire") \/ At(d, "expire")')
    PROVE  UntilInv' /\ CountInv'
<1>1. \A d \in Calls, k \in ApiKeys, w \in Windows : Pending(d, k, w)' <=> Pending(d, k, w)
    BY DEF Pending, At
<1>2. Never' = Never /\ \A w : Over(w)' = Over(w)
    BY DEF Never, Over
<1>3. UntilInv'
    BY <1>1, <1>2 DEF UntilInv
<1>4. CountInv'
    BY <1>1, <1>2 DEF CountInv
<1> QED BY <1>3, <1>4

\* What one call's step has to bring about for the others and the cache.
LEMMA LimitKeeps ==
    ASSUME LimitInv, WindowInv, NEW c \in Calls,
           UNCHANGED <<now, issued, rate>>,
           \A d \in Calls \ {c} : call'[d] = call[d],
           call'[c].pc \in {"store", "window", "incr", "expire"} =>
               call'[c].token \in issued /\ call'[c].limit = rate[call'[c].token],
           call'[c].pc \in {"incr", "expire"} =>
               /\ Window * call'[c].window <= now
               /\ call'[c].since < Window * call'[c].window + Window,
           \A k \in ApiKeys : cache'[k] = cache[k] \/ cache'[k].rate = rate[k]
    PROVE  LimitInv' /\ WindowInv'
<1>1. LimitInv'
    BY DEF LimitInv
<1>2. WindowInv'
    BY DEF WindowInv
<1> QED BY <1>1, <1>2

LEMMA QuietStepQInv ==
    ASSUME AInv, QInv, NEW c \in Calls,
           \/ CacheHit(c) \/ CacheMiss(c) \/ Lookup(c) \/ CacheStore(c) \/ ReadWindow(c)
           \/ Serve(c)
    PROVE  QInv'
<1> DEFINE Limited == call'[c].pc \in {"store", "window", "incr", "expire"} =>
                          /\ call'[c].token \in issued
                          /\ call'[c].limit = rate[call'[c].token]
           Counting == call'[c].pc \in {"incr", "expire"} =>
                          /\ Window * call'[c].window <= now
                          /\ call'[c].since < Window * call'[c].window + Window
           Cached == \A k \in ApiKeys : cache'[k] = cache[k] \/ cache'[k].rate = rate[k]
<1>1. /\ AccessTypeOK /\ CallInv /\ CacheInv /\ LimitInv /\ WindowInv /\ UntilInv /\ CountInv
      /\ CallStep(c)
    BY DEF AInv, QInv, CallStep
<1>2. /\ UNCHANGED <<now, issued, rate, counter, counterUntil, unpinned, admitted>>
      /\ ~At(c, "expire") /\ InFlight(c)
    BY DEF CacheHit, CacheMiss, Lookup, CacheStore, ReadWindow, Serve, keyVars, redisVars, At,
        InFlight
<1>3. /\ \A d \in Calls \ {c} : call'[d] = call[d]
      /\ call[c].token \in ApiKeys
    BY <1>1, <1>2, CallStepGoes DEF Going, CallInv
<1>4. ~At(c, "expire")' /\ Limited /\ Counting /\ Cached
    <2>1. CASE Answered(c) /\ UNCHANGED cache
        BY <1>1, <2>1, AnsweredRecord DEF At
    <2>2. CASE CacheHit(c)
        <3>1. /\ call'[c].pc = "window" /\ call'[c].token = call[c].token
              /\ call'[c].limit = cache[call[c].token].rate
            BY <1>1, <2>2 DEF CacheHit, Grant, AccessTypeOK, CallRecords
        <3>2. cache[call[c].token].until > 0 /\ UNCHANGED cache
            BY <1>1, <1>3, <2>2, CallRecord, Times DEF CacheHit, AccessTypeOK, redisVars
        <3> QED BY <1>1, <1>3, <3>1, <3>2 DEF LimitInv, CacheInv, At
    <2>3. CASE CacheMiss(c)
        <3>1. call'[c].pc = "lookup" /\ UNCHANGED cache
            BY <1>1, <2>3, GotoRecord DEF CacheMiss, redisVars
        <3> QED BY <3>1 DEF At
    <2>4. CASE Lookup(c)
        <3>1. CASE call' = [call EXCEPT ![c].pc = "store", ![c].limit = rate[call[c].token]]
                       /\ Valid(call[c].token)
            <4>1. /\ call'[c].pc = "store" /\ call'[c].token = call[c].token
                  /\ call'[c].limit = rate[call[c].token] /\ UNCHANGED cache
                BY <1>1, <2>4, <3>1 DEF Lookup, redisVars, AccessTypeOK, CallRecords
            <4> QED BY <3>1, <4>1 DEF Valid, At
        <3> QED BY <2>1, <2>4, <3>1 DEF Lookup, redisVars
    <2>5. CASE CacheStore(c)
        <3>1. /\ call'[c].pc = "window" /\ call'[c].token = call[c].token
              /\ call'[c].limit = call[c].limit
            BY <1>1, <2>5 DEF CacheStore, Grant, AccessTypeOK, CallRecords
        <3>2. call[c].token \in issued /\ call[c].limit = rate[call[c].token]
            BY <1>1, <2>5 DEF CacheStore, LimitInv, At
        <3>3. Reparsed(call[c].limit) = rate[call[c].token]
            BY <1>1, <1>3, <3>2 DEF LimitInv, Reparsed, AccessTypeOK
        <3>4. Cached
            BY <1>1, <1>3, <2>5, <3>3 DEF CacheStore, AccessTypeOK
        <3> QED BY <3>1, <3>2, <3>4 DEF At
    <2>6. CASE ReadWindow(c)
        <3>1. CASE Admit(c)
            BY <1>1, <2>6, <3>1, AdmitRecord DEF ReadWindow, redisVars, At
        <3>2. CASE call' = [call EXCEPT ![c].pc = "incr", ![c].window = now \div Window]
            <4>1. /\ call'[c].pc = "incr" /\ call'[c].token = call[c].token
                  /\ call'[c].limit = call[c].limit /\ call'[c].since = call[c].since
                  /\ call'[c].window = now \div Window /\ UNCHANGED cache
                BY <1>1, <2>6, <3>2 DEF ReadWindow, redisVars, AccessTypeOK, CallRecords
            <4>2. call[c].since <= now /\ now \in Nat /\ call[c].since \in Nat
                BY <1>1, <1>2, CallRecord, Times DEF CallInv
            <4>3. /\ now \div Window \in Int /\ Window * (now \div Window) <= now
                  /\ now < Window * (now \div Window) + Window
                BY <4>2, Quotient, AccessAssumption
            <4>4. Window * (now \div Window) \in Int /\ Window \in Int
                BY <4>3, AccessAssumption
            <4>5. Counting
                BY <4>1, <4>2, <4>3, <4>4
            <4>6. Limited
                BY <1>1, <2>6, <4>1 DEF ReadWindow, LimitInv, At
            <4> QED BY <4>1, <4>5, <4>6 DEF At
        <3> QED BY <2>6, <3>1, <3>2 DEF ReadWindow
    <2>7. CASE Serve(c)
        BY <2>1, <2>7 DEF Serve, redisVars
    <2> QED BY <2>2, <2>3, <2>4, <2>5, <2>6, <2>7
<1>5. UntilInv' /\ CountInv'
    BY <1>1, <1>2, <1>3, <1>4, QuietKeeps
<1>6. LimitInv' /\ WindowInv'
    BY <1>1, <1>2, <1>3, <1>4, LimitKeeps
<1> QED BY <1>5, <1>6 DEF QInv

\* A call that goes on without its EXPIRE, or ends, knows nothing new.
LEMMA LeavesCounting ==
    ASSUME AInv, QInv, NEW c \in Calls, UNCHANGED <<now, issued, rate, cache>>,
           \A d \in Calls \ {c} : call'[d] = call[d],
           \/ call'[c].pc \in {"handler", "answered"}
           \/ /\ call[c].pc \in {"incr", "expire"} /\ call'[c].pc = "expire"
              /\ call'[c].token = call[c].token /\ call'[c].since = call[c].since
              /\ call'[c].limit = call[c].limit /\ call'[c].window = call[c].window
    PROVE  LimitInv' /\ WindowInv'
<1>1. LimitInv /\ WindowInv
    BY DEF QInv
<1>2. LimitInv'
    BY <1>1 DEF LimitInv
<1>3. WindowInv'
    BY <1>1 DEF WindowInv
<1> QED BY <1>2, <1>3

\* The INCR. The first of a window makes the call pending, every other one counts a
\* call that may be let through at once.
LEMMA IncrQInv == ASSUME AInv, QInv, NEW c \in Calls, Incr(c) PROVE QInv'
<1> DEFINE k == call[c].token
           w == call[c].window
           n == counter[k][w]
<1>1. /\ AccessTypeOK /\ LimitInv /\ WindowInv /\ UntilInv /\ CountInv /\ At(c, "incr")
    BY DEF AInv, QInv, Incr
<1>2. k \in ApiKeys /\ w \in Windows /\ now < Over(w)
    BY <1>1, InTime DEF At
<1>3. call[c].limit = rate[k] /\ rate[k] \in Nat /\ n \in Nat
    BY <1>1, <1>2 DEF LimitInv, At, AccessTypeOK
<1>4. UNCHANGED <<now, issued, rate, cache, counterUntil>> /\ Never' = Never
    BY DEF Incr, keyVars, Never
<1>5. admitted[k][w] <= n /\ admitted[k][w] <= rate[k] /\ admitted[k][w] \in Nat
    BY <1>1, <1>2 DEF CountInv, AccessTypeOK
<1>6. \A d \in Calls : Pending(d, k, w) => n > 0
    BY <1>1, <1>2, <1>3 DEF CountInv, AccessTypeOK
<1> DEFINE Counted == counter' = [counter EXCEPT ![k][w] = @ + 1]
           Through == /\ admitted' = [admitted EXCEPT ![k][w] = @ + 1]
                      /\ n > 0 /\ n + 1 <= rate[k]
           First   == /\ n = 0 /\ call'[c].pc = "expire"
                      /\ call'[c].token = call[c].token /\ call'[c].since = call[c].since
                      /\ call'[c].limit = call[c].limit /\ call'[c].window = call[c].window
                      /\ UNCHANGED <<admitted, unpinned>>
           Leaves  == call'[c].pc \in {"handler", "answered"}
<1>7. /\ \A d \in Calls \ {c} : call'[d] = call[d]
      /\ \/ Counted /\ First
         \/ Counted /\ Leaves /\ n > 0 /\ UNCHANGED unpinned /\ (Through \/ UNCHANGED admitted)
         \/ /\ Counted /\ Leaves /\ UNCHANGED admitted
            /\ unpinned' = IF n = 0 THEN unpinned \cup {<<k, w>>} ELSE unpinned
         \/ Leaves /\ UNCHANGED <<counter, unpinned, admitted>>
    <2>1. \A d \in Calls \ {c} : call'[d] = call[d]
        BY <1>1, CallStepGoes DEF Going, CallStep
    <2>2. CASE Counted /\ n = 0 /\ Goto(c, "expire") /\ UNCHANGED <<admitted, unpinned>>
        BY <1>1, <2>1, <2>2, GotoRecord
    <2>3. CASE Counted /\ n # 0 /\ Judge(c, n + 1) /\ UNCHANGED unpinned
        <3>1. CASE Answered(c) /\ UNCHANGED admitted
            BY <1>1, <1>3, <2>1, <2>3, <3>1, AnsweredRecord
        <3>2. CASE /\ ~(n + 1 > call[c].limit) /\ Admit(c)
                   /\ admitted' = [admitted EXCEPT ![k][w] = @ + 1]
            <4>1. Leaves
                BY <1>1, <3>2, AdmitRecord
            <4>2. Through
                BY <1>3, <2>3, <3>2
            <4> QED BY <1>3, <2>1, <2>3, <4>1, <4>2
        <3> QED BY <2>3, <3>1, <3>2 DEF Judge
    <2>4. CASE /\ Counted /\ Admit(c) /\ UNCHANGED admitted
               /\ unpinned' = IF n = 0 THEN unpinned \cup {<<k, w>>} ELSE unpinned
        BY <1>1, <2>1, <2>4, AdmitRecord
    <2>5. CASE Admit(c) /\ UNCHANGED <<counter, unpinned, admitted>>
        BY <1>1, <2>1, <2>5, AdmitRecord
    <2> QED BY <2>2, <2>3, <2>4, <2>5 DEF Incr
<1>8. LimitInv' /\ WindowInv'
    BY <1>1, <1>4, <1>7, LeavesCounting DEF At
<1>9. /\ \A d \in Calls, j \in ApiKeys, v \in Windows :
             Pending(d, j, v)' <=> Pending(d, j, v) \/ (d = c /\ First /\ j = k /\ v = w)
    BY <1>1, <1>7 DEF Pending, At
<1>10. ASSUME NEW j \in ApiKeys, NEW v \in Windows
       PROVE  /\ counter'[j][v] = IF Counted /\ j = k /\ v = w THEN n + 1 ELSE counter[j][v]
              /\ admitted'[j][v] = IF Through /\ j = k /\ v = w THEN admitted[k][w] + 1
                                  ELSE admitted[j][v]
    BY <1>1, <1>2, <1>7 DEF AccessTypeOK
<1>11. UntilInv'
    <2>1. \A v \in Windows : Over(v)' = Over(v)
        BY DEF Over
    <2>2. unpinned \subseteq unpinned'
        BY <1>7
    <2>3. ASSUME NEW j \in ApiKeys, NEW v \in Windows, counter'[j][v] > 0,
                 counterUntil[j][v] = Never
          PROVE  <<j, v>> \in unpinned' \/ \E d \in Calls : Pending(d, j, v)'
        <3>1. CASE counter[j][v] > 0
            BY <1>1, <1>9, <2>2, <2>3, <3>1 DEF UntilInv
        <3>2. CASE ~(counter[j][v] > 0)
            <4>1. counter[j][v] \in Nat
                BY <1>1 DEF AccessTypeOK
            <4>2. Counted /\ j = k /\ v = w /\ n = 0
                BY <1>10, <2>3, <3>2, <4>1
            <4>3. CASE First
                BY <1>9, <4>2, <4>3
            <4>4. CASE unpinned' = unpinned \cup {<<k, w>>}
                BY <4>2, <4>4
            <4>5. First \/ unpinned' = unpinned \cup {<<k, w>>} \/ UNCHANGED counter
                BY <1>7, <4>2
            <4>6. CASE UNCHANGED counter
                BY <2>3, <3>2, <4>6
            <4> QED BY <4>3, <4>4, <4>5, <4>6
        <3> QED BY <3>1, <3>2
    <2> QED BY <1>1, <1>4, <2>1, <2>3 DEF UntilInv
<1>12. CountInv'
    <2> SUFFICES ASSUME NEW j \in ApiKeys, NEW v \in Windows
                 PROVE  /\ admitted'[j][v] <= rate[j]
                        /\ now < Over(v) => admitted'[j][v] <= counter'[j][v]
                        /\ \A d \in Calls : Pending(d, j, v)' =>
                               admitted'[j][v] < counter'[j][v] /\ admitted'[j][v] < rate[j]
                        /\ \A d, e \in Calls : Pending(d, j, v)' /\ Pending(e, j, v)' => d = e
        BY <1>4 DEF CountInv, Over
    <2>1. admitted[j][v] \in Nat /\ counter[j][v] \in Nat /\ rate[j] \in Nat
        BY <1>1 DEF AccessTypeOK
    <2>2. /\ admitted[j][v] <= rate[j]
          /\ now < Over(v) => admitted[j][v] <= counter[j][v]
          /\ \A d \in Calls : Pending(d, j, v) =>
                 admitted[j][v] < counter[j][v] /\ admitted[j][v] < rate[j]
          /\ \A d, e \in Calls : Pending(d, j, v) /\ Pending(e, j, v) => d = e
        BY <1>1 DEF CountInv
    <2>3. CASE j = k /\ v = w /\ First
        <3>1. Counted /\ admitted'[k][w] = admitted[k][w] /\ counter'[k][w] = 1
            BY <1>2, <1>3, <1>7, <1>10, <2>3
        <3>2. admitted[k][w] = 0 /\ rate[k] > 0
            BY <1>1, <1>2, <1>3, <1>5, <2>3 DEF LimitInv, At
        <3>3. \A d \in Calls : Pending(d, k, w)' => d = c
            BY <1>6, <1>9, <2>3
        <3> QED BY <1>3, <2>3, <3>1, <3>2, <3>3
    <2>4. CASE ~(j = k /\ v = w /\ First)
        <3>1. \A d \in Calls : Pending(d, j, v)' <=> Pending(d, j, v)
            <4> HIDE DEF k, w, n, Through, Counted, First, Leaves
            <4> QED BY <1>9, <2>4
        <3>2. CASE j = k /\ v = w /\ Through
            <4>1. admitted'[k][w] = admitted[k][w] + 1
                BY <1>2, <1>10, <3>2
            <4>2. counter'[k][w] = n + 1
                <5>1. admitted' # admitted
                    BY <1>5, <4>1
                <5>2. Counted
                    BY <1>7, <5>1
                <5> QED BY <1>2, <1>10, <5>2
            <4>3. \A d \in Calls : Pending(d, k, w) => admitted[k][w] < n
                BY <2>2, <3>2
            <4>4. /\ admitted'[k][w] <= rate[k] /\ admitted'[k][w] <= counter'[k][w]
                  /\ \A d \in Calls : Pending(d, k, w) =>
                         admitted'[k][w] < counter'[k][w] /\ admitted'[k][w] < rate[k]
                <5>1. n + 1 <= rate[k]
                    BY <3>2
                <5> HIDE DEF k, w, n
                <5> QED BY <1>3, <1>5, <4>1, <4>2, <4>3, <5>1
            <4>5. \A d \in Calls : Pending(d, j, v)' <=> Pending(d, k, w)
                BY <3>1, <3>2
            <4> HIDE DEF k, w, n, Through, Counted, First, Leaves
            <4> QED BY <2>2, <3>2, <4>4, <4>5
        <3>3. CASE ~(j = k /\ v = w /\ Through)
            <4>1. admitted'[j][v] = admitted[j][v]
                BY <1>10, <3>3
            <4>2. counter'[j][v] = counter[j][v] \/ counter'[j][v] = counter[j][v] + 1
                BY <1>10
            <4> QED BY <2>1, <2>2, <3>1, <4>1, <4>2
        <3> QED BY <3>2, <3>3
    <2> QED BY <2>3, <2>4
<1> QED BY <1>8, <1>11, <1>12 DEF QInv

\* The EXPIRE lets the pending call through, and gives its counter a life that goes
\* beyond every call of its window.
LEMMA ExpireQInv == ASSUME AInv, QInv, NEW c \in Calls, Expire(c) PROVE QInv'
<1> DEFINE k == call[c].token
           w == call[c].window
<1>1. /\ AccessTypeOK /\ LimitInv /\ WindowInv /\ UntilInv /\ CountInv /\ At(c, "expire")
    BY DEF AInv, QInv, Expire
<1>2. /\ k \in ApiKeys /\ w \in Windows /\ now < Over(w) /\ Window * w <= now
    BY <1>1, InTime DEF At
<1>3. now \in 0 .. MaxTime /\ Over(w) \in Int /\ Window * w \in Int /\ Window \in Nat
    BY <1>1, <1>2, CallRecord, OverInt, AccessAssumption
<1>4. UNCHANGED <<now, issued, rate, cache, counter>> /\ Never' = Never
    BY DEF Expire, keyVars, Never
<1>5. /\ admitted[k][w] < counter[k][w] /\ admitted[k][w] < rate[k]
      /\ \A d \in Calls : Pending(d, k, w) => d = c
    BY <1>1, <1>2 DEF CountInv, Pending
<1>6. /\ \A d \in Calls \ {c} : call'[d] = call[d]
      /\ call'[c].pc \in {"handler", "answered"}
      /\ \/ UNCHANGED admitted
         \/ admitted' = [admitted EXCEPT ![k][w] = @ + 1]
    <2>1. \A d \in Calls \ {c} : call'[d] = call[d]
        BY <1>1, CallStepGoes DEF Going, CallStep
    <2>2. CASE Answered(c) /\ UNCHANGED admitted
        BY <1>1, <2>1, <2>2, AnsweredRecord
    <2>3. CASE Admit(c) /\ admitted' = [admitted EXCEPT ![k][w] = @ + 1]
        BY <1>1, <2>1, <2>3, AdmitRecord
    <2> QED BY <2>2, <2>3 DEF Expire, Judge
<1>7. \A d \in Calls, j \in ApiKeys, v \in Windows :
          Pending(d, j, v)' <=> Pending(d, j, v) /\ d # c
    BY <1>6 DEF Pending, At
<1>8. LimitInv' /\ WindowInv'
    BY <1>4, <1>6, LeavesCounting
<1>9. UntilInv'
    <2> SUFFICES ASSUME NEW j \in ApiKeys, NEW v \in Windows
                 PROVE  /\ now < counterUntil'[j][v]
                        /\ counterUntil'[j][v] # Never =>
                               /\ Over(v) <= counterUntil'[j][v]
                               /\ counterUntil'[j][v] < Over(v) + CounterTTL
                        /\ counter[j][v] > 0 /\ counterUntil'[j][v] = Never =>
                               <<j, v>> \in unpinned' \/ \E d \in Calls : Pending(d, j, v)'
        BY <1>4 DEF UntilInv, Over
    <2>1. /\ now < counterUntil[j][v]
          /\ counterUntil[j][v] # Never =>
                 /\ Over(v) <= counterUntil[j][v]
                 /\ counterUntil[j][v] < Over(v) + CounterTTL
          /\ counter[j][v] > 0 /\ counterUntil[j][v] = Never =>
                 <<j, v>> \in unpinned \/ \E d \in Calls : Pending(d, j, v)
        BY <1>1 DEF UntilInv
    <2>2. CASE j = k /\ v = w
        <3>1. CASE counterUntil' = [counterUntil EXCEPT ![k][w] = now + CounterTTL]
            <4>1. counterUntil'[j][v] = now + CounterTTL
                BY <1>1, <1>2, <2>2, <3>1 DEF AccessTypeOK
            <4>2. now + CounterTTL < Never /\ now < now + CounterTTL
                BY <1>3, Times, AccessAssumption DEF Never
            <4>3. Over(w) <= now + CounterTTL /\ now + CounterTTL < Over(w) + CounterTTL
                BY <1>2, <1>3, Times, AccessAssumption DEF Over
            <4> QED BY <1>3, <2>2, <4>1, <4>2, <4>3, Times
        <3>2. CASE unpinned' = unpinned \cup {<<k, w>>} /\ UNCHANGED counterUntil
            BY <2>1, <2>2, <3>2
        <3> QED BY <3>1, <3>2 DEF Expire
    <2>3. CASE ~(j = k /\ v = w)
        <3>1. counterUntil'[j][v] = counterUntil[j][v]
            BY <1>1, <1>2, <2>3 DEF Expire, AccessTypeOK
        <3>2. unpinned \subseteq unpinned'
            BY DEF Expire
        <3>3. \A d \in Calls : Pending(d, j, v) => Pending(d, j, v)'
            BY <1>7, <2>3 DEF Pending
        <3> QED BY <2>1, <3>1, <3>2, <3>3
    <2> QED BY <2>2, <2>3
<1>10. CountInv'
    <2> SUFFICES ASSUME NEW j \in ApiKeys, NEW v \in Windows
                 PROVE  /\ admitted'[j][v] <= rate[j]
                        /\ now < Over(v) => admitted'[j][v] <= counter[j][v]
                        /\ \A d \in Calls : Pending(d, j, v)' =>
                               admitted'[j][v] < counter[j][v] /\ admitted'[j][v] < rate[j]
                        /\ \A d, e \in Calls : Pending(d, j, v)' /\ Pending(e, j, v)' => d = e
        BY <1>4 DEF CountInv, Over
    <2>1. admitted[j][v] \in Nat /\ counter[j][v] \in Nat /\ rate[j] \in Nat
        BY <1>1 DEF AccessTypeOK
    <2>2. /\ admitted[j][v] <= rate[j]
          /\ now < Over(v) => admitted[j][v] <= counter[j][v]
          /\ \A d \in Calls : Pending(d, j, v) =>
                 admitted[j][v] < counter[j][v] /\ admitted[j][v] < rate[j]
          /\ \A d, e \in Calls : Pending(d, j, v) /\ Pending(e, j, v) => d = e
        BY <1>1 DEF CountInv
    <2>3. CASE j = k /\ v = w
        <3>1. admitted'[j][v] = admitted[j][v] \/ admitted'[j][v] = admitted[j][v] + 1
            BY <1>1, <1>2, <1>6, <2>3 DEF AccessTypeOK
        <3>2. \A d \in Calls : ~Pending(d, j, v)'
            BY <1>5, <1>7, <2>3
        <3>3. admitted[j][v] < counter[j][v] /\ admitted[j][v] < rate[j]
            BY <1>5, <2>3
        <3> HIDE DEF k, w
        <3> QED BY <2>1, <3>1, <3>2, <3>3
    <2>4. CASE ~(j = k /\ v = w)
        <3>1. admitted'[j][v] = admitted[j][v]
            BY <1>1, <1>2, <1>6, <2>4 DEF AccessTypeOK
        <3> QED BY <1>7, <2>2, <3>1
    <2> QED BY <2>3, <2>4
<1> QED BY <1>8, <1>9, <1>10 DEF QInv

LEMMA ArriveQInv == ASSUME AInv, QInv, NEW c \in Calls, Arrive(c) PROVE QInv'
<1>1. AccessTypeOK /\ LimitInv /\ WindowInv /\ UntilInv /\ CountInv
    BY DEF AInv, QInv
<1>2. UNCHANGED <<now, issued, rate, cache, counter, counterUntil, unpinned, admitted>>
    BY DEF Arrive, keyVars, redisVars
<1>3. /\ \A d \in Calls \ {c} : call'[d] = call[d]
      /\ call'[c].pc \in {"auth", "answered"} /\ ~At(c, "expire")
    <2>1. CASE Answered(c)
        BY <1>1, <2>1, AnsweredRecord DEF Arrive, At
    <2>2. ASSUME NEW t,
                 call' = [call EXCEPT ![c] = [Blank EXCEPT !.pc = "auth", !.token = t,
                                                           !.since = now]]
          PROVE  (\A d \in Calls \ {c} : call'[d] = call[d]) /\ call'[c].pc = "auth"
        BY <1>1, <2>2 DEF Blank, AccessTypeOK
    <2> QED BY <2>1, <2>2 DEF Arrive, At
<1>4. LimitInv' /\ WindowInv'
    BY <1>1, <1>2, <1>3, LimitKeeps
<1>5. UntilInv' /\ CountInv'
    <2>1. ~At(c, "expire")'
        BY <1>3 DEF At
    <2> QED BY <1>1, <1>2, <1>3, <2>1, QuietKeeps
<1> QED BY <1>4, <1>5 DEF QInv

\* Nobody was let through with a key that is only being issued.
LEMMA IssueQInv == ASSUME AInv, QInv, NEW k \in ApiKeys, Issue(k) PROVE QInv'
<1>1. AccessTypeOK /\ CacheInv /\ LimitInv /\ WindowInv /\ UntilInv /\ CountInv
    BY DEF AInv, QInv
<1>2. /\ UNCHANGED <<now, cache, call, counter, counterUntil, unpinned, admitted>>
      /\ issued' = issued \cup {k} /\ k \notin issued /\ Never' = Never
    BY DEF Issue, redisVars, Never
<1>3. PICK asked \in AskedRates :
          rate' = [rate EXCEPT ![k] = IF asked <= 0 THEN DefaultRate ELSE asked]
    BY DEF Issue
<1>4. (IF asked <= 0 THEN DefaultRate ELSE asked) \in Nat \ {0}
    BY AccessAssumption
<1>5. /\ \A j \in ApiKeys : j # k => rate'[j] = rate[j]
      /\ rate'[k] \in Nat \ {0} /\ rate[k] = 0
    BY <1>1, <1>2, <1>3, <1>4 DEF AccessTypeOK, LimitInv
<1>6. issued \subseteq ApiKeys
    BY <1>1 DEF AccessTypeOK
<1>7. LimitInv' /\ WindowInv'
    <2>1. \A j \in ApiKeys : IF j \in issued' THEN rate'[j] > 0 ELSE rate'[j] = 0
        BY <1>1, <1>2, <1>5 DEF LimitInv
    <2>2. \A j \in ApiKeys : cache[j].until > 0 => cache[j].rate = rate'[j]
        BY <1>1, <1>2, <1>5 DEF LimitInv, CacheInv
    <2>3. \A c \in Calls : call[c].pc \in {"store", "window", "incr", "expire"} =>
             call[c].token \in issued' /\ call[c].limit = rate'[call[c].token]
        BY <1>1, <1>2, <1>5, <1>6 DEF LimitInv
    <2> QED BY <1>1, <1>2, <2>1, <2>2, <2>3 DEF LimitInv, WindowInv
<1>8. UntilInv'
    <2>1. \A c \in Calls, j \in ApiKeys, v \in Windows : Pending(c, j, v)' <=> Pending(c, j, v)
        BY <1>2 DEF Pending, At
    <2>2. \A v \in Windows : Over(v)' = Over(v)
        BY DEF Over
    <2> QED BY <1>1, <1>2, <2>1, <2>2 DEF UntilInv
<1>9. CountInv'
    <2> SUFFICES ASSUME NEW j \in ApiKeys, NEW v \in Windows
                 PROVE  /\ admitted[j][v] <= rate'[j]
                        /\ \A c \in Calls : Pending(c, j, v) => admitted[j][v] < rate'[j]
        BY <1>1, <1>2 DEF CountInv, Pending, At, Over
    <2>1. CASE j = k
        <3>1. admitted[j][v] <= rate[j] /\ admitted[j][v] \in Nat
            BY <1>1 DEF CountInv, AccessTypeOK
        <3> QED BY <1>5, <2>1, <3>1
    <2>2. CASE j # k
        BY <1>1, <1>5, <2>2 DEF CountInv
    <2> QED BY <2>1, <2>2
<1> QED BY <1>7, <1>8, <1>9 DEF QInv

LEMMA ServerQInv ==
    ASSUME QInv,
           \/ Sigterm \/ ShutdownReturns \/ ListenerFails \/ \E k \in ApiKeys : Revoke(k)
           \/ UNCHANGED accessVars
    PROVE  QInv'
<1>1. UNCHANGED <<now, issued, rate, redisVars, call, admitted>>
    BY DEF Sigterm, ShutdownReturns, ListenerFails, Revoke, accessVars, keyVars
<1>2. UntilInv' /\ CountInv'
    BY <1>1, QuietKeeps DEF QInv, redisVars
<1>3. LimitInv' /\ WindowInv'
    BY <1>1 DEF QInv, LimitInv, WindowInv, redisVars
<1> QED BY <1>2, <1>3 DEF QInv

\* Redis removes only counters that no call can reach any more.
LEMMA TickQInv == ASSUME AInv, QInv, Tick PROVE QInv'
<1>1. /\ AccessTypeOK /\ LimitInv /\ WindowInv /\ UntilInv /\ CountInv
      /\ AInv'
    BY TickAInv DEF AInv, QInv
<1>2. /\ UNCHANGED <<issued, rate, unpinned, call, admitted>>
      /\ \A k \in ApiKeys : cache'[k] = cache[k] \/ cache'[k].until = 0
      /\ now \in Nat /\ now' = now + 1 /\ now' \in Nat /\ Never' = Never /\ now' < Never
    BY <1>1, CallRecord, Times DEF Tick, keyVars, AInv, AccessTypeOK, Never, NoEntry
<1>3. LimitInv' /\ WindowInv'
    <2>1. \A c \in Calls : call[c].pc \in {"incr", "expire"} => Window * call[c].window \in Int
        BY <1>1, CallRecord, OverInt
    <2> QED BY <1>1, <1>2, <2>1 DEF LimitInv, WindowInv
<1>4. /\ \A c \in Calls, j \in ApiKeys, v \in Windows : Pending(c, j, v)' <=> Pending(c, j, v)
      /\ \A v \in Windows : Over(v)' = Over(v)
    BY <1>2 DEF Pending, At, Over
<1>5. ASSUME NEW j \in ApiKeys, NEW v \in Windows
      PROVE  /\ counterUntil[j][v] > now' => /\ counter'[j][v] = counter[j][v]
                                             /\ counterUntil'[j][v] = counterUntil[j][v]
             /\ ~(counterUntil[j][v] > now') => /\ counter'[j][v] = 0
                                                /\ counterUntil'[j][v] = Never
    BY DEF Tick
<1>6. UntilInv'
    <2> SUFFICES ASSUME NEW j \in ApiKeys, NEW v \in Windows
                 PROVE  /\ now' < counterUntil'[j][v]
                        /\ counterUntil'[j][v] # Never =>
                               /\ Over(v) <= counterUntil'[j][v]
                               /\ counterUntil'[j][v] < Over(v) + CounterTTL
                        /\ counter'[j][v] > 0 /\ counterUntil'[j][v] = Never =>
                               <<j, v>> \in unpinned \/ \E c \in Calls : Pending(c, j, v)
        BY <1>2, <1>4 DEF UntilInv
    <2> QED BY <1>1, <1>2, <1>5 DEF UntilInv
<1>7. CountInv'
    <2> SUFFICES ASSUME NEW j \in ApiKeys, NEW v \in Windows
                 PROVE  /\ now' < Over(v) => admitted[j][v] <= counter'[j][v]
                        /\ \A c \in Calls : Pending(c, j, v) => admitted[j][v] < counter'[j][v]
        BY <1>1, <1>2, <1>4 DEF CountInv
    <2>1. Over(v) \in Int /\ counterUntil[j][v] \in Nat
        BY <1>1, OverInt DEF AccessTypeOK
    <2>2. now' < Over(v) => counter'[j][v] = counter[j][v] /\ now < Over(v)
        <3>1. counterUntil[j][v] = Never \/ Over(v) <= counterUntil[j][v]
            BY <1>1 DEF UntilInv
        <3> QED BY <1>2, <1>5, <2>1, <3>1
    <2>3. ASSUME NEW c \in Calls, Pending(c, j, v) PROVE now' < Over(v)
        <3>1. WindowInv' /\ call'[c].pc \in {"incr", "expire"} /\ call'[c].window = v
            BY <1>2, <1>3, <2>3 DEF Pending, At
        <3>2. \A d \in Calls : (call[d].pc \in {"incr", "expire"})' => (now < Over(call[d].window))'
            <4> SUFFICES ASSUME NEW d \in Calls, (call[d].pc \in {"incr", "expire"})'
                         PROVE  (now < Over(call[d].window))'
                OBVIOUS
            <4>1. now' <= call[d].since + MaxGate
                BY <1>1, <1>2 DEF AInv, CallInv, InFlight, InGate
            <4>2. call[d].since < Window * call[d].window + Window
                BY <1>1, <1>2 DEF WindowInv
            <4>3. /\ Window * call[d].window \in Int /\ Window \in Nat /\ call[d].since \in Nat
                  /\ MaxGate \in Nat
                BY <1>1, CallRecord, OverInt, AccessAssumption
            <4> QED BY <1>2, <4>1, <4>2, <4>3 DEF Over
        <3> QED BY <1>2, <1>4, <3>1, <3>2
    <2> QED BY <1>1, <2>2, <2>3 DEF CountInv
<1> QED BY <1>3, <1>6, <1>7 DEF QInv

LEMMA NextQInv == AInv /\ QInv /\ [AccessNext]_accessVars => QInv'
<1> SUFFICES ASSUME AInv, QInv, [AccessNext]_accessVars PROVE QInv'
    OBVIOUS
<1>1. ASSUME NEW c \in Calls, CallStep(c) PROVE QInv'
    BY <1>1, QuietStepQInv, IncrQInv, ExpireQInv DEF CallStep
<1> QED BY <1>1, IssueQInv, ArriveQInv, ServerQInv, TickQInv DEF AccessNext

\* In no window are more calls let through by the counter than the quota of the key,
\* however many are in flight at once, slow or over the end of the window.
THEOREM QuotaHolds == AccessSpec => []WindowAllowance
<1>1. QInv => WindowAllowance
    BY DEF QInv, CountInv, WindowAllowance
<1> QED BY <1>1, InitAInv, InitQInv, NextAInv, NextQInv, PTL DEF AccessSpec

\* A counter that outlives two windows is one whose EXPIRE was not made.
THEOREM CountersExpire == AccessSpec => []CountersGoAway
<1>1. AInv /\ QInv => CountersGoAway
    <2> SUFFICES ASSUME AInv, QInv, NEW k \in ApiKeys, NEW w \in Windows, counter[k][w] > 0,
                        now >= (w + 1) * Window - 1 + MaxGate + CounterTTL
                 PROVE  <<k, w>> \in unpinned
        BY DEF CountersGoAway
    <2>1. w \in Int /\ Window \in Nat /\ Window * w \in Int /\ now \in Nat
        BY OverInt, CallRecord, AccessAssumption, Times DEF AInv, AccessTypeOK, Windows
    <2>2. (w + 1) * Window = Window * w + Window
        BY <2>1
    <2>3. Over(w) + CounterTTL <= now + 1
        BY <2>1, <2>2, Times DEF Over
    <2>4. counterUntil[k][w] = Never
        <3>1. /\ now < counterUntil[k][w]
              /\ counterUntil[k][w] # Never => counterUntil[k][w] < Over(w) + CounterTTL
            BY DEF QInv, UntilInv
        <3>2. counterUntil[k][w] \in Nat /\ Over(w) + CounterTTL \in Int
            BY OverInt, Times DEF AInv, AccessTypeOK
        <3> QED BY <2>1, <2>3, <3>1, <3>2
    <2>5. ASSUME NEW c \in Calls, Pending(c, k, w) PROVE FALSE
        <3>1. now < Over(w)
            BY <2>5, InTime DEF QInv, Pending, At
        <3> QED BY <2>1, <2>3, <3>1, OverInt, Times, AccessAssumption
    <2> QED BY <2>4, <2>5 DEF QInv, UntilInv
<1> QED BY <1>1, InitAInv, InitQInv, NextAInv, NextQInv, PTL DEF AccessSpec

=============================================================================
