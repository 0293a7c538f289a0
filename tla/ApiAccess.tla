------------------------------ MODULE ApiAccess ------------------------------
(***************************************************************************)
(* The gate in front of every v2 endpoint: the authentication middleware   *)
(* with its five-minute key cache in Redis (middleware/auth.go), the api   *)
(* keys in Postgres (api_key_repo.go), the per-minute quota                *)
(* (middleware/rate_limit.go) and the life of the api-server the calls     *)
(* run in (APIServer.Run).                                                 *)
(*                                                                         *)
(* A call is one HTTP request. Redis and Postgres may fail at any step; a  *)
(* client that hangs up shows as such a failure, its context being theirs. *)
(* last_used_at, which MarkUsed writes and nothing reads, is left out.     *)
(***************************************************************************)
EXTENDS Integers

CONSTANTS
    Calls,
    ApiKeys,     \* the tokens clients present; those never issued are unknown
    NoToken,     \* neither header carries one
    AskedRates,  \* quotas asked for when a key is issued
    DefaultRate, \* 600 a minute
    Window,      \* the 60 s of a quota, in ticks of the clock
    CounterTTL,  \* the 65 s after which a counter is removed
    CacheTTL,    \* apiKeyCacheTTL
    DrainTime,   \* the 10 s Shutdown waits for calls in flight
    MaxGate,     \* bound: how long a call may be in the gate, its handler apart
    MaxTime      \* bound of the clock

\* A counter outlives its window by more than a call is in the gate. Nothing bounds
\* how long a handler takes: the http.Server has no timeout for one.
ASSUME AccessAssumption ==
    /\ NoToken \notin ApiKeys
    /\ AskedRates \subseteq Int
    /\ DefaultRate \in Nat \ {0}
    /\ Window \in Nat \ {0}
    /\ CacheTTL \in Nat \ {0}
    /\ MaxGate \in Nat
    /\ MaxTime \in Nat
    /\ CounterTTL \in Nat /\ CounterTTL >= Window + MaxGate
    /\ DrainTime \in Nat

Never == MaxTime + CounterTTL + CacheTTL + 1

VARIABLES
    now,
    issued,       \* the rows of api_keys
    rate,         \* api_keys.rate_limit_per_min
    revokedAt,    \* api_keys.revoked_at
    cache,        \* apikey:cache:<hash> in Redis: a quota and when it expires
    counter,      \* rate:<key>:<window> in Redis, 0 without one
    counterUntil, \* when it expires
    unpinned,     \* history: the counters whose EXPIRE was not made
    call,         \* what the goroutine of each call knows
    admitted,     \* history: the calls let through by a counter
    server        \* APIServer.Run, and when it was told to stop

keyVars == <<issued, rate, revokedAt>>
redisVars == <<cache, counter, counterUntil, unpinned>>
accessVars == <<now, keyVars, redisVars, call, admitted, server>>

Windows == 0 .. MaxTime \div Window

Points == {"idle", "auth", "lookup", "store", "window", "incr", "expire", "handler",
           "answered"}

CallRecords == [pc : Points, token : ApiKeys \cup {NoToken}, since : 0 .. MaxTime,
                limit : Nat, window : Windows]

AccessTypeOK ==
    /\ now \in 0 .. MaxTime
    /\ issued \subseteq ApiKeys
    /\ rate \in [ApiKeys -> Nat]
    /\ revokedAt \in [ApiKeys -> 0 .. Never]
    /\ cache \in [ApiKeys -> [rate : Nat, until : Nat]]
    /\ counter \in [ApiKeys -> [Windows -> Nat]]
    /\ counterUntil \in [ApiKeys -> [Windows -> Nat]]
    /\ unpinned \subseteq ApiKeys \X Windows
    /\ call \in [Calls -> CallRecords]
    /\ admitted \in [ApiKeys -> [Windows -> Nat]]
    /\ server \in [state : {"serving", "draining", "closed", "failed"}, since : 0 .. MaxTime]

Blank == [pc |-> "idle", token |-> NoToken, since |-> 0, limit |-> 0, window |-> 0]

NoEntry == [rate |-> 0, until |-> 0]

AccessInit ==
    /\ now = 0
    /\ issued = {}
    /\ rate = [k \in ApiKeys |-> 0]
    /\ revokedAt = [k \in ApiKeys |-> Never]
    /\ cache = [k \in ApiKeys |-> NoEntry]
    /\ counter = [k \in ApiKeys |-> [w \in Windows |-> 0]]
    /\ counterUntil = [k \in ApiKeys |-> [w \in Windows |-> Never]]
    /\ unpinned = {}
    /\ call = [c \in Calls |-> Blank]
    /\ admitted = [k \in ApiKeys |-> [w \in Windows |-> 0]]
    /\ server = [state |-> "serving", since |-> 0]

InFlight(c) == call[c].pc \notin {"idle", "answered"}

\* The middleware has not yet called the handler.
InGate(c) == InFlight(c) /\ call[c].pc # "handler"

\* closeDeps has not been called.
Connected == server.state \in {"serving", "draining"}

\* The WHERE of LookupByPlaintext. Issue sets no expires_at.
Valid(k) == k \in issued /\ revokedAt[k] = Never

\* parseInt32(formatInt32(n)): the cache keeps a quota as text, and formatInt32
\* has no digits for a negative one.
Reparsed(n) == IF n < 0 THEN 0 ELSE n

At(c, point) == call[c].pc = point
Goto(c, point) == call' = [call EXCEPT ![c].pc = point]

\* resolveAPIKey has a row: its quota goes into the context of the call.
Grant(c, limit) ==
    call' = [call EXCEPT ![c].pc = "window", ![c].limit = limit]

\* What the call answered is of no more interest: 401, 429 or the handler's.
Answered(c) == call' = [call EXCEPT ![c] = [Blank EXCEPT !.pc = "answered"]]

\* next.ServeHTTP: what the gate looked up is of no more interest.
Admit(c) == call' = [call EXCEPT ![c].pc = "handler", ![c].limit = 0, ![c].window = 0]

\* RateLimit compares n, the counter's new value, with the quota.
Judge(c, n) ==
    LET k == call[c].token
        w == call[c].window
    IN  IF n > call[c].limit
        THEN Answered(c) /\ UNCHANGED admitted
        ELSE Admit(c) /\ admitted' = [admitted EXCEPT ![k][w] = @ + 1]

-----------------------------------------------------------------------------
(* Plausible bugs, used to show that the properties notice; not in the       *)
(* specification.                                                            *)

\* A hit that renews the entry (GETEX): a busy key is never looked up again.
CacheHitRenews(c) ==
    LET k == call[c].token
    IN  /\ At(c, "auth")
        /\ Connected
        /\ cache[k].until > now
        /\ cache' = [cache EXCEPT ![k].until = now + CacheTTL]
        /\ Grant(c, cache[k].rate)
        /\ UNCHANGED <<now, keyVars, counter, counterUntil, unpinned, admitted, server>>

\* An EXPIRE that takes half a window for the whole of it.
ExpireTooSoon(c) ==
    LET k == call[c].token
        w == call[c].window
    IN  /\ At(c, "expire")
        /\ Connected
        /\ counterUntil' = [counterUntil EXCEPT ![k][w] = now + Window \div 2]
        /\ Judge(c, 1)
        /\ UNCHANGED <<now, keyVars, cache, counter, unpinned, server>>

\* An off-by-one in the test for the first hit of a window: no EXPIRE is made.
ExpireOnSecondHit(c) ==
    /\ At(c, "expire")
    /\ Judge(c, 1)
    /\ UNCHANGED <<now, keyVars, redisVars, server>>

\* A stop that does not wait for Shutdown.
ShutdownAtOnce ==
    /\ server.state = "draining"
    /\ server' = [server EXCEPT !.state = "closed"]
    /\ UNCHANGED <<now, keyVars, redisVars, call, admitted>>

-----------------------------------------------------------------------------
(* The keys in Postgres *)

Issue(k) ==
    /\ k \notin issued
    /\ issued' = issued \cup {k}
    /\ \E asked \in AskedRates :
           rate' = [rate EXCEPT ![k] = IF asked <= 0 THEN DefaultRate ELSE asked]
    /\ UNCHANGED <<now, revokedAt, redisVars, call, admitted, server>>

\* Nothing tells the cache.
Revoke(k) ==
    /\ Valid(k)
    /\ revokedAt' = [revokedAt EXCEPT ![k] = now]
    /\ UNCHANGED <<now, issued, rate, redisVars, call, admitted, server>>

-----------------------------------------------------------------------------
(* Auth *)

\* Shutdown closes the listener; a connection that was accepted may still bring a
\* call.
Arrive(c) ==
    /\ At(c, "idle")
    /\ Connected
    /\ \E t \in ApiKeys \cup {NoToken} :
           IF t = NoToken
           THEN Answered(c)
           ELSE call' = [call EXCEPT ![c] = [Blank EXCEPT !.pc = "auth", !.token = t,
                                                          !.since = now]]
    /\ UNCHANGED <<now, keyVars, redisVars, admitted, server>>

\* resolveAPIKey: the GET finds the key.
CacheHit(c) ==
    LET k == call[c].token
    IN  /\ At(c, "auth")
        /\ Connected
        /\ cache[k].until > now
        /\ Grant(c, cache[k].rate)
        /\ UNCHANGED <<now, keyVars, redisVars, admitted, server>>

\* resolveAPIKey: it does not, or fails.
CacheMiss(c) ==
    /\ At(c, "auth")
    /\ Goto(c, "lookup")
    /\ UNCHANGED <<now, keyVars, redisVars, admitted, server>>

\* LookupByPlaintext; an error is a 401 as well.
Lookup(c) ==
    LET k == call[c].token
    IN  /\ At(c, "lookup")
        /\ \/ /\ Connected
              /\ Valid(k)
              /\ call' = [call EXCEPT ![c].pc = "store", ![c].limit = rate[k]]
           \/ Answered(c)
        /\ UNCHANGED <<now, keyVars, redisVars, admitted, server>>

\* The SET of the row, which may have been revoked since, and whose error is
\* ignored.
CacheStore(c) ==
    LET k == call[c].token
    IN  /\ At(c, "store")
        /\ Grant(c, call[c].limit)
        /\ \/ /\ Connected
              /\ cache' = [cache EXCEPT ![k] = [rate |-> Reparsed(call[c].limit),
                                                until |-> now + CacheTTL]]
           \/ UNCHANGED cache
        /\ UNCHANGED <<now, keyVars, counter, counterUntil, unpinned, admitted, server>>

-----------------------------------------------------------------------------
(* RateLimit *)

\* A quota of zero is none.
ReadWindow(c) ==
    /\ At(c, "window")
    /\ IF call[c].limit <= 0
       THEN Admit(c)
       ELSE call' = [call EXCEPT ![c].pc = "incr", ![c].window = now \div Window]
    /\ UNCHANGED <<now, keyVars, redisVars, admitted, server>>

\* The INCR. Without its reply the call is let through: when it was the first of
\* the window, nothing makes the EXPIRE.
Incr(c) ==
    LET k == call[c].token
        w == call[c].window
    IN  /\ At(c, "incr")
        /\ \/ /\ Connected
              /\ counter' = [counter EXCEPT ![k][w] = @ + 1]
              /\ \/ /\ IF counter[k][w] = 0 THEN Goto(c, "expire") /\ UNCHANGED admitted
                                             ELSE Judge(c, counter[k][w] + 1)
                    /\ UNCHANGED unpinned
                 \/ /\ Admit(c)
                    /\ unpinned' = IF counter[k][w] = 0 THEN unpinned \cup {<<k, w>>}
                                   ELSE unpinned
                    /\ UNCHANGED admitted
           \/ Admit(c) /\ UNCHANGED <<counter, unpinned, admitted>>
        /\ UNCHANGED <<now, keyVars, cache, counterUntil, server>>

\* The EXPIRE of the first hit, whose error is ignored.
Expire(c) ==
    LET k == call[c].token
        w == call[c].window
    IN  /\ At(c, "expire")
        /\ Judge(c, 1)
        /\ \/ /\ Connected
              /\ counterUntil' = [counterUntil EXCEPT ![k][w] = now + CounterTTL]
              /\ UNCHANGED unpinned
           \/ unpinned' = unpinned \cup {<<k, w>>} /\ UNCHANGED counterUntil
        /\ UNCHANGED <<now, keyVars, cache, counter, server>>

\* The handler behind the gate has answered.
Serve(c) ==
    /\ At(c, "handler")
    /\ Answered(c)
    /\ UNCHANGED <<now, keyVars, redisVars, admitted, server>>

-----------------------------------------------------------------------------
(* APIServer.Run, and the clock *)

Sigterm ==
    /\ server.state = "serving"
    /\ server' = [state |-> "draining", since |-> now]
    /\ UNCHANGED <<now, keyVars, redisVars, call, admitted>>

\* Shutdown returns, with no call left or after its ten seconds, and closeDeps
\* takes Redis and Postgres away from the calls that are left.
ShutdownReturns ==
    /\ server.state = "draining"
    /\ (\A c \in Calls : ~InFlight(c)) \/ now - server.since >= DrainTime
    /\ server' = [server EXCEPT !.state = "closed"]
    /\ UNCHANGED <<now, keyVars, redisVars, call, admitted>>

\* ListenAndServe fails: closeDeps is called with the calls still running.
ListenerFails ==
    /\ server.state = "serving"
    /\ server' = [server EXCEPT !.state = "failed"]
    /\ UNCHANGED <<now, keyVars, redisVars, call, admitted>>

\* A call is in the gate for at most MaxGate. Redis removes what has expired.
Tick ==
    /\ now < MaxTime
    /\ \A c \in Calls : InGate(c) => now < call[c].since + MaxGate
    /\ now' = now + 1
    /\ counter' = [k \in ApiKeys |-> [w \in Windows |->
                      IF counterUntil[k][w] > now' THEN counter[k][w] ELSE 0]]
    /\ counterUntil' = [k \in ApiKeys |-> [w \in Windows |->
                      IF counterUntil[k][w] > now' THEN counterUntil[k][w] ELSE Never]]
    /\ cache' = [k \in ApiKeys |-> IF cache[k].until > now' THEN cache[k] ELSE NoEntry]
    /\ UNCHANGED <<keyVars, unpinned, call, admitted, server>>

-----------------------------------------------------------------------------

CallStep(c) ==
    \/ CacheHit(c) \/ CacheMiss(c) \/ Lookup(c) \/ CacheStore(c)
    \/ ReadWindow(c) \/ Incr(c) \/ Expire(c) \/ Serve(c)

AccessNext ==
    \/ \E k \in ApiKeys : Issue(k) \/ Revoke(k)
    \/ \E c \in Calls : Arrive(c) \/ CallStep(c)
    \/ Sigterm \/ ShutdownReturns \/ ListenerFails
    \/ Tick

AccessSpec == AccessInit /\ [][AccessNext]_accessVars

-----------------------------------------------------------------------------
(* Properties *)

\* "quickly honouring revokes" (auth.go): a key that was revoked is refused once
\* the life of a cache entry and the time of one call in the gate have passed,
\* whatever was looked up before the revoke and stored after it, or stored again meanwhile.
\* A key that was never issued opens nothing.
RevokedIsRefused ==
    [][\A c \in Calls :
           ~At(c, "window") /\ At(c, "window")' =>
               /\ call[c].token \in issued
               /\ now < revokedAt[call[c].token] + CacheTTL + MaxGate]_accessVars

\* "the per-API-key per-minute quota" (rate_limit.go): in no window are more calls
\* let through than the quota, those apart whose INCR gave no answer; a slow call
\* that still counts in a window that is over finds its counter there.
WindowAllowance == \A k \in ApiKeys, w \in Windows : admitted[k][w] <= rate[k]

\* "so the counter cannot live past two windows" (rate_limit.go): a counter older
\* than the EXPIRE of a call that came in the last moment of its window is one
\* whose EXPIRE was not made.
CountersGoAway ==
    \A k \in ApiKeys, w \in Windows :
        /\ counter[k][w] > 0
        /\ now >= (w + 1) * Window - 1 + MaxGate + CounterTTL
        => <<k, w>> \in unpinned

\* APIServer.Run closes Redis and Postgres under a call that began before the
\* server was told to stop only when the call has run for DrainTime; a shorter one
\* has them to its end, whatever arrives meanwhile. A longer one, and one that came
\* during the drain, may lose them.
NoCallLosesItsStores ==
    server.state = "closed" =>
        \A c \in Calls : InFlight(c) /\ call[c].since <= server.since =>
            now >= call[c].since + DrainTime

=============================================================================
