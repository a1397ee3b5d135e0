----------------------------- MODULE TokenCheck -----------------------------
(***************************************************************************)
(* How one warm instance checks tokens: the OIDC metadata and the tenant's *)
(* signing keys, each fetched, shared by concurrent requests, refreshed    *)
(* when old and served stale for a while when the refresh fails            *)
(* (authMiddleware.js, signingKeyCache.js). Requests come again and again. *)
(* A continuation runs before the clock ticks; a fetch ends by its timeout.*)
(***************************************************************************)
EXTENDS Integers

CONSTANTS
  Request,  \* the requests that may be under way at once
  Key,      \* the signing keys looked at; the tenant may publish others
  Junk,     \* a kid no key has
  Uri,      \* where the keys may be served
  Ttl,           \* CONFIG_TTL_MS and KEY_SET_TTL_MS
  MinRefresh,    \* MIN_REFRESH_INTERVAL_MS
  MaxStaleness,  \* CONFIG_MAX_STALENESS_MS and KEY_SET_MAX_STALENESS_MS
  Timeout,       \* FETCH_TIMEOUT_MS
  MaxTime        \* bound of a run: the clock stops here

ASSUME TokenCheckAssumption ==
  /\ Junk \notin Key
  /\ Timeout \in Nat /\ MaxTime \in Nat
  /\ MinRefresh \in Nat /\ Timeout < MinRefresh
  /\ Ttl \in Nat /\ MinRefresh < Ttl
  /\ MaxStaleness \in Nat /\ Ttl < MaxStaleness

VARIABLES
  now,          \* the clock
  tenant,       \* external: the keys Entra publishes, and where
  config,       \* cachedConfig and cachedConfigAt
  configFetch,  \* pendingConfig
  keySet,       \* keySetsByUri
  keyFetch,     \* pendingByUri
  lastAttempt,  \* lastAttemptAt
  request,      \* the state of each request's authenticate()
  since         \* history: when each key was last rotated in or out

cache == <<config, configFetch, keySet, keyFetch, lastAttempt>>
vars == <<now, tenant, cache, request, since>>

-----------------------------------------------------------------------------
Time == 0..MaxTime
Kid == Key \cup {Junk}

NoConfig == [held |-> FALSE, uri |-> CHOOSE u \in Uri : TRUE, at |-> 0]
NoKeySet == [held |-> FALSE, keys |-> {}, at |-> 0, asOf |-> 0]
NoFetch == [pending |-> FALSE, at |-> 0, keys |-> {}]
Never == -(MaxStaleness + 2 * Timeout + 1)

Idle(answer) == [pc |-> "idle", kid |-> Junk, uri |-> NoConfig.uri, at |-> 0,
                 stale |-> FALSE, answer |-> answer]

\* What a request awaits; from "keys" on it has its configuration, at a lookup its key set.
Pc == {"idle", "awaitConfig", "keys", "awaitKeys", "awaitRoutine", "lookup", "awaitRotated"}

TypeOK ==
  /\ now \in Time
  /\ tenant \in [uri: Uri, keys: SUBSET Key]
  /\ config \in [held: BOOLEAN, uri: Uri, at: Time]
  /\ configFetch \in [pending: BOOLEAN, at: Time, keys: {{}}]
  /\ keySet \in [Uri -> [held: BOOLEAN, keys: SUBSET Key, at: Time, asOf: Time]]
  /\ keyFetch \in [Uri -> [pending: BOOLEAN, at: Time, keys: SUBSET Key]]
  /\ lastAttempt \in Time \cup {-MinRefresh}
  /\ request \in [Request -> [pc: Pc, kid: Kid, uri: Uri, at: Time,
                              stale: BOOLEAN,   \* may serve the metadata it has
                              answer: {"none", "user", "401", "5xx"}]]
  /\ since \in [Key -> Time \cup {Never}]

Init ==
  /\ now = 0
  /\ tenant \in [uri: Uri, keys: SUBSET Key]
  /\ config = NoConfig /\ configFetch = NoFetch
  /\ keySet = [u \in Uri |-> NoKeySet] /\ keyFetch = [u \in Uri |-> NoFetch]
  /\ lastAttempt = -MinRefresh
  /\ request = [r \in Request |-> Idle("none")]
  /\ since = [k \in Key |-> Never]

-----------------------------------------------------------------------------
Answer(r, answer) == [request EXCEPT ![r] = Idle(answer)]

\* getOpenIdConfig: the metadata at hand, or a fetch shared with whoever awaits it.
BeginAuthenticate(r) ==
  \E kid \in Kid :
    LET entered == [request[r] EXCEPT !.kid = kid, !.at = now, !.answer = "none"] IN
    /\ request[r].pc = "idle"
    /\ IF config.held /\ now - config.at < Ttl
       THEN /\ request' = [request EXCEPT ![r] = [entered EXCEPT !.pc = "keys", !.uri = config.uri]]
            /\ UNCHANGED configFetch
       ELSE /\ request' = [request EXCEPT ![r] =
                            [entered EXCEPT !.pc = "awaitConfig",
                                            !.stale = config.held /\ now - config.at < MaxStaleness]]
            /\ configFetch' = IF configFetch.pending THEN configFetch
                                                     ELSE [NoFetch EXCEPT !.pending = TRUE, !.at = now]
    /\ UNCHANGED <<now, tenant, config, keySet, keyFetch, lastAttempt, since>>

ConfigArrives ==
  /\ configFetch.pending
  /\ config' = [held |-> TRUE, uri |-> tenant.uri, at |-> now]
  /\ configFetch' = NoFetch
  /\ request' = [r \in Request |->
       IF request[r].pc = "awaitConfig"
       THEN [request[r] EXCEPT !.pc = "keys", !.uri = tenant.uri, !.stale = FALSE]
       ELSE request[r]]
  /\ UNCHANGED <<now, tenant, keySet, keyFetch, lastAttempt, since>>


ConfigFails ==
  /\ configFetch.pending
  /\ configFetch' = NoFetch
  /\ request' = [r \in Request |->
       IF request[r].pc # "awaitConfig" THEN request[r]
       ELSE IF request[r].stale
       THEN [request[r] EXCEPT !.pc = "keys", !.uri = config.uri, !.stale = FALSE]
       ELSE Idle("5xx")]
  /\ UNCHANGED <<now, tenant, config, keySet, keyFetch, lastAttempt, since>>

-----------------------------------------------------------------------------
\* Mutant: an attempt rests for as long as its fetch may take.
MayRefreshOnTimeout == now - lastAttempt >= Timeout
MayRefresh == now - lastAttempt >= MinRefresh
KeysOf(r) == keySet[request[r].uri]
Age(set) == now - set.at

\* Mutant: an attempt is not noted.
RefreshUnnoted(u) ==
  /\ UNCHANGED lastAttempt
  /\ keyFetch' = [keyFetch EXCEPT ![u] = IF keyFetch[u].pending THEN @
                                         ELSE [pending |-> TRUE, at |-> now, keys |-> tenant.keys]]
\* refresh: one fetch for a uri at a time, and the only place an attempt is noted.
Refresh(u) ==
  IF keyFetch[u].pending THEN UNCHANGED <<keyFetch, lastAttempt>>
  ELSE /\ keyFetch' = [keyFetch EXCEPT ![u] = [pending |-> TRUE, at |-> now, keys |-> tenant.keys]]
       /\ lastAttempt' = now

\* Mutants: the set of the uri before will do; a set may be too old while no refresh may be tried.
ExpiredEverywhere(r) == \A u \in Uri : ~keySet[u].held \/ Age(keySet[u]) >= MaxStaleness
ExpiredButRested(r) == ~KeysOf(r).held \/ (Age(KeysOf(r)) >= MaxStaleness /\ MayRefresh)
Expired(r) == ~KeysOf(r).held \/ Age(KeysOf(r)) >= MaxStaleness

\* ensureCurrent: no set, or too old a one, must be fetched; an old one is refreshed if it may be.
EnsureCurrent(r) ==
  /\ request[r].pc = "keys"
  /\ \/ /\ Expired(r)
        /\ Refresh(request[r].uri)
        /\ request' = [request EXCEPT ![r].pc = "awaitKeys"]
     \/ /\ ~Expired(r) /\ Age(KeysOf(r)) >= Ttl /\ MayRefresh
        /\ Refresh(request[r].uri)
        /\ request' = [request EXCEPT ![r].pc = "awaitRoutine"]
     \/ /\ ~Expired(r) /\ (Age(KeysOf(r)) < Ttl \/ ~MayRefresh)
        /\ request' = [request EXCEPT ![r].pc = "lookup"]
        /\ UNCHANGED <<keyFetch, lastAttempt>>
  /\ UNCHANGED <<now, tenant, config, configFetch, keySet, since>>

\* getSigningKey: a kid the set lacks may be rotated in since, but only so often is that looked up.
LookUp(r) ==
  /\ request[r].pc = "lookup"
  /\ \/ /\ request[r].kid \in KeysOf(r).keys
        /\ request' = Answer(r, "user")
        /\ UNCHANGED <<keyFetch, lastAttempt>>
     \/ /\ request[r].kid \notin KeysOf(r).keys /\ ~MayRefresh
        /\ request' = Answer(r, "401")
        /\ UNCHANGED <<keyFetch, lastAttempt>>
     \/ /\ request[r].kid \notin KeysOf(r).keys /\ MayRefresh
        /\ Refresh(request[r].uri)
        /\ request' = [request EXCEPT ![r].pc = "awaitRotated"]
  /\ UNCHANGED <<now, tenant, config, configFetch, keySet, since>>

Stored(u, keys) == keys

\* The answer holds the keys of the moment it was asked for, or of the one it arrives at.
KeysArrive(u) ==
  \E keys \in {keyFetch[u].keys, tenant.keys} :
    /\ keyFetch[u].pending
    /\ keySet' = [keySet EXCEPT ![u] =
                    [held |-> TRUE, keys |-> Stored(u, keys), at |-> now, asOf |-> keyFetch[u].at]]
    /\ keyFetch' = [keyFetch EXCEPT ![u] = NoFetch]
    /\ request' = [r \in Request |->
         IF request[r].uri # u THEN request[r]
         ELSE IF request[r].pc \in {"awaitKeys", "awaitRoutine"} THEN [request[r] EXCEPT !.pc = "lookup"]
         ELSE IF request[r].pc = "awaitRotated"
         THEN Idle(IF request[r].kid \in Stored(u, keys) THEN "user" ELSE "401")
         ELSE request[r]]
    /\ UNCHANGED <<now, tenant, config, configFetch, lastAttempt, since>>

\* A failed routine refresh is served from the set it meant to replace; any other is a 5xx.
KeysFail(u) ==
  /\ keyFetch[u].pending
  /\ keyFetch' = [keyFetch EXCEPT ![u] = NoFetch]
  /\ request' = [r \in Request |->
       IF request[r].uri # u THEN request[r]
       ELSE IF request[r].pc = "awaitRoutine" THEN [request[r] EXCEPT !.pc = "lookup"]
       ELSE IF request[r].pc \in {"awaitKeys", "awaitRotated"} THEN Idle("5xx")
       ELSE request[r]]
  /\ UNCHANGED <<now, tenant, config, configFetch, keySet, lastAttempt, since>>

-----------------------------------------------------------------------------
(***************************************************************************)
(* Entra and the clock.                                                    *)
(***************************************************************************)
RotateIn(k) ==
  /\ k \notin tenant.keys
  /\ tenant' = [tenant EXCEPT !.keys = @ \cup {k}]
  /\ since' = [since EXCEPT ![k] = now]
  /\ UNCHANGED <<now, cache, request>>

RotateOut(k) ==
  /\ k \in tenant.keys
  /\ tenant' = [tenant EXCEPT !.keys = @ \ {k}]
  /\ since' = [since EXCEPT ![k] = now]
  /\ UNCHANGED <<now, cache, request>>

MoveKeys(u) ==
  /\ u # tenant.uri
  /\ tenant' = [tenant EXCEPT !.uri = u]
  /\ UNCHANGED <<now, cache, request, since>>

Overdue(fetch) == fetch.pending /\ now - fetch.at >= Timeout

Tick ==
  /\ now < MaxTime
  /\ \A r \in Request : request[r].pc \notin {"keys", "lookup"}
  /\ ~Overdue(configFetch) /\ \A u \in Uri : ~Overdue(keyFetch[u])
  /\ now' = now + 1
  /\ UNCHANGED <<tenant, cache, request, since>>

Next ==
  \/ \E r \in Request : BeginAuthenticate(r) \/ EnsureCurrent(r) \/ LookUp(r)
  \/ ConfigArrives \/ ConfigFails
  \/ \E u \in Uri : KeysArrive(u) \/ KeysFail(u) \/ MoveKeys(u)
  \/ \E k \in Key : RotateIn(k) \/ RotateOut(k)
  \/ Tick

Spec == Init /\ [][Next]_vars

-----------------------------------------------------------------------------
\* "Set by the refresh every caller awaits before looking a key up" (signingKeyCache.js:58): a
\* lookup has a set to look into, whichever refreshes failed before it.
LookUpHasKeys ==
  \A r \in Request : request[r].pc \in {"lookup", "awaitRoutine", "awaitRotated"} => KeysOf(r).held

\* "a hung Entra endpoint must not hold every request open" (authMiddleware.js:20): a request waits
\* out the metadata and one fetch of the keys at most, never the second one a lookup may ask for.
NeverHeldLong ==
  \A r \in Request : request[r].pc # "idle" => now - request[r].at <= 2 * Timeout

\* "junk key ids cannot drain the key endpoint" (signingKeyCache.js:5): while a set young enough to
\* serve is held, key fetches start at least MinRefresh apart, whatever kids are asked for.
JunkCannotDrain ==
  [][\A u \in Uri : ~keyFetch[u].pending /\ keyFetch'[u].pending =>
       \/ now - lastAttempt >= MinRefresh
       \/ ~keySet[u].held \/ Age(keySet[u]) >= MaxStaleness]_vars

Answered(r, answer) == request[r].pc # "idle" /\ request'[r].answer = answer

\* A key that was rotated out is honoured for MaxStaleness and the time of two fetches at most, the
\* one that brought it and the one that failed to replace it.
RetiredKeysExpire ==
  [][\A r \in Request : Answered(r, "user") /\ request[r].kid \notin tenant.keys =>
       now - since[request[r].kid] < MaxStaleness + 2 * Timeout]_vars

\* A key published before the set at hand was asked for, and still published as the answer comes, is
\* never answered 401.
PublishedKeysAccepted ==
  [][\A r \in Request : Answered(r, "401") /\ request[r].kid \in tenant.keys =>
       since[request[r].kid] >= keySet[request[r].uri].asOf]_vars

\* "Only these become a 401, never an outage; an unknown kid is the token's fault, not the fetch's"
\* (authMiddleware.js:80): a 401 for a published key is not for want of a fetch that is under way or
\* failed, so the set at hand was asked for at the last attempt.
OutagesAreNo401 ==
  [][\A r \in Request : Answered(r, "401") /\ request[r].kid \in tenant.keys =>
       keySet'[request[r].uri].asOf = lastAttempt]_vars

\* The caches are of their types and hold what a lookup takes for granted (signingKeyCache.js:58).
CachesHold == TypeOK /\ LookUpHasKeys

\* A key counts for as long as its tenant and the caches say, whether it was rotated out (no longer)
\* or in (no later), through failed and late fetches (signingKeyCache.js:64, authMiddleware.js:93).
KeysHonoured == RetiredKeysExpire /\ PublishedKeysAccepted

=============================================================================
