--------------------------- MODULE TokenCheckProofs ---------------------------
(***************************************************************************)
(* TLAPS proofs about TokenCheck: the caches hold what a lookup relies on, *)
(* no request waits for more than two fetches, junk key ids start no       *)
(* fetch, and keys count for as long as they should, for any number of     *)
(* requests, keys and places, and any times with Timeout < MinRefresh <    *)
(* Ttl < MaxStaleness.                                                     *)
(***************************************************************************)
EXTENDS TokenCheck, TLAPS

-----------------------------------------------------------------------------
\* The inductive invariant.

\* A key set is as old as the fetch that brought it, give or take one Timeout; a pending fetch is
\* not overdue, and one of the keys is no younger than the last attempt.
TimesOrdered ==
  /\ configFetch.pending => configFetch.at <= now /\ now <= configFetch.at + Timeout
  /\ lastAttempt <= now
  /\ \A u \in Uri :
       /\ keySet[u].asOf <= keySet[u].at /\ keySet[u].at <= keySet[u].asOf + Timeout
       /\ keySet[u].at <= now
       /\ keyFetch[u].pending => /\ keyFetch[u].at <= lastAttempt
                                 /\ now <= keyFetch[u].at + Timeout

\* What a set or a fetch's answer tells of a key, and what it cannot know yet.
Faithful(keys, asOf) ==
  \A k \in Key :
    /\ k \in tenant.keys /\ since[k] < asOf => k \in keys
    /\ k \in keys /\ k \notin tenant.keys => since[k] >= asOf

KeysFaithful ==
  \A u \in Uri :
    /\ keySet[u].held => Faithful(keySet[u].keys, keySet[u].asOf)
    /\ ~keySet[u].held => keySet[u].keys = {}
    /\ keyFetch[u].pending => Faithful(keyFetch[u].keys, keyFetch[u].at)

\* What a request that awaits the keys waits for, and what it has to fall back on.
AwaitsFetch(q) ==
  /\ keyFetch[q.uri].pending /\ keyFetch[q.uri].at <= q.at + Timeout
  /\ q.pc = "awaitRoutine" =>
       keySet[q.uri].held /\ keyFetch[q.uri].at < keySet[q.uri].at + MaxStaleness
  /\ q.pc = "awaitRotated" => keySet[q.uri].held /\ q.kid \notin keySet[q.uri].keys

\* A request at its lookup has waited for the metadata, and for the keys only if they were asked
\* for so lately that it may not ask again.
LooksUp(q) ==
  /\ keySet[q.uri].held /\ now < keySet[q.uri].at + MaxStaleness + Timeout
  /\ now <= q.at + 2 * Timeout
  /\ now <= q.at + Timeout \/ now <= lastAttempt + Timeout

RequestWaits(q) ==
  /\ q.pc # "idle" => q.answer = "none" /\ q.at <= now
  /\ q.pc = "awaitConfig" => configFetch.pending /\ configFetch.at <= q.at
  /\ q.pc = "keys" => now <= q.at + Timeout
  /\ q.pc \in {"awaitKeys", "awaitRoutine", "awaitRotated"} => AwaitsFetch(q)
  /\ q.pc = "lookup" => LooksUp(q)

RequestsWait == \A r \in Request : RequestWaits(request[r])

TokenInv == TypeOK /\ TimesOrdered /\ KeysFaithful /\ RequestsWait

-----------------------------------------------------------------------------
\* Typing.

RequestState ==
  [pc: Pc, kid: Kid, uri: Uri, at: Time, stale: BOOLEAN, answer: {"none", "user", "401", "5xx"}]

\* The times of the configuration, in their order.
LEMMA TimesTyped ==
  /\ Timeout \in Int /\ MinRefresh \in Int /\ Ttl \in Int /\ MaxStaleness \in Int
  /\ 0 <= Timeout /\ Timeout < MinRefresh /\ MinRefresh < Ttl /\ Ttl < MaxStaleness
  /\ MaxTime \in Nat /\ 0 \in Time /\ \A t \in Time : t \in Int /\ 0 <= t
BY TokenCheckAssumption DEF Time

\* A request that is answered is a request.
LEMMA IdleTyped ==
  ASSUME TypeOK, NEW answer \in {"none", "user", "401", "5xx"}
  PROVE  Idle(answer) \in RequestState /\ NoConfig.uri \in Uri
<1>1. \E u \in Uri : TRUE
  BY DEF TypeOK
<1>2. (CHOOSE u \in Uri : TRUE) \in Uri
  BY <1>1
<1> QED BY <1>2, TimesTyped DEF Idle, NoConfig, RequestState, Pc, Kid

\* A step of one request, and one that moves on all that wait.
LEMMA OneTyped ==
  ASSUME TypeOK, NEW r \in Request, NEW q \in RequestState,
         request' = [request EXCEPT ![r] = q]
  PROVE  request' \in [Request -> RequestState]
BY DEF TypeOK, RequestState

\* A request that knows where the keys are is a request.
LEMMA ConfiguredTyped ==
  ASSUME NEW q \in RequestState, NEW u \in Uri
  PROVE  [q EXCEPT !.pc = "keys", !.uri = u, !.stale = FALSE] \in RequestState
BY DEF RequestState, Pc

\* The types hold at first.
LEMMA TypeInit == Init => TypeOK
<1> SUFFICES ASSUME Init PROVE TypeOK
  OBVIOUS
<1>1. \E u \in Uri : TRUE
  BY DEF Init
<1>2. NoConfig.uri \in Uri
  BY <1>1 DEF NoConfig
<1>3. Idle("none") \in RequestState
  BY <1>2, TimesTyped DEF Idle, RequestState, Pc, Kid
<1>4. config \in [held: BOOLEAN, uri: Uri, at: Time]
  BY <1>2, TimesTyped DEF Init, NoConfig
<1>5. configFetch \in [pending: BOOLEAN, at: Time, keys: {{}}]
  BY TimesTyped DEF Init, NoFetch
<1>6. keySet \in [Uri -> [held: BOOLEAN, keys: SUBSET Key, at: Time, asOf: Time]]
  BY TimesTyped DEF Init, NoKeySet
<1>7. keyFetch \in [Uri -> [pending: BOOLEAN, at: Time, keys: SUBSET Key]]
  BY TimesTyped DEF Init, NoFetch
<1>8. request \in [Request -> RequestState]
  BY <1>3 DEF Init
<1> QED BY <1>4, <1>5, <1>6, <1>7, <1>8, TimesTyped DEF Init, TypeOK, RequestState

\* Fetching the keys keeps the types.
LEMMA RefreshTyped ==
  ASSUME TypeOK, NEW u \in Uri, Refresh(u)
  PROVE  /\ keyFetch' \in [Uri -> [pending: BOOLEAN, at: Time, keys: SUBSET Key]]
         /\ lastAttempt' \in Time \cup {-MinRefresh}
<1>1. CASE keyFetch[u].pending
  BY <1>1 DEF Refresh, TypeOK
<1>2. CASE ~keyFetch[u].pending
  <2>1. [pending |-> TRUE, at |-> now, keys |-> tenant.keys]
          \in [pending: BOOLEAN, at: Time, keys: SUBSET Key]
    BY DEF TypeOK
  <2>2. keyFetch' \in [Uri -> [pending: BOOLEAN, at: Time, keys: SUBSET Key]]
    BY <1>2, <2>1 DEF Refresh, TypeOK
  <2> QED BY <1>2, <2>2 DEF Refresh, TypeOK
<1> QED BY <1>1, <1>2

\* Every step keeps the types.
LEMMA TypeNext == TypeOK /\ [Next]_vars => TypeOK'
<1> SUFFICES ASSUME TypeOK, [Next]_vars PROVE TypeOK'
  OBVIOUS
<1> DEFINE Fetches == [pending: BOOLEAN, at: Time, keys: SUBSET Key]
<1>f. NoFetch \in [pending: BOOLEAN, at: Time, keys: {{}}] /\ NoFetch \in Fetches
  BY TimesTyped DEF NoFetch
<1>q. request \in [Request -> RequestState]
  BY DEF TypeOK, RequestState
<1>1. ASSUME NEW r \in Request, BeginAuthenticate(r) PROVE TypeOK'
  <2>1. PICK kid \in Kid :
          LET entered == [request[r] EXCEPT !.kid = kid, !.at = now, !.answer = "none"] IN
          \/ /\ request' = [request EXCEPT ![r] = [entered EXCEPT !.pc = "keys", !.uri = config.uri]]
             /\ UNCHANGED configFetch
          \/ /\ request' = [request EXCEPT ![r] =
                  [entered EXCEPT !.pc = "awaitConfig",
                                  !.stale = config.held /\ now - config.at < MaxStaleness]]
             /\ configFetch' = IF configFetch.pending THEN configFetch
                               ELSE [NoFetch EXCEPT !.pending = TRUE, !.at = now]
    BY <1>1 DEF BeginAuthenticate
  <2> DEFINE entered == [request[r] EXCEPT !.kid = kid, !.at = now, !.answer = "none"]
  <2>2. entered \in RequestState
    BY <1>q, ZenonT(90) DEF TypeOK, RequestState
  <2>3. [entered EXCEPT !.pc = "keys", !.uri = config.uri] \in RequestState
    BY <2>2 DEF TypeOK, RequestState, Pc
  <2>4. [entered EXCEPT !.pc = "awaitConfig",
                        !.stale = config.held /\ now - config.at < MaxStaleness] \in RequestState
    BY <2>2 DEF TypeOK, RequestState, Pc
  <2>5. request' \in [Request -> RequestState]
    BY <2>1, <2>3, <2>4, OneTyped
  <2>6. [NoFetch EXCEPT !.pending = TRUE, !.at = now] \in [pending: BOOLEAN, at: Time, keys: {{}}]
    BY <1>f DEF TypeOK
  <2>7. configFetch' \in [pending: BOOLEAN, at: Time, keys: {{}}]
    BY <2>1, <2>6 DEF TypeOK
  <2> QED BY <1>1, <2>5, <2>7 DEF BeginAuthenticate, TypeOK, RequestState
<1>2. CASE ConfigArrives
  <2>1. [held |-> TRUE, uri |-> tenant.uri, at |-> now] \in [held: BOOLEAN, uri: Uri, at: Time]
    BY DEF TypeOK
  <2>2. \A r \in Request :
          [request[r] EXCEPT !.pc = "keys", !.uri = tenant.uri, !.stale = FALSE] \in RequestState
    BY <1>q, ConfiguredTyped DEF TypeOK
  <2>3. request' \in [Request -> RequestState]
    BY <1>2, <1>q, <2>2 DEF ConfigArrives
  <2> QED BY <1>2, <1>f, <2>1, <2>3 DEF ConfigArrives, TypeOK, RequestState
<1>3. CASE ConfigFails
  <2>1. \A r \in Request :
          [request[r] EXCEPT !.pc = "keys", !.uri = config.uri, !.stale = FALSE] \in RequestState
    BY <1>q, ConfiguredTyped DEF TypeOK
  <2>2. request' \in [Request -> RequestState]
    BY <1>3, <1>q, <2>1, IdleTyped DEF ConfigFails
  <2> QED BY <1>3, <1>f, <2>2 DEF ConfigFails, TypeOK, RequestState
<1>4. ASSUME NEW r \in Request, EnsureCurrent(r) PROVE TypeOK'
  <2>1. \A pc \in Pc : [request[r] EXCEPT !.pc = pc] \in RequestState
    BY <1>q DEF RequestState
  <2>2. PICK pc \in Pc : request' = [request EXCEPT ![r] = [request[r] EXCEPT !.pc = pc]]
    BY <1>4, <1>q DEF EnsureCurrent, Pc
  <2>3. request' \in [Request -> RequestState]
    BY <2>1, <2>2, OneTyped
  <2>4. request[r].uri \in Uri
    BY <1>q DEF RequestState
  <2>5. /\ keyFetch' \in [Uri -> Fetches]
        /\ lastAttempt' \in Time \cup {-MinRefresh}
    BY <1>4, <2>4, RefreshTyped DEF EnsureCurrent, TypeOK
  <2> QED BY <1>4, <2>3, <2>5 DEF EnsureCurrent, TypeOK, RequestState
<1>5. ASSUME NEW r \in Request, LookUp(r) PROVE TypeOK'
  <2>1. [request[r] EXCEPT !.pc = "awaitRotated"] \in RequestState
    BY <1>q DEF RequestState, Pc
  <2>2. PICK q \in RequestState : request' = [request EXCEPT ![r] = q]
    BY <1>5, <2>1, IdleTyped DEF LookUp, Answer
  <2>3. request' \in [Request -> RequestState]
    BY <2>2, OneTyped
  <2>4. request[r].uri \in Uri
    BY <1>q DEF RequestState
  <2>5. /\ keyFetch' \in [Uri -> Fetches]
        /\ lastAttempt' \in Time \cup {-MinRefresh}
    BY <1>5, <2>4, RefreshTyped DEF LookUp, TypeOK
  <2> QED BY <1>5, <2>3, <2>5 DEF LookUp, TypeOK, RequestState
<1>6. ASSUME NEW u \in Uri, KeysArrive(u) PROVE TypeOK'
  <2>1. PICK keys \in {keyFetch[u].keys, tenant.keys} :
          /\ keySet' = [keySet EXCEPT ![u] =
                          [held |-> TRUE, keys |-> keys, at |-> now, asOf |-> keyFetch[u].at]]
          /\ request' = [r \in Request |->
               IF request[r].uri # u THEN request[r]
               ELSE IF request[r].pc \in {"awaitKeys", "awaitRoutine"}
               THEN [request[r] EXCEPT !.pc = "lookup"]
               ELSE IF request[r].pc = "awaitRotated"
               THEN Idle(IF request[r].kid \in keys THEN "user" ELSE "401")
               ELSE request[r]]
    BY <1>6 DEF KeysArrive, Stored
  <2>2. \A r \in Request : [request[r] EXCEPT !.pc = "lookup"] \in RequestState
    BY <1>q DEF RequestState, Pc
  <2>3. request' \in [Request -> RequestState]
    BY <1>q, <2>1, <2>2, IdleTyped
  <2>4. [held |-> TRUE, keys |-> keys, at |-> now, asOf |-> keyFetch[u].at]
          \in [held: BOOLEAN, keys: SUBSET Key, at: Time, asOf: Time]
    BY DEF TypeOK
  <2>5. keySet' \in [Uri -> [held: BOOLEAN, keys: SUBSET Key, at: Time, asOf: Time]]
    BY <2>1, <2>4 DEF TypeOK
  <2>6. keyFetch' \in [Uri -> Fetches]
    BY <1>6, <1>f DEF KeysArrive, TypeOK
  <2> QED BY <1>6, <2>3, <2>5, <2>6 DEF KeysArrive, TypeOK, RequestState
<1>7. ASSUME NEW u \in Uri, KeysFail(u) PROVE TypeOK'
  <2>1. \A r \in Request : [request[r] EXCEPT !.pc = "lookup"] \in RequestState
    BY <1>q DEF RequestState, Pc
  <2>2. request' \in [Request -> RequestState]
    BY <1>7, <1>q, <2>1, IdleTyped DEF KeysFail
  <2>3. keyFetch' \in [Uri -> Fetches]
    BY <1>7, <1>f DEF KeysFail, TypeOK
  <2> QED BY <1>7, <2>2, <2>3 DEF KeysFail, TypeOK, RequestState
<1>8. ASSUME NEW u \in Uri, MoveKeys(u) PROVE TypeOK'
  <2>1. tenant' \in [uri: Uri, keys: SUBSET Key]
    BY <1>8 DEF MoveKeys, TypeOK
  <2> QED BY <1>8, <2>1 DEF MoveKeys, TypeOK, cache
<1>9. ASSUME NEW k \in Key, RotateIn(k) \/ RotateOut(k) PROVE TypeOK'
  <2>1. tenant' \in [uri: Uri, keys: SUBSET Key]
    BY <1>9 DEF RotateIn, RotateOut, TypeOK
  <2>2. since' \in [Key -> Time \cup {Never}]
    BY <1>9 DEF RotateIn, RotateOut, TypeOK
  <2> QED BY <1>9, <2>1, <2>2 DEF RotateIn, RotateOut, TypeOK, cache
<1>10. CASE Tick
  <2>1. now' \in Time
    BY <1>10, TokenCheckAssumption DEF Tick, TypeOK, Time
  <2> QED BY <1>10, <2>1 DEF Tick, TypeOK, cache
<1>11. CASE UNCHANGED vars
  BY <1>11 DEF vars, cache, TypeOK
<1> QED BY <1>1, <1>2, <1>3, <1>4, <1>5, <1>6, <1>7, <1>8, <1>9, <1>10, <1>11 DEF Next

-----------------------------------------------------------------------------
\* The invariant holds at the start.

\* The invariant holds at first.
LEMMA TokenInvInit == Init => TokenInv
<1> SUFFICES ASSUME Init PROVE TokenInv
  OBVIOUS
<1>1. TypeOK
  BY TypeInit
<1>2. TimesOrdered
  BY <1>1, TimesTyped DEF Init, TimesOrdered, TypeOK, NoFetch, NoKeySet, Time
<1>3. KeysFaithful
  BY DEF Init, KeysFaithful, NoKeySet, NoFetch
<1>4. RequestsWait
  BY DEF Init, RequestsWait, RequestWaits, Idle
<1> QED BY <1>1, <1>2, <1>3, <1>4 DEF TokenInv

-----------------------------------------------------------------------------
\* What the steps have in common.

\* The numbers the invariant compares, before a step and after it.
ClocksTyped ==
  /\ now \in Int /\ 0 <= now /\ lastAttempt \in Int /\ configFetch.at \in Int
  /\ tenant.keys \subseteq Key /\ config.uri \in Uri /\ tenant.uri \in Uri
  /\ \A u \in Uri : /\ keySet[u].at \in Int /\ keySet[u].asOf \in Int
                    /\ keyFetch[u].at \in Int
                    /\ keySet[u].keys \subseteq Key /\ keyFetch[u].keys \subseteq Key
                    /\ {keySet[u].held, keyFetch[u].pending} \subseteq BOOLEAN
  /\ \A k \in Key : since[k] \in Int
  /\ \A r \in Request : request[r].at \in Int /\ request[r].uri \in Uri

\* The clocks are numbers.
LEMMA Clocks == TypeOK => ClocksTyped
<1> SUFFICES ASSUME TypeOK PROVE ClocksTyped
  OBVIOUS
<1>1. \A t \in Time : t \in Int /\ 0 <= t
  BY TimesTyped
<1>2. Never \in Int /\ -MinRefresh \in Int
  BY TimesTyped DEF Never
<1>3. (now \in Int /\ 0 <= now /\ lastAttempt \in Int /\ configFetch.at \in Int)
  BY <1>1, <1>2 DEF TypeOK
<1>4. (tenant.keys \subseteq Key /\ config.uri \in Uri /\ tenant.uri \in Uri)
  BY DEF TypeOK
<1>5. ASSUME NEW u \in Uri
      PROVE  (/\ keySet[u].at \in Int /\ keySet[u].asOf \in Int /\ keyFetch[u].at \in Int
              /\ keySet[u].keys \subseteq Key /\ keyFetch[u].keys \subseteq Key
              /\ {keySet[u].held, keyFetch[u].pending} \subseteq BOOLEAN)
  BY <1>1 DEF TypeOK
<1>6. (\A k \in Key : since[k] \in Int)
  BY <1>1, <1>2 DEF TypeOK
<1>7. (\A r \in Request : request[r].at \in Int /\ request[r].uri \in Uri)
  BY <1>1 DEF TypeOK
<1> QED BY <1>3, <1>4, <1>5, <1>6, <1>7 DEF ClocksTyped

\* So they are after a step.
LEMMA ClocksNext == TypeOK' => ClocksTyped'
<1> SUFFICES ASSUME TypeOK' PROVE ClocksTyped'
  OBVIOUS
<1>1. \A t \in Time : t \in Int /\ 0 <= t
  BY TimesTyped
<1>2. Never \in Int /\ -MinRefresh \in Int
  BY TimesTyped DEF Never
<1>3. (now \in Int /\ 0 <= now /\ lastAttempt \in Int /\ configFetch.at \in Int)'
  BY <1>1, <1>2 DEF TypeOK
<1>4. (tenant.keys \subseteq Key /\ config.uri \in Uri /\ tenant.uri \in Uri)'
  BY DEF TypeOK
<1>5. ASSUME NEW u \in Uri
      PROVE  (/\ keySet[u].at \in Int /\ keySet[u].asOf \in Int /\ keyFetch[u].at \in Int
              /\ keySet[u].keys \subseteq Key /\ keyFetch[u].keys \subseteq Key
              /\ {keySet[u].held, keyFetch[u].pending} \subseteq BOOLEAN)'
  BY <1>1 DEF TypeOK
<1>6. (\A k \in Key : since[k] \in Int)'
  BY <1>1, <1>2 DEF TypeOK
<1>7. (\A r \in Request : request[r].at \in Int /\ request[r].uri \in Uri)'
  BY <1>1 DEF TypeOK
<1> QED BY <1>3, <1>4, <1>5, <1>6, <1>7 DEF ClocksTyped

\* A request that does not move goes on waiting for what it waited for, unless the clock ticks.
LEMMA StillWaits ==
  ASSUME TokenInv, NEW x \in Request, request'[x] = request[x],
         now' = now, lastAttempt' \in Int, lastAttempt <= lastAttempt',
         keySet'[request[x].uri].at \in Int,
         request[x].pc = "awaitConfig" => configFetch' = configFetch,
         request[x].pc \in {"awaitKeys", "awaitRoutine", "awaitRotated"} =>
           /\ keyFetch'[request[x].uri] = keyFetch[request[x].uri]
           /\ keySet'[request[x].uri] = keySet[request[x].uri],
         request[x].pc = "lookup" =>
           /\ keySet'[request[x].uri].held
           /\ keySet[request[x].uri].at <= keySet'[request[x].uri].at
  PROVE  RequestWaits(request[x])'
<1>1. RequestWaits(request[x])
  BY DEF TokenInv, RequestsWait
<1>2. CASE request[x].pc \in {"awaitKeys", "awaitRoutine", "awaitRotated"}
  BY <1>1, <1>2 DEF RequestWaits, AwaitsFetch
<1>3. CASE request[x].pc = "lookup"
  BY <1>1, <1>3, Clocks, TimesTyped DEF RequestWaits, LooksUp, TokenInv, ClocksTyped
<1>4. CASE request[x].pc \notin {"awaitKeys", "awaitRoutine", "awaitRotated", "lookup"}
  BY <1>1, <1>4 DEF RequestWaits
<1> QED BY <1>2, <1>3, <1>4

\* Refresh leaves a fetch for its place under way, one that began no later than now.
LEMMA RefreshKeeps ==
  ASSUME TokenInv, TypeOK', NEW u \in Uri, Refresh(u),
         UNCHANGED <<now, tenant, configFetch, keySet, since>>
  PROVE  /\ TimesOrdered' /\ KeysFaithful'
         /\ keyFetch'[u].pending /\ keyFetch'[u].at <= now
         /\ lastAttempt <= lastAttempt'
         /\ \A v \in Uri : keyFetch[v].pending => keyFetch'[v] = keyFetch[v]
<1> USE DEF TokenInv
<1>1. CASE keyFetch[u].pending
  <2>1. UNCHANGED <<keyFetch, lastAttempt>>
    BY <1>1 DEF Refresh
  <2> QED BY <1>1, <2>1, Clocks DEF TimesOrdered, KeysFaithful, Faithful, ClocksTyped
<1>2. CASE ~keyFetch[u].pending
  <2>1. /\ keyFetch'[u] = [pending |-> TRUE, at |-> now, keys |-> tenant.keys]
        /\ \A v \in Uri : v # u => keyFetch'[v] = keyFetch[v]
        /\ lastAttempt' = now
    BY <1>2 DEF Refresh, TypeOK
  <2>2. TimesOrdered'
    BY <2>1, Clocks, TimesTyped DEF TimesOrdered, ClocksTyped
  <2>3. ASSUME NEW v \in Uri, keyFetch'[v].pending
        PROVE  Faithful(keyFetch[v].keys, keyFetch[v].at)'
    <3>1. CASE v = u
      BY <2>1, <3>1 DEF Faithful
    <3>2. CASE v # u
      BY <2>1, <2>3, <3>2 DEF Faithful, KeysFaithful
    <3> QED BY <3>1, <3>2
  <2>4. KeysFaithful'
    BY <2>3 DEF KeysFaithful, Faithful
  <2> QED BY <1>2, <2>1, <2>2, <2>4, Clocks DEF TimesOrdered, ClocksTyped
<1> QED BY <1>1, <1>2

-----------------------------------------------------------------------------
\* The steps of a request.

\* A request that begins keeps the invariant.
LEMMA BeginKeeps ==
  ASSUME TokenInv, TypeOK', NEW r \in Request, BeginAuthenticate(r)
  PROVE  TokenInv'
<1> USE DEF TokenInv
<1>1. UNCHANGED <<now, tenant, keySet, keyFetch, lastAttempt, since>>
  BY DEF BeginAuthenticate
<1>2. PICK kid \in Kid :
        LET entered == [request[r] EXCEPT !.kid = kid, !.at = now, !.answer = "none"] IN
        \/ /\ request' = [request EXCEPT ![r] = [entered EXCEPT !.pc = "keys", !.uri = config.uri]]
           /\ UNCHANGED configFetch
        \/ /\ request' = [request EXCEPT ![r] =
                [entered EXCEPT !.pc = "awaitConfig",
                                !.stale = config.held /\ now - config.at < MaxStaleness]]
           /\ configFetch' = IF configFetch.pending THEN configFetch
                             ELSE [NoFetch EXCEPT !.pending = TRUE, !.at = now]
  BY DEF BeginAuthenticate
<1> DEFINE entered == [request[r] EXCEPT !.kid = kid, !.at = now, !.answer = "none"]
           asked == [NoFetch EXCEPT !.pending = TRUE, !.at = now]
<1>a. entered \in RequestState /\ entered.at = now /\ entered.answer = "none"
  <2>1. request[r] \in RequestState /\ now \in Time
    BY DEF TypeOK, RequestState
  <2>2. \A q \in RequestState : LET e == [q EXCEPT !.kid = kid, !.at = now, !.answer = "none"] IN
          e \in RequestState /\ e.at = now /\ e.answer = "none"
    BY <2>1 DEF RequestState
  <2> QED BY <2>1, <2>2
<1>b. /\ \A u \in Uri : LET q == [entered EXCEPT !.pc = "keys", !.uri = u] IN
           q.pc = "keys" /\ q.at = now /\ q.answer = "none"
      /\ \A stale \in BOOLEAN : LET q == [entered EXCEPT !.pc = "awaitConfig", !.stale = stale] IN
           q.pc = "awaitConfig" /\ q.at = now /\ q.answer = "none"
  BY <1>a DEF RequestState
<1>c. asked.pending /\ asked.at = now
  BY DEF NoFetch
<1> HIDE DEF entered, asked
<1>3. /\ \/ request'[r].pc = "keys" /\ configFetch' = configFetch
         \/ /\ request'[r].pc = "awaitConfig"
            /\ configFetch' = IF configFetch.pending THEN configFetch ELSE asked
      /\ request'[r].at = now /\ request'[r].answer = "none"
      /\ \A x \in Request : x # r => request'[x] = request[x]
  <2>1. CASE /\ request' = [request EXCEPT ![r] = [entered EXCEPT !.pc = "keys", !.uri = config.uri]]
             /\ UNCHANGED configFetch
    BY <1>b, <2>1, Clocks DEF TypeOK, ClocksTyped
  <2>2. CASE /\ request' = [request EXCEPT ![r] =
                  [entered EXCEPT !.pc = "awaitConfig",
                                  !.stale = config.held /\ now - config.at < MaxStaleness]]
             /\ configFetch' = IF configFetch.pending THEN configFetch ELSE asked
    <3> DEFINE stale == config.held /\ now - config.at < MaxStaleness
    <3>1. stale \in BOOLEAN
      OBVIOUS
    <3>2. request'[r] = [entered EXCEPT !.pc = "awaitConfig", !.stale = stale]
      BY <2>2 DEF TypeOK
    <3> HIDE DEF stale
    <3> QED BY <1>b, <2>2, <3>1, <3>2 DEF TypeOK
  <2> QED BY <1>2, <2>1, <2>2 DEF entered, asked
<1>4. /\ configFetch' = configFetch \/ (~configFetch.pending /\ configFetch'.at = now)
      /\ request'[r].pc = "awaitConfig" => configFetch'.pending /\ configFetch'.at <= now
  BY <1>3, <1>c, Clocks DEF TimesOrdered, ClocksTyped
<1>5. configFetch.pending => configFetch' = configFetch
  BY <1>4
<1>6. configFetch' = configFetch \/ configFetch'.at = now
  BY <1>4
<1>7. TimesOrdered'
  BY <1>1, <1>6, Clocks, TimesTyped DEF TimesOrdered, ClocksTyped
<1>8. KeysFaithful'
  BY <1>1 DEF KeysFaithful, Faithful
<1>9. ASSUME NEW x \in Request PROVE RequestWaits(request[x])'
  <2>1. CASE x = r
    BY <1>1, <1>3, <1>4, <2>1, Clocks, TimesTyped DEF RequestWaits, ClocksTyped
  <2>2. CASE x # r
    <3>1. request[x].pc = "awaitConfig" => configFetch.pending
      BY DEF RequestsWait, RequestWaits
    <3>2. request[x].pc = "lookup" => keySet[request[x].uri].held
      BY DEF RequestsWait, RequestWaits, LooksUp
    <3> QED BY <1>1, <1>3, <1>5, <2>2, <3>1, <3>2, Clocks, StillWaits DEF ClocksTyped
  <2> QED BY <2>1, <2>2
<1> QED BY <1>7, <1>8, <1>9 DEF RequestsWait

\* The check of the age of the keys keeps it.
LEMMA EnsureKeeps ==
  ASSUME TokenInv, TypeOK', NEW r \in Request, EnsureCurrent(r)
  PROVE  TokenInv'
<1> USE DEF TokenInv
<1> DEFINE u == request[r].uri
<1>1. UNCHANGED <<now, tenant, config, configFetch, keySet, since>> /\ u \in Uri
  BY Clocks DEF EnsureCurrent, ClocksTyped
<1>2. now <= request[r].at + Timeout /\ request[r].at <= now /\ request[r].answer = "none"
  BY DEF EnsureCurrent, RequestsWait, RequestWaits
<1>3. \A x \in Request : x # r => request'[x] = request[x]
  BY DEF EnsureCurrent, TypeOK
<1>4. /\ TimesOrdered' /\ KeysFaithful' /\ lastAttempt <= lastAttempt'
      /\ \A v \in Uri : keyFetch[v].pending => keyFetch'[v] = keyFetch[v]
      /\ RequestWaits(request[r])'
  <2>1. CASE Refresh(u) /\ Expired(r) /\ request' = [request EXCEPT ![r].pc = "awaitKeys"]
    <3>1. /\ TimesOrdered' /\ KeysFaithful' /\ lastAttempt <= lastAttempt'
          /\ keyFetch'[u].pending /\ keyFetch'[u].at <= now
          /\ \A v \in Uri : keyFetch[v].pending => keyFetch'[v] = keyFetch[v]
      BY <1>1, <2>1, RefreshKeeps
    <3>2. request'[r] = [request[r] EXCEPT !.pc = "awaitKeys"]
      BY <2>1 DEF TypeOK
    <3>3. /\ request'[r].pc = "awaitKeys" /\ request'[r].uri = u
          /\ request'[r].at = request[r].at /\ request'[r].answer = "none"
      BY <1>2, <3>2 DEF TypeOK
    <3>4. keyFetch'[u].at <= request[r].at + Timeout
      BY <1>1, <1>2, <3>1, Clocks, ClocksNext, TimesTyped DEF ClocksTyped
    <3>5. AwaitsFetch(request[r])'
      BY <3>1, <3>3, <3>4 DEF AwaitsFetch
    <3> QED BY <1>1, <1>2, <3>1, <3>3, <3>5 DEF RequestWaits
  <2>2. CASE Refresh(u) /\ ~Expired(r) /\ request' = [request EXCEPT ![r].pc = "awaitRoutine"]
    <3>1. /\ TimesOrdered' /\ KeysFaithful' /\ lastAttempt <= lastAttempt'
          /\ keyFetch'[u].pending /\ keyFetch'[u].at <= now
          /\ \A v \in Uri : keyFetch[v].pending => keyFetch'[v] = keyFetch[v]
      BY <1>1, <2>2, RefreshKeeps
    <3>2. request'[r] = [request[r] EXCEPT !.pc = "awaitRoutine"]
      BY <2>2 DEF TypeOK
    <3>3. /\ request'[r].pc = "awaitRoutine" /\ request'[r].uri = u
          /\ request'[r].at = request[r].at /\ request'[r].answer = "none"
      BY <1>2, <3>2 DEF TypeOK
    <3>4. keyFetch'[u].at <= request[r].at + Timeout
      BY <1>1, <1>2, <3>1, Clocks, ClocksNext, TimesTyped DEF ClocksTyped
    <3>5. keySet[u].held /\ now < keySet[u].at + MaxStaleness
      BY <1>1, <2>2, Clocks, TimesTyped DEF Expired, KeysOf, Age, ClocksTyped
    <3>6. keyFetch'[u].at < keySet[u].at + MaxStaleness
      BY <1>1, <3>1, <3>5, Clocks, ClocksNext, TimesTyped DEF ClocksTyped
    <3>7. AwaitsFetch(request[r])'
      BY <1>1, <3>1, <3>3, <3>4, <3>5, <3>6 DEF AwaitsFetch
    <3> QED BY <1>1, <1>2, <3>1, <3>3, <3>7 DEF RequestWaits
  <2>3. CASE /\ ~Expired(r) /\ request' = [request EXCEPT ![r].pc = "lookup"]
             /\ UNCHANGED <<keyFetch, lastAttempt>>
    <3>1. TimesOrdered' /\ KeysFaithful'
      BY <1>1, <2>3 DEF TimesOrdered, KeysFaithful, Faithful
    <3>2. request'[r] = [request[r] EXCEPT !.pc = "lookup"]
      BY <2>3 DEF TypeOK
    <3>3. /\ request'[r].pc = "lookup" /\ request'[r].uri = u
          /\ request'[r].at = request[r].at /\ request'[r].answer = "none"
      BY <1>2, <3>2 DEF TypeOK
    <3>4. keySet[u].held /\ now < keySet[u].at + MaxStaleness
      BY <1>1, <2>3, Clocks, TimesTyped DEF Expired, KeysOf, Age, ClocksTyped
    <3>5. LooksUp(request[r])'
      BY <1>1, <1>2, <3>3, <3>4, Clocks, TimesTyped DEF LooksUp, ClocksTyped
    <3> QED BY <1>1, <1>2, <2>3, <3>1, <3>3, <3>5, Clocks DEF RequestWaits, ClocksTyped
  <2> QED BY <2>1, <2>2, <2>3 DEF EnsureCurrent
<1>5. ASSUME NEW x \in Request PROVE RequestWaits(request[x])'
  <2>1. CASE x # r
    <3>1. /\ request[x].pc \in {"awaitKeys", "awaitRoutine", "awaitRotated"} =>
               keyFetch[request[x].uri].pending
          /\ request[x].pc = "lookup" => keySet[request[x].uri].held
      BY DEF RequestsWait, RequestWaits, AwaitsFetch, LooksUp
    <3> QED BY <1>1, <1>3, <1>4, <2>1, <3>1, Clocks, ClocksNext, StillWaits DEF ClocksTyped
  <2> QED BY <1>4, <2>1
<1> QED BY <1>4, <1>5 DEF RequestsWait

\* Looking up a key keeps it.
LEMMA LookUpKeeps ==
  ASSUME TokenInv, TypeOK', NEW r \in Request, LookUp(r)
  PROVE  TokenInv'
<1> USE DEF TokenInv
<1> DEFINE u == request[r].uri
<1>1. UNCHANGED <<now, tenant, config, configFetch, keySet, since>> /\ u \in Uri
  BY Clocks DEF LookUp, ClocksTyped
<1>2. LooksUp(request[r]) /\ request[r].at <= now /\ request[r].answer = "none"
  BY DEF LookUp, RequestsWait, RequestWaits
<1>3. \A x \in Request : x # r => request'[x] = request[x]
  BY DEF LookUp, Answer, TypeOK
<1>4. /\ TimesOrdered' /\ KeysFaithful' /\ lastAttempt <= lastAttempt'
      /\ \A v \in Uri : keyFetch[v].pending => keyFetch'[v] = keyFetch[v]
      /\ RequestWaits(request[r])'
  <2>1. CASE \E answer : request' = Answer(r, answer) /\ UNCHANGED <<keyFetch, lastAttempt>>
    <3>1. request'[r].pc = "idle"
      BY <2>1 DEF Answer, Idle, TypeOK
    <3> QED BY <1>1, <2>1, <3>1, Clocks
            DEF TimesOrdered, KeysFaithful, Faithful, RequestWaits, ClocksTyped
  <2>2. CASE /\ request[r].kid \notin KeysOf(r).keys /\ MayRefresh /\ Refresh(u)
             /\ request' = [request EXCEPT ![r].pc = "awaitRotated"]
    <3>1. /\ TimesOrdered' /\ KeysFaithful' /\ lastAttempt <= lastAttempt'
          /\ keyFetch'[u].pending /\ keyFetch'[u].at <= now
          /\ \A v \in Uri : keyFetch[v].pending => keyFetch'[v] = keyFetch[v]
      BY <1>1, <2>2, RefreshKeeps
    <3>2. request'[r] = [request[r] EXCEPT !.pc = "awaitRotated"]
      BY <2>2 DEF TypeOK
    <3>3. /\ request'[r].pc = "awaitRotated" /\ request'[r].uri = u
          /\ request'[r].kid = request[r].kid
          /\ request'[r].at = request[r].at /\ request'[r].answer = "none"
      BY <1>2, <3>2 DEF TypeOK
    <3>4. now <= request[r].at + Timeout
      BY <1>2, <2>2, Clocks, TimesTyped DEF LooksUp, MayRefresh, ClocksTyped
    <3>5. keyFetch'[u].at <= request[r].at + Timeout
      BY <1>1, <3>1, <3>4, Clocks, ClocksNext, TimesTyped DEF ClocksTyped
    <3>6. AwaitsFetch(request[r])'
      BY <1>1, <1>2, <2>2, <3>1, <3>3, <3>5 DEF AwaitsFetch, LooksUp, KeysOf
    <3> QED BY <1>1, <1>2, <3>1, <3>3, <3>6 DEF RequestWaits
  <2> QED BY <2>1, <2>2 DEF LookUp
<1>5. ASSUME NEW x \in Request PROVE RequestWaits(request[x])'
  <2>1. CASE x # r
    <3>1. /\ request[x].pc \in {"awaitKeys", "awaitRoutine", "awaitRotated"} =>
               keyFetch[request[x].uri].pending
          /\ request[x].pc = "lookup" => keySet[request[x].uri].held
      BY DEF RequestsWait, RequestWaits, AwaitsFetch, LooksUp
    <3> QED BY <1>1, <1>3, <1>4, <2>1, <3>1, Clocks, ClocksNext, StillWaits DEF ClocksTyped
  <2> QED BY <1>4, <2>1
<1> QED BY <1>4, <1>5 DEF RequestsWait

-----------------------------------------------------------------------------
\* The ends of a fetch.

\* Whoever awaits the metadata goes on to the keys, or is answered 5xx; nobody else moves.
LEMMA ConfigMoves ==
  ASSUME TypeOK, ConfigArrives \/ ConfigFails, NEW x \in Request
  PROVE  \/ request[x].pc # "awaitConfig" /\ request'[x] = request[x]
         \/ /\ request'[x].pc = "keys" /\ request'[x].at = request[x].at
            /\ request'[x].answer = request[x].answer
         \/ request'[x] = Idle("5xx")
<1>1. request[x] \in RequestState
  BY DEF TypeOK, RequestState
<1>2. \A v : LET e == [request[x] EXCEPT !.pc = "keys", !.uri = v, !.stale = FALSE] IN
        e.pc = "keys" /\ e.at = request[x].at /\ e.answer = request[x].answer
  BY <1>1 DEF RequestState
<1>3. CASE request[x].pc # "awaitConfig"
  BY <1>3 DEF ConfigArrives, ConfigFails
<1>4. CASE request[x].pc = "awaitConfig" /\ ConfigArrives
  <2>1. request'[x] = [request[x] EXCEPT !.pc = "keys", !.uri = tenant.uri, !.stale = FALSE]
    BY <1>4 DEF ConfigArrives
  <2> QED BY <1>2, <2>1
<1>5. CASE request[x].pc = "awaitConfig" /\ ConfigFails
  <2>1. request'[x] = IF request[x].stale
          THEN [request[x] EXCEPT !.pc = "keys", !.uri = config.uri, !.stale = FALSE]
          ELSE Idle("5xx")
    BY <1>5 DEF ConfigFails
  <2> QED BY <1>2, <2>1
<1> QED BY <1>3, <1>4, <1>5

\* The answer about where the keys are keeps it.
LEMMA ConfigKeeps ==
  ASSUME TokenInv, TypeOK', ConfigArrives \/ ConfigFails
  PROVE  TokenInv'
<1> USE DEF TokenInv
<1>1. /\ UNCHANGED <<now, tenant, keySet, keyFetch, lastAttempt, since>>
      /\ configFetch.pending /\ configFetch' = NoFetch
  BY DEF ConfigArrives, ConfigFails
<1>2. TimesOrdered'
  BY <1>1 DEF TimesOrdered, NoFetch
<1>3. KeysFaithful'
  BY <1>1 DEF KeysFaithful, Faithful
<1>4. ASSUME NEW x \in Request PROVE RequestWaits(request[x])'
  <2>1. RequestWaits(request[x])
    BY DEF RequestsWait
  <2>2. CASE request[x].pc # "awaitConfig"
    <3>1. request'[x] = request[x]
      BY <2>2 DEF ConfigArrives, ConfigFails
    <3>2. request[x].pc = "lookup" => keySet[request[x].uri].held
      BY <2>1 DEF RequestWaits, LooksUp
    <3> QED BY <1>1, <2>2, <3>1, <3>2, Clocks, StillWaits DEF ClocksTyped
  <2>3. CASE request[x].pc = "awaitConfig"
    <3>1. \/ /\ request'[x].pc = "keys" /\ request'[x].at = request[x].at
             /\ request'[x].answer = request[x].answer
          \/ request'[x].pc = "idle"
      BY <2>3, ConfigMoves DEF Idle
    <3>2. /\ request[x].answer = "none" /\ request[x].at <= now
          /\ now <= request[x].at + Timeout
      BY <1>1, <2>1, <2>3, Clocks, TimesTyped DEF RequestWaits, TimesOrdered, ClocksTyped
    <3> QED BY <1>1, <3>1, <3>2 DEF RequestWaits
  <2> QED BY <2>2, <2>3
<1> QED BY <1>2, <1>3, <1>4 DEF RequestsWait

\* Keys that arrive keep it.
LEMMA KeysArriveKeeps ==
  ASSUME TokenInv, TypeOK', NEW u \in Uri, KeysArrive(u)
  PROVE  TokenInv'
<1> USE DEF TokenInv
<1>1. /\ UNCHANGED <<now, tenant, config, configFetch, lastAttempt, since>>
      /\ keyFetch[u].pending /\ keyFetch' = [keyFetch EXCEPT ![u] = NoFetch]
  BY DEF KeysArrive
<1>2. PICK keys \in {keyFetch[u].keys, tenant.keys} :
        /\ keySet' = [keySet EXCEPT ![u] =
                        [held |-> TRUE, keys |-> keys, at |-> now, asOf |-> keyFetch[u].at]]
        /\ request' = [r \in Request |->
             IF request[r].uri # u THEN request[r]
             ELSE IF request[r].pc \in {"awaitKeys", "awaitRoutine"}
             THEN [request[r] EXCEPT !.pc = "lookup"]
             ELSE IF request[r].pc = "awaitRotated"
             THEN Idle(IF request[r].kid \in keys THEN "user" ELSE "401")
             ELSE request[r]]
  BY DEF KeysArrive, Stored
<1>3. /\ keySet'[u].held /\ keySet'[u].keys = keys /\ keySet'[u].at = now
      /\ keySet'[u].asOf = keyFetch[u].at /\ ~keyFetch'[u].pending
      /\ \A v \in Uri : v # u => keySet'[v] = keySet[v] /\ keyFetch'[v] = keyFetch[v]
  BY <1>1, <1>2 DEF TypeOK, NoFetch
<1>4. /\ keyFetch[u].at <= lastAttempt /\ lastAttempt <= now /\ now <= keyFetch[u].at + Timeout
      /\ keySet[u].at <= now
  BY <1>1 DEF TimesOrdered
<1>5. TimesOrdered'
  BY <1>1, <1>3, <1>4, Clocks DEF TimesOrdered, ClocksTyped
<1>6. Faithful(keys, keyFetch[u].at)
  BY <1>1, <1>2 DEF KeysFaithful, Faithful
<1>7. KeysFaithful'
  <2>1. ASSUME NEW v \in Uri
        PROVE  /\ keySet'[v].held => Faithful(keySet[v].keys, keySet[v].asOf)'
               /\ ~keySet'[v].held => keySet'[v].keys = {}
               /\ keyFetch'[v].pending => Faithful(keyFetch[v].keys, keyFetch[v].at)'
    <3>1. CASE v = u
      BY <1>1, <1>3, <1>6, <3>1 DEF Faithful
    <3>2. CASE v # u
      BY <1>1, <1>3, <3>2 DEF Faithful, KeysFaithful
    <3> QED BY <3>1, <3>2
  <2> QED BY <2>1 DEF KeysFaithful, Faithful
<1>8. ASSUME NEW x \in Request PROVE RequestWaits(request[x])'
  <2>1. RequestWaits(request[x])
    BY DEF RequestsWait
  <2>2. CASE request[x].uri = u /\ request[x].pc \in {"awaitKeys", "awaitRoutine"}
    <3>1. request'[x] = [request[x] EXCEPT !.pc = "lookup"]
      BY <1>2, <2>2
    <3>2. /\ request'[x].pc = "lookup" /\ request'[x].uri = u /\ request'[x].at = request[x].at
          /\ request'[x].answer = request[x].answer
      BY <2>2, <3>1 DEF TypeOK
    <3>3. /\ keyFetch[u].at <= request[x].at + Timeout /\ request[x].at <= now
          /\ request[x].answer = "none"
      BY <2>1, <2>2 DEF RequestWaits, AwaitsFetch
    <3>4. LooksUp(request[x])'
      BY <1>1, <1>3, <1>4, <3>2, <3>3, Clocks, TimesTyped DEF LooksUp, ClocksTyped
    <3> QED BY <1>1, <3>2, <3>3, <3>4 DEF RequestWaits
  <2>3. CASE request[x].uri = u /\ request[x].pc = "awaitRotated"
    <3>1. request'[x].pc = "idle"
      BY <1>2, <2>3 DEF Idle
    <3> QED BY <3>1 DEF RequestWaits
  <2>4. CASE request[x].uri # u
             \/ request[x].pc \notin {"awaitKeys", "awaitRoutine", "awaitRotated"}
    <3>1. request'[x] = request[x]
      BY <1>2, <2>4
    <3>2. request[x].pc = "lookup" => keySet[request[x].uri].held
      BY <2>1 DEF RequestWaits, LooksUp
    <3>3. /\ keySet'[request[x].uri].at \in Int
          /\ request[x].uri # u => /\ keySet'[request[x].uri] = keySet[request[x].uri]
                                   /\ keyFetch'[request[x].uri] = keyFetch[request[x].uri]
          /\ keySet[request[x].uri].at <= keySet'[request[x].uri].at
          /\ request[x].uri = u => keySet'[request[x].uri].held
      BY <1>3, <1>4, Clocks, ClocksNext DEF ClocksTyped
    <3>4. lastAttempt' \in Int /\ lastAttempt <= lastAttempt'
      BY <1>1, Clocks DEF ClocksTyped
    <3> QED BY <1>1, <2>4, <3>1, <3>2, <3>3, <3>4, StillWaits
  <2> QED BY <2>2, <2>3, <2>4
<1> QED BY <1>5, <1>7, <1>8 DEF RequestsWait

\* Keys that do not arrive keep it.
LEMMA KeysFailKeeps ==
  ASSUME TokenInv, TypeOK', NEW u \in Uri, KeysFail(u)
  PROVE  TokenInv'
<1> USE DEF TokenInv
<1>1. /\ UNCHANGED <<now, tenant, config, configFetch, keySet, lastAttempt, since>>
      /\ keyFetch[u].pending /\ keyFetch' = [keyFetch EXCEPT ![u] = NoFetch]
  BY DEF KeysFail
<1>2. ~keyFetch'[u].pending /\ \A v \in Uri : v # u => keyFetch'[v] = keyFetch[v]
  BY <1>1 DEF TypeOK, NoFetch
<1>3. TimesOrdered'
  BY <1>1, <1>2 DEF TimesOrdered
<1>4. KeysFaithful'
  BY <1>1, <1>2 DEF KeysFaithful, Faithful
<1>5. ASSUME NEW x \in Request PROVE RequestWaits(request[x])'
  <2>1. RequestWaits(request[x])
    BY DEF RequestsWait
  <2>2. CASE request[x].uri = u /\ request[x].pc = "awaitRoutine"
    <3>1. request'[x] = [request[x] EXCEPT !.pc = "lookup"]
      BY <2>2 DEF KeysFail
    <3>2. /\ request'[x].pc = "lookup" /\ request'[x].uri = u /\ request'[x].at = request[x].at
          /\ request'[x].answer = request[x].answer
      BY <2>2, <3>1 DEF TypeOK
    <3>3. /\ keyFetch[u].at <= request[x].at + Timeout /\ request[x].at <= now
          /\ keySet[u].held /\ keyFetch[u].at < keySet[u].at + MaxStaleness
          /\ request[x].answer = "none"
      BY <2>1, <2>2 DEF RequestWaits, AwaitsFetch
    <3>4. keyFetch[u].at <= lastAttempt /\ now <= keyFetch[u].at + Timeout
      BY <1>1 DEF TimesOrdered
    <3>5. LooksUp(request[x])'
      BY <1>1, <3>2, <3>3, <3>4, Clocks, TimesTyped DEF LooksUp, ClocksTyped
    <3> QED BY <1>1, <3>2, <3>3, <3>5 DEF RequestWaits
  <2>3. CASE request[x].uri = u /\ request[x].pc \in {"awaitKeys", "awaitRotated"}
    <3>1. request'[x].pc = "idle"
      BY <2>3 DEF KeysFail, Idle
    <3> QED BY <3>1 DEF RequestWaits
  <2>4. CASE request[x].uri # u
             \/ request[x].pc \notin {"awaitKeys", "awaitRoutine", "awaitRotated"}
    <3>1. request'[x] = request[x]
      BY <2>4 DEF KeysFail
    <3>2. request[x].pc = "lookup" => keySet[request[x].uri].held
      BY <2>1 DEF RequestWaits, LooksUp
    <3> QED BY <1>1, <1>2, <2>4, <3>1, <3>2, Clocks, StillWaits DEF ClocksTyped
  <2> QED BY <2>2, <2>3, <2>4
<1> QED BY <1>3, <1>4, <1>5 DEF RequestsWait

-----------------------------------------------------------------------------
\* The tenant and the clock.

\* Keys that rotate keep it.
LEMMA RotateKeeps ==
  ASSUME TokenInv, TypeOK', NEW k \in Key, RotateIn(k) \/ RotateOut(k)
  PROVE  TokenInv'
<1> USE DEF TokenInv
<1>1. UNCHANGED <<now, cache, request>>
  BY DEF RotateIn, RotateOut
<1>2. TimesOrdered' /\ RequestsWait'
  BY <1>1 DEF cache, TimesOrdered, RequestsWait, RequestWaits, AwaitsFetch, LooksUp
<1>3. /\ since'[k] = now
      /\ \A j \in Key : j # k => /\ since'[j] = since[j]
                                 /\ j \in tenant'.keys <=> j \in tenant.keys
  BY DEF RotateIn, RotateOut, TypeOK
<1>4. KeysFaithful'
  BY <1>1, <1>3, Clocks DEF cache, KeysFaithful, Faithful, TimesOrdered, ClocksTyped
<1> QED BY <1>2, <1>4

\* Keys that move elsewhere keep it.
LEMMA MoveKeeps ==
  ASSUME TokenInv, TypeOK', NEW u \in Uri, MoveKeys(u)
  PROVE  TokenInv'
<1> USE DEF TokenInv
<1>1. UNCHANGED <<now, cache, request, since>> /\ tenant'.keys = tenant.keys
  BY DEF MoveKeys, TypeOK
<1> QED BY <1>1 DEF cache, TimesOrdered, KeysFaithful, Faithful, RequestsWait, RequestWaits,
                    AwaitsFetch, LooksUp

\* Time that passes keeps it.
LEMMA TickKeeps ==
  ASSUME TokenInv, TypeOK', Tick
  PROVE  TokenInv'
<1> USE DEF TokenInv
<1>1. now' = now + 1 /\ UNCHANGED <<tenant, cache, request, since>>
  BY DEF Tick
<1>2. TimesOrdered'
  BY <1>1, Clocks, TimesTyped DEF Tick, Overdue, cache, TimesOrdered, ClocksTyped
<1>3. KeysFaithful'
  BY <1>1 DEF cache, KeysFaithful, Faithful
<1>4. RequestsWait'
  BY <1>1, Clocks, TimesTyped
     DEF Tick, cache, RequestsWait, RequestWaits, AwaitsFetch, ClocksTyped
<1> QED BY <1>2, <1>3, <1>4

-----------------------------------------------------------------------------
\* The invariant, and what follows from it.

\* Whatever a request, a fetch, the tenant or the clock does keeps the invariant.
LEMMA TokenInvNext == TokenInv /\ [Next]_vars => TokenInv'
<1> SUFFICES ASSUME TokenInv, [Next]_vars PROVE TokenInv'
  OBVIOUS
<1>1. TypeOK'
  BY TypeNext DEF TokenInv
<1>2. CASE UNCHANGED vars
  BY <1>2 DEF vars, cache, TokenInv, TypeOK, TimesOrdered, KeysFaithful, Faithful, RequestsWait,
              RequestWaits, AwaitsFetch, LooksUp
<1>3. CASE Next
  BY <1>1, <1>3, BeginKeeps, EnsureKeeps, LookUpKeeps, ConfigKeeps, KeysArriveKeeps,
     KeysFailKeeps, RotateKeeps, MoveKeeps, TickKeeps DEF Next
<1> QED BY <1>2, <1>3

\* The inductive invariant: how old the sets and the fetches are, what they tell of each key, and
\* what each request that waits can count on.
THEOREM TokenInvariant == Spec => []TokenInv
<1>1. TokenInv /\ [Next]_vars => TokenInv'
  BY TokenInvNext
<1> QED BY TokenInvInit, <1>1, PTL DEF Spec

\* The caches are typed, and a lookup always has a set to look into, whichever refresh failed
\* before it (signingKeyCache.js:58).
THEOREM CachesAlwaysHold == Spec => []CachesHold
<1>1. TokenInv => CachesHold
  BY DEF TokenInv, CachesHold, LookUpHasKeys, RequestsWait, RequestWaits, AwaitsFetch, LooksUp,
         KeysOf
<1> QED BY <1>1, TokenInvariant, PTL

\* A hung endpoint of Entra holds a request for two fetches at most, never for the third one a
\* lookup may ask for (authMiddleware.js:20).
THEOREM NobodyHeldLong == Spec => []NeverHeldLong
<1>1. TokenInv => NeverHeldLong
  <2> SUFFICES ASSUME TokenInv, NEW r \in Request, request[r].pc # "idle"
               PROVE  now - request[r].at <= 2 * Timeout
    BY DEF NeverHeldLong
  <2>1. RequestWaits(request[r]) /\ TypeOK /\ TimesOrdered
    BY DEF TokenInv, RequestsWait
  <2>2. /\ request[r].at \in Int /\ request[r].uri \in Uri /\ now \in Int
        /\ configFetch.at \in Int /\ keyFetch[request[r].uri].at \in Int
    BY <2>1, Clocks DEF ClocksTyped
  <2>3. CASE request[r].pc = "awaitConfig"
    BY <2>1, <2>2, <2>3, TimesTyped DEF RequestWaits, TimesOrdered
  <2>4. CASE request[r].pc = "keys"
    BY <2>1, <2>2, <2>4, TimesTyped DEF RequestWaits
  <2>5. CASE request[r].pc = "lookup"
    BY <2>1, <2>2, <2>5, TimesTyped DEF RequestWaits, LooksUp
  <2>6. CASE request[r].pc \in {"awaitKeys", "awaitRoutine", "awaitRotated"}
    BY <2>1, <2>2, <2>6, TimesTyped DEF RequestWaits, AwaitsFetch, TimesOrdered
  <2>7. request[r].pc \in Pc
    BY <2>1 DEF TypeOK
  <2> QED BY <2>3, <2>4, <2>5, <2>6, <2>7 DEF Pc
<1> QED BY <1>1, TokenInvariant, PTL

-----------------------------------------------------------------------------
\* What a step may not do.

\* A fetch of keys starts only in Refresh, and Refresh starts one only for the place it is for.
LEMMA RefreshStarts ==
  ASSUME TypeOK, NEW v \in Uri, Refresh(v),
         NEW u \in Uri, ~keyFetch[u].pending, keyFetch'[u].pending
  PROVE  u = v
BY DEF Refresh, TypeOK

\* Key ids no key has cannot drain the key endpoint (signingKeyCache.js:5): while a set young
\* enough to serve is held, its refreshes start MinRefresh apart.
THEOREM JunkNeverDrains == Spec => JunkCannotDrain
<1> DEFINE Apart == \A u \in Uri : ~keyFetch[u].pending /\ keyFetch'[u].pending =>
                      \/ now - lastAttempt >= MinRefresh
                      \/ ~keySet[u].held \/ Age(keySet[u]) >= MaxStaleness
<1>1. TokenInv /\ [Next]_vars => [Apart]_vars
  <2> SUFFICES ASSUME TokenInv, Next,
                      NEW u \in Uri, ~keyFetch[u].pending, keyFetch'[u].pending
               PROVE  \/ now - lastAttempt >= MinRefresh
                      \/ ~keySet[u].held \/ Age(keySet[u]) >= MaxStaleness
    OBVIOUS
  <2>1. TypeOK /\ \A r \in Request : request[r].uri \in Uri
    BY Clocks DEF TokenInv, ClocksTyped
  <2>2. ASSUME NEW r \in Request, EnsureCurrent(r)
        PROVE  \/ now - lastAttempt >= MinRefresh
               \/ ~keySet[u].held \/ Age(keySet[u]) >= MaxStaleness
    <3>1. Refresh(request[r].uri) /\ (Expired(r) \/ MayRefresh)
      BY <2>2 DEF EnsureCurrent
    <3>2. u = request[r].uri
      BY <2>1, <3>1, RefreshStarts
    <3> QED BY <3>1, <3>2 DEF Expired, KeysOf, MayRefresh
  <2>3. ASSUME NEW r \in Request, LookUp(r) PROVE now - lastAttempt >= MinRefresh
    BY <2>3 DEF LookUp, MayRefresh
  <2>4. ASSUME NEW v \in Uri, KeysArrive(v) \/ KeysFail(v) PROVE FALSE
    BY <2>1, <2>4 DEF KeysArrive, KeysFail, NoFetch, TypeOK
  <2>5. ASSUME UNCHANGED keyFetch PROVE FALSE
    BY <2>5
  <2> QED BY <2>2, <2>3, <2>4, <2>5
          DEF Next, BeginAuthenticate, ConfigArrives, ConfigFails, MoveKeys, RotateIn, RotateOut,
              Tick, cache
<1> QED BY <1>1, TokenInvariant, PTL DEF Spec, JunkCannotDrain

\* A 401 or a user is answered at a lookup, by the set at hand, or when the fetch that a lookup
\* asked for arrives, by what it brings.
LEMMA AnsweredBy ==
  ASSUME TokenInv, Next, NEW r \in Request, NEW answer \in {"user", "401"}, Answered(r, answer)
  PROVE  LET q == request[r] IN
         \/ /\ q.pc = "lookup"
            /\ answer = "user" <=> q.kid \in keySet[q.uri].keys
         \/ /\ q.pc = "awaitRotated" /\ keyFetch[q.uri].pending
            /\ \E keys \in {keyFetch[q.uri].keys, tenant.keys} : answer = "user" <=> q.kid \in keys
<1> DEFINE q == request[r]
           Goal == \/ /\ q.pc = "lookup"
                      /\ answer = "user" <=> q.kid \in keySet[q.uri].keys
                   \/ /\ q.pc = "awaitRotated" /\ keyFetch[q.uri].pending
                      /\ \E keys \in {keyFetch[q.uri].keys, tenant.keys} :
                           answer = "user" <=> q.kid \in keys
<1> SUFFICES Goal
  OBVIOUS
<1>1. q.pc # "idle" /\ q.answer = "none" /\ request'[r].answer = answer /\ TypeOK
  BY DEF Answered, TokenInv, RequestsWait, RequestWaits
<1>2. ASSUME request'[r].answer = q.answer PROVE FALSE
  BY <1>1, <1>2
<1>3. ASSUME NEW x \in Request, BeginAuthenticate(x) PROVE Goal
  <2>1. x # r /\ \E d : request' = [request EXCEPT ![x] = d]
    BY <1>1, <1>3 DEF BeginAuthenticate
  <2> QED BY <1>1, <1>2, <2>1 DEF TypeOK
<1>4. ASSUME NEW x \in Request, EnsureCurrent(x) PROVE Goal
  <2>1. \E pc \in Pc : request' = [request EXCEPT ![x] = [request[x] EXCEPT !.pc = pc]]
    BY <1>1, <1>4 DEF EnsureCurrent, Pc, TypeOK
  <2> QED BY <1>1, <1>2, <2>1 DEF TypeOK
<1>5. ASSUME NEW x \in Request, LookUp(x) PROVE Goal
  <2>1. CASE x # r
    <3>1. \E d : request' = [request EXCEPT ![x] = d]
      BY <1>5 DEF LookUp, Answer
    <3> QED BY <1>1, <1>2, <2>1, <3>1 DEF TypeOK
  <2>2. CASE x = r
    <3>1. CASE request' = [request EXCEPT ![r].pc = "awaitRotated"]
      BY <1>1, <1>2, <3>1 DEF TypeOK
    <3>2. CASE q.kid \in KeysOf(r).keys /\ request' = Answer(r, "user")
      BY <1>1, <1>5, <2>2, <3>2 DEF LookUp, Answer, Idle, KeysOf, TypeOK
    <3>3. CASE q.kid \notin KeysOf(r).keys /\ request' = Answer(r, "401")
      BY <1>1, <1>5, <2>2, <3>3 DEF LookUp, Answer, Idle, KeysOf, TypeOK
    <3> QED BY <1>5, <2>2, <3>1, <3>2, <3>3 DEF LookUp
  <2> QED BY <2>1, <2>2
<1>6. CASE ConfigArrives \/ ConfigFails
  <2>1. request'[r].answer = q.answer \/ request'[r].answer = "5xx"
    BY <1>1, <1>6, ConfigMoves DEF Idle
  <2> QED BY <1>1, <1>2, <2>1
<1>7. ASSUME NEW u \in Uri, KeysFail(u) PROVE Goal
  <2>1. request'[r] = q \/ request'[r] = Idle("5xx") \/ request'[r] = [q EXCEPT !.pc = "lookup"]
    BY <1>7 DEF KeysFail
  <2>2. request'[r].answer = q.answer \/ request'[r].answer = "5xx"
    BY <1>1, <2>1 DEF Idle, TypeOK
  <2> QED BY <1>1, <1>2, <2>2
<1>8. ASSUME NEW u \in Uri, KeysArrive(u) PROVE Goal
  <2>1. PICK keys \in {keyFetch[u].keys, tenant.keys} :
          /\ keyFetch[u].pending
          /\ request'[r] =
               IF q.uri # u THEN q
               ELSE IF q.pc \in {"awaitKeys", "awaitRoutine"} THEN [q EXCEPT !.pc = "lookup"]
               ELSE IF q.pc = "awaitRotated" THEN Idle(IF q.kid \in keys THEN "user" ELSE "401")
               ELSE q
    BY <1>8 DEF KeysArrive, Stored
  <2>2. CASE q.uri = u /\ q.pc = "awaitRotated"
    <3>1. answer = IF q.kid \in keys THEN "user" ELSE "401"
      BY <1>1, <2>1, <2>2 DEF Idle
    <3> QED BY <2>1, <2>2, <3>1
  <2>3. CASE q.uri = u /\ q.pc \in {"awaitKeys", "awaitRoutine"}
    <3>1. request'[r] = [q EXCEPT !.pc = "lookup"]
      BY <2>1, <2>3
    <3> QED BY <1>1, <1>2, <3>1 DEF TypeOK
  <2> QED BY <1>1, <1>2, <2>1, <2>2, <2>3
<1>9. CASE UNCHANGED request
  BY <1>1, <1>2, <1>9
<1> QED BY <1>3, <1>4, <1>5, <1>6, <1>7, <1>8, <1>9
        DEF Next, MoveKeys, RotateIn, RotateOut, Tick

\* A key counts for as long as the tenant and the caches say: one that was rotated out for
\* MaxStaleness and two fetches at most, one that was rotated in from the next set asked for on
\* (signingKeyCache.js:64, authMiddleware.js:93).
THEOREM KeysAlwaysHonoured == Spec => KeysHonoured
<1> DEFINE Retired == \A r \in Request : Answered(r, "user") /\ request[r].kid \notin tenant.keys =>
                        now - since[request[r].kid] < MaxStaleness + 2 * Timeout
           Published == \A r \in Request : Answered(r, "401") /\ request[r].kid \in tenant.keys =>
                          since[request[r].kid] >= keySet[request[r].uri].asOf
<1>1. TokenInv /\ [Next]_vars => [Retired]_vars
  <2> SUFFICES ASSUME TokenInv, Next, NEW r \in Request, Answered(r, "user"),
                      request[r].kid \notin tenant.keys
               PROVE  now - since[request[r].kid] < MaxStaleness + 2 * Timeout
    OBVIOUS
  <2> DEFINE q == request[r]
  <2>1. TypeOK /\ TimesOrdered /\ KeysFaithful /\ RequestWaits(q) /\ q.uri \in Uri
    BY Clocks DEF TokenInv, RequestsWait, ClocksTyped
  <2>2. CASE q.pc = "lookup" /\ q.kid \in keySet[q.uri].keys
    <3>1. LooksUp(q) /\ q.kid \in Key
      BY <2>1, <2>2, Clocks DEF RequestWaits, ClocksTyped
    <3>2. keySet[q.uri].asOf <= since[q.kid]
      BY <2>1, <2>2, <3>1 DEF KeysFaithful, Faithful, LooksUp
    <3>3. /\ now < keySet[q.uri].at + MaxStaleness + Timeout
          /\ keySet[q.uri].at <= keySet[q.uri].asOf + Timeout
      BY <2>1, <3>1 DEF LooksUp, TimesOrdered
    <3> QED BY <2>1, <3>1, <3>2, <3>3, Clocks, TimesTyped DEF ClocksTyped
  <2>3. CASE keyFetch[q.uri].pending /\ q.kid \in keyFetch[q.uri].keys
    <3>1. q.kid \in Key
      BY <2>1, <2>3, Clocks DEF ClocksTyped
    <3>2. keyFetch[q.uri].at <= since[q.kid] /\ now <= keyFetch[q.uri].at + Timeout
      BY <2>1, <2>3, <3>1 DEF KeysFaithful, Faithful, TimesOrdered
    <3> QED BY <2>1, <3>1, <3>2, Clocks, TimesTyped DEF ClocksTyped
  <2> QED BY <2>2, <2>3, AnsweredBy
<1>2. TokenInv /\ [Next]_vars => [Published]_vars
  <2> SUFFICES ASSUME TokenInv, Next, NEW r \in Request, Answered(r, "401"),
                      request[r].kid \in tenant.keys
               PROVE  since[request[r].kid] >= keySet[request[r].uri].asOf
    OBVIOUS
  <2> DEFINE q == request[r]
  <2>1. /\ TypeOK /\ KeysFaithful /\ RequestWaits(q) /\ q.uri \in Uri /\ q.kid \in Key
        /\ since[q.kid] \in Int /\ keySet[q.uri].asOf \in Int
    BY Clocks DEF TokenInv, RequestsWait, ClocksTyped
  <2>2. keySet[q.uri].held /\ q.kid \notin keySet[q.uri].keys
    BY <2>1, AnsweredBy DEF RequestWaits, LooksUp, AwaitsFetch
  <2>3. ~(since[q.kid] < keySet[q.uri].asOf)
    BY <2>1, <2>2 DEF KeysFaithful, Faithful
  <2> QED BY <2>1, <2>3
<1> QED BY <1>1, <1>2, TokenInvariant, PTL
        DEF Spec, KeysHonoured, RetiredKeysExpire, PublishedKeysAccepted

===============================================================================
