----------------------------- MODULE PageProofs -----------------------------
(***************************************************************************)
(* TLAPS proofs about the page, for any number of requests, photos, tours, *)
(* deploys and files: what Session keeps of a sign-in, what ServiceWorker   *)
(* keeps of the page for offline, and what Uploads stores.                 *)
(***************************************************************************)
EXTENDS Session, ServiceWorker, Uploads, FiniteSetTheorems, TLAPS

-----------------------------------------------------------------------------
(* Session. *)

SessionSpec == SessionInit /\ [][SessionNext]_sessionVars

\* SessionTypeOK, one fact per variable.
SessionTyped ==
  /\ storage \in BOOLEAN /\ signedInFlag \in BOOLEAN /\ triedFlag \in BOOLEAN /\ tried \in BOOLEAN
  /\ account \in BOOLEAN /\ refresh \in BOOLEAN /\ cookie \in BOOLEAN
  /\ user \in BOOLEAN /\ acquiring \in BOOLEAN /\ out \in BOOLEAN
  /\ sessionLoad \in {"handling", "checking", "silent", "interactive", "left", "ready"}
  /\ answer \in {"none", "result", "error"}
  /\ sessionRequest \in [Requests -> {"idle", "token", "sent", "fresh", "resent"}]

\* The flag of a silent sign-in lasts through Entra's answer and is only set where flags can be.
SilentRemembered ==
  /\ signedInFlag => storage
  /\ sessionLoad = "silent" => triedFlag /\ silentRow = 1
  /\ sessionLoad = "interactive" => silentRow = 0
  /\ silentRow \in {0, 1}
  /\ silentRow = 1 /\ sessionLoad \in {"handling", "checking"} => tried

\* Who signed out is forgotten, and a page that is asked to sign in has no user.
OutForgotten == out => ~signedInFlag /\ sessionLoad # "silent"
AsksCounted ==
  /\ asks \in {0, 1}
  /\ user \/ sessionLoad \in {"handling", "checking"} => asks = 0
  /\ sessionLoad \in {"handling", "checking"} => ~user

SessionInv == SessionTyped /\ SilentRemembered /\ OutForgotten /\ AsksCounted

\* A step of a request moves the steps of requests, and the user's asks.
RequestsMove ==
  /\ sessionLoad = "ready"
  /\ UNCHANGED <<storage, triedFlag, tried, cookie, sessionLoad, answer, silentRow>>
  /\ acquiring' \in BOOLEAN
  /\ sessionRequest' \in [Requests -> {"idle", "token", "sent", "fresh", "resent"}]
  /\ \/ UNCHANGED <<signedInFlag, account, refresh, out>>
     \/ signedInFlag' = FALSE /\ account' = FALSE /\ refresh' = FALSE /\ out' = TRUE /\ user' = FALSE
  /\ \/ UNCHANGED <<user, asks>> \/ AskToSignInAgain
     \/ user' = TRUE /\ asks' = 0
     \/ user' = FALSE /\ asks' = asks

\* A step of the requests keeps the invariant.
LEMMA RequestsMoveKeeps ==
  ASSUME SessionInv, RequestsMove
  PROVE  SessionInv'
<1> USE DEF SessionInv, RequestsMove
<1>1. SessionTyped'
  BY ZenonT(40) DEF SessionTyped, AskToSignInAgain
<1>2. SilentRemembered'
  BY DEF SilentRemembered
<1>3. OutForgotten'
  BY DEF OutForgotten
<1>4. AsksCounted'
  BY DEF AsksCounted, AskToSignInAgain, SessionTyped
<1> QED BY <1>1, <1>2, <1>3, <1>4

\* The steps that are steps of the requests.
LEMMA RequestSteps ==
  ASSUME SessionInv,
         \/ Acquired
         \/ \E r \in Requests :
              StartRequest(r) \/ FreshTokenAcquired(r) \/ Refused(r) \/ Answered(r) \/ AccountGone(r)
  PROVE  RequestsMove
<1>1. /\ sessionRequest \in [Requests -> {"idle", "token", "sent", "fresh", "resent"}]
      /\ acquiring \in BOOLEAN
  BY DEF SessionInv, SessionTyped
<1>2. \A step \in {"idle", "token", "sent", "fresh", "resent"} :
        /\ \A r \in Requests :
             Given(r, step) \in [Requests -> {"idle", "token", "sent", "fresh", "resent"}]
        /\ AllGiven(step) \in [Requests -> {"idle", "token", "sent", "fresh", "resent"}]
  BY <1>1 DEF Given, AllGiven
<1>3. ASSUME NEW r \in Requests, StartRequest(r) PROVE RequestsMove
  BY <1>1, <1>3 DEF StartRequest, PageRuns, RequestsMove, flagVars, entraVars
<1>4. ASSUME NEW r \in Requests, FreshTokenAcquired(r) PROVE RequestsMove
  BY <1>1, <1>2, <1>4 DEF FreshTokenAcquired, PageRuns, RequestsMove, flagVars, entraVars
<1>5. ASSUME NEW r \in Requests, Refused(r) PROVE RequestsMove
  BY <1>1, <1>2, <1>5 DEF Refused, Unauthorized, PageRuns, RequestsMove, flagVars, entraVars
<1>6. ASSUME NEW r \in Requests, Answered(r) PROVE RequestsMove
  BY <1>1, <1>2, <1>6 DEF Answered, PageRuns, RequestsMove, flagVars, entraVars
<1>7. ASSUME NEW r \in Requests, AccountGone(r) PROVE RequestsMove
  BY <1>1, <1>2, <1>7
     DEF AccountGone, EndLocalSession, PageRuns, RequestsMove
<1>8. CASE Acquired
  BY <1>1, <1>2, <1>8 DEF Acquired, PageRuns, RequestsMove, flagVars, entraVars
<1> QED BY <1>3, <1>4, <1>5, <1>6, <1>7, <1>8

\* Each step of a load keeps the invariant: a page that starts reads and clears the flag.
LEMMA LoadKeeps ==
  ASSUME SessionInv,
         \/ Reload \/ HandleRedirect \/ RestoreSession \/ SilentAnswered \/ SignIn \/ SignInAnswered
         \/ Lapse \/ SignOut
  PROVE  SessionInv'
<1> USE DEF SessionInv
<1>1. Silent \in [Requests -> {"idle", "token", "sent", "fresh", "resent"}]
  BY DEF Silent
<1>2. [r \in Requests |-> IF r \in {"tours", "me"} THEN "token" ELSE sessionRequest[r]]
        \in [Requests -> {"idle", "token", "sent", "fresh", "resent"}]
  BY DEF SessionTyped
<1>3. CASE Reload
  <2>1. SessionTyped'
    BY <1>1, <1>3 DEF Reload, StartsPage, entraVars, SessionTyped
  <2>2. SilentRemembered'
    BY <1>1, <1>3 DEF Reload, StartsPage, entraVars, SessionTyped, SilentRemembered, OutForgotten
  <2>3. OutForgotten'
    BY <1>1, <1>3 DEF Reload, StartsPage, entraVars, SessionTyped, OutForgotten, SilentRemembered
  <2>4. AsksCounted'
    BY <1>1, <1>3 DEF Reload, StartsPage, entraVars, SessionTyped, AsksCounted
  <2> QED BY <2>1, <2>2, <2>3, <2>4
<1>4. CASE HandleRedirect
  <2>1. SessionTyped'
    BY <1>2, <1>4, ZenonT(40) DEF HandleRedirect, StartSignedIn, NoOneSignedIn, entraVars, SessionTyped
  <2>2. SilentRemembered'
    BY <1>2, <1>4 DEF HandleRedirect, StartSignedIn, NoOneSignedIn, entraVars, SessionTyped, SilentRemembered, OutForgotten
  <2>3. OutForgotten'
    BY <1>2, <1>4 DEF HandleRedirect, StartSignedIn, NoOneSignedIn, entraVars, SessionTyped, OutForgotten, SilentRemembered
  <2>4. AsksCounted'
    BY <1>2, <1>4 DEF HandleRedirect, StartSignedIn, NoOneSignedIn, entraVars, SessionTyped, AsksCounted
  <2> QED BY <2>1, <2>2, <2>3, <2>4
<1>5. CASE RestoreSession
  <2>1. PICK usable \in {refresh, TRUE} :
          LET step == startupStep(usable) IN
          /\ sessionLoad' = IF step = "silent-sign-in" THEN "silent" ELSE "ready"
          /\ CASE step = "restore" -> StartSignedIn /\ UNCHANGED triedFlag
               [] step = "session-ended" -> EndLapsedSession /\ UNCHANGED triedFlag
               [] step = "silent-sign-in" ->
                    /\ triedFlag' = Notes /\ silentRow' = silentRow + 1
                    /\ UNCHANGED <<user, sessionRequest, acquiring, out, asks, signedInFlag>>
               [] step = "signed-out" ->
                    NoOneSignedIn /\ UNCHANGED <<asks, signedInFlag, triedFlag>>
    BY <1>5 DEF RestoreSession
  <2>2. sessionLoad = "checking" /\ UNCHANGED <<storage, tried, account, refresh, cookie, answer>>
    BY <1>5 DEF RestoreSession, entraVars
  <2>3. CASE startupStep(usable) = "restore"
    <3>1. SessionTyped'
      BY <1>2, <2>1, <2>2, <2>3 DEF StartSignedIn, SessionTyped
    <3>2. SilentRemembered'
      BY <1>2, <2>1, <2>2, <2>3 DEF StartSignedIn, SessionTyped, SilentRemembered, OutForgotten
    <3>3. OutForgotten'
      BY <1>2, <2>1, <2>2, <2>3 DEF StartSignedIn, SessionTyped, OutForgotten, SilentRemembered
    <3>4. AsksCounted'
      BY <1>2, <2>1, <2>2, <2>3 DEF StartSignedIn, SessionTyped, AsksCounted
    <3> QED BY <3>1, <3>2, <3>3, <3>4
  <2>4. CASE startupStep(usable) = "session-ended"
    <3>1. SessionTyped'
      BY <2>1, <2>2, <2>4, ZenonT(90) DEF EndLapsedSession, NoOneSignedIn, SessionTyped
    <3>2. SilentRemembered'
      BY <2>1, <2>2, <2>4 DEF EndLapsedSession, NoOneSignedIn, SessionTyped, SilentRemembered, OutForgotten
    <3>3. OutForgotten'
      BY <2>1, <2>2, <2>4 DEF EndLapsedSession, NoOneSignedIn, SessionTyped, OutForgotten, SilentRemembered
    <3>4. AsksCounted'
      BY <2>1, <2>2, <2>4 DEF EndLapsedSession, NoOneSignedIn, SessionTyped, AsksCounted
    <3> QED BY <3>1, <3>2, <3>3, <3>4
  <2>5. CASE startupStep(usable) = "silent-sign-in"
    <3>0. signedInFlag /\ ~tried
      BY <2>5 DEF startupStep
    <3>1. SessionTyped'
      BY <2>1, <2>2, <2>5, <3>0 DEF Notes, SessionTyped
    <3>2. SilentRemembered'
      BY <2>1, <2>2, <2>5, <3>0 DEF Notes, SessionTyped, SilentRemembered, OutForgotten
    <3>3. OutForgotten'
      BY <2>1, <2>2, <2>5, <3>0 DEF Notes, SessionTyped, OutForgotten, SilentRemembered
    <3>4. AsksCounted'
      BY <2>1, <2>2, <2>5, <3>0 DEF Notes, SessionTyped, AsksCounted
    <3> QED BY <3>1, <3>2, <3>3, <3>4
  <2>6. CASE startupStep(usable) = "signed-out"
    <3>1. SessionTyped'
      BY <2>1, <2>2, <2>6 DEF NoOneSignedIn, SessionTyped
    <3>2. SilentRemembered'
      BY <2>1, <2>2, <2>6 DEF NoOneSignedIn, SessionTyped, SilentRemembered, OutForgotten
    <3>3. OutForgotten'
      BY <2>1, <2>2, <2>6 DEF NoOneSignedIn, SessionTyped, OutForgotten, SilentRemembered
    <3>4. AsksCounted'
      BY <2>1, <2>2, <2>6 DEF NoOneSignedIn, SessionTyped, AsksCounted
    <3> QED BY <3>1, <3>2, <3>3, <3>4
  <2> QED BY <2>3, <2>4, <2>5, <2>6 DEF startupStep
<1>6. CASE SilentAnswered
  <2>1. SessionTyped'
    BY <1>1, <1>6 DEF SilentAnswered, StartsPage, SessionTyped
  <2>2. SilentRemembered'
    BY <1>1, <1>6 DEF SilentAnswered, StartsPage, SessionTyped, SilentRemembered, OutForgotten
  <2>3. OutForgotten'
    BY <1>1, <1>6 DEF SilentAnswered, StartsPage, SessionTyped, OutForgotten, SilentRemembered
  <2>4. AsksCounted'
    BY <1>1, <1>6 DEF SilentAnswered, StartsPage, SessionTyped, AsksCounted
  <2> QED BY <2>1, <2>2, <2>3, <2>4
<1>7. CASE SignIn
  <2>1. SessionTyped'
    BY <1>7 DEF SignIn, flagVars, entraVars, SessionTyped
  <2>2. SilentRemembered'
    BY <1>7 DEF SignIn, flagVars, entraVars, SessionTyped, SilentRemembered, OutForgotten
  <2>3. OutForgotten'
    BY <1>7 DEF SignIn, flagVars, entraVars, SessionTyped, OutForgotten, SilentRemembered
  <2>4. AsksCounted'
    BY <1>7 DEF SignIn, flagVars, entraVars, SessionTyped, AsksCounted
  <2> QED BY <2>1, <2>2, <2>3, <2>4
<1>8. CASE SignInAnswered
  <2>1. SessionTyped'
    BY <1>1, <1>8 DEF SignInAnswered, StartsPage, entraVars, SessionTyped
  <2>2. SilentRemembered'
    BY <1>1, <1>8 DEF SignInAnswered, StartsPage, entraVars, SessionTyped, SilentRemembered, OutForgotten
  <2>3. OutForgotten'
    BY <1>1, <1>8 DEF SignInAnswered, StartsPage, entraVars, SessionTyped, OutForgotten, SilentRemembered
  <2>4. AsksCounted'
    BY <1>1, <1>8 DEF SignInAnswered, StartsPage, entraVars, SessionTyped, AsksCounted
  <2> QED BY <2>1, <2>2, <2>3, <2>4
<1>9. CASE Lapse
  <2>1. SessionTyped'
    <3>1. refresh' \in BOOLEAN /\ cookie' \in BOOLEAN
      BY <1>9 DEF Lapse, SessionTyped
    <3>2. UNCHANGED <<flagVars, account, sessionLoad, answer, user, acquiring, sessionRequest, out>>
      BY <1>9 DEF Lapse
    <3> QED BY <3>1, <3>2 DEF flagVars, SessionTyped
  <2>2. SilentRemembered'
    BY <1>9 DEF Lapse, flagVars, SessionTyped, SilentRemembered, OutForgotten
  <2>3. OutForgotten'
    BY <1>9 DEF Lapse, flagVars, SessionTyped, OutForgotten, SilentRemembered
  <2>4. AsksCounted'
    BY <1>9 DEF Lapse, flagVars, SessionTyped, AsksCounted
  <2> QED BY <2>1, <2>2, <2>3, <2>4
<1>10. CASE SignOut
  <2>1. SessionTyped'
    BY <1>10 DEF SignOut, EndLocalSession, Forgotten, SessionTyped
  <2>2. SilentRemembered'
    BY <1>10 DEF SignOut, EndLocalSession, Forgotten, SessionTyped, SilentRemembered, OutForgotten
  <2>3. OutForgotten'
    BY <1>10 DEF SignOut, EndLocalSession, Forgotten, SessionTyped, OutForgotten, SilentRemembered
  <2>4. AsksCounted'
    BY <1>10 DEF SignOut, EndLocalSession, Forgotten, SessionTyped, AsksCounted
  <2> QED BY <2>1, <2>2, <2>3, <2>4
<1> QED BY <1>3, <1>4, <1>5, <1>6, <1>7, <1>8, <1>9, <1>10

\* However loads, parallel requests, lapses and sign-outs come together: one silent sign-in, none
\* after a sign-out, and one ask for however many requests find the session gone.
THEOREM SessionsSound == SessionSpec => []SessionSound
<1>1. ASSUME SessionInit PROVE SessionInv
  <2>1. SessionTyped
    BY <1>1 DEF SessionInit, Silent, SessionTyped
  <2>2. SilentRemembered
    <3>1. signedInFlag => storage
      BY <1>1, <2>1 DEF SessionInit, SessionTyped
    <3> QED BY <1>1, <3>1 DEF SessionInit, SilentRemembered
  <2>3. OutForgotten /\ AsksCounted
    BY <1>1 DEF SessionInit, OutForgotten, AsksCounted
  <2> QED BY <2>1, <2>2, <2>3 DEF SessionInv
<1>2. ASSUME SessionInv, [SessionNext]_sessionVars PROVE SessionInv'
  <2>1. CASE UNCHANGED sessionVars
    <3>1. SessionTyped' /\ SilentRemembered'
      BY <1>2, <2>1 DEF sessionVars, flagVars, entraVars, SessionInv, SessionTyped, SilentRemembered
    <3>2. OutForgotten' /\ AsksCounted'
      BY <1>2, <2>1 DEF sessionVars, flagVars, entraVars, SessionInv, OutForgotten, AsksCounted
    <3> QED BY <3>1, <3>2 DEF SessionInv
  <2>2. CASE Acquired
    BY <1>2, <2>2, RequestSteps, RequestsMoveKeeps
  <2>3. ASSUME NEW r \in Requests,
               \/ StartRequest(r) \/ FreshTokenAcquired(r) \/ Refused(r) \/ Answered(r)
               \/ AccountGone(r)
        PROVE  SessionInv'
    BY <1>2, <2>3, RequestSteps, RequestsMoveKeeps
  <2> QED BY <1>2, <2>1, <2>2, <2>3, LoadKeeps DEF SessionNext
<1>3. SessionInv => SessionSound
  <2>1. SessionInv => SessionTypeOK
    BY DEF SessionInv, SessionTyped, SilentRemembered, AsksCounted, SessionTypeOK
  <2> QED BY <2>1 DEF SessionInv, SilentRemembered, OutForgotten, AsksCounted, SessionSound,
                      SilentOnce, SignOutStays, AskedOnce
<1> QED BY <1>1, <1>2, <1>3, PTL DEF SessionSpec

-----------------------------------------------------------------------------
(* ServiceWorker. *)

OfflineSpec == ServiceWorkerInit /\ [][ServiceWorkerNext]_serviceWorkerVars

Scripts == [id : 1..Deploys, name : 1..Deploys]

\* ServiceWorkerTypeOK, one fact per variable; a name is never ahead of the deploys.
WorkersTyped ==
  /\ deployed \in 1..Deploys /\ script \in Scripts /\ script.name <= deployed
  /\ active \in Scripts \cup {None} /\ installing \in Scripts \cup {None}
  /\ adding \subseteq ShellFiles /\ addFailed \in BOOLEAN /\ (installing = None => adding = {})
  /\ puts \subseteq [file : Shell, answer : 1..NotOk]
CachesTyped ==
  /\ DOMAIN caches \subseteq 1..Deploys
  /\ \A n \in DOMAIN caches : caches[n] \in [ShellFiles -> 0..NotOk]

\* Every cache is between the active worker's, which is whole, and the newest.
ActiveWhole ==
  active # None =>
    /\ active.name \in DOMAIN caches /\ active.name <= script.name
    /\ \A n \in DOMAIN caches : n >= active.name
    /\ \A f \in Shell : caches[active.name][f] # Absent

\* An install that has not failed has stored what it has not still to add.
InstallingWhole ==
  installing # None =>
    /\ installing.name \in DOMAIN caches /\ installing.name <= script.name
    /\ addFailed \/ \A f \in Shell \ adding : caches[installing.name][f] # Absent

GoodPuts == (puts # {} => active # None) /\ \A p \in puts : p.answer # NotOk

OfflineInv ==
  WorkersTyped /\ CachesTyped /\ ActiveWhole /\ InstallingWhole /\ GoodPuts /\ GoodCopies

\* A cache that is opened is there, and all that was stored stays; then one file is put into it.
LEMMA OpenedHolds ==
  ASSUME CachesTyped, NEW name \in 1..Deploys
  PROVE  /\ DOMAIN Opened(name) = DOMAIN caches \cup {name}
         /\ \A n \in DOMAIN caches : Opened(name)[n] = caches[n]
         /\ name \notin DOMAIN caches => Opened(name)[name] = Empty
         /\ \A n \in DOMAIN Opened(name) : Opened(name)[n] \in [ShellFiles -> 0..NotOk]
<1>1. Empty \in [ShellFiles -> 0..NotOk]
  BY ServiceWorkerAssumption DEF Empty, Absent, NotOk
<1> QED BY <1>1 DEF Opened, CachesTyped

\* A put into a cache changes one copy.
LEMMA PutHolds ==
  ASSUME CachesTyped, NEW name \in DOMAIN caches, NEW f \in ShellFiles, NEW copy \in 0..NotOk
  PROVE  LET after == Put(name, f, copy) IN
         /\ DOMAIN after = DOMAIN caches
         /\ after[name][f] = copy
         /\ \A n \in DOMAIN caches : \A g \in ShellFiles :
              n # name \/ g # f => after[n][g] = caches[n][g]
         /\ \A n \in DOMAIN caches : after[n] \in [ShellFiles -> 0..NotOk]
BY DEF Put, CachesTyped

\* A good copy of a file may go into any cache there is.
LEMMA GoodPutKeeps ==
  ASSUME CachesTyped, ActiveWhole, InstallingWhole, GoodCopies,
         NEW name \in DOMAIN caches, NEW f \in ShellFiles, NEW copy \in 1..Deploys,
         caches' = Put(name, f, copy), UNCHANGED <<script, active, installing, addFailed>>,
         adding' = adding \/ (name = installing.name /\ adding' = adding \ {f})
  PROVE  CachesTyped' /\ ActiveWhole' /\ InstallingWhole' /\ GoodCopies'
<1>1. copy \in 0..NotOk /\ copy # Absent /\ copy # NotOk
  BY ServiceWorkerAssumption DEF NotOk, Absent
<1>2. /\ DOMAIN caches' = DOMAIN caches
      /\ caches'[name][f] = copy
      /\ \A n \in DOMAIN caches : \A g \in ShellFiles :
           n # name \/ g # f => caches'[n][g] = caches[n][g]
      /\ \A n \in DOMAIN caches : caches'[n] \in [ShellFiles -> 0..NotOk]
  BY <1>1, PutHolds
<1>3. Shell \subseteq ShellFiles
  BY DEF ShellFiles
<1>4. \A n \in DOMAIN caches : \A g \in ShellFiles :
        (caches[n][g] # Absent => caches'[n][g] # Absent) /\ caches'[n][g] # NotOk
  BY <1>1, <1>2 DEF GoodCopies
<1>5. CachesTyped'
  BY <1>2 DEF CachesTyped, ShellFiles, NotOk
<1>6. ActiveWhole'
  BY <1>2, <1>3, <1>4 DEF ActiveWhole, None, Absent
<1>7. InstallingWhole'
  <2> SUFFICES ASSUME installing # None PROVE InstallingWhole'
    BY DEF InstallingWhole, None
  <2>1. ASSUME ~addFailed, NEW g \in Shell \ adding' PROVE caches'[installing.name][g] # Absent
    <3>1. CASE g \in adding
      BY <2>1, <3>1, <1>1, <1>2
    <3>2. CASE g \notin adding
      BY <2>1, <3>2, <1>3, <1>4 DEF InstallingWhole
    <3> QED BY <3>1, <3>2
  <2> QED BY <2>1, <1>2 DEF InstallingWhole, None, Absent
<1>8. GoodCopies'
  BY <1>2, <1>4 DEF GoodCopies, ShellFiles, NotOk
<1> QED BY <1>5, <1>6, <1>7, <1>8

\* A deploy keeps the invariant.
LEMMA DeployKeeps == ASSUME OfflineInv, Deploy PROVE OfflineInv'
<1> USE DEF OfflineInv
<1>1. PICK id \in {script.id, deployed'}, name \in {script.name, deployed'} :
        script' = [id |-> id, name |-> name]
  BY DEF Deploy
<1>2. /\ deployed < Deploys /\ deployed' = deployed + 1
      /\ UNCHANGED <<active, installing, adding, addFailed, caches, puts>>
  BY DEF Deploy
<1>3. script'.name >= script.name /\ script'.name <= deployed' /\ script' \in Scripts /\ deployed' \in 1..Deploys
  BY <1>1, <1>2, ServiceWorkerAssumption DEF WorkersTyped, Scripts
<1>4. WorkersTyped'
  BY <1>2, <1>3 DEF WorkersTyped, Scripts, ShellFiles, None, NotOk
<1>5. ActiveWhole'
  BY <1>2, <1>3 DEF ActiveWhole, WorkersTyped, Scripts, None, Absent
<1>6. InstallingWhole'
  BY <1>2, <1>3 DEF InstallingWhole, WorkersTyped, Scripts, None, Absent
<1>7. CachesTyped' /\ GoodPuts' /\ GoodCopies'
  BY <1>2 DEF CachesTyped, GoodPuts, GoodCopies, ShellFiles, NotOk, None
<1> QED BY <1>4, <1>5, <1>6, <1>7

\* A worker that installs keeps it.
LEMMA InstallKeeps == ASSUME OfflineInv, Install PROVE OfflineInv'
<1> USE DEF OfflineInv
<1>1. /\ installing' = script /\ adding' = ShellFiles /\ addFailed' = FALSE
      /\ caches' = Opened(script.name) /\ UNCHANGED <<deployed, script, active, puts>>
  BY DEF Install
<1>2. script.name \in 1..Deploys /\ script # None
  BY DEF WorkersTyped, Scripts, None
<1>3. /\ DOMAIN caches' = DOMAIN caches \cup {script.name}
      /\ \A n \in DOMAIN caches : caches'[n] = caches[n]
      /\ script.name \notin DOMAIN caches => caches'[script.name] = Empty
      /\ \A n \in DOMAIN caches' : caches'[n] \in [ShellFiles -> 0..NotOk]
  BY <1>1, <1>2, OpenedHolds
<1>4. WorkersTyped'
  BY <1>1, <1>2 DEF WorkersTyped, Scripts, ShellFiles, None, NotOk
<1>5. CachesTyped'
  BY <1>2, <1>3 DEF CachesTyped, ShellFiles, NotOk
<1>6. ActiveWhole'
  BY <1>1, <1>2, <1>3 DEF ActiveWhole, WorkersTyped, Scripts, None, Absent
<1>7. InstallingWhole'
  BY <1>1, <1>2, <1>3 DEF InstallingWhole, ShellFiles, None, Absent
<1>8. GoodPuts'
  BY <1>1 DEF GoodPuts, None, NotOk
<1>9. \A f \in ShellFiles : Empty[f] # NotOk
  BY ServiceWorkerAssumption DEF Empty, Absent, NotOk
<1>10. GoodCopies'
  BY <1>3, <1>9 DEF GoodCopies, ShellFiles, NotOk
<1> QED BY <1>4, <1>5, <1>6, <1>7, <1>8, <1>10

\* What an install adds, or fails to add.
LEMMA AddKeeps ==
  ASSUME OfflineInv, NEW f \in ShellFiles, AddFile(f) \/ AddFails(f)
  PROVE  OfflineInv'
<1> USE DEF OfflineInv
<1>1. CASE AddFile(f)
  <2>1. /\ f \in adding /\ adding' = adding \ {f} /\ caches' = Put(installing.name, f, deployed)
        /\ UNCHANGED <<deployed, script, active, installing, addFailed, puts>>
    BY <1>1 DEF AddFile
  <2>2. installing # None /\ deployed \in 1..Deploys /\ installing.name \in DOMAIN caches
    BY <2>1 DEF WorkersTyped, InstallingWhole
  <2>3. CachesTyped' /\ ActiveWhole' /\ InstallingWhole' /\ GoodCopies'
    BY <2>1, <2>2, GoodPutKeeps
  <2>4. WorkersTyped' /\ GoodPuts'
    BY <2>1 DEF WorkersTyped, GoodPuts, Scripts, ShellFiles, None, NotOk
  <2> QED BY <2>3, <2>4
<1>2. CASE AddFails(f)
  <2>1. /\ f \in adding /\ adding' = adding \ {f} /\ addFailed' = (addFailed \/ f # "config.js")
        /\ UNCHANGED <<deployed, script, active, installing, caches, puts>>
    BY <1>2 DEF AddFails, DoneWithout
  <2>2. InstallingWhole'
    BY <2>1, ServiceWorkerAssumption DEF InstallingWhole, None, Absent
  <2>3. WorkersTyped'
    BY <2>1 DEF WorkersTyped, Scripts, ShellFiles, None, NotOk
  <2>4. CachesTyped' /\ ActiveWhole' /\ GoodPuts' /\ GoodCopies'
    BY <2>1 DEF CachesTyped, ActiveWhole, GoodPuts, GoodCopies, ShellFiles, None, NotOk, Absent
  <2> QED BY <2>2, <2>3, <2>4
<1> QED BY <1>1, <1>2

\* The end of an install: it is discarded, or its worker is the active one and its cache the only one.
LEMMA InstalledKeeps == ASSUME OfflineInv, DiscardInstall \/ Activate PROVE OfflineInv'
<1> USE DEF OfflineInv
<1>1. CASE DiscardInstall
  BY <1>1 DEF DiscardInstall, AddingNothing, WorkersTyped, CachesTyped, ActiveWhole, InstallingWhole,
              GoodPuts, GoodCopies, Scripts, ShellFiles, None, NotOk, Absent
<1>2. CASE Activate
  <2>1. /\ installing # None /\ adding = {} /\ ~addFailed /\ puts = {}
        /\ active' = installing /\ installing' = None
        /\ UNCHANGED <<deployed, script, adding, addFailed, puts>>
    BY <1>2 DEF Activate
  <2>2. caches' = [n \in {installing.name} |-> caches[n]] /\ installing.name \in DOMAIN caches
    BY <1>2, <2>1 DEF Activate, KeptCaches, InstallingWhole
  <2>3. ActiveWhole'
    BY <2>1, <2>2 DEF ActiveWhole, InstallingWhole, WorkersTyped, Scripts, None, Absent
  <2>4. WorkersTyped' /\ InstallingWhole' /\ GoodPuts'
    BY <2>1 DEF WorkersTyped, InstallingWhole, GoodPuts, Scripts, ShellFiles, None, NotOk
  <2>5. CachesTyped' /\ GoodCopies'
    BY <2>2 DEF CachesTyped, GoodCopies, ShellFiles, NotOk
  <2> QED BY <2>3, <2>4, <2>5
<1> QED BY <1>1, <1>2

\* The active worker's copies of what the page fetches.
LEMMA CopyKeeps ==
  ASSUME OfflineInv,
         \/ \E f \in Shell \ {"index.html"} : FetchFile(f)
         \/ \E p \in puts : PutCopy(p)
  PROVE  OfflineInv'
<1> USE DEF OfflineInv
<1>1. ASSUME NEW f \in Shell, FetchFile(f) PROVE OfflineInv'
  <2>1. PICK answerOf \in {deployed, NotOk} :
          answerOf # NotOk /\ puts' = puts \cup {[file |-> f, answer |-> answerOf]}
    BY <1>1 DEF FetchFile, Copies
  <2>2. /\ active # None
        /\ UNCHANGED <<deployed, script, active, installing, adding, addFailed, caches>>
    BY <1>1 DEF FetchFile
  <2>3. [file |-> f, answer |-> answerOf] \in [file : Shell, answer : 1..NotOk]
    BY <2>1, ServiceWorkerAssumption DEF WorkersTyped, NotOk
  <2>4. WorkersTyped'
    BY <2>1, <2>2, <2>3 DEF WorkersTyped, Scripts, ShellFiles, None, NotOk
  <2>5. GoodPuts'
    BY <2>1, <2>2 DEF GoodPuts, None, NotOk
  <2>6. CachesTyped' /\ ActiveWhole' /\ InstallingWhole' /\ GoodCopies'
    BY <2>2 DEF CachesTyped, ActiveWhole, InstallingWhole, GoodCopies, ShellFiles, None, NotOk, Absent
  <2> QED BY <2>4, <2>5, <2>6
<1>2. ASSUME NEW p \in puts, PutCopy(p) PROVE OfflineInv'
  <2>1. /\ puts' = puts \ {p}
        /\ UNCHANGED <<deployed, script, active, installing, adding, addFailed>>
    BY <1>2 DEF PutCopy
  <2>2. active # None /\ active.name \in DOMAIN caches
    BY <1>2 DEF GoodPuts, ActiveWhole
  <2>3. caches' = Put(active.name, p.file, p.answer)
    BY <1>2, <2>2 DEF PutCopy, Opened, Put
  <2>4. p.file \in ShellFiles /\ p.answer \in 1..Deploys
    BY <1>2, ServiceWorkerAssumption DEF WorkersTyped, GoodPuts, ShellFiles, NotOk
  <2>5. CachesTyped' /\ ActiveWhole' /\ InstallingWhole' /\ GoodCopies'
    <3>1. CachesTyped /\ ActiveWhole /\ InstallingWhole /\ GoodCopies
      BY DEF OfflineInv
    <3> QED BY ONLY <3>1, <2>1, <2>2, <2>3, <2>4, GoodPutKeeps
  <2>6. WorkersTyped' /\ GoodPuts'
    BY <2>1 DEF WorkersTyped, GoodPuts, Scripts, ShellFiles, None, NotOk
  <2> QED BY <2>5, <2>6
<1> QED BY <1>1, <1>2

\* Through every deploy, failed install and change of the cache's name: once a worker is active the
\* page starts without a network, from good copies, and no older page's cache is before its own.
THEOREM OfflineStaysSound == OfflineSpec => []OfflineSound
<1>1. ASSUME ServiceWorkerInit PROVE OfflineInv
  <2>1. DOMAIN caches = {}
    BY <1>1 DEF ServiceWorkerInit
  <2>2. WorkersTyped
    <3>1. deployed \in 1..Deploys /\ script \in Scripts /\ script.name <= deployed
      BY <1>1, ServiceWorkerAssumption DEF ServiceWorkerInit, Scripts
    <3>2. adding = {} /\ puts = {} /\ addFailed = FALSE /\ active = None /\ installing = None
      BY <1>1 DEF ServiceWorkerInit
    <3> QED BY <3>1, <3>2 DEF WorkersTyped
  <2>3. CachesTyped /\ GoodCopies
    BY <2>1 DEF CachesTyped, GoodCopies
  <2>4. ActiveWhole /\ InstallingWhole /\ GoodPuts
    BY <1>1 DEF ServiceWorkerInit, ActiveWhole, InstallingWhole, GoodPuts
  <2> QED BY <2>2, <2>3, <2>4 DEF OfflineInv
<1>2. ASSUME OfflineInv, [ServiceWorkerNext]_serviceWorkerVars PROVE OfflineInv'
  <2>1. CASE UNCHANGED serviceWorkerVars
    BY <1>2, <2>1 DEF serviceWorkerVars, OfflineInv, WorkersTyped, CachesTyped, ActiveWhole,
                      InstallingWhole, GoodPuts, GoodCopies, Scripts, ShellFiles, None, NotOk, Absent
  <2> QED BY <1>2, <2>1, DeployKeeps, InstallKeeps, AddKeeps, InstalledKeeps, CopyKeeps
          DEF ServiceWorkerNext
<1>3. OfflineInv => OfflineSound
  <2>1. OfflineInv => ServiceWorkerTypeOK
    BY DEF OfflineInv, WorkersTyped, CachesTyped, ServiceWorkerTypeOK, Scripts
  <2> QED BY <2>1 DEF OfflineInv, ActiveWhole, OfflineSound, OfflineStarts, FreshestFirst
<1> QED BY <1>1, <1>2, <1>3, PTL DEF OfflineSpec

-----------------------------------------------------------------------------
(* Uploads: the photos. *)

BatchType ==
  [step : {"none", "waiting", "running", "done"}, visit : 0..Visits, files : Seq(Files)]
JobType ==
  [batch : 1..Batches, tries : 0..Attempts,
   step : {"none", "refused", "queued", "sending", "stored", "done", "unreadable", "retryable"}]

PanelTyped ==
  /\ panelShown \in BOOLEAN /\ visit \in 0..Visits /\ pendingDetails \subseteq 1..visit
  /\ images \subseteq Files /\ grid \subseteq Files
PhotosTyped ==
  /\ photoBatch \in [1..Batches -> BatchType] /\ job \in [Files -> JobType]
  /\ storedCopies \in [Files -> Nat] /\ lost \in [Files -> Nat]

\* A photo that no worker took has no try; what was stored, and not answered for, counts once.
Untried == {"none", "refused", "queued"}
Awaited(step) == IF step \in {"stored", "done", "unreadable"} THEN 1 ELSE 0
Taken(step) == IF step \in {"sending", "stored", "done", "unreadable"} THEN 1 ELSE 0
PhotoCounted(j, copies, losses) ==
  /\ j.step \in Untried <=> j.tries = 0
  /\ copies <= losses + Awaited(j.step) /\ losses + Taken(j.step) <= j.tries
PhotosCounted == \A f \in Files : PhotoCounted(job[f], storedCopies[f], lost[f])

\* The tiles there are wait for no detail, and neither does a drop to come change that.
TilesSettled ==
  \A f \in grid :
    /\ job[f].step # "none" /\ photoBatch[job[f].batch].step # "none"
    /\ photoBatch[job[f].batch].visit \notin pendingDetails

PhotosInv == PanelTyped /\ PhotosTyped /\ PhotosCounted /\ TilesSettled

\* The constants as the proofs use them.
LEMMA UploadBounds ==
  /\ Batches \in Nat /\ Batches >= 1 /\ Attempts \in Nat /\ Attempts >= 1
  /\ UploadConcurrency \in Nat /\ Visits \in Nat /\ Chosen \in Nat /\ Submits \in Nat
BY UploadsAssumption

\* A finite set as a list.
LEMMA SomeSequence ==
  ASSUME NEW S, IsFiniteSet(S) PROVE SetToSeq(S) \in Seq(S)
<1>1. Cardinality(S) \in Nat /\ ExistsBijection(1..Cardinality(S), S)
  BY FS_CardinalityType
<1>2. \E f \in [1..Cardinality(S) -> S] : IsInjective(f)
  BY <1>1 DEF ExistsBijection, Bijection, Injection
<1>3. SetToSeq(S) \in [1..Cardinality(S) -> S]
  BY <1>2 DEF SetToSeq
<1> QED BY <1>1, <1>3

\* One photo's step, with or without a copy stored or an answer lost.
OnlyJob(f) ==
  /\ job' \in [Files -> JobType] /\ \A g \in Files \ {f} : job'[g] = job[g]
  /\ job'[f].batch = job[f].batch /\ job[f].step # "none" /\ job'[f].step # "none"
  /\ images' \in {images, images \cup {f}} /\ UNCHANGED <<openingVars, grid, photoBatch>>
  /\ storedCopies' \in [Files -> Nat] /\ \A g \in Files \ {f} : storedCopies'[g] = storedCopies[g]
  /\ lost' \in [Files -> Nat] /\ \A g \in Files \ {f} : lost'[g] = lost[g]

\* A step of one photo that counts it right keeps the rest.
LEMMA OnlyJobKeeps ==
  ASSUME PhotosInv, NEW f \in Files, OnlyJob(f), PhotoCounted(job'[f], storedCopies'[f], lost'[f])
  PROVE  PanelTyped' /\ PhotosTyped' /\ PhotosCounted' /\ TilesSettled'
<1> USE DEF PhotosInv, OnlyJob
<1>1. PanelTyped'
  BY DEF PanelTyped, openingVars
<1>2. PhotosTyped'
  BY DEF PhotosTyped, BatchType, JobType
<1>3. PhotosCounted'
  BY DEF PhotosCounted, PhotosTyped, PhotoCounted, Untried, Awaited, Taken
<1>4. TilesSettled'
  BY DEF TilesSettled, openingVars, PanelTyped
<1> QED BY <1>1, <1>2, <1>3, <1>4

\* Sending a photo keeps the invariant.
LEMMA SendKeeps == ASSUME PhotosInv, NEW f \in Files, SendPhoto(f) PROVE PhotosInv'
<1> USE DEF PhotosInv
<1>1. /\ job[f].tries \in 0..Attempts /\ storedCopies[f] \in Nat /\ lost[f] \in Nat
      /\ PhotoCounted(job[f], storedCopies[f], lost[f])
  BY DEF PhotosTyped, PhotosCounted, JobType
<1>2. /\ job[f].step \in {"queued", "retryable"} /\ job[f].tries < Attempts
      /\ MayStart(f) \/ job[f].tries >= 1
  <2>1. CASE MayStart(f)
    BY <1>1, <2>1, UploadBounds DEF MayStart, PhotoCounted, Untried
  <2>2. CASE job[f].step = "retryable" /\ job[f].tries < Attempts
    BY <1>1, <2>2, UploadBounds DEF PhotoCounted, Untried
  <2> QED BY <2>1, <2>2 DEF SendPhoto
<1>3. /\ job' = [job EXCEPT ![f].step = "sending", ![f].tries = @ + 1]
      /\ UNCHANGED <<images, openingVars, grid, photoBatch, storedCopies, lost>>
  BY DEF SendPhoto
<1>4. job' \in [Files -> JobType]
  <2>1. job[f].tries + 1 \in 0..Attempts
    BY <1>1, <1>2, UploadBounds
  <2>2. job \in [Files -> JobType]
    BY DEF PhotosTyped
  <2> QED BY ONLY <2>1, <2>2, <1>3, f \in Files DEF JobType
<1>5. \A g \in Files \ {f} : job'[g] = job[g]
  BY <1>3 DEF PhotosTyped
<1>6. job'[f].step = "sending"
  BY <1>3 DEF PhotosTyped, JobType
<1>7. job'[f].tries = job[f].tries + 1
  BY <1>3 DEF PhotosTyped, JobType
<1>8. job'[f].batch = job[f].batch
  BY <1>3 DEF PhotosTyped, JobType
<1>9. OnlyJob(f)
  BY <1>2, <1>3, <1>4, <1>5, <1>6, <1>8 DEF OnlyJob, PhotosTyped
<1>10. PhotoCounted(job'[f], storedCopies'[f], lost'[f])
  BY <1>1, <1>2, <1>3, <1>6, <1>7 DEF PhotoCounted, Untried, Awaited, Taken
<1> QED BY <1>9, <1>10, OnlyJobKeeps

\* How a photo that was sent goes on.
LEMMA SentKeeps ==
  ASSUME PhotosInv, NEW f \in Files,
         NEW step \in {"stored", "done", "unreadable", "retryable"},
         job[f].step = "sending" \/ (job[f].step = "stored" /\ step # "stored"),
         job' = [job EXCEPT ![f].step = step],
         images' \in {images, images \cup {f}}, UNCHANGED <<openingVars, grid, photoBatch>>,
         storedCopies' = [storedCopies EXCEPT ![f] = @ + (IF step = "stored" THEN 1 ELSE 0)],
         step \in {"done", "unreadable"} => job[f].step = "stored",
         lost' = [lost EXCEPT
           ![f] = @ + (IF step = "retryable" /\ job[f].step = "stored" THEN 1 ELSE 0)]
  PROVE  PhotosInv'
<1> USE DEF PhotosInv
<1>1. /\ job[f].tries \in 0..Attempts /\ storedCopies[f] \in Nat /\ lost[f] \in Nat
      /\ PhotoCounted(job[f], storedCopies[f], lost[f])
  BY DEF PhotosTyped, PhotosCounted, JobType
<1>2. job' \in [Files -> JobType]
  BY DEF PhotosTyped, JobType
<1>3. /\ \A g \in Files \ {f} : job'[g] = job[g]
      /\ job'[f].step = step /\ job'[f].batch = job[f].batch /\ job'[f].tries = job[f].tries
  BY DEF PhotosTyped, JobType
<1>4. /\ storedCopies' \in [Files -> Nat] /\ \A g \in Files \ {f} : storedCopies'[g] = storedCopies[g]
      /\ storedCopies'[f] = storedCopies[f] + (IF step = "stored" THEN 1 ELSE 0)
  BY DEF PhotosTyped
<1>5. /\ lost' \in [Files -> Nat] /\ \A g \in Files \ {f} : lost'[g] = lost[g]
      /\ lost'[f] = lost[f] + (IF step = "retryable" /\ job[f].step = "stored" THEN 1 ELSE 0)
  BY DEF PhotosTyped
<1>6. OnlyJob(f)
  BY <1>2, <1>3, <1>4, <1>5 DEF OnlyJob
<1>7. PhotoCounted(job'[f], storedCopies'[f], lost'[f])
  BY <1>1, <1>3, <1>4, <1>5 DEF PhotoCounted, Untried, Awaited, Taken
<1> QED BY <1>6, <1>7, OnlyJobKeeps

\* What becomes of a photo that was sent keeps it.
LEMMA SentSteps ==
  ASSUME PhotosInv, NEW f \in Files,
         ServerStores(f) \/ PhotoAnswered(f) \/ PhotoUnreadable(f) \/ PhotoFails(f)
  PROVE  PhotosInv'
<1>1. storedCopies = [storedCopies EXCEPT ![f] = @ + 0] /\ lost = [lost EXCEPT ![f] = @ + 0]
  BY DEF PhotosInv, PhotosTyped
<1>2. CASE ServerStores(f)
  BY <1>1, <1>2, SentKeeps DEF ServerStores
<1>3. CASE PhotoAnswered(f)
  BY <1>1, <1>3, SentKeeps DEF PhotoAnswered
<1>4. CASE PhotoUnreadable(f)
  BY <1>1, <1>4, SentKeeps DEF PhotoUnreadable, UnreadableStep
<1>5. CASE PhotoFails(f)
  BY <1>1, <1>5, SentKeeps DEF PhotoFails, Sending
<1> QED BY <1>2, <1>3, <1>4, <1>5

\* Opening and closing the panel keeps it.
LEMMA PanelKeeps == ASSUME PhotosInv, PanelNext PROVE PhotosInv'
<1> USE DEF PhotosInv
<1>1. /\ UNCHANGED <<images, photoBatch, job, storedCopies, lost>>
      /\ grid' \in {{}, grid}
      /\ panelShown' \in {TRUE, FALSE, panelShown}
  BY DEF PanelNext, SelectTour, LeavePanel, RendersGallery, PanelDetailArrives, openingVars
<1>2. visit' \in 0..Visits /\ pendingDetails' \subseteq 1..visit'
  <2>1. CASE SelectTour
    BY <2>1, UploadBounds DEF SelectTour, PanelTyped
  <2>2. CASE UNCHANGED visit /\ pendingDetails' \subseteq pendingDetails
    BY <2>2 DEF PanelTyped
  <2> QED BY <2>1, <2>2 DEF PanelNext, LeavePanel, RendersGallery, PanelDetailArrives, openingVars
<1>3. grid' = {} \/ pendingDetails' \subseteq pendingDetails
  BY DEF PanelNext, SelectTour, LeavePanel, RendersGallery, PanelDetailArrives, openingVars
<1>4. PanelTyped'
  <2>1. panelShown' \in BOOLEAN
    BY <1>1 DEF PanelTyped
  <2> QED BY <1>1, <1>2, <2>1 DEF PanelTyped
<1>5. PhotosTyped' /\ PhotosCounted'
  BY <1>1 DEF PhotosTyped, PhotosCounted, BatchType, JobType, PhotoCounted, Untried, Awaited, Taken
<1>7. TilesSettled'
  BY <1>1, <1>3 DEF TilesSettled
<1> QED BY <1>4, <1>5, <1>7

\* Choosing photos keeps it.
LEMMA DropKeeps == ASSUME PhotosInv, NEW b \in 1..Batches, DropPhotos(b) PROVE PhotosInv'
<1> USE DEF PhotosInv
<1>1. PICK files \in SUBSET Files :
        photoBatch' = [photoBatch EXCEPT ![b] =
          [step |-> "waiting", visit |-> visit, files |-> SetToSeq(files)]]
  BY DEF DropPhotos
<1>2. SetToSeq(files) \in Seq(Files)
  <2>1. SetToSeq(files) \in Seq(files)
    BY UploadsAssumption, FS_Subset, SomeSequence
  <2> QED BY <2>1
<1>3. /\ photoBatch[b].step = "none"
      /\ UNCHANGED <<images, openingVars, grid, job, storedCopies, lost>>
  BY DEF DropPhotos
<1>4. [step |-> "waiting", visit |-> visit, files |-> SetToSeq(files)] \in BatchType
  BY <1>2 DEF BatchType, PanelTyped
<1>5. PanelTyped'
  BY <1>3 DEF PanelTyped, openingVars
<1>6. PhotosTyped' /\ PhotosCounted'
  BY <1>1, <1>3, <1>4
     DEF PhotosTyped, PhotosCounted, BatchType, JobType, PhotoCounted, Untried, Awaited, Taken
<1>8. TilesSettled'
  <2>1. \A f \in grid : job[f].batch # b /\ job[f].batch \in 1..Batches
    BY <1>3 DEF TilesSettled, PhotosTyped, PanelTyped, JobType
  <2>2. \A a \in 1..Batches : a # b => photoBatch'[a] = photoBatch[a]
    BY <1>1 DEF PhotosTyped
  <2> QED BY <1>3, <2>1, <2>2 DEF TilesSettled, openingVars
<1> QED BY <1>5, <1>6, <1>8

\* What waited for the detail of its visit is accepted, or refused; nobody took it before.
LEMMA QueueKeeps == ASSUME PhotosInv, NEW b \in 1..Batches, QueuePhotos(b) PROVE PhotosInv'
<1> USE DEF PhotosInv
<1> DEFINE files == photoBatch[b].files
           mine == {f \in Range(files) : job[f].step = "none"}
<1>1. /\ photoBatch[b].step = "waiting" /\ photoBatch[b].visit \notin pendingDetails
      /\ UNCHANGED <<images, openingVars, storedCopies, lost>>
  BY DEF QueuePhotos, DetailSettled
<1>2. mine \subseteq Files /\ photoBatch[b] \in BatchType
  <2>1. files \in Seq(Files) /\ photoBatch[b] \in BatchType
    BY DEF PhotosTyped, BatchType
  <2>2. Range(files) \subseteq Files
    BY <2>1 DEF Range
  <2> QED BY <2>1, <2>2
<1>3. /\ photoBatch' \in [1..Batches -> BatchType]
      /\ \A a \in 1..Batches : photoBatch'[a].visit = photoBatch[a].visit
      /\ \A a \in 1..Batches : photoBatch[a].step # "none" => photoBatch'[a].step # "none"
  <2>1. PICK step \in {"running", "done"} : photoBatch' = [photoBatch EXCEPT ![b].step = step]
    BY DEF QueuePhotos
  <2>2. photoBatch' \in [1..Batches -> BatchType]
    BY <2>1 DEF PhotosTyped, BatchType
  <2>3. \A a \in 1..Batches : photoBatch'[a].visit = photoBatch[a].visit
    BY <2>1 DEF PhotosTyped, BatchType
  <2>4. \A a \in 1..Batches : photoBatch[a].step # "none" => photoBatch'[a].step # "none"
    BY <2>1 DEF PhotosTyped, BatchType
  <2> QED BY <2>2, <2>3, <2>4
<1>4. /\ job' \in [Files -> JobType] /\ grid' \subseteq grid \cup mine
      /\ \A f \in Files \ mine : job'[f] = job[f]
      /\ grid' = grid \/ \A f \in mine :
           job'[f].step \in {"queued", "refused"} /\ job'[f].tries = 0 /\ job'[f].batch = b
      /\ job' = job \/ \A f \in mine :
           job'[f].step \in {"queued", "refused"} /\ job'[f].tries = 0 /\ job'[f].batch = b
  <2>1. CASE panelShown
    <3>1. job' = [f \in Files |-> IF f \notin mine THEN job[f] ELSE
            [step |-> IF f \in Accepted(files) THEN "queued" ELSE "refused",
             batch |-> b, tries |-> 0]]
      BY <2>1 DEF QueuePhotos
    <3>3. \A f \in mine : \E step \in {"queued", "refused"} :
            job'[f] = [step |-> step, batch |-> b, tries |-> 0]
      BY <1>2, <3>1
    <3>4. \A f \in Files \ mine : job'[f] = job[f]
      BY <3>1
    <3>5. job' \in [Files -> JobType]
      <4>1. ASSUME NEW f \in Files PROVE job'[f] \in JobType
        <5>1. CASE f \in mine
          <6>1. \A step \in {"queued", "refused"} : [step |-> step, batch |-> b, tries |-> 0] \in JobType
            BY UploadBounds DEF JobType
          <6> QED BY <3>3, <5>1, <6>1
        <5>2. CASE f \notin mine
          BY <3>4, <5>2 DEF PhotosTyped
        <5> QED BY <5>1, <5>2
      <4>2. job' = [f \in Files |-> job'[f]]
        BY <3>1
      <4> QED BY <4>1, <4>2
    <3>6. grid' = grid \cup mine
      BY <2>1 DEF QueuePhotos
    <3>7. \A f \in mine :
            job'[f].step \in {"queued", "refused"} /\ job'[f].tries = 0 /\ job'[f].batch = b
      BY <3>3
    <3> QED BY <3>4, <3>5, <3>6, <3>7
  <2>2. CASE ~panelShown
    BY <2>2 DEF QueuePhotos, PhotosTyped
  <2> QED BY <2>1, <2>2
<1>5. \A f \in mine : job[f].step = "none" /\ job[f].tries = 0 /\ f \in Files
  BY <1>2 DEF PhotosCounted, PhotoCounted, Untried
<1> HIDE DEF mine, files
<1>6. PanelTyped'
  BY <1>1, <1>2, <1>4 DEF PanelTyped, openingVars
<1>7. PhotosTyped'
  BY <1>1, <1>3, <1>4 DEF PhotosTyped, BatchType, JobType
<1>8. PhotosCounted'
  <2>1. ASSUME NEW f \in Files PROVE PhotoCounted(job'[f], storedCopies[f], lost[f])
    <3>1. PhotoCounted(job[f], storedCopies[f], lost[f])
      BY DEF PhotosCounted
    <3>2. CASE job'[f] = job[f]
      BY <3>1, <3>2
    <3>3. CASE f \in mine /\ job'[f].step \in {"queued", "refused"} /\ job'[f].tries = 0
      BY <1>5, <3>1, <3>3 DEF PhotoCounted, Untried, Awaited, Taken
    <3> QED BY <1>4, <3>2, <3>3
  <2> QED BY <1>1, <2>1 DEF PhotosCounted, PhotoCounted, Untried, Awaited, Taken
<1>10. TilesSettled'
  <2>1. ASSUME NEW f \in grid'
        PROVE  /\ job'[f].step # "none" /\ photoBatch'[job'[f].batch].step # "none"
               /\ photoBatch'[job'[f].batch].visit \notin pendingDetails
    <3>1. CASE f \in mine /\ job'[f].step \in {"queued", "refused"} /\ job'[f].batch = b
      BY <1>1, <1>3, <3>1
    <3>2. CASE f \in grid /\ job'[f] = job[f]
      <4>1. job[f].batch \in 1..Batches
        BY <3>2 DEF PanelTyped, PhotosTyped, JobType
      <4> QED BY <1>3, <3>2, <4>1 DEF TilesSettled
    <3>3. f \in grid => f \notin mine
      BY <1>5 DEF TilesSettled
    <3>4. grid \subseteq Files
      BY DEF PanelTyped
    <3> QED BY <1>4, <3>1, <3>2, <3>3, <3>4
  <2> QED BY <1>1, <2>1 DEF TilesSettled, openingVars
<1> QED BY <1>6, <1>7, <1>8, <1>10

\* The invariant of the photos is inductive.
LEMMA PhotosInvariant ==
  /\ UploadsInit => PhotosInv
  /\ PhotosInv /\ [UploadsNext]_uploadsVars => PhotosInv'
<1>1. ASSUME UploadsInit PROVE PhotosInv
  <2>1. /\ images = {} /\ panelShown = FALSE /\ visit = 0 /\ pendingDetails = {} /\ grid = {}
        /\ photoBatch = [b \in 1..Batches |-> [step |-> "none", visit |-> 0, files |-> <<>>]]
        /\ job = [f \in Files |-> [step |-> "none", batch |-> 1, tries |-> 0]]
        /\ storedCopies = [f \in Files |-> 0] /\ lost = [f \in Files |-> 0]
    BY <1>1 DEF UploadsInit, NoJob
  <2>2. PanelTyped /\ TilesSettled
    <3>1. panelShown \in BOOLEAN
      BY <2>1
    <3> QED BY <2>1, <3>1, UploadBounds DEF PanelTyped, TilesSettled
  <2>3. PhotosTyped
    BY <2>1, UploadBounds DEF PhotosTyped, BatchType, JobType
  <2>4. PhotosCounted
    BY <2>1 DEF PhotosCounted, PhotoCounted, Untried, Awaited, Taken
  <2> QED BY <2>2, <2>3, <2>4 DEF PhotosInv
<1>2. ASSUME PhotosInv, UNCHANGED photoVars PROVE PhotosInv'
  <2> USE DEF PhotosInv, photoVars
  <2>1. PanelTyped' /\ PhotosTyped'
    BY <1>2 DEF PanelTyped, openingVars, PhotosTyped, BatchType, JobType
  <2>2. PhotosCounted' /\ TilesSettled'
    BY <1>2 DEF openingVars, PhotosCounted, PhotoCounted, Untried, Awaited, Taken, TilesSettled
  <2> QED BY <2>1, <2>2
<1>3. ASSUME PhotosInv, PhotoNext PROVE PhotosInv'
  BY <1>3, DropKeeps, QueueKeeps, SendKeeps, SentSteps DEF PhotoNext
<1>4. ASSUME PhotosInv, NEW s \in 1..Submits, SelectCreated(s) PROVE PhotosInv'
  <2> USE DEF PhotosInv
  <2>1. /\ panelShown' = FALSE /\ grid' = {}
        /\ UNCHANGED <<images, visit, pendingDetails, photoBatch, job, storedCopies, lost>>
    BY <1>4 DEF SelectCreated
  <2>2. PanelTyped' /\ PhotosTyped'
    BY <1>4, <2>1 DEF PanelTyped, PhotosTyped, BatchType, JobType
  <2>3. PhotosCounted' /\ TilesSettled'
    BY <1>4, <2>1 DEF PhotosCounted, PhotoCounted, Untried, Awaited, Taken, TilesSettled
  <2> QED BY <2>2, <2>3
<1>5. TourNext => UNCHANGED photoVars \/ \E s \in 1..Submits : SelectCreated(s)
  BY DEF TourNext, OpenUpload, CloseUpload, SelectFile, SubmitUpload, ServerCreates, TourAnswered,
         TourFails, TourUnreadable, ShowFailure
<1> QED BY <1>1, <1>2, <1>3, <1>4, <1>5, PanelKeeps DEF UploadsNext, uploadsVars

\* A detail that arrives is of no drop whose tiles it wipes: each drop had waited for its own.
THEOREM TilesAlwaysKept == UploadsSpec => TilesKept
<1>1. PhotosInv /\ [UploadsNext]_uploadsVars =>
        [\A v \in pendingDetails \ pendingDetails' : \A f \in grid \ grid' :
           photoBatch[job[f].batch].visit # v]_uploadsVars
  BY DEF PhotosInv, TilesSettled
<1> QED BY <1>1, PhotosInvariant, PTL DEF UploadsSpec, TilesKept

-----------------------------------------------------------------------------
(* Uploads: the tours. *)

Ends == {"failed", "lost", "unreadable"}
SubmitSteps == {"none", "sending", "stored", "listing", "done"} \cup Ends
FormType == [open : BOOLEAN, choice : 0..Chosen, enabled : BOOLEAN]
ToursTyped ==
  /\ form \in FormType /\ submit \in [1..Submits -> [choice : 0..Chosen, step : SubmitSteps]]
  /\ \A s \in 1..Submits : submit[s].step # "none" <=> submit[s].choice # 0
  /\ created \in [1..Chosen -> Nat] /\ reoffered \in [1..Chosen -> Nat]

\* The submits of a file that were answered for or stored, and all that failed.
ReachedOf(c) == {s \in 1..Submits : submit[s].choice = c /\ submit[s].step \notin {"none", "sending"}}
FailedSubmits == {s \in 1..Submits : submit[s].step \in Ends}
Offered(c) == IF form.open = TRUE /\ form.choice = c /\ form.enabled = TRUE THEN 1 ELSE 0

\* The button is enabled by a choice, for a file never submitted, or by a failure.
ToursCounted ==
  \A c \in 1..Chosen :
    /\ reoffered[c] <= Cardinality(FailedSubmits)
    /\ created[c] <= Cardinality(ReachedOf(c))
    /\ Cardinality(SubmitsOf(c)) + Offered(c) <= 1 + reoffered[c]

ToursInv == ToursTyped /\ ToursCounted /\ NotOfferedAgain

\* Submits can be counted, one by one.
LEMMA SubmitsFinite ==
  ASSUME NEW S \in SUBSET (1..Submits)
  PROVE  /\ IsFiniteSet(S) /\ Cardinality(S) \in 0..Submits
         /\ \A s \in 1..Submits :
              Cardinality(S \cup {s}) = IF s \in S THEN Cardinality(S) ELSE Cardinality(S) + 1
<1>1. IsFiniteSet(1..Submits) /\ Cardinality(1..Submits) = Submits
  BY FS_Interval, UploadBounds
<1>2. IsFiniteSet(S) /\ Cardinality(S) <= Submits /\ Cardinality(S) \in Nat
  BY <1>1, FS_Subset, FS_CardinalityType
<1> QED BY <1>2, FS_AddElement, UploadBounds

\* The submits of a choice are submits.
LEMMA SubmitSets ==
  /\ FailedSubmits \in SUBSET (1..Submits)
  /\ \A c : SubmitsOf(c) \in SUBSET (1..Submits) /\ ReachedOf(c) \in SUBSET SubmitsOf(c)
BY DEF FailedSubmits, SubmitsOf, ReachedOf

\* The dialog's own steps leave the submits alone.
LEMMA FormKeeps ==
  ASSUME ToursInv, OpenUpload \/ CloseUpload \/ \E n \in 1..Chosen : SelectFile(n)
  PROVE  ToursInv'
<1> USE DEF ToursInv
<1>1. UNCHANGED <<submit, created, reoffered>>
  BY DEF OpenUpload, CloseUpload, SelectFile
<1>2. form' \in FormType
  <2>1. CASE OpenUpload
    BY <2>1, UploadBounds DEF OpenUpload, FormType
  <2>2. CASE CloseUpload
    BY <2>2 DEF CloseUpload, FormType, ToursTyped
  <2>3. ASSUME NEW n \in 1..Chosen, SelectFile(n) PROVE form' \in FormType
    <3>1. form \in FormType /\ n \in 0..Chosen
      BY UploadBounds DEF ToursTyped
    <3>2. form' = [form EXCEPT !.choice = n, !.enabled = TRUE]
      BY <2>3 DEF SelectFile
    <3>3. form' = [[form EXCEPT !.choice = n] EXCEPT !.enabled = TRUE]
      BY <3>1, <3>2 DEF FormType
    <3>4. [form EXCEPT !.choice = n] \in FormType
      BY <3>1 DEF FormType
    <3> QED BY <3>3, <3>4 DEF FormType
  <2> QED BY <2>1, <2>2, <2>3
<1>3. /\ \A c \in 1..Chosen : SubmitsOf(c)' = SubmitsOf(c) /\ ReachedOf(c)' = ReachedOf(c)
      /\ FailedSubmits' = FailedSubmits
  BY <1>1 DEF SubmitsOf, ReachedOf, FailedSubmits
<1>4. ASSUME NEW c \in 1..Chosen
      PROVE  Offered(c)' = 0 \/ Offered(c)' = Offered(c) \/ (Offered(c)' = 1 /\ SubmitsOf(c) = {})
  <2>1. CASE OpenUpload
    BY <2>1 DEF OpenUpload, Offered
  <2>2. CASE CloseUpload
    <3>1. form'.open = FALSE
      BY <2>2 DEF CloseUpload, FormType, ToursTyped
    <3> QED BY <3>1 DEF Offered
  <2>3. ASSUME NEW n \in 1..Chosen, SelectFile(n)
        PROVE  Offered(c)' = 0 \/ (Offered(c)' = 1 /\ SubmitsOf(c) = {})
    <3>1. form'.choice = n
      BY <2>3 DEF SelectFile, FormType, ToursTyped
    <3>2. \A s \in 1..Submits : submit[s].choice < n
      BY <2>3 DEF SelectFile, ToursTyped
    <3>3. n = c => SubmitsOf(c) = {}
      BY <3>2 DEF SubmitsOf
    <3> QED BY <3>1, <3>3 DEF Offered
  <2> QED BY <2>1, <2>2, <2>3
<1>5. ToursTyped'
  BY <1>1, <1>2 DEF ToursTyped
<1>6. ASSUME NEW c \in 1..Chosen PROVE Cardinality(SubmitsOf(c)) + Offered(c)' <= 1 + reoffered[c]
  <2>1. /\ Cardinality(SubmitsOf(c)) + Offered(c) <= 1 + reoffered[c]
        /\ Cardinality(SubmitsOf(c)) \in Nat /\ reoffered[c] \in Nat /\ Offered(c) \in {0, 1}
    BY SubmitSets, SubmitsFinite DEF ToursCounted, ToursTyped, Offered
  <2> QED BY <1>4, <2>1, FS_EmptySet
<1>7. ToursCounted'
  BY <1>1, <1>3, <1>6 DEF ToursCounted
<1>8. NotOfferedAgain'
  <2>1. CASE OpenUpload
    BY <1>1, <2>1 DEF OpenUpload, NotOfferedAgain, ToursTyped
  <2>2. CASE CloseUpload
    BY <1>1, <2>2 DEF CloseUpload, NotOfferedAgain, ToursTyped, FormType
  <2>3. ASSUME NEW n \in 1..Chosen, SelectFile(n) PROVE NotOfferedAgain'
    <3>1. form'.choice = n /\ \A s \in 1..Submits : submit[s].choice < n
      BY <2>3 DEF SelectFile, FormType, ToursTyped
    <3>2. \A s \in 1..Submits : submit[s].choice # n
      BY <3>1 DEF ToursTyped
    <3> QED BY <1>1, <3>1, <3>2 DEF NotOfferedAgain
  <2> QED BY <2>1, <2>2, <2>3
<1> QED BY <1>5, <1>7, <1>8

\* A submit keeps the invariant.
LEMMA SubmitKeeps == ASSUME ToursInv, NEW s \in 1..Submits, SubmitUpload(s) PROVE ToursInv'
<1> USE DEF ToursInv
<1>1. PICK c \in 1..Chosen : c = form.choice
  BY DEF SubmitUpload, HasFile, ToursTyped, FormType
<1>2. /\ submit' = [submit EXCEPT ![s] = [step |-> "sending", choice |-> c]]
      /\ submit[s].step = "none" /\ UNCHANGED <<created, reoffered>>
  BY <1>1 DEF SubmitUpload
<1>3. form' \in FormType /\ form'.choice = c /\ form'.enabled = FALSE
  BY <1>1 DEF SubmitUpload, Submitted, ToursTyped, FormType
<1>4. form.enabled = TRUE /\ form.open = TRUE
  BY DEF SubmitUpload, ToursTyped, FormType
<1>5. ToursTyped'
  <2>1. [step |-> "sending", choice |-> c] \in [choice : 0..Chosen, step : SubmitSteps]
    BY UploadBounds DEF SubmitSteps
  <2>2. submit' \in [1..Submits -> [choice : 0..Chosen, step : SubmitSteps]]
    BY <1>2, <2>1 DEF ToursTyped
  <2>3. \A r \in 1..Submits : submit'[r].step # "none" <=> submit'[r].choice # 0
    BY <1>2 DEF ToursTyped
  <2> QED BY <1>2, <1>3, <2>2, <2>3 DEF ToursTyped
<1>6. /\ FailedSubmits' = FailedSubmits
      /\ \A d \in 1..Chosen :
           /\ ReachedOf(d)' = ReachedOf(d)
           /\ SubmitsOf(d)' = IF d = c THEN SubmitsOf(d) \cup {s} ELSE SubmitsOf(d)
  BY <1>2 DEF FailedSubmits, ReachedOf, SubmitsOf, ToursTyped, Ends
<1>7. ASSUME NEW d \in 1..Chosen PROVE Cardinality(SubmitsOf(d)') + Offered(d)' <= 1 + reoffered[d]
  <2>1. /\ Cardinality(SubmitsOf(d)) + Offered(d) <= 1 + reoffered[d]
        /\ Cardinality(SubmitsOf(d)) \in Nat /\ reoffered[d] \in Nat /\ Offered(d) \in {0, 1}
    BY SubmitSets, SubmitsFinite DEF ToursCounted, ToursTyped, Offered
  <2>2. Offered(d)' = 0 /\ (d = c => Offered(d) = 1)
    BY <1>1, <1>3, <1>4 DEF Offered
  <2>3. Cardinality(SubmitsOf(d) \cup {s}) <= Cardinality(SubmitsOf(d)) + 1
    BY <2>1, SubmitSets, SubmitsFinite
  <2>4. Cardinality(SubmitsOf(d) \cup {s}) \in Nat
    BY SubmitSets, SubmitsFinite, <2>1
  <2> QED BY <1>6, <2>1, <2>2, <2>3, <2>4
<1>8. ToursCounted'
  BY <1>2, <1>6, <1>7 DEF ToursCounted
<1>9. NotOfferedAgain'
  <2>1. form'.choice = form.choice /\ form'.open = form.open
    BY DEF SubmitUpload, Submitted, ToursTyped, FormType
  <2>2. \A r \in 1..Submits : submit'[r].step \in {"listing", "done"} =>
          submit[r].step \in {"listing", "done"} /\ submit'[r].choice = submit[r].choice
    BY <1>2 DEF ToursTyped
  <2> QED BY <2>1, <2>2 DEF NotOfferedAgain
<1> QED BY <1>5, <1>8, <1>9

\* How a submit that was sent goes on: stored once more, closed, listed, or failed.
LEMMA SubmitStepKeeps ==
  ASSUME ToursInv, NEW s \in 1..Submits, NEW step \in {"stored", "listing", "done"} \cup Ends,
         submit[s].step \in {"sending", "stored", "listing"},
         submit[s].step = "sending" => step = "stored" \/ step \in Ends,
         submit' = [submit EXCEPT ![s].step = step],
         form' \in FormType, form'.choice = form.choice, form'.open => form.open,
         step = "listing" => form'.open = FALSE,
         step = "done" => submit[s].step = "listing",
         IF step \in Ends
           THEN reoffered' = [d \in 1..Chosen |->
                                reoffered[d] + (IF form.open /\ form.choice = d THEN 1 ELSE 0)]
           ELSE reoffered' = reoffered /\ form'.enabled = form.enabled,
         IF step = "stored" THEN /\ submit[s].step = "sending"
                                 /\ created' = [created EXCEPT ![submit[s].choice] = @ + 1]
                            ELSE created' = created
  PROVE  ToursInv'
<1> USE DEF ToursInv
<1>1. PICK c \in 1..Chosen : c = submit[s].choice
  BY DEF ToursTyped
<1>2. /\ submit' \in [1..Submits -> [choice : 0..Chosen, step : SubmitSteps]]
      /\ \A r \in 1..Submits : submit'[r].choice = submit[r].choice
      /\ submit'[s].step = step /\ \A r \in 1..Submits \ {s} : submit'[r].step = submit[r].step
  BY DEF ToursTyped, SubmitSteps
<1>3. ToursTyped'
  <2>1. created' \in [1..Chosen -> Nat]
    BY <1>1 DEF ToursTyped
  <2>2. \A r \in 1..Submits : submit'[r].step # "none" <=> submit'[r].choice # 0
    BY <1>2 DEF ToursTyped, Ends
  <2>3. reoffered' \in [1..Chosen -> Nat]
    <3>1. \A d \in 1..Chosen : reoffered[d] \in Nat
      BY DEF ToursTyped
    <3>2. CASE step \in Ends
      BY <3>1, <3>2
    <3>3. CASE step \notin Ends
      BY <3>3 DEF ToursTyped
    <3> QED BY <3>2, <3>3
  <2> QED BY <1>2, <2>1, <2>2, <2>3 DEF ToursTyped
<1>4. /\ FailedSubmits' = IF step \in Ends THEN FailedSubmits \cup {s} ELSE FailedSubmits
      /\ s \notin FailedSubmits
  BY <1>2 DEF FailedSubmits, Ends
<1>5. ASSUME NEW d \in 1..Chosen
      PROVE  /\ SubmitsOf(d)' = SubmitsOf(d)
             /\ ReachedOf(d)' = IF d = c THEN ReachedOf(d) \cup {s} ELSE ReachedOf(d)
             /\ step = "stored" => s \notin ReachedOf(d)
  BY <1>1, <1>2 DEF SubmitsOf, ReachedOf, Ends
<1>6. ASSUME NEW d \in 1..Chosen
      PROVE  /\ reoffered'[d] <= Cardinality(FailedSubmits')
             /\ reoffered[d] \in Nat
             /\ reoffered'[d] = IF step \in Ends /\ form.open = TRUE /\ form.choice = d
                                  THEN reoffered[d] + 1 ELSE reoffered[d]
  <2>1. reoffered[d] \in Nat /\ reoffered[d] <= Cardinality(FailedSubmits)
    BY DEF ToursCounted, ToursTyped
  <2>2. /\ Cardinality(FailedSubmits) \in Nat
        /\ Cardinality(FailedSubmits \cup {s}) = Cardinality(FailedSubmits) + 1
    BY <1>4, SubmitSets, SubmitsFinite
  <2>3. form.open \in BOOLEAN
    BY DEF ToursTyped, FormType
  <2>4. reoffered'[d] = IF step \in Ends /\ form.open = TRUE /\ form.choice = d
                         THEN reoffered[d] + 1 ELSE reoffered[d]
    <3>1. CASE step \in Ends
      BY <2>1, <2>3, <3>1
    <3>2. CASE step \notin Ends
      BY <3>2
    <3> QED BY <3>1, <3>2
  <2> QED BY <1>4, <2>1, <2>2, <2>4
<1>7. ASSUME NEW d \in 1..Chosen PROVE created'[d] <= Cardinality(ReachedOf(d)')
  <2>1. /\ created[d] <= Cardinality(ReachedOf(d)) /\ created[d] \in Nat
        /\ ReachedOf(d) \in SUBSET (1..Submits)
    BY SubmitSets DEF ToursCounted, ToursTyped
  <2>2. /\ Cardinality(ReachedOf(d)) \in Nat
        /\ Cardinality(ReachedOf(d) \cup {s}) =
             IF s \in ReachedOf(d) THEN Cardinality(ReachedOf(d)) ELSE Cardinality(ReachedOf(d)) + 1
    BY <2>1, SubmitsFinite
  <2>3. created'[d] = IF d = c /\ step = "stored" THEN created[d] + 1 ELSE created[d]
    BY <1>1 DEF ToursTyped
  <2>4. CASE d = c
    <3>1. ReachedOf(d)' = ReachedOf(d) \cup {s} /\ (step = "stored" => s \notin ReachedOf(d))
      BY <1>5, <2>4
    <3> QED BY <2>1, <2>2, <2>3, <2>4, <3>1
  <2>5. CASE d # c
    BY <1>5, <2>1, <2>2, <2>3, <2>5
  <2> QED BY <2>4, <2>5
<1>8. ASSUME NEW d \in 1..Chosen PROVE Cardinality(SubmitsOf(d)') + Offered(d)' <= 1 + reoffered'[d]
  <2>1. /\ Cardinality(SubmitsOf(d)) + Offered(d) <= 1 + reoffered[d]
        /\ Cardinality(SubmitsOf(d)) \in Nat /\ Offered(d) \in {0, 1} /\ Offered(d)' \in {0, 1}
    BY SubmitSets, SubmitsFinite DEF ToursCounted, Offered
  <2>2. form'.open = TRUE => form.open = TRUE
    BY DEF ToursTyped, FormType
  <2>3. step \notin Ends => Offered(d)' = 0 \/ Offered(d)' = Offered(d)
    BY <2>2 DEF Offered
  <2>4. ~(form.open = TRUE /\ form.choice = d) => Offered(d)' = 0
    BY <2>2 DEF Offered
  <2>5. SubmitsOf(d)' = SubmitsOf(d) /\ reoffered[d] \in Nat
    BY <1>5, <1>6
  <2>6. CASE step \in Ends /\ form.open = TRUE /\ form.choice = d
    <3>1. reoffered'[d] = reoffered[d] + 1
      BY <1>6, <2>6
    <3> QED BY <2>1, <2>5, <3>1
  <2>7. CASE ~(step \in Ends /\ form.open = TRUE /\ form.choice = d)
    <3>1. reoffered'[d] = reoffered[d]
      BY <1>6, <2>7
    <3>2. Offered(d)' = 0 \/ Offered(d)' = Offered(d)
      BY <2>3, <2>4, <2>7
    <3> QED BY <2>1, <2>5, <3>1, <3>2
  <2> QED BY <2>6, <2>7
<1>9. ToursCounted'
  BY <1>6, <1>7, <1>8 DEF ToursCounted
<1>10. NotOfferedAgain'
  <2>1. \A r \in 1..Submits : submit'[r].step \in {"listing", "done"} =>
          submit[r].step \in {"listing", "done"} \/ form'.open = FALSE
    BY <1>2 DEF Ends, ToursTyped
  <2> QED BY <1>2, <2>1 DEF NotOfferedAgain
<1> QED BY <1>3, <1>9, <1>10

\* A failure shown enables the button.
LEMMA ShowFailureKeeps ==
  ASSUME ToursInv, NEW s \in 1..Submits, NEW step \in Ends, submit[s].step \in {"sending", "stored"},
         ShowFailure(s, step)
  PROVE  ToursInv'
<1>1. form \in FormType
  BY DEF ToursInv, ToursTyped
<1>2. form' \in FormType /\ form'.choice = form.choice /\ form'.open = form.open
  BY <1>1 DEF ShowFailure, FormType
<1>3. /\ submit' = [submit EXCEPT ![s].step = step] /\ created' = created
      /\ reoffered' = [d \in 1..Chosen |->
                         reoffered[d] + (IF form.open /\ form.choice = d THEN 1 ELSE 0)]
  BY DEF ShowFailure
<1>4. step \notin {"stored", "listing", "done"} /\ step \in {"stored", "listing", "done"} \cup Ends
  BY DEF Ends
<1> HIDE DEF Ends
<1> QED BY <1>2, <1>3, <1>4, SubmitStepKeeps

\* What becomes of a submit keeps it.
LEMMA SubmittedSteps ==
  ASSUME ToursInv, NEW s \in 1..Submits,
         \/ ServerCreates(s) \/ TourAnswered(s) \/ SelectCreated(s)
         \/ TourFails(s) \/ TourUnreadable(s)
  PROVE  ToursInv'
<1>1. form \in FormType /\ \A step \in {"stored", "listing", "done"} : step \notin Ends
  BY DEF ToursInv, ToursTyped, Ends
<1>2. CASE ServerCreates(s)
  <2>1. /\ submit[s].step = "sending" /\ submit' = [submit EXCEPT ![s].step = "stored"]
        /\ created' = [created EXCEPT ![submit[s].choice] = @ + 1]
        /\ reoffered' = reoffered /\ form' = form /\ "stored" \notin Ends
    BY <1>1, <1>2 DEF ServerCreates
  <2>2. "stored" \in {"stored", "listing", "done"} \cup Ends
    OBVIOUS
  <2> QED BY <1>1, <2>1, <2>2, SubmitStepKeeps
<1>3. CASE TourAnswered(s)
  <2>1. form' \in FormType /\ form'.choice = form.choice /\ form'.enabled = form.enabled /\ form'.open = FALSE
    BY <1>1, <1>3 DEF TourAnswered, FormType
  <2>2. /\ submit[s].step = "stored" /\ submit' = [submit EXCEPT ![s].step = "listing"]
        /\ created' = created /\ reoffered' = reoffered /\ "listing" \notin Ends
    BY <1>1, <1>3 DEF TourAnswered
  <2> QED BY <2>1, <2>2, SubmitStepKeeps
<1>4. CASE SelectCreated(s)
  <2>1. /\ submit[s].step = "listing" /\ submit' = [submit EXCEPT ![s].step = "done"]
        /\ created' = created /\ reoffered' = reoffered /\ form' = form /\ "done" \notin Ends
    BY <1>1, <1>4 DEF SelectCreated
  <2>2. "done" \in {"stored", "listing", "done"} \cup Ends
    OBVIOUS
  <2> QED BY <1>1, <2>1, <2>2, SubmitStepKeeps
<1>5. CASE TourFails(s)
  BY <1>5, ShowFailureKeeps DEF TourFails, Sending, Ends
<1>6. CASE TourUnreadable(s)
  BY <1>6, ShowFailureKeeps DEF TourUnreadable, Ends
<1> QED BY <1>2, <1>3, <1>4, <1>5, <1>6

\* The invariant of the uploaded tours is inductive.
LEMMA ToursInvariant ==
  /\ UploadsInit => ToursInv
  /\ ToursInv /\ [UploadsNext]_uploadsVars => ToursInv'
<1>1. ASSUME UploadsInit PROVE ToursInv
  <2>1. /\ form = [open |-> FALSE, choice |-> 0, enabled |-> FALSE]
        /\ reoffered = [c \in 1..Chosen |-> 0]
        /\ submit = [s \in 1..Submits |-> [step |-> "none", choice |-> 0]]
        /\ created = [c \in 1..Chosen |-> 0]
    BY <1>1 DEF UploadsInit
  <2>2. ToursTyped
    BY <2>1, UploadBounds DEF ToursTyped, FormType, SubmitSteps
  <2>3. FailedSubmits = {} /\ \A c \in 1..Chosen : SubmitsOf(c) = {} /\ ReachedOf(c) = {} /\ Offered(c) = 0
    BY <2>1 DEF FailedSubmits, SubmitsOf, ReachedOf, Offered, Ends
  <2>4. ToursCounted
    <3>1. Cardinality({}) = 0
      BY FS_EmptySet
    <3>2. ASSUME NEW c \in 1..Chosen
          PROVE  /\ created[c] = 0 /\ Cardinality(ReachedOf(c)) = 0
                 /\ Cardinality(SubmitsOf(c)) = 0 /\ Offered(c) = 0
      <4>1. ReachedOf(c) = {} /\ SubmitsOf(c) = {} /\ Offered(c) = 0
        BY <2>3
      <4> QED BY ONLY <4>1, <3>1, <2>1, c \in 1..Chosen
    <3>3. Cardinality(FailedSubmits) = 0
      BY ONLY <2>3, <3>1
    <3>4. \A c \in 1..Chosen : reoffered[c] = 0
      BY <2>1
    <3> QED BY <3>2, <3>3, <3>4 DEF ToursCounted
  <2>5. NotOfferedAgain
    BY <2>1 DEF NotOfferedAgain
  <2> QED BY <2>2, <2>4, <2>5 DEF ToursInv
<1>2. ASSUME ToursInv, UNCHANGED tourVars PROVE ToursInv'
  <2>1. ToursTyped'
    BY <1>2 DEF ToursInv, ToursTyped, tourVars, FormType, SubmitSteps
  <2>2. ToursCounted'
    BY <1>2 DEF ToursInv, ToursCounted, tourVars, FailedSubmits, SubmitsOf, ReachedOf, Offered
  <2>3. NotOfferedAgain'
    BY <1>2 DEF ToursInv, NotOfferedAgain, tourVars
  <2> QED BY <2>1, <2>2, <2>3 DEF ToursInv
<1>3. PanelNext \/ PhotoNext => UNCHANGED tourVars
  BY DEF PanelNext, PhotoNext, SelectTour, LeavePanel, RendersGallery, PanelDetailArrives, DropPhotos,
         QueuePhotos, SendPhoto, ServerStores, PhotoAnswered, PhotoUnreadable, PhotoFails
<1>4. ASSUME ToursInv, TourNext PROVE ToursInv'
  BY <1>4, FormKeeps, SubmitKeeps, SubmittedSteps DEF TourNext
<1> QED BY <1>1, <1>2, <1>3, <1>4 DEF UploadsNext, uploadsVars

\* A photo is stored once for each answer that did not arrive, a tour's file sent once for each
\* time the dialog offered it, and never again once its answer was read.
THEOREM UploadsAlwaysSound == UploadsSpec => []UploadsSound
<1>1. PhotosInv /\ ToursInv => UploadsSound
  <2> SUFFICES ASSUME PhotosInv, ToursInv PROVE UploadsSound
    OBVIOUS
  <2>1. ASSUME NEW f \in Files
        PROVE  /\ storedCopies[f] \in 0..Attempts /\ lost[f] \in 0..Attempts
               /\ storedCopies[f] <= 1 + lost[f]
    <3>1. /\ PhotoCounted(job[f], storedCopies[f], lost[f]) /\ job[f].tries \in 0..Attempts
          /\ storedCopies[f] \in Nat /\ lost[f] \in Nat
      BY DEF PhotosInv, PhotosCounted, PhotosTyped, JobType
    <3> QED BY <3>1, UploadBounds DEF PhotoCounted, Awaited, Taken
  <2>2. ASSUME NEW c \in 1..Chosen
        PROVE  /\ created[c] \in 0..Submits /\ reoffered[c] \in 0..Submits
               /\ Cardinality(SubmitsOf(c)) <= 1 + reoffered[c]
    <3>1. /\ ReachedOf(c) \in SUBSET (1..Submits) /\ SubmitsOf(c) \in SUBSET (1..Submits)
          /\ FailedSubmits \in SUBSET (1..Submits)
          /\ created[c] <= Cardinality(ReachedOf(c)) /\ created[c] \in Nat
          /\ reoffered[c] <= Cardinality(FailedSubmits) /\ reoffered[c] \in Nat
          /\ Cardinality(SubmitsOf(c)) + Offered(c) <= 1 + reoffered[c]
      BY SubmitSets DEF ToursInv, ToursCounted, ToursTyped
    <3>2. /\ Cardinality(SubmitsOf(c)) \in 0..Submits /\ Cardinality(ReachedOf(c)) \in 0..Submits
          /\ Cardinality(FailedSubmits) \in 0..Submits
      BY <3>1, SubmitsFinite
    <3> QED BY <3>1, <3>2, UploadBounds DEF Offered
  <2>3. reoffered \in [1..Chosen -> 0..Submits]
    BY <2>2 DEF ToursInv, ToursTyped
  <2>4. storedCopies \in [Files -> 0..Attempts] /\ lost \in [Files -> 0..Attempts]
    BY <2>1 DEF PhotosInv, PhotosTyped
  <2>5. created \in [1..Chosen -> 0..Submits]
    BY <2>2 DEF ToursInv, ToursTyped
  <2>6. {panelShown} \subseteq BOOLEAN
    BY DEF PhotosInv, PanelTyped
  <2>7. UploadsTypeOK
    <3>1. /\ images \subseteq Files /\ grid \subseteq Files
          /\ visit \in 0..Visits /\ pendingDetails \subseteq 1..visit
      BY DEF PhotosInv, PanelTyped
    <3>2. photoBatch \in [1..Batches -> [step : {"none", "waiting", "running", "done"},
                                         visit : 0..Visits, files : Seq(Files)]]
      BY DEF PhotosInv, PhotosTyped, BatchType
    <3>3. job \in [Files -> [batch : 1..Batches, tries : 0..Attempts, step : {"none", "refused",
            "queued", "sending", "stored", "done", "unreadable", "retryable"}]]
      BY DEF PhotosInv, PhotosTyped, JobType
    <3>4. form \in [open : BOOLEAN, choice : 0..Chosen, enabled : BOOLEAN]
      BY DEF ToursInv, ToursTyped, FormType
    <3>5. /\ submit \in [1..Submits -> [choice : 0..Chosen,
               step : {"none", "sending", "stored", "listing", "done", "failed", "lost", "unreadable"}]]
          /\ \A s \in 1..Submits : submit[s].step # "none" <=> submit[s].choice # 0
      BY DEF ToursInv, ToursTyped, SubmitSteps, Ends
    <3> QED BY <2>3, <2>4, <2>5, <2>6, <3>1, <3>2, <3>3, <3>4, <3>5 DEF UploadsTypeOK
  <2>8. NotOfferedAgain
    BY DEF ToursInv
  <2> QED BY <2>1, <2>2, <2>7, <2>8 DEF UploadsSound, PhotoStoredOnce, SentAgainIfOffered
<1> QED BY <1>1, PhotosInvariant, ToursInvariant, PTL DEF UploadsSpec

=============================================================================
