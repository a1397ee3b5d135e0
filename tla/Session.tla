------------------------------ MODULE Session ------------------------------
(* A rider's session in one tab: how a page load finds it (ui/auth.js,        *)
(* lib/authFlow.js), how its requests get a token and what a 401 or a 410     *)
(* does to it (lib/session.js, ui/api.js, ui/profile.js).  Entra, its cookie  *)
(* and MSAL's cache are the environment; dev auth is left out.                *)
EXTENDS Naturals

CONSTANT Requests     \* the kinds of request that run side by side

ASSUME SessionAssumption == Requests \subseteq {"tours", "me", "name", "delete"}

VARIABLES
  storage,            \* the browser lets the page store flags
  signedInFlag,       \* bb-signed-in, in localStorage
  triedFlag, tried,   \* bb-silent-sign-in, in sessionStorage; and what this load read of it
  account, refresh, cookie,   \* MSAL knows an account; its refresh token, Entra's cookie live
  sessionLoad,               \* where the page load stands, or where the page has gone
  answer,             \* the redirect's answer the next load finds
  user,               \* state.user is there
  acquiring,          \* the one silent acquire parallel requests share
  sessionRequest,            \* each request's step
  asks, silentRow, out
     \* asked to sign in since a user was last there; silent redirects since the rider
     \* acted; the rider has signed out, or deleted the account

flagVars == <<storage, signedInFlag, triedFlag, tried>>
entraVars == <<account, refresh, cookie>>
sessionVars ==
  <<flagVars, entraVars, sessionLoad, answer, user, acquiring, sessionRequest, asks, silentRow, out>>

Silent == [r \in Requests |-> "idle"]

SessionInit ==
  /\ storage \in BOOLEAN /\ signedInFlag \in {FALSE, storage} /\ triedFlag = FALSE /\ tried = FALSE
  /\ account \in BOOLEAN /\ refresh \in {FALSE, account} /\ cookie \in BOOLEAN
  /\ sessionLoad = "handling" /\ answer = "none" /\ user = FALSE
  /\ acquiring = FALSE /\ sessionRequest = Silent /\ asks = 0 /\ silentRow = 0 /\ out = FALSE

-----------------------------------------------------------------------------
(* Starting the page.                                                        *)

(* start() and takeSilentSignInFlag: a new page, nothing in flight.          *)
StartsPage(found) ==
  /\ sessionLoad' = "handling" /\ answer' = found /\ user' = FALSE /\ asks' = 0
  /\ tried' = triedFlag /\ triedFlag' = FALSE
  /\ acquiring' = FALSE /\ sessionRequest' = Silent

Reload ==
  /\ sessionLoad \in {"ready", "left"} /\ StartsPage("none") /\ silentRow' = 0
  /\ UNCHANGED <<storage, signedInFlag, entraVars, out>>

(* startSignedIn and renderSignedIn: /tours and /me at once, one acquire.    *)
StartSignedIn ==
  /\ user' = TRUE /\ asks' = 0 /\ out' = FALSE /\ silentRow' = 0
  /\ signedInFlag' = storage
  /\ sessionRequest' = [r \in Requests |-> IF r \in {"tours", "me"} THEN "token" ELSE sessionRequest[r]]
  /\ acquiring' = TRUE

NoOneSignedIn == UNCHANGED <<user, sessionRequest, acquiring, out, silentRow>>

(* endLapsedSession: the next load must not try silently again.              *)
EndLapsedSession ==
  /\ signedInFlag' = FALSE /\ asks' = asks + 1 /\ NoOneSignedIn

(* initAuth once handleRedirectPromise has settled.                          *)
HandleRedirect ==
  /\ sessionLoad = "handling" /\ answer' = "none"
  /\ \/ /\ answer = "result" /\ sessionLoad' = "ready" /\ StartSignedIn
     \/ /\ answer = "error" /\ sessionLoad' = "ready" /\ NoOneSignedIn
        /\ IF tried THEN signedInFlag' = FALSE /\ asks' = asks + 1
                    ELSE UNCHANGED <<signedInFlag, asks>>
     \/ /\ answer = "none" /\ sessionLoad' = "checking" /\ NoOneSignedIn
        /\ UNCHANGED <<signedInFlag, asks>>
  /\ UNCHANGED <<storage, triedFlag, tried, entraVars>>

(* isSessionUsable: an offline check counts as usable.                       *)
startupStep(usable) ==
  CASE account /\ usable -> "restore"
    [] ~(account /\ usable) /\ signedInFlag /\ ~tried -> "silent-sign-in"
    [] OTHER -> IF signedInFlag \/ account THEN "session-ended" ELSE "signed-out"

Notes == storage

RestoreSession ==
  /\ sessionLoad = "checking"
  /\ \E usable \in {refresh, TRUE} :
       LET step == startupStep(usable) IN
       /\ sessionLoad' = IF step = "silent-sign-in" THEN "silent" ELSE "ready"
       /\ CASE step = "restore" -> StartSignedIn /\ UNCHANGED triedFlag
            [] step = "session-ended" -> EndLapsedSession /\ UNCHANGED triedFlag
            [] step = "silent-sign-in" ->
                 /\ triedFlag' = Notes /\ silentRow' = silentRow + 1
                 /\ UNCHANGED <<user, sessionRequest, acquiring, out, asks, signedInFlag>>
            [] step = "signed-out" ->
                 NoOneSignedIn /\ UNCHANGED <<asks, signedInFlag, triedFlag>>
  /\ UNCHANGED <<storage, tried, entraVars, answer>>

(* Entra answers at once, from its cookie or with an error, and the rider may *)
(* come back without an answer at all.                                       *)
SilentAnswered ==
  /\ sessionLoad = "silent"
  /\ \/ cookie /\ StartsPage("result") /\ account' = TRUE /\ refresh' = TRUE
     \/ StartsPage("error") /\ UNCHANGED <<account, refresh>>
     \/ StartsPage("none") /\ UNCHANGED <<account, refresh>>
  /\ UNCHANGED <<storage, signedInFlag, cookie, silentRow, out>>

(* signIn: the rider at Entra's page.                                        *)
SignIn ==
  /\ sessionLoad = "ready" /\ ~user /\ sessionLoad' = "interactive" /\ silentRow' = 0
  /\ UNCHANGED <<flagVars, entraVars, answer, user, acquiring, sessionRequest, asks, out>>

SignInAnswered ==
  /\ sessionLoad = "interactive"
  /\ \/ /\ StartsPage("result") /\ account' = TRUE /\ refresh' = TRUE /\ cookie' = TRUE
        /\ out' = FALSE
     \/ StartsPage("error") /\ UNCHANGED <<entraVars, out>>
  /\ UNCHANGED <<storage, signedInFlag, silentRow>>

(* The refresh token runs out after a day, the cookie with the browser.      *)
Lapse ==
  /\ \/ refresh /\ refresh' = FALSE /\ UNCHANGED cookie
     \/ cookie /\ cookie' = FALSE /\ UNCHANGED refresh
  /\ UNCHANGED <<flagVars, account, sessionLoad, answer, user, acquiring, sessionRequest, asks,
                 silentRow, out>>

-----------------------------------------------------------------------------
(* The end of a session.                                                     *)

(* endLocalSession: the flag, MSAL's cache and what the page shows.          *)
EndLocalSession ==
  /\ signedInFlag' = FALSE /\ account' = FALSE /\ refresh' = FALSE /\ user' = FALSE
  /\ out' = TRUE

\* Mutant: only the page forgets the session, before it leaves for Entra.
ForgottenLater == signedInFlag
Forgotten == FALSE

(* signOut: the page leaves for Entra, or the local session ends anyway.     *)
SignOut ==
  /\ sessionLoad = "ready" /\ user
  /\ \/ /\ sessionLoad' = "left" /\ signedInFlag' = Forgotten /\ account' = FALSE /\ refresh' = FALSE
        /\ cookie' = FALSE /\ out' = TRUE /\ UNCHANGED user
     \/ EndLocalSession /\ UNCHANGED <<sessionLoad, cookie>>
  /\ UNCHANGED <<storage, triedFlag, tried, answer, acquiring, sessionRequest, asks, silentRow>>


(* askToSignInAgain: once for however many requests find the session gone.   *)
AskToSignInAgain ==
  /\ user' = FALSE /\ asks' = IF user THEN asks + 1 ELSE asks

-----------------------------------------------------------------------------
(* Requests.                                                                 *)

PageRuns == sessionLoad = "ready"

(* What the rider starts: opening or saving the profile, deleting the account. *)
StartRequest(r) ==
  /\ PageRuns /\ user /\ sessionRequest[r] = "idle"
  /\ sessionRequest' = [sessionRequest EXCEPT ![r] = "token"] /\ acquiring' = TRUE
  /\ UNCHANGED <<flagVars, entraVars, sessionLoad, answer, user, asks, silentRow, out>>

Given(r, step) == [sessionRequest EXCEPT ![r] = step]
AllGiven(step) == [r \in Requests |-> IF sessionRequest[r] = "token" THEN step ELSE sessionRequest[r]]

(* How acquireTokenSilent ends: without an account '' stands in for a token; *)
(* needsSignIn tells a session that has lapsed from a network that is down.  *)
AcquireOutcomes ==
  (IF refresh \/ ~account THEN {"token"} ELSE {"expired"}) \cup {"offline"}

(* token(): all who wait are given the one outcome.                          *)
Acquired ==
  /\ PageRuns /\ acquiring /\ acquiring' = FALSE
  /\ \E outcome \in AcquireOutcomes :
       /\ sessionRequest' = AllGiven(IF outcome = "token" THEN "sent" ELSE "idle")
       /\ IF outcome = "expired" THEN AskToSignInAgain ELSE UNCHANGED <<user, asks>>
  /\ UNCHANGED <<flagVars, entraVars, sessionLoad, answer, silentRow, out>>


(* A 401: a fresh token first; the second 401 ends the session.              *)
Unauthorized(r) ==
  IF sessionRequest[r] = "sent" THEN sessionRequest' = Given(r, "fresh") /\ UNCHANGED <<user, asks>>
  ELSE sessionRequest' = Given(r, "idle") /\ AskToSignInAgain

FreshTokenAcquired(r) ==
  /\ PageRuns /\ sessionRequest[r] = "fresh"
  /\ \E outcome \in AcquireOutcomes :
       /\ sessionRequest' = Given(r, IF outcome = "token" THEN "resent" ELSE "idle")
       /\ IF outcome = "expired" THEN AskToSignInAgain ELSE UNCHANGED <<user, asks>>
  /\ UNCHANGED <<flagVars, entraVars, sessionLoad, answer, acquiring, silentRow, out>>

Refused(r) ==
  /\ PageRuns /\ sessionRequest[r] \in {"sent", "resent"} /\ Unauthorized(r)
  /\ UNCHANGED <<flagVars, entraVars, sessionLoad, answer, acquiring, silentRow, out>>

(* refreshUser and saveProfileName merge their answer into whatever          *)
(* state.user is by then; a failure or any other answer leaves it.           *)
Answered(r) ==
  /\ PageRuns /\ sessionRequest[r] \in {"sent", "resent"} /\ sessionRequest' = Given(r, "idle")
  /\ \/ UNCHANGED <<user, asks>>
     \/ r \in {"me", "name"} /\ user' = TRUE /\ asks' = 0
  /\ UNCHANGED <<flagVars, entraVars, sessionLoad, answer, acquiring, silentRow, out>>

(* signOutDeletedAccount on /me's 410, deleteMyAccount on its success.       *)
AccountGone(r) ==
  /\ PageRuns /\ r \in {"me", "delete"} /\ sessionRequest[r] \in {"sent", "resent"}
  /\ sessionRequest' = Given(r, "idle") /\ EndLocalSession
  /\ UNCHANGED <<storage, triedFlag, tried, cookie, sessionLoad, answer, acquiring, asks, silentRow>>

SessionNext ==
  \/ Reload \/ HandleRedirect \/ RestoreSession \/ SilentAnswered \/ SignIn \/ SignInAnswered
  \/ Lapse \/ SignOut \/ Acquired
  \/ \E r \in Requests :
       StartRequest(r) \/ FreshTokenAcquired(r) \/ Refused(r) \/ Answered(r) \/ AccountGone(r)

(* MSAL and fetch settle; a load is handled and checked.                     *)
RequestSettles(r) == FreshTokenAcquired(r) \/ Refused(r) \/ Answered(r)
SessionFairness ==
  /\ WF_sessionVars(HandleRedirect) /\ WF_sessionVars(RestoreSession)
  /\ WF_sessionVars(SilentAnswered) /\ WF_sessionVars(Acquired)
  /\ \A r \in Requests : WF_sessionVars(RequestSettles(r))

-----------------------------------------------------------------------------
(* Properties.                                                               *)

(* The session's state is of its type: the type invariant of this module.    *)
SessionTypeOK ==
  /\ {storage, signedInFlag, triedFlag, tried, account, refresh, cookie, user, acquiring, out}
       \subseteq BOOLEAN
  /\ sessionLoad \in {"handling", "checking", "silent", "interactive", "left", "ready"}
  /\ answer \in {"none", "result", "error"}
  /\ sessionRequest \in [Requests -> {"idle", "token", "sent", "fresh", "resent"}]
  /\ asks \in Nat /\ silentRow \in Nat

(* However a silent sign-in ends, with an answer, an error or the rider's    *)
(* Back, no second one follows by itself (auth.js, SILENT_SIGN_IN_KEY).      *)
SilentOnce == silentRow <= 1

(* A rider who signed out, or whose account is gone, is not signed in again  *)
(* silently by a later load (auth.js, forgetSignedIn).                       *)
SignOutStays == out => sessionLoad # "silent"

(* However many requests find the session gone, the rider is asked once      *)
(* (auth.js, askToSignInAgain).  An answer to /me that comes late sets the   *)
(* rider again (auth.js:288), and with it a session there is to lose anew.   *)
AskedOnce == asks <= 1

(* Parallel requests all end while the page is there, after one retry at     *)
(* most (session.js).                                                        *)
RequestsEnd == \A r \in Requests : []<>(sessionRequest[r] = "idle" \/ sessionLoad # "ready")

(* However loads, parallel requests, lapses and sign-outs come together, a   *)
(* rider is neither signed in against their will nor asked again and again   *)
(* (auth.js, session.js).                                                    *)
SessionSound == SessionTypeOK /\ SilentOnce /\ SignOutStays /\ AskedOnce

=============================================================================
