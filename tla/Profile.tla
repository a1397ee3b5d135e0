------------------------------- MODULE Profile -------------------------------
(***************************************************************************)
(* One rider's profile document under concurrent GetMe, UpdateProfile and  *)
(* DeleteAccount: created on the first sign-in, filled from the token's     *)
(* claims, edited by the rider. Every remote call is one step.              *)
(***************************************************************************)
EXTENDS Naturals

CONSTANT Request  \* the requests of a run; what a request sets a field to is the request itself

ASSUME ProfileAssumption == \A r \in Request : r \notin {"blank", "claim"}

VARIABLES
  profile,  \* the user document, Absent while there is none
  writes,   \* the writes of it so far: no _etag comes twice
  queued,   \* whether the rider is in the deletions container
  call,     \* the state of each request's handler
  seen      \* history: the contents the document had while a request was under way

vars == <<profile, writes, queued, call, seen>>

-----------------------------------------------------------------------------
\* A field is blank, taken from the token, or what a request of the rider set it to.
Field == {"name", "email", "language"}
Fields == [Field -> {"blank", "claim"} \cup Request]
Blank == [f \in Field |-> "blank"]

Document == [etag: Nat, field: Fields]
Absent == [etag |-> 0, field |-> Blank]
Exists == profile.etag # 0

\* The claims a token may carry.
Claims == SUBSET {"name", "email"}

Op == {"none", "getMe", "updateProfile", "deleteAccount"}

\* The remote call a handler awaits next.
Pc == {"idle", "done",
       "read", "create", "readWinner", "replace", "reread",   \* GetMe
       "readToUpdate", "upsert",                              \* UpdateProfile
       "queue", "deleteProfile"}                              \* DeleteAccount

Call == [op: Op, pc: Pc,
         claims: Claims,
         sets: SUBSET Field,    \* the fields an UpdateProfile carries
         current: Document,     \* the document as last read
         answer: {"none", "ok", "refused", "failed"},
         body: Fields]          \* the profile a 200 carries

TypeOK ==
  /\ profile \in Document
  /\ writes \in Nat
  /\ queued \in BOOLEAN
  /\ call \in [Request -> Call]
  /\ seen \in [Request -> SUBSET Fields]

Init ==
  /\ profile = Absent /\ writes = 0 /\ queued = FALSE
  /\ call = [r \in Request |-> [op |-> "none", pc |-> "idle", claims |-> {}, sets |-> {},
                                current |-> Absent, answer |-> "none", body |-> Blank]]
  /\ seen = [r \in Request |-> {}]

-----------------------------------------------------------------------------
UnderWay(r) == call[r].pc \notin {"idle", "done"}

Goto(r, pc, current) == call' = [call EXCEPT ![r].pc = pc, ![r].current = current]

Finish(r, answer, body) ==
  call' = [call EXCEPT ![r].pc = "done", ![r].claims = {}, ![r].current = Absent,
                       ![r].answer = answer, ![r].body = body]

Fail(r) == Finish(r, "failed", Blank)

\* A write of the document, answered, or applied with its answer lost.
Save(r, fields) ==
  /\ writes' = writes + 1
  /\ profile' = [etag |-> writes + 1, field |-> fields]
  /\ seen' = [q \in Request |-> IF UnderWay(q) THEN seen[q] \cup {fields} ELSE seen[q]]
  /\ Finish(r, "ok", fields) \/ Fail(r)

\* 410 while the rider is queued (GetMe and UpdateProfile; DeleteAccount may be asked again).
Begin(r, op, pc, claims, sets) ==
  /\ call[r].pc = "idle"
  /\ LET refused == queued /\ op # "deleteAccount" IN
     call' = [call EXCEPT ![r].op = op, ![r].claims = claims, ![r].sets = sets,
                          ![r].pc = IF refused THEN "done" ELSE pc,
                          ![r].answer = IF refused THEN "refused" ELSE "none"]
  /\ seen' = [seen EXCEPT ![r] = IF Exists THEN {profile.field} ELSE {}]
  /\ UNCHANGED <<profile, writes, queued>>

-----------------------------------------------------------------------------
\* GetMe: read or create, then fill what is blank from the claims, if unchanged since read.
BeginGetMe(r) == \E claims \in Claims : Begin(r, "getMe", "read", claims, {})

NewProfile(claims) == [f \in Field |-> IF f \in claims THEN "claim" ELSE "blank"]

Missing(r, fields) == {f \in call[r].claims : fields[f] = "blank"}
Filled(r, fields) == [f \in Field |-> IF f \in Missing(r, fields) THEN "claim" ELSE fields[f]]

\* Mutant: a profile that has anything to fill is answered as filled, and written later if at all.
BackfillAnswersFilled(r, stored) == Finish(r, "ok", Filled(r, stored.field))
Backfill(r, stored) ==
  IF Missing(r, stored.field) = {} THEN Finish(r, "ok", stored.field)
                                   ELSE Goto(r, "replace", stored)

ReadProfile(r) ==
  /\ call[r].pc = "read"
  /\ IF Exists THEN Backfill(r, profile) ELSE Goto(r, "create", Absent)
  /\ UNCHANGED <<profile, writes, queued, seen>>

\* The new document holds every claim, so nothing is left to fill.
CreateProfile(r) ==
  /\ call[r].pc = "create" /\ ~Exists
  /\ Save(r, NewProfile(call[r].claims))
  /\ UNCHANGED queued

\* 409: another request just created it.
CreateConflicts(r) ==
  /\ call[r].pc = "create" /\ Exists
  /\ Goto(r, "readWinner", Absent)
  /\ UNCHANGED <<profile, writes, queued, seen>>

\* A winner that was deleted again reads as undefined, and filling it throws.
ReadWinner(r) ==
  /\ call[r].pc = "readWinner"
  /\ IF Exists THEN Backfill(r, profile) ELSE Fail(r)
  /\ UNCHANGED <<profile, writes, queued, seen>>

\* Mutant: the replace is not conditional on the ETag.
MatchesWithoutETag(r) == Exists
Matches(r) == Exists /\ profile.etag = call[r].current.etag

ReplaceProfile(r) ==
  /\ call[r].pc = "replace" /\ Matches(r)
  /\ Save(r, Filled(r, call[r].current.field))
  /\ UNCHANGED queued

\* 412 reads again; a 404 is rethrown.
ReplaceRefused(r) ==
  /\ call[r].pc = "replace" /\ ~Matches(r)
  /\ IF Exists THEN Goto(r, "reread", call[r].current) ELSE Fail(r)
  /\ UNCHANGED <<profile, writes, queued, seen>>

RereadProfile(r) ==
  /\ call[r].pc = "reread"
  /\ Finish(r, "ok", IF Exists THEN profile.field ELSE call[r].current.field)
  /\ UNCHANGED <<profile, writes, queued, seen>>

-----------------------------------------------------------------------------
\* UpdateProfile: a name, a language or both onto what was read, upserted without a condition.
BeginUpdateProfile(r) ==
  \E claims \in Claims, sets \in SUBSET {"name", "language"} \ {{}} :
    Begin(r, "updateProfile", "readToUpdate", claims, sets)

\* Without a profile, a new one with the email of the token but not its name.
ReadToUpdate(r) ==
  /\ call[r].pc = "readToUpdate"
  /\ Goto(r, "upsert",
          IF Exists THEN profile
                    ELSE [Absent EXCEPT !.field = NewProfile(call[r].claims \ {"name"})])
  /\ UNCHANGED <<profile, writes, queued, seen>>

Upsert(r) ==
  /\ call[r].pc = "upsert"
  /\ Save(r, [f \in Field |-> IF f \in call[r].sets THEN r ELSE call[r].current.field[f]])
  /\ UNCHANGED queued

-----------------------------------------------------------------------------
\* DeleteAccount, as far as the profile goes: queue, then delete (see AccountDeletion).
BeginDeleteAccount(r) == Begin(r, "deleteAccount", "queue", {}, {})

Queue(r) ==
  /\ call[r].pc = "queue"
  /\ queued' = TRUE
  /\ Goto(r, "deleteProfile", Absent)
  /\ UNCHANGED <<profile, writes, seen>>

DeleteProfile(r) ==
  /\ call[r].pc = "deleteProfile"
  /\ profile' = Absent
  /\ Finish(r, "ok", Blank)
  /\ UNCHANGED <<writes, queued, seen>>

\* An awaited call rejects without having been applied, or the instance stops.
CallRejects(r) ==
  /\ UnderWay(r)
  /\ Fail(r)
  /\ UNCHANGED <<profile, writes, queued, seen>>

Step(r) ==
  \/ BeginGetMe(r) \/ BeginUpdateProfile(r) \/ BeginDeleteAccount(r)
  \/ ReadProfile(r) \/ CreateProfile(r) \/ CreateConflicts(r) \/ ReadWinner(r)
  \/ ReplaceProfile(r) \/ ReplaceRefused(r) \/ RereadProfile(r)
  \/ ReadToUpdate(r) \/ Upsert(r)
  \/ Queue(r) \/ DeleteProfile(r)
  \/ CallRejects(r)

\* Every request of the run has been answered.
Rest == (\A r \in Request : call[r].pc = "done") /\ UNCHANGED vars

Next == (\E r \in Request : Step(r)) \/ Rest

Spec == Init /\ [][Next]_vars

-----------------------------------------------------------------------------
\* Whatever GetMe and UpdateProfile answer was the stored profile at some moment while they ran:
\* first requests that race both end with the winner's (GetMe/index.js:16), and no answer mixes
\* claims with a document that was never stored so.
AnswersWereStored ==
  \A r \in Request : call[r].op \in {"getMe", "updateProfile"} /\ call[r].answer = "ok" =>
    call[r].body \in seen[r]

\* Only an UpdateProfile changes a field that is not blank: the claims of GetMe fill empty fields,
\* a name chosen meanwhile wins (GetMe/index.js:26).
OnlyUpdatesOverwrite ==
  [][profile.etag # 0 /\ profile'.etag # 0 =>
       \A f \in Field : profile.field[f] \notin {"blank", profile'.field[f]} =>
         \E r \in Request : call[r].pc = "upsert" /\ call'[r].pc = "done"]_vars

-----------------------------------------------------------------------------
(***************************************************************************)
(* The inductive strengthening of both, see ProfileProofs.                 *)
(***************************************************************************)

\* What is stored now, and what GetMe holds, was seen by the request under way.
SeenByAll ==
  \A r \in Request :
    /\ UnderWay(r) /\ Exists => profile.field \in seen[r]
    /\ call[r].pc \in {"replace", "reread"} => call[r].current.field \in seen[r]

\* An equal ETag means the document is still the one that was read.
HeldUnchanged ==
  /\ profile.etag <= writes
  /\ \A r \in Request : call[r].pc = "replace" =>
       /\ call[r].current.etag \in 1..writes
       /\ call[r].current.etag = profile.etag => call[r].current.field = profile.field

DeletesOnly ==
  \A r \in Request : call[r].pc \in {"queue", "deleteProfile"} => call[r].op = "deleteAccount"

IdleUnanswered == \A r \in Request : call[r].pc = "idle" => call[r].answer = "none"

ProfileInv ==
  TypeOK /\ SeenByAll /\ HeldUnchanged /\ DeletesOnly /\ IdleUnanswered /\ AnswersWereStored

=============================================================================
