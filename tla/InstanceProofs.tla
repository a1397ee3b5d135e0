--------------------------- MODULE InstanceProofs ---------------------------
(***************************************************************************)
(* TLAPS proofs about what an instance answers and takes.  Profile: what   *)
(* GetMe and UpdateProfile answer was stored, and claims never overwrite,  *)
(* for any number of requests.  Multipart: what is accepted of an upload's *)
(* body is whole, for bodies of any length.  UploadLimits: what the rate   *)
(* limits and the quota let through, for any riders and instances.         *)
(* HeatmapCache: no map shows a tour otherwise than with its own track,    *)
(* and the memo of maps is counted right, bounded, and in order of use.    *)
(* ListApi: what a client that pages through its tours misses and repeats. *)
(***************************************************************************)
EXTENDS Profile, Multipart, UploadLimits, HeatmapCache, ListApi, FiniteSetTheorems,
        SequenceTheorems, WellFoundedInduction, TLAPS

-----------------------------------------------------------------------------
(* Profile. *)

-----------------------------------------------------------------------------
\* Typing of what the actions build.

\* No profile and its fields are of their types.
LEMMA BlankTyped == Blank \in Fields /\ Absent \in Document
BY DEF Blank, Absent, Fields, Document

\* A new profile has fields.
LEMMA NewProfileTyped == ASSUME NEW claims PROVE NewProfile(claims) \in Fields
BY DEF NewProfile, Fields

\* A profile that a sign-in fills has fields.
LEMMA FilledTyped ==
  ASSUME NEW r \in Request, NEW held \in Fields PROVE Filled(r, held) \in Fields
BY DEF Filled, Fields

\* A profile that a request updates has fields.
LEMMA UpdatedTyped ==
  ASSUME NEW r \in Request, NEW sets, NEW held \in Fields
  PROVE  [f \in Field |-> IF f \in sets THEN r ELSE held[f]] \in Fields
BY DEF Fields

-----------------------------------------------------------------------------
\* Two shapes of step keep the invariant.

\* A step that moves one handler on: it read what is stored, or keeps what it holds.
LEMMA MovesOn ==
  ASSUME ProfileInv, NEW r \in Request, UnderWay(r),
         NEW pc \in Pc, pc # "idle", NEW d \in Document,
         call' = [call EXCEPT ![r].pc = pc, ![r].current = d],
         UNCHANGED <<profile, writes, seen>>, queued' \in BOOLEAN,
         pc \in {"replace", "reread"} => d.field \in seen[r],
         pc = "replace" => /\ d.etag \in 1..writes
                           /\ d.etag = profile.etag => d.field = profile.field,
         pc \in {"queue", "deleteProfile"} => call[r].op = "deleteAccount"
  PROVE  ProfileInv'
<1> DEFINE c == [call[r] EXCEPT !.pc = pc, !.current = d]
<1> USE DEF ProfileInv
<1>1. c \in Call
  BY DEF TypeOK, Call
<1>2. call' = [call EXCEPT ![r] = c]
  BY DEF TypeOK
<1>3. TypeOK'
  BY <1>1, <1>2 DEF TypeOK
<1>4. c.pc = pc /\ c.current = d /\ c.op = call[r].op /\ c.answer = call[r].answer
      /\ c.body = call[r].body
  BY DEF TypeOK, Call
<1>5. call'[r] = c /\ \A q \in Request : q # r => call'[q] = call[q]
  BY <1>2 DEF TypeOK
<1> HIDE DEF c
<1>6. SeenByAll'
  BY <1>4, <1>5 DEF SeenByAll, UnderWay, Exists
<1>7. HeldUnchanged'
  BY <1>4, <1>5 DEF HeldUnchanged
<1>8. DeletesOnly'
  BY <1>4, <1>5 DEF DeletesOnly
<1>9. IdleUnanswered'
  BY <1>4, <1>5 DEF IdleUnanswered
<1>10. AnswersWereStored'
  BY <1>4, <1>5 DEF AnswersWereStored
<1> QED BY <1>3, <1>6, <1>7, <1>8, <1>9, <1>10

\* A step that answers one request and writes nothing.
LEMMA Answers ==
  ASSUME ProfileInv, NEW r \in Request,
         NEW answer \in {"ok", "refused", "failed"}, NEW body \in Fields,
         Finish(r, answer, body),
         UNCHANGED <<profile, writes, seen>>, queued' \in BOOLEAN,
         answer = "ok" /\ call[r].op # "deleteAccount" => body \in seen[r]
  PROVE  ProfileInv'
<1> DEFINE c == [call[r] EXCEPT !.pc = "done", !.claims = {}, !.current = Absent,
                                !.answer = answer, !.body = body]
<1> USE DEF ProfileInv
<1>1. c \in Call
  BY BlankTyped, ZenonT(40) DEF TypeOK, Call, Claims, Pc
<1>2. call' = [call EXCEPT ![r] = c]
  BY DEF TypeOK, Finish
<1>3. TypeOK'
  BY <1>1, <1>2 DEF TypeOK
<1>4. c.pc = "done" /\ c.op = call[r].op /\ c.answer = answer /\ c.body = body
  BY DEF TypeOK, Call
<1>5. call'[r] = c /\ \A q \in Request : q # r => call'[q] = call[q]
  BY <1>2 DEF TypeOK
<1> HIDE DEF c
<1>6. SeenByAll'
  BY <1>4, <1>5 DEF SeenByAll, UnderWay, Exists
<1>7. HeldUnchanged'
  BY <1>4, <1>5 DEF HeldUnchanged
<1>8. DeletesOnly'
  BY <1>4, <1>5 DEF DeletesOnly
<1>9. IdleUnanswered'
  BY <1>4, <1>5 DEF IdleUnanswered
<1>10. AnswersWereStored'
  BY <1>4, <1>5 DEF AnswersWereStored
<1> QED BY <1>3, <1>6, <1>7, <1>8, <1>9, <1>10

\* A step that writes the document.
LEMMA Saves ==
  ASSUME ProfileInv, NEW r \in Request, UnderWay(r), NEW held \in Fields,
         Save(r, held), queued' = queued
  PROVE  ProfileInv'
<1> USE DEF ProfileInv
<1>1. PICK answer \in {"ok", "failed"}, body \in Fields :
        Finish(r, answer, body) /\ (answer = "ok" => body = held)
  BY BlankTyped DEF Save, Fail
<1> DEFINE c == [call[r] EXCEPT !.pc = "done", !.claims = {}, !.current = Absent,
                                !.answer = answer, !.body = body]
<1>2. c \in Call
  BY BlankTyped, ZenonT(40) DEF TypeOK, Call, Claims, Pc
<1>3. call' = [call EXCEPT ![r] = c]
  BY <1>1 DEF TypeOK, Finish
<1>4. /\ profile' = [etag |-> writes + 1, field |-> held] /\ writes' = writes + 1
      /\ writes \in Nat
  BY DEF Save, TypeOK
<1>5. profile' \in Document /\ profile'.etag = writes + 1 /\ profile'.field = held
  BY <1>4 DEF Document
<1>6. seen' \in [Request -> SUBSET Fields]
  BY DEF Save, TypeOK
<1>7. \A q \in Request : seen'[q] = IF UnderWay(q) THEN seen[q] \cup {held} ELSE seen[q]
  BY DEF Save
<1>8. c.pc = "done" /\ c.op = call[r].op /\ c.answer = answer /\ c.body = body
  BY DEF TypeOK, Call
<1> HIDE DEF c
<1>9. TypeOK'
  <2>1. call' \in [Request -> Call]
    BY <1>2, <1>3 DEF TypeOK
  <2>2. writes' \in Nat /\ queued' \in BOOLEAN
    BY <1>4 DEF TypeOK
  <2> QED BY <2>1, <2>2, <1>5, <1>6 DEF TypeOK
<1>10. call'[r] = c /\ \A q \in Request : q # r => call'[q] = call[q]
  BY <1>3 DEF TypeOK
<1>11. SeenByAll'
  <2> SUFFICES ASSUME NEW q \in Request
               PROVE  /\ UnderWay(q)' => held \in seen'[q]
                      /\ call'[q].pc \in {"replace", "reread"} => call'[q].current.field \in seen'[q]
    BY <1>5 DEF SeenByAll
  <2>1. CASE q = r
    BY <2>1, <1>8, <1>10 DEF UnderWay
  <2>2. CASE q # r
    BY <2>2, <1>7, <1>10 DEF UnderWay, SeenByAll
  <2> QED BY <2>1, <2>2
<1>12. HeldUnchanged'
  <2>1. \A q \in Request : call'[q].pc = "replace" => call'[q].current.etag \in 1..writes
    BY <1>8, <1>10 DEF HeldUnchanged
  <2>2. \A q \in Request : call'[q].current.etag \in Nat
    BY <1>9 DEF TypeOK, Call, Document
  <2> QED BY <2>1, <2>2, <1>4, <1>5 DEF HeldUnchanged
<1>13. DeletesOnly'
  BY <1>8, <1>10 DEF DeletesOnly
<1>14. IdleUnanswered'
  BY <1>8, <1>10 DEF IdleUnanswered
<1>15. AnswersWereStored'
  BY <1>1, <1>7, <1>8, <1>10 DEF AnswersWereStored
<1> QED BY <1>9, <1>11, <1>12, <1>13, <1>14, <1>15

-----------------------------------------------------------------------------
\* Every handler starts, reads and writes in one of the three shapes.

\* The profile and what a request read of it are of their types.
LEMMA HoldsCurrent ==
  ASSUME ProfileInv, NEW r \in Request
  PROVE  /\ profile \in Document /\ profile.field \in Fields /\ writes \in Nat
         /\ call[r].current \in Document /\ call[r].current.field \in Fields
         /\ profile.etag <= writes
BY DEF ProfileInv, TypeOK, Call, Document, HeldUnchanged

\* A request that begins keeps the invariant.
LEMMA Begins ==
  ASSUME ProfileInv, NEW r \in Request, NEW op \in Op \ {"none"},
         NEW pc \in {"read", "readToUpdate", "queue"},
         NEW claims \in Claims, NEW sets \in SUBSET Field, Begin(r, op, pc, claims, sets),
         pc = "queue" => op = "deleteAccount"
  PROVE  ProfileInv'
<1> DEFINE refuse == queued /\ op # "deleteAccount"
           c == [call[r] EXCEPT !.op = op, !.claims = claims, !.sets = sets,
                                !.pc = IF refuse THEN "done" ELSE pc,
                                !.answer = IF refuse THEN "refused" ELSE "none"]
<1> USE DEF ProfileInv
<1>1. c \in Call
  BY ZenonT(90) DEF TypeOK, Call, Pc, Op
<1>2. call' = [call EXCEPT ![r] = c]
  BY DEF TypeOK, Begin
<1>3. /\ c.pc \in {"done", pc} /\ c.op = op
      /\ c.answer = IF refuse THEN "refused" ELSE "none"
  BY DEF TypeOK, Call
<1>4. call'[r] = c /\ \A q \in Request : q # r => call'[q] = call[q]
  BY <1>2 DEF TypeOK
<1> HIDE DEF c, refuse
<1>5. seen' = [seen EXCEPT ![r] = IF Exists THEN {profile.field} ELSE {}]
      /\ UNCHANGED <<profile, writes, queued>> /\ call[r].pc = "idle"
  BY DEF Begin
<1>6. profile.field \in Fields
  BY HoldsCurrent
<1>7. seen' \in [Request -> SUBSET Fields]
  BY <1>5, <1>6 DEF TypeOK
<1>8. TypeOK'
  BY <1>1, <1>2, <1>5, <1>7 DEF TypeOK
<1>9. SeenByAll'
  BY <1>3, <1>4, <1>5 DEF SeenByAll, UnderWay, Exists, TypeOK
<1>10. HeldUnchanged'
  BY <1>3, <1>4, <1>5 DEF HeldUnchanged
<1>11. DeletesOnly'
  BY <1>3, <1>4 DEF DeletesOnly
<1>12. IdleUnanswered'
  BY <1>3, <1>4 DEF IdleUnanswered
<1>13. AnswersWereStored'
  BY <1>3, <1>4, <1>5 DEF AnswersWereStored, TypeOK, IdleUnanswered
<1> QED BY <1>8, <1>9, <1>10, <1>11, <1>12, <1>13

\* Deleting the profile keeps it.
LEMMA Deletes == ASSUME ProfileInv, NEW r \in Request, DeleteProfile(r) PROVE ProfileInv'
<1> DEFINE c == [call[r] EXCEPT !.pc = "done", !.claims = {}, !.current = Absent,
                                !.answer = "ok", !.body = Blank]
<1> USE DEF ProfileInv
<1>1. c \in Call
  BY BlankTyped, ZenonT(40) DEF TypeOK, Call, Claims, Pc
<1>2. call' = [call EXCEPT ![r] = c]
  BY DEF TypeOK, Finish, DeleteProfile
<1>3. c.pc = "done" /\ c.op = "deleteAccount"
  BY DEF TypeOK, Call, DeleteProfile, DeletesOnly
<1>4. call'[r] = c /\ \A q \in Request : q # r => call'[q] = call[q]
  BY <1>2 DEF TypeOK
<1> HIDE DEF c
<1>5. profile' = Absent /\ UNCHANGED <<writes, queued, seen>>
  BY DEF DeleteProfile
<1>6. Absent.etag = 0 /\ Absent.field = Blank
  BY DEF Absent
<1>7. TypeOK'
  BY <1>1, <1>2, <1>5, BlankTyped DEF TypeOK
<1>8. SeenByAll'
  BY <1>3, <1>4, <1>5, <1>6 DEF SeenByAll, UnderWay, Exists
<1>9. HeldUnchanged'
  BY <1>3, <1>4, <1>5, <1>6 DEF HeldUnchanged, TypeOK
<1>10. DeletesOnly'
  BY <1>3, <1>4 DEF DeletesOnly
<1>11. IdleUnanswered'
  BY <1>3, <1>4 DEF IdleUnanswered
<1>12. AnswersWereStored'
  BY <1>3, <1>4, <1>5 DEF AnswersWereStored
<1> QED BY <1>7, <1>8, <1>9, <1>10, <1>11, <1>12

\* What GetMe does with a document it has just read.
LEMMA Backfills ==
  ASSUME ProfileInv, NEW r \in Request, UnderWay(r), Exists, Backfill(r, profile),
         UNCHANGED <<profile, writes, queued, seen>>
  PROVE  ProfileInv'
<1>1. profile.field \in seen[r] /\ profile.field \in Fields /\ profile \in Document
      /\ queued' \in BOOLEAN /\ profile.etag \in 1..writes
  BY HoldsCurrent DEF ProfileInv, SeenByAll, TypeOK, Exists, Document
<1>2. CASE Missing(r, profile.field) = {}
  BY <1>1, <1>2, Answers DEF Backfill
<1>3. CASE Missing(r, profile.field) # {}
  BY <1>1, <1>3, MovesOn DEF Backfill, Goto, Pc
<1> QED BY <1>2, <1>3

-----------------------------------------------------------------------------
\* It holds at first.
LEMMA InitInv == Init => ProfileInv
<1> SUFFICES ASSUME Init PROVE ProfileInv
  OBVIOUS
<1>1. TypeOK
  BY BlankTyped DEF Init, TypeOK, Call, Op, Pc, Claims
<1> QED BY <1>1 DEF Init, ProfileInv, SeenByAll, HeldUnchanged, DeletesOnly, IdleUnanswered,
                    AnswersWereStored, UnderWay, Exists, Absent

\* A step of a request keeps it.
LEMMA StepInv == ASSUME ProfileInv, NEW r \in Request, Step(r) PROVE ProfileInv'
<1>1. CASE BeginGetMe(r)
  BY <1>1, Begins DEF BeginGetMe, Op, Field
<1>2. CASE BeginUpdateProfile(r)
  <2>1. PICK claims \in Claims, sets \in SUBSET {"name", "language"} \ {{}} :
          Begin(r, "updateProfile", "readToUpdate", claims, sets)
    BY <1>2 DEF BeginUpdateProfile
  <2> QED BY <2>1, Begins DEF Op, Field
<1>3. CASE BeginDeleteAccount(r)
  BY <1>3, Begins DEF BeginDeleteAccount, Op, Field, Claims
<1>4. CASE ReadProfile(r)
  <2>1. UnderWay(r)
    BY <1>4 DEF ReadProfile, UnderWay
  <2>2. CASE Exists
    BY <1>4, <2>1, <2>2, Backfills DEF ReadProfile
  <2>3. CASE ~Exists
    BY <1>4, <2>1, <2>3, MovesOn, BlankTyped DEF ReadProfile, Goto, Pc, ProfileInv, TypeOK
  <2> QED BY <2>2, <2>3
<1>5. CASE CreateProfile(r)
  BY <1>5, Saves, NewProfileTyped DEF CreateProfile, UnderWay
<1>6. CASE CreateConflicts(r)
  BY <1>6, MovesOn, BlankTyped DEF CreateConflicts, Goto, Pc, ProfileInv, TypeOK, UnderWay
<1>7. CASE ReadWinner(r)
  <2>1. UnderWay(r)
    BY <1>7 DEF ReadWinner, UnderWay
  <2>2. CASE Exists
    BY <1>7, <2>1, <2>2, Backfills DEF ReadWinner
  <2>3. CASE ~Exists
    BY <1>7, <2>3, Answers, BlankTyped DEF ReadWinner, Fail, ProfileInv, TypeOK
  <2> QED BY <2>2, <2>3
<1>8. CASE ReplaceProfile(r)
  <2>1. Filled(r, call[r].current.field) \in Fields
    BY HoldsCurrent, FilledTyped
  <2> QED BY <1>8, <2>1, Saves DEF ReplaceProfile, UnderWay
<1>9. CASE ReplaceRefused(r)
  <2>1. CASE Exists
    <3>1. call[r].current \in Document /\ call[r].current.field \in seen[r]
      BY <1>9, HoldsCurrent DEF ProfileInv, SeenByAll, ReplaceRefused
    <3> QED BY <1>9, <2>1, <3>1, MovesOn
            DEF ReplaceRefused, Goto, Pc, UnderWay, ProfileInv, TypeOK
  <2>2. CASE ~Exists
    BY <1>9, <2>2, Answers, BlankTyped DEF ReplaceRefused, Fail, ProfileInv, TypeOK
  <2> QED BY <2>1, <2>2
<1>10. CASE RereadProfile(r)
  <2>1. /\ call[r].current.field \in Fields /\ call[r].current.field \in seen[r]
        /\ profile.field \in Fields
        /\ Exists => profile.field \in seen[r]
    BY <1>10, HoldsCurrent DEF ProfileInv, SeenByAll, RereadProfile, UnderWay
  <2> DEFINE body == IF Exists THEN profile.field ELSE call[r].current.field
  <2>2. body \in Fields /\ body \in seen[r]
    <3>1. CASE Exists
      BY <2>1, <3>1
    <3>2. CASE ~Exists
      BY <2>1, <3>2
    <3> QED BY <3>1, <3>2
  <2>3. Finish(r, "ok", body) /\ UNCHANGED <<profile, writes, queued, seen>>
    BY <1>10 DEF RereadProfile
  <2> HIDE DEF body
  <2> QED BY <2>2, <2>3, Answers DEF ProfileInv, TypeOK
<1>11. CASE ReadToUpdate(r)
  <2> DEFINE d == IF Exists THEN profile
                  ELSE [Absent EXCEPT !.field = NewProfile(call[r].claims \ {"name"})]
  <2>1. d \in Document
    BY HoldsCurrent, NewProfileTyped DEF Absent, Document
  <2>2. call' = [call EXCEPT ![r].pc = "upsert", ![r].current = d]
        /\ UNCHANGED <<profile, writes, queued, seen>> /\ UnderWay(r)
    BY <1>11 DEF ReadToUpdate, Goto, UnderWay
  <2> HIDE DEF d
  <2> QED BY <2>1, <2>2, MovesOn DEF Pc, ProfileInv, TypeOK
<1>12. CASE Upsert(r)
  <2>1. [f \in Field |-> IF f \in call[r].sets THEN r ELSE call[r].current.field[f]] \in Fields
    BY HoldsCurrent, UpdatedTyped
  <2> QED BY <1>12, <2>1, Saves DEF Upsert, UnderWay
<1>13. CASE Queue(r)
  <2>1. call[r].op = "deleteAccount"
    BY <1>13 DEF ProfileInv, DeletesOnly, Queue
  <2> QED BY <1>13, <2>1, MovesOn, BlankTyped DEF Queue, Goto, Pc, UnderWay
<1>14. CASE DeleteProfile(r)
  BY <1>14, Deletes
<1>15. CASE CallRejects(r)
  BY <1>15, Answers, BlankTyped DEF CallRejects, Fail, ProfileInv, TypeOK
<1> QED BY <1>1, <1>2, <1>3, <1>4, <1>5, <1>6, <1>7, <1>8, <1>9, <1>10, <1>11, <1>12, <1>13,
           <1>14, <1>15 DEF Step

\* No GetMe or UpdateProfile step but a write changes the document: the invariant holds for ever.
THEOREM ProfileInvariant == Spec => []ProfileInv
<1>1. ProfileInv /\ [Next]_vars => ProfileInv'
  <2> SUFFICES ASSUME ProfileInv, [Next]_vars PROVE ProfileInv'
    OBVIOUS
  <2>1. CASE \E r \in Request : Step(r)
    BY <2>1, StepInv
  <2>2. CASE UNCHANGED vars
    BY <2>2 DEF vars, ProfileInv, TypeOK, SeenByAll, HeldUnchanged, DeletesOnly, IdleUnanswered,
                AnswersWereStored, UnderWay, Exists
  <2> QED BY <2>1, <2>2 DEF Next, Rest
<1> QED BY <1>1, InitInv, PTL DEF Spec

\* AnswersWereStored for any number of requests: GetMe and UpdateProfile (GetMe/index.js:16) never
\* answer a profile that was not stored while they ran.
THEOREM AnswersStored == Spec => []AnswersWereStored
<1>1. ProfileInv => AnswersWereStored
  BY DEF ProfileInv
<1> QED BY <1>1, ProfileInvariant, PTL

-----------------------------------------------------------------------------
Overwrites ==
  profile.etag # 0 /\ profile'.etag # 0 =>
    \A f \in Field : profile.field[f] \notin {"blank", profile'.field[f]} =>
      \E r \in Request : call[r].pc = "upsert" /\ call'[r].pc = "done"

\* A step of a request overwrites only what it may.
LEMMA StepOverwrites == ASSUME ProfileInv, NEW r \in Request, Step(r) PROVE Overwrites
<1>1. CASE ReplaceProfile(r)
  <2>1. profile' = [etag |-> writes + 1, field |-> Filled(r, call[r].current.field)]
    BY <1>1 DEF ReplaceProfile, Save
  <2>2. call[r].current.field = profile.field
    BY <1>1 DEF ReplaceProfile, Matches, ProfileInv, HeldUnchanged
  <2>3. \A f \in Field : profile.field[f] # "blank" => profile'.field[f] = profile.field[f]
    BY <2>1, <2>2 DEF Filled, Missing
  <2> QED BY <2>3 DEF Overwrites
<1>2. CASE Upsert(r)
  <2>1. call[r].pc = "upsert"
    BY <1>2 DEF Upsert
  <2>2. call'[r].pc = "done"
    BY <1>2 DEF Upsert, Save, Finish, Fail, ProfileInv, TypeOK, Call
  <2> QED BY <2>1, <2>2 DEF Overwrites
<1>3. CASE CreateProfile(r)
  BY <1>3 DEF CreateProfile, Exists, Overwrites
<1>4. CASE DeleteProfile(r)
  BY <1>4 DEF DeleteProfile, Absent, Overwrites
<1>5. CASE profile' = profile
  BY <1>5 DEF Overwrites
<1>6. \/ ReplaceProfile(r) \/ Upsert(r) \/ CreateProfile(r) \/ DeleteProfile(r)
      \/ profile' = profile
  BY DEF Step, BeginGetMe, BeginUpdateProfile, BeginDeleteAccount, Begin, ReadProfile,
         CreateConflicts, ReadWinner, ReplaceRefused, RereadProfile, ReadToUpdate, Queue,
         CallRejects
<1> QED BY <1>1, <1>2, <1>3, <1>4, <1>5, <1>6

\* OnlyUpdatesOverwrite for any number of requests: what GetMe fills in from the claims
\* (GetMe/index.js:26) was blank when it was filled.
THEOREM ClaimsOnlyFill == Spec => OnlyUpdatesOverwrite
<1>1. ProfileInv /\ [Next]_vars => [Overwrites]_vars
  <2> SUFFICES ASSUME ProfileInv, [Next]_vars, ~UNCHANGED vars PROVE Overwrites
    OBVIOUS
  <2>1. CASE \E r \in Request : Step(r)
    BY <2>1, StepOverwrites
  <2> QED BY <2>1 DEF Next, Rest
<1>2. [Overwrites]_vars <=>
      [profile.etag # 0 /\ profile'.etag # 0 =>
         \A f \in Field : profile.field[f] \notin {"blank", profile'.field[f]} =>
           \E r \in Request : call[r].pc = "upsert" /\ call'[r].pc = "done"]_vars
  BY DEF Overwrites
<1> QED BY <1>1, <1>2, ProfileInvariant, PTL DEF Spec, OnlyUpdatesOverwrite

-----------------------------------------------------------------------------
(* Multipart. *)

MultipartSpec == MultipartInit /\ [][MultipartNext]_multipartVars

ReadSoFar(kind) == {i \in 1..at : parts[i].kind = kind}

MultipartTyped ==
  /\ parts \in Seq(Parts) /\ at \in 0..Len(parts) /\ last \in {"end", "malformed", "aborted"}

\* Until it settles, every field of what was read is taken, each allowed, once and whole.
FieldsTaken ==
  /\ fields = {parts[i].name : i \in ReadSoFar("field")}
  /\ \A i \in ReadSoFar("field") : parts[i].name \in Allowed /\ parts[i].size <= MaxFieldSize
  /\ \A i, j \in ReadSoFar("field") : parts[i].name = parts[j].name => i = j

\* The file taken is the first of what was read, and was not cut.
FileTaken ==
  /\ counted.files = 0 => file = 0 /\ ReadSoFar("file") = {}
  /\ counted.files # 0 => file \in ReadSoFar("file") /\ parts[file].size <= MaxFileSize
  /\ \A i \in ReadSoFar("file") : file <= i

MultipartInv ==
  /\ MultipartTyped /\ counted \in [fields : Nat, files : Nat]
  /\ settled \in {"none", "accepted"} => FieldsTaken /\ FileTaken
  /\ settled = "accepted" => at = Len(parts) /\ last = "end" /\ file # 0

\* The invariant holds before the first part.
LEMMA MultipartStart == MultipartInit => MultipartInv
<1> SUFFICES ASSUME MultipartInit PROVE MultipartInv
  OBVIOUS
<1>1. parts \in Seq(Parts) /\ Len(parts) \in Nat
  <2>1. PICK n \in 0..MaxParts : parts \in [1..n -> Parts]
    BY DEF MultipartInit
  <2>2. n \in Nat
    BY <2>1, MultipartAssumption
  <2> QED BY <2>1, <2>2, SeqDef, LenProperties
<1>2. at = 0 /\ file = 0 /\ fields = {} /\ counted = [fields |-> 0, files |-> 0] /\ settled # "accepted"
  BY DEF MultipartInit, Shortcut
<1>3. ReadSoFar("field") = {} /\ ReadSoFar("file") = {}
  BY <1>2 DEF ReadSoFar
<1>4. FieldsTaken /\ FileTaken
  BY <1>2, <1>3 DEF FieldsTaken, FileTaken
<1>5. counted \in [fields : Nat, files : Nat]
  BY <1>2
<1> QED BY <1>1, <1>2, <1>4, <1>5 DEF MultipartInv, MultipartTyped, MultipartInit

\* The next part is read beside those before.
LEMMA PartRead ==
  ASSUME MultipartTyped, NEW kind \in {"field", "file"}, Comes(kind), UNCHANGED <<parts, last>>
  PROVE  /\ MultipartTyped' /\ at \in Nat /\ at' = at + 1 /\ at + 1 \in 1..Len(parts)
         /\ parts[at + 1].kind = kind /\ parts[at + 1].size \in Nat
         /\ ReadSoFar(kind)' = ReadSoFar(kind) \cup {at + 1} /\ at + 1 \notin ReadSoFar(kind)
         /\ \A other \in {"field", "file"} : other # kind => ReadSoFar(other)' = ReadSoFar(other)
<1>1. PICK n \in Nat : n = Len(parts)
  BY LenProperties DEF MultipartTyped
<1>2. at \in Nat /\ at < n /\ at' = at + 1 /\ parts[at + 1].kind = kind /\ parts' = parts
  BY <1>1 DEF MultipartTyped, Comes, NextPart
<1>3. at + 1 \in 1..n /\ at' \in 0..n
  BY <1>2
<1>4. MultipartTyped'
  BY <1>1, <1>2, <1>3 DEF MultipartTyped
<1>5. parts[at + 1] \in Parts
  BY <1>1, <1>3, ElementOfSeq DEF MultipartTyped
<1>6. parts[at + 1].size \in Nat
  BY <1>5, MultipartAssumption DEF Parts
<1>7. \A i : i \in 1..(at + 1) <=> i \in 1..at \/ i = at + 1
  BY <1>2
<1>8. /\ ReadSoFar(kind)' = ReadSoFar(kind) \cup {at + 1} /\ at + 1 \notin ReadSoFar(kind)
      /\ \A other \in {"field", "file"} : other # kind => ReadSoFar(other)' = ReadSoFar(other)
  BY <1>2, <1>7 DEF ReadSoFar
<1> QED BY <1>1, <1>2, <1>3, <1>4, <1>6, <1>8

\* Reading a field keeps it.
LEMMA FieldRead == ASSUME MultipartInv, ReadField PROVE MultipartInv'
<1> USE DEF MultipartInv
<1>1. /\ Comes("field") /\ UNCHANGED <<parts, last, file>> /\ settled = "none"
      /\ counted' \in [fields : Nat, files : Nat] /\ counted'.files = counted.files
  BY DEF ReadField, Comes
<1>2. /\ MultipartTyped' /\ at \in Nat /\ parts' = parts /\ parts[at + 1].size \in Nat
      /\ ReadSoFar("field")' = ReadSoFar("field") \cup {at + 1} /\ at + 1 \notin ReadSoFar("field")
      /\ ReadSoFar("file")' = ReadSoFar("file")
  BY <1>1, PartRead
<1>3. FieldsTaken /\ FileTaken
  BY <1>1
<1>4. CASE settled' # "none"
  <2>1. settled' = "errors.invalidUpload"
    BY <1>1, <1>4 DEF ReadField, SettledBy
  <2> QED BY <1>1, <1>2, <2>1
<1>5. CASE settled' = "none"
  <2>1. fields' = fields \cup {parts[at + 1].name} /\ FieldFits(parts[at + 1])
    BY <1>1, <1>5 DEF ReadField, SettledBy, NextPart
  <2>2. /\ parts[at + 1].name \in Allowed /\ parts[at + 1].name \notin fields
        /\ parts[at + 1].size <= MaxFieldSize
    <3>1. MaxFieldSize \in Nat
      BY MultipartAssumption
    <3> QED BY <1>2, <2>1, <3>1 DEF FieldFits, Cut
  <2>3. FieldsTaken'
    <3>1. fields' = {parts'[i].name : i \in ReadSoFar("field")'}
      BY <1>2, <1>3, <2>1 DEF FieldsTaken
    <3>2. \A i \in ReadSoFar("field") : parts[i].name # parts[at + 1].name
      BY <1>3, <2>2 DEF FieldsTaken
    <3> QED BY <1>2, <1>3, <2>2, <3>1, <3>2 DEF FieldsTaken
  <2>4. FileTaken'
    BY <1>1, <1>2, <1>3 DEF FileTaken
  <2> QED BY <1>1, <1>2, <1>5, <2>3, <2>4
<1> QED BY <1>4, <1>5

\* Reading a file keeps it.
LEMMA FileRead == ASSUME MultipartInv, ReadFile PROVE MultipartInv'
<1> USE DEF MultipartInv
<1>1. /\ Comes("file") /\ UNCHANGED <<parts, last, fields>> /\ settled = "none"
      /\ counted' \in [fields : Nat, files : Nat] /\ counted'.files = counted.files + 1
      /\ file' = IF counted.files = 0 THEN at + 1 ELSE file
  BY DEF ReadFile, Comes
<1>2. /\ MultipartTyped' /\ at \in Nat /\ parts' = parts /\ parts[at + 1].size \in Nat
      /\ ReadSoFar("file")' = ReadSoFar("file") \cup {at + 1}
      /\ ReadSoFar("field")' = ReadSoFar("field")
  BY <1>1, PartRead
<1>3. FieldsTaken /\ FileTaken
  BY <1>1
<1>4. CASE settled' # "none"
  <2>1. settled' = "errors.fileSize"
    BY <1>1, <1>4 DEF ReadFile, SettledBy
  <2> QED BY <1>1, <1>2, <2>1
<1>5. CASE settled' = "none"
  <2>1. FieldsTaken'
    BY <1>1, <1>2, <1>3 DEF FieldsTaken
  <2>2. counted'.files # 0
    BY <1>1
  <2>3. CASE counted.files = 0
    <3>1. parts[at + 1].size <= MaxFileSize
      BY <1>1, <1>2, <1>5, <2>3, MultipartAssumption DEF ReadFile, SettledBy, Cut, NextPart
    <3>2. file' = at + 1 /\ ReadSoFar("file")' = {at + 1}
      BY <1>1, <1>2, <1>3, <2>3 DEF FileTaken
    <3> QED BY <1>1, <1>2, <1>5, <2>1, <2>2, <3>1, <3>2 DEF FileTaken
  <2>4. CASE counted.files # 0
    <3>1. file' = file /\ file \in ReadSoFar("file") /\ file <= at + 1
      BY <1>1, <1>2, <1>3, <2>4 DEF FileTaken, ReadSoFar
    <3> QED BY <1>1, <1>2, <1>3, <1>5, <2>1, <2>2, <2>4, <3>1 DEF FileTaken
  <2> QED BY <2>3, <2>4
<1> QED BY <1>4, <1>5

\* Reading the end of the body keeps it.
LEMMA EndRead == ASSUME MultipartInv, ReadEnd PROVE MultipartInv'
<1> USE DEF MultipartInv
<1>1. /\ settled = "none" /\ at = Len(parts) /\ UNCHANGED <<parts, last, at, fields, file, counted>>
      /\ settled' = "accepted" => last = "end" /\ file # 0
  BY DEF ReadEnd, SettledBy
<1>2. MultipartTyped' /\ FieldsTaken' /\ FileTaken'
  BY <1>1 DEF MultipartTyped, FieldsTaken, FileTaken, ReadSoFar
<1> QED BY <1>1, <1>2

\* Every step keeps it.
LEMMA MultipartKept == MultipartInv /\ [MultipartNext]_multipartVars => MultipartInv'
<1> SUFFICES ASSUME MultipartInv, [MultipartNext]_multipartVars PROVE MultipartInv'
  OBVIOUS
<1>1. CASE UNCHANGED multipartVars
  BY <1>1 DEF multipartVars, MultipartInv, MultipartTyped, FieldsTaken, FileTaken, ReadSoFar
<1> QED BY <1>1, FieldRead, FileRead, EndRead DEF MultipartNext

\* An upload is accepted only with its first file whole, and with every field of the body, each
\* allowed, once and whole: no field is dropped or cut on the way (parseMultipart.js).
THEOREM AcceptedAlwaysWhole == MultipartSpec => []AcceptedIsWhole
<1>1. MultipartInv /\ [MultipartNext]_multipartVars => MultipartInv'
  BY MultipartKept
<1>2. MultipartInv => AcceptedIsWhole
  <2> SUFFICES ASSUME MultipartInv, settled = "accepted"
               PROVE  /\ WellMeant /\ fields = {parts[i].name : i \in OfKind("field")}
                      /\ file = Min(OfKind("file")) /\ parts[file].size <= MaxFileSize
    BY DEF AcceptedIsWhole
  <2>1. FieldsTaken /\ FileTaken /\ at = Len(parts) /\ last = "end" /\ file # 0
    BY DEF MultipartInv
  <2>2. \A kind : ReadSoFar(kind) = OfKind(kind)
    BY <2>1, LenProperties DEF MultipartInv, MultipartTyped, ReadSoFar, OfKind
  <2>3. WellMeant /\ fields = {parts[i].name : i \in OfKind("field")}
    BY <2>1, <2>2 DEF FieldsTaken, WellMeant
  <2>4. /\ file \in OfKind("file") /\ parts[file].size <= MaxFileSize
        /\ \A i \in OfKind("file") : file <= i /\ i \in Nat
    BY <2>1, <2>2 DEF FileTaken, ReadSoFar
  <2>5. file = Min(OfKind("file"))
    <3>1. PICK least \in OfKind("file") : least = Min(OfKind("file")) /\ \A i \in OfKind("file") : least <= i
      BY <2>4 DEF Min
    <3> QED BY <2>4, <3>1
  <2> QED BY <2>3, <2>4, <2>5
<1> QED BY <1>1, <1>2, MultipartStart, PTL DEF MultipartSpec

\* A well-meant body with one file within its limit.
Good ==
  /\ WellMeant /\ Cardinality(OfKind("file")) = 1
  /\ \A i \in OfKind("file") : parts[i].size <= MaxFileSize

\* busboy has counted the fields that were taken, no more.
FieldsCounted ==
  settled \in {"none", "accepted"} => IsFiniteSet(fields) /\ counted.fields = Cardinality(fields)

\* A field of a good body is taken: it is allowed, whole and new, and fewer were counted than there are.
LEMMA GoodFieldFits ==
  ASSUME MultipartInv, FieldsCounted, ReadField, WellMeant
  PROVE  /\ counted.fields < Cardinality(Allowed) /\ FieldFits(NextPart)
         /\ NextPart.name \notin fields
<1>1. settled = "none" /\ Comes("field") /\ UNCHANGED <<parts, last>>
  BY DEF ReadField, Comes
<1>2. /\ at \in Nat /\ at + 1 \in 1..Len(parts) /\ at \in 0..Len(parts)
      /\ parts[at + 1].kind = "field" /\ parts[at + 1].size \in Nat /\ parts \in Seq(Parts)
  BY <1>1, PartRead DEF MultipartInv, MultipartTyped
<1>3. FieldsTaken
  BY <1>1 DEF MultipartInv
<1>4. at + 1 \in OfKind("field") /\ ReadSoFar("field") \subseteq OfKind("field")
  BY <1>2, LenProperties DEF OfKind, ReadSoFar
<1>5. parts[at + 1].name \in Allowed /\ parts[at + 1].size <= MaxFieldSize
  BY <1>4 DEF WellMeant
<1>6. \A i \in ReadSoFar("field") : i # at + 1
  BY <1>2 DEF ReadSoFar
<1>7. parts[at + 1].name \notin fields
  BY <1>3, <1>4, <1>6 DEF FieldsTaken, WellMeant
<1>8. fields \subseteq Allowed
  BY <1>3 DEF FieldsTaken
<1>9. /\ IsFiniteSet(Allowed) /\ fields \in SUBSET Allowed /\ fields # Allowed
      /\ MaxFieldSize \in Nat
  BY <1>5, <1>7, <1>8, MultipartAssumption
<1>10. Cardinality(fields) < Cardinality(Allowed)
  <2>1. /\ Cardinality(fields) <= Cardinality(Allowed)
        /\ Cardinality(Allowed) = Cardinality(fields) => Allowed = fields
    BY <1>9, FS_Subset
  <2>2. Cardinality(fields) \in Nat /\ Cardinality(Allowed) \in Nat
    BY <1>9, FS_Subset, FS_CardinalityType
  <2> QED BY <1>9, <2>1, <2>2
<1>11. ~Cut(parts[at + 1].size, MaxFieldSize)
  BY <1>2, <1>5, <1>9 DEF Cut
<1> QED BY <1>1, <1>5, <1>7, <1>10, <1>11 DEF FieldFits, NextPart, FieldsCounted

\* Nothing is counted before the first part.
LEMMA CountedAtFirst == MultipartInit => FieldsCounted
BY FS_EmptySet DEF MultipartInit, FieldsCounted

\* Every step keeps the count.
LEMMA FieldsStayCounted == MultipartInv /\ FieldsCounted /\ [MultipartNext]_multipartVars => FieldsCounted'
<1> SUFFICES ASSUME MultipartInv, FieldsCounted, [MultipartNext]_multipartVars, settled' \in {"none", "accepted"}
             PROVE  IsFiniteSet(fields') /\ counted'.fields = Cardinality(fields')
  BY DEF FieldsCounted
<1>1. CASE ReadField
  <2>1. settled = "none" /\ settled' = "none"
    BY <1>1 DEF ReadField, Comes, SettledBy
  <2>2. fields' = fields \cup {NextPart.name} /\ NextPart.name \notin fields
    BY <1>1, <2>1 DEF ReadField, SettledBy, FieldFits
  <2>3. IsFiniteSet(fields) /\ counted.fields = Cardinality(fields) /\ counted'.fields = counted.fields + 1
    BY <1>1, <2>1 DEF FieldsCounted, ReadField, MultipartInv
  <2>4. IsFiniteSet(fields \cup {NextPart.name}) /\ Cardinality(fields \cup {NextPart.name}) = Cardinality(fields) + 1
    BY <2>2, <2>3, FS_AddElement
  <2> QED BY <2>2, <2>3, <2>4
<1>2. CASE ReadFile
  BY <1>2 DEF ReadFile, Comes, FieldsCounted, MultipartInv
<1>3. CASE ReadEnd
  BY <1>3 DEF ReadEnd, FieldsCounted
<1>4. CASE UNCHANGED multipartVars
  BY <1>4 DEF multipartVars, FieldsCounted
<1> QED BY <1>1, <1>2, <1>3, <1>4 DEF MultipartNext

\* No step refuses anything of a good body.
LEMMA GoodStep ==
  ASSUME MultipartInv, FieldsCounted, MultipartNext, Good, settled = "none"
  PROVE  settled' \in {"none", "accepted"}
<1>1. CASE ReadField
  BY <1>1, GoodFieldFits DEF ReadField, Good
<1>2. CASE ReadFile
  <2>1. CASE counted.files = 0
    <3>1. Comes("file") /\ UNCHANGED <<parts, last>>
      BY <1>2 DEF ReadFile
    <3>2. at + 1 \in 1..Len(parts) /\ parts[at + 1].kind = "file" /\ parts[at + 1].size \in Nat
      BY <3>1, PartRead DEF MultipartInv
    <3>3. at + 1 \in OfKind("file")
      BY <3>2, LenProperties DEF OfKind, MultipartInv, MultipartTyped
    <3>4. parts[at + 1].size <= MaxFileSize /\ MaxFileSize \in Nat
      BY <3>3, MultipartAssumption DEF Good
    <3> QED BY <1>2, <3>2, <3>4 DEF ReadFile, Cut, NextPart
  <2>2. CASE counted.files # 0
    BY <1>2, <2>2 DEF ReadFile
  <2> QED BY <2>1, <2>2
<1>3. CASE ReadEnd
  <2>1. last = "end"
    BY DEF Good, WellMeant
  <2>2. file # 0
    <3>1. at = Len(parts) /\ FileTaken
      BY <1>3 DEF ReadEnd, MultipartInv
    <3>2. ReadSoFar("file") = OfKind("file")
      BY <3>1, LenProperties DEF MultipartInv, MultipartTyped, ReadSoFar, OfKind
    <3>3. OfKind("file") # {}
      BY FS_EmptySet DEF Good
    <3>4. 0 \notin OfKind("file")
      BY <3>2 DEF ReadSoFar
    <3> QED BY <3>1, <3>2, <3>3, <3>4 DEF FileTaken
  <2> QED BY <1>3, <2>1, <2>2 DEF ReadEnd, SettledBy
<1> QED BY <1>1, <1>2, <1>3 DEF MultipartNext

\* Once it has begun, the reading of a well-meant body with one file within its limit ends in
\* taking it: no order of the parts, no size up to the limits and no number of fields gets
\* anything of it refused (parseMultipart.js).
THEOREM GoodNeverRefused ==
  MultipartSpec => [][Good /\ settled = "none" => settled' \in {"none", "accepted"}]_multipartVars
<1>1. MultipartInit => MultipartInv /\ FieldsCounted
  BY MultipartStart, CountedAtFirst
<1>2. MultipartInv /\ FieldsCounted /\ [MultipartNext]_multipartVars =>
        [Good /\ settled = "none" => settled' \in {"none", "accepted"}]_multipartVars
  BY GoodStep DEF multipartVars
<1> QED BY <1>1, <1>2, MultipartKept, FieldsStayCounted, PTL DEF MultipartSpec

\* A body is taken whole or refused for a reason it gives, wherever the values of a tour beside a
\* file within its limit fit the length that is allowed for them (parseMultipart.js:97).
THEOREM AlwaysWholeOrRefused ==
  MultipartSpec /\ (Good => ~(Length > MaxFileSize + Overhead)) => []WholeOrRefused
<1> DEFINE Inv == MultipartInv /\ FieldsCounted /\ GoodIsNotRefused
<1>1. MultipartInit /\ (Good => ~(Length > MaxFileSize + Overhead)) => Inv
  <2> SUFFICES ASSUME MultipartInit, ~(Length > MaxFileSize + Overhead), Good
               PROVE  settled \in {"none", "errors.invalidUpload"} /\ at = 0
    BY MultipartStart, CountedAtFirst DEF GoodIsNotRefused, Good
  <2>1. OfKind("file") # {}
    BY FS_EmptySet DEF Good
  <2>2. parts # <<>>
    BY <2>1 DEF OfKind
  <2> QED BY <2>2 DEF MultipartInit, Shortcut
<1>2. Inv /\ [MultipartNext]_multipartVars => Inv'
  <2> SUFFICES ASSUME Inv, [MultipartNext]_multipartVars PROVE GoodIsNotRefused'
    BY MultipartKept, FieldsStayCounted
  <2>1. CASE UNCHANGED multipartVars
    BY <2>1 DEF multipartVars, GoodIsNotRefused, WellMeant, OfKind
  <2>2. CASE MultipartNext
    <3>1. settled = "none" /\ UNCHANGED <<parts, last>>
      BY <2>2 DEF MultipartNext, ReadField, ReadFile, ReadEnd, Comes
    <3>2. Good' <=> Good
      BY <3>1 DEF Good, WellMeant, OfKind
    <3>3. Good' => settled' \in {"none", "accepted"}
      BY <2>2, <3>1, <3>2, GoodStep
    <3> QED BY <3>3 DEF GoodIsNotRefused, Good
  <2> QED BY <2>1, <2>2
<1>3. MultipartSpec /\ (Good => ~(Length > MaxFileSize + Overhead)) => []Inv
  BY <1>1, <1>2, PTL DEF MultipartSpec
<1> QED BY <1>3, AcceptedAlwaysWhole, PTL DEF WholeOrRefused

-----------------------------------------------------------------------------
(* UploadLimits. *)

\* LimitsTypeOK, one fact per variable, and what the times of an upload are.
UploadState == [pc: {"idle", "quota", "store"}, rider: Uploader \cup {"none"}, at: Time]

LimitsTyped ==
  /\ now \in Time
  /\ buckets \in [Instance -> Seq(Bucket)]
  /\ uploadOf \in [Upload -> UploadState]
  /\ tours \in [Uploader -> Nat]
  /\ admitted \in [Instance -> [Uploader -> Seq(Time)]]
  /\ retryAt \in [Instance -> [Uploader -> Nat]]
  /\ forgotten \subseteq Uploader

UploadsTimed ==
  \A r \in Upload : uploadOf[r].pc # "idle" =>
    uploadOf[r].rider \in Uploader /\ uploadOf[r].at <= now /\ now - uploadOf[r].at <= MaxDuration

\* An instance has one bucket for a rider.
OnePerRider(list) == \A j, k \in 1..Len(list) : list[j].rider = list[k].rider => j = k
Members(list) == {list[k] : k \in 1..Len(list)}
BucketsKept == \A i \in Instance : OnePerRider(buckets[i]) /\ Len(buckets[i]) <= MaxKeys

\* The ticks that have to be refilled before the m-th upload of a full bucket.
Due(m) == (m - Capacity) * Refill

\* What a bucket still holds was not spent: on the uploads since any of them, it spent no more than
\* a full bucket and what was refilled since.
Spent(b, times) ==
  \A j \in 1..Len(times) :
    times[j] <= b.at /\ b.ticks + Due(Len(times) - j + 1) <= b.at - times[j]
TokensCounted ==
  \A i \in Instance :
    /\ \A b \in Members(buckets[i]) : b.at <= now /\ Spent(b, admitted[i][b.rider])
    /\ \A rider \in Uploader :
         (\A b \in Members(buckets[i]) : b.rider # rider) => admitted[i][rider] = <<>>
RatesHeld ==
  \A i \in Instance, rider \in Uploader :
    \A k \in 1..Len(admitted[i][rider]) : \A j \in 1..k :
      Due(k - j + 1) <= admitted[i][rider][k] - admitted[i][rider][j]

\* When a refused rider may come back the bucket has a token.
RetriesKept ==
  \A i \in Instance : \A b \in Members(buckets[i]) :
    retryAt[i][b.rider] < Never => b.ticks + (retryAt[i][b.rider] - b.at) >= Refill

-----------------------------------------------------------------------------
\* The constants as the proofs use them.
LEMMA LimitsBounds ==
  /\ Capacity \in Nat \ {0} /\ Refill \in Nat \ {0} /\ Second \in Nat \ {0} /\ MaxKeys \in Nat \ {0}
  /\ MaxTours \in Nat \ {0} /\ MaxDuration \in Nat /\ MaxTime \in Nat /\ IsFiniteSet(Instance)
BY UploadLimitsAssumption

\* What is due after one more upload is a refill more.
LEMMA Dues ==
  /\ Full \in Nat /\ Refill <= Full /\ Due(1) = Refill - Full
  /\ \A m \in Int : Due(m) \in Int /\ Due(m + 1) = Due(m) + Refill
<1>1. PICK c \in Nat \ {0} : c = Capacity
  BY LimitsBounds
<1>2. PICK f \in Nat \ {0} : f = Refill
  BY LimitsBounds
<1>3. c * f \in Nat /\ f <= c * f /\ (1 - c) * f = f - c * f
  BY <1>1, <1>2
<1>4. \A m \in Int : (m - c) * f \in Int /\ (m + 1 - c) * f = (m - c) * f + f
  BY <1>1, <1>2
<1> QED BY <1>1, <1>2, <1>3, <1>4 DEF Due, Full

\* A quotient, by its bounds.
LEMMA Divides ==
  ASSUME NEW x \in Nat, NEW d \in Nat \ {0}
  PROVE  x \div d \in Int /\ d * (x \div d) <= x /\ x < d * (x \div d) + d
<1>1. x % d \in 0..d - 1
  OBVIOUS
<1>2. x \div d \in Int /\ x = d * (x \div d) + (x % d)
  OBVIOUS
<1>3. PICK q \in Int : q = x \div d
  BY <1>2
<1>4. d * q \in Int
  BY <1>3
<1> QED BY <1>1, <1>2, <1>3, <1>4

\* Whoever waits as long as was answered finds a refill.
LEMMA RoundedUp ==
  ASSUME NEW ticks \in Nat, ticks < Refill
  PROVE  RetryAfter(ticks) \in Nat /\ ticks + RetryAfter(ticks) >= Refill
<1>1. PICK s \in Nat \ {0} : s = Second
  BY LimitsBounds
<1>2. PICK x \in Nat : x = Refill - ticks
  BY LimitsBounds
<1>3. PICK y \in Nat : y = x + s - 1
  BY <1>1, <1>2
<1>4. PICK q \in Int : q = y \div s /\ s * q <= y /\ y < s * q + s
  BY <1>1, <1>3, Divides
<1>5. q * s \in Int /\ q * s = s * q /\ x <= q * s
  BY <1>1, <1>2, <1>3, <1>4
<1>6. y = Refill - ticks + Second - 1
  BY <1>1, <1>2, <1>3
<1>7. RetryAfter(ticks) = q * s
  BY <1>1, <1>4, <1>6 DEF RetryAfter
<1> QED BY <1>2, <1>5, <1>7, LimitsBounds

\* Taking one element out of a list.
LEMMA Taken ==
  ASSUME NEW S, NEW list \in Seq(S), NEW k \in 1..Len(list)
  PROVE  /\ RemoveAt(list, k) \in Seq(S) /\ Len(RemoveAt(list, k)) = Len(list) - 1
         /\ \A m \in 1..Len(list) - 1 :
              RemoveAt(list, k)[m] = IF m < k THEN list[m] ELSE list[m + 1]
<1>1. PICK n \in Nat : n = Len(list)
  BY LenProperties
<1>2. \A m \in 1..n : list[m] \in S
  BY <1>1, ElementOfSeq
<1> DEFINE a == SubSeq(list, 1, k - 1)  b == SubSeq(list, k + 1, n)
<1>3. /\ a \in Seq(S) /\ Len(a) = k - 1 /\ \A m \in 1..k - 1 : a[m] = list[m]
  <2>1. 1 \in Int /\ k - 1 \in Int /\ \A m \in 1..k - 1 : list[m] \in S
    BY <1>1, <1>2
  <2>2. /\ a \in Seq(S) /\ Len(a) = IF 1 <= k - 1 THEN k - 1 - 1 + 1 ELSE 0
        /\ \A m \in 1..k - 1 - 1 + 1 : a[m] = list[1 + m - 1]
    BY <2>1, SubSeqProperties
  <2> HIDE DEF a
  <2> QED BY <1>1, <2>2
<1>4. /\ b \in Seq(S) /\ Len(b) = n - k /\ \A m \in 1..n - k : b[m] = list[k + m]
  <2>1. k + 1 \in Int /\ n \in Int /\ \A m \in k + 1..n : list[m] \in S
    BY <1>1, <1>2
  <2>2. /\ b \in Seq(S) /\ Len(b) = IF k + 1 <= n THEN n - (k + 1) + 1 ELSE 0
        /\ \A m \in 1..n - (k + 1) + 1 : b[m] = list[k + 1 + m - 1]
    BY <2>1, SubSeqProperties
  <2> HIDE DEF b
  <2>3. k \in Int /\ k <= n /\ n - (k + 1) + 1 = n - k /\ \A m \in 1..n - k : k + 1 + m - 1 = k + m
    BY <1>1
  <2>4. Len(b) = n - k
    BY <1>1, <2>2, <2>3
  <2>5. \A m \in 1..n - k : b[m] = list[k + m]
    BY ONLY <2>2, <2>3
  <2> QED BY <2>2, <2>4, <2>5
<1>5. RemoveAt(list, k) = a \o b
  BY <1>1 DEF RemoveAt
<1> HIDE DEF a, b
<1>6. /\ a \o b \in Seq(S) /\ Len(a \o b) = Len(a) + Len(b)
      /\ \A m \in 1..Len(a) + Len(b) : (a \o b)[m] = IF m <= Len(a) THEN a[m] ELSE b[m - Len(a)]
  BY <1>3, <1>4, ConcatProperties, Zenon
<1>7. PICK c : c = a \o b
  OBVIOUS
<1> QED BY <1>1, <1>3, <1>4, <1>5, <1>6, <1>7

\* The bucket of a rider moves to the end of the Map; those of others stay.
LEMMA PutAtTheEnd ==
  ASSUME LimitsTyped, BucketsKept, NEW i \in Instance, NEW rider \in Uploader, NEW ticks \in 0..Full
  PROVE  LET list == Put(i, rider, ticks)
             b == [rider |-> rider, ticks |-> ticks, at |-> now] IN
         /\ list \in Seq(Bucket) /\ OnePerRider(list)
         /\ Len(list) \in 1..MaxKeys + 1 /\ list[Len(list)] = b
         /\ Members(list) = {c \in Members(buckets[i]) : c.rider # rider} \cup {b}
         /\ BucketsOf(i, rider) # {} => Len(list) = Len(buckets[i])
<1> DEFINE b == [rider |-> rider, ticks |-> ticks, at |-> now]  rest == Others(i, rider)
<1>1. b \in Bucket /\ b.rider = rider
  BY DEF Bucket, LimitsTyped
<1>2. PICK old \in Seq(Bucket) : old = buckets[i]
  BY DEF LimitsTyped
<1>3. PICK n \in Nat : n = Len(old)
  BY LenProperties
<1>4. DOMAIN old = 1..n /\ n <= MaxKeys /\ \A m \in 1..n : old[m] \in Bucket
  BY <1>2, <1>3, LenProperties, ElementOfSeq DEF BucketsKept
<1>5. \A j, k \in 1..n : old[j].rider = old[k].rider => j = k
  BY <1>2, <1>3 DEF BucketsKept, OnePerRider
<1>6. /\ rest \in Seq(Bucket) /\ Len(rest) \in 0..MaxKeys
      /\ \A m \in 1..Len(rest) : rest[m].rider # rider
      /\ \A m \in 1..Len(rest) : \E k \in 1..n : rest[m] = old[k]
      /\ \A k \in 1..n : old[k].rider # rider => \E m \in 1..Len(rest) : rest[m] = old[k]
      /\ OnePerRider(rest)
      /\ BucketsOf(i, rider) # {} => Len(rest) = n - 1
  <2>1. CASE BucketsOf(i, rider) = {}
    <3>1. rest = old
      BY <1>2, <2>1 DEF Others
    <3>2. \A m \in 1..n : old[m].rider # rider
      BY <1>2, <1>4, <2>1 DEF BucketsOf
    <3> QED BY <1>2, <1>3, <1>4, <1>5, <2>1, <3>1, <3>2, LimitsBounds DEF OnePerRider
  <2>2. CASE BucketsOf(i, rider) # {}
    <3>1. PICK k \in 1..n : rest = RemoveAt(old, k) /\ old[k].rider = rider
      BY <1>2, <1>4, <2>2 DEF Others, BucketsOf
    <3>2. /\ rest \in Seq(Bucket) /\ Len(rest) = n - 1
          /\ \A m \in 1..n - 1 : rest[m] = IF m < k THEN old[m] ELSE old[m + 1]
      BY <1>3, <3>1, Taken
    <3> HIDE DEF rest
    <3>3. Len(rest) \in 0..MaxKeys
      BY <1>3, <1>4, <3>2, LimitsBounds
    <3>4. \A m \in 1..n - 1 : \E j \in 1..n : rest[m] = old[j] /\ j # k
      BY <1>3, <3>2, SMTT(30)
    <3>5. \A m \in 1..n - 1 : rest[m].rider # rider
      BY <1>5, <3>1, <3>4
    <3>6. ASSUME NEW j \in 1..n, old[j].rider # rider PROVE \E m \in 1..n - 1 : rest[m] = old[j]
      <4>1. j # k
        BY <3>1, <3>6
      <4>2. CASE j < k
        BY <4>2, <3>2, <1>3
      <4>3. CASE j > k
        <5>1. j - 1 \in 1..n - 1 /\ rest[j - 1] = old[j]
          BY <4>3, <3>2, <1>3
        <5> QED BY <5>1
      <4> QED BY <4>1, <4>2, <4>3, <1>3
    <3>7. ASSUME NEW p \in 1..n - 1, NEW q \in 1..n - 1, rest[p].rider = rest[q].rider PROVE p = q
      <4> DEFINE from(m) == IF m < k THEN m ELSE m + 1
      <4>1. /\ from(p) \in 1..n /\ rest[p] = old[from(p)]
            /\ from(q) \in 1..n /\ rest[q] = old[from(q)]
        BY <1>3, <3>2
      <4>2. from(p) = from(q)
        BY <4>1, <1>5, <3>7
      <4> QED BY <4>2, <1>3
    <3> QED BY <3>2, <3>3, <3>4, <3>5, <3>6, <3>7 DEF OnePerRider
  <2> QED BY <2>1, <2>2
<1>7. PICK list : list = Append(rest, b)
  OBVIOUS
<1>8. PICK l \in 0..MaxKeys : l = Len(rest)
  BY <1>6
<1> HIDE DEF rest, b
<1>9. /\ list \in Seq(Bucket) /\ Len(list) = l + 1
      /\ \A m \in 1..l : list[m] = rest[m]
      /\ list[l + 1] = b
  BY <1>1, <1>6, <1>7, <1>8, AppendProperties
<1>10. Put(i, rider, ticks) = list
  BY <1>7 DEF Put, rest, b
<1>11. OnePerRider(list)
  <2>1. \A m \in 1..l + 1 : m \in 1..l \/ m = l + 1
    BY <1>8, LimitsBounds
  <2>2. b.rider = rider /\ \A m \in 1..l : list[m].rider # rider
    BY <1>1, <1>6, <1>8, <1>9
  <2>3. \A p, q \in 1..l : list[p].rider = list[q].rider => p = q
    BY <1>6, <1>8, <1>9 DEF OnePerRider
  <2>4. \A p, q \in 1..l + 1 : list[p].rider = list[q].rider => p = q
    BY <1>9, <2>1, <2>2, <2>3
  <2> QED BY <1>9, <2>4 DEF OnePerRider
<1>12. \A c \in Members(list) : c = b \/ (c \in Members(old) /\ c.rider # rider)
  <2> SUFFICES ASSUME NEW m \in 1..l + 1 PROVE list[m] = b \/ (list[m] \in Members(old) /\ list[m].rider # rider)
    BY <1>9 DEF Members
  <2>1. m \in 1..l \/ m = l + 1
    BY <1>8, LimitsBounds
  <2>2. CASE m \in 1..l
    <3>1. list[m] = rest[m] /\ rest[m].rider # rider /\ \E k \in 1..n : rest[m] = old[k]
      BY <1>6, <1>8, <1>9, <2>2
    <3> QED BY <1>3, <3>1 DEF Members
  <2> QED BY <1>9, <2>1, <2>2
<1>13. \A c \in Members(old) : c.rider # rider => c \in Members(list)
  <2> SUFFICES ASSUME NEW k \in 1..n, old[k].rider # rider PROVE old[k] \in Members(list)
    BY <1>3 DEF Members
  <2>1. PICK m \in 1..l : rest[m] = old[k]
    BY <1>6, <1>8
  <2>2. m \in 1..l + 1 /\ list[m] = old[k]
    BY <1>8, <1>9, <2>1, LimitsBounds
  <2> QED BY <1>9, <2>2 DEF Members
<1>14. b \in Members(list)
  BY <1>8, <1>9, LimitsBounds DEF Members
<1>15. Members(list) = {c \in Members(buckets[i]) : c.rider # rider} \cup {b}
  BY <1>2, <1>12, <1>13, <1>14
<1>16. Len(list) \in 1..MaxKeys + 1 /\ (BucketsOf(i, rider) # {} => Len(list) = Len(buckets[i]))
  BY <1>2, <1>3, <1>6, <1>8, <1>9, LimitsBounds
<1> QED BY <1>9, <1>8, <1>10, <1>11, <1>15, <1>16, LimitsBounds DEF b

\* The first rider of a list that is too long is forgotten, never the last.
LEMMA FirstForgotten ==
  ASSUME NEW list \in Seq(Bucket), OnePerRider(list), Len(list) \in 1..MaxKeys + 1
  PROVE  /\ KeptBuckets(list) \in Seq(Bucket) /\ OnePerRider(KeptBuckets(list))
         /\ Len(KeptBuckets(list)) <= MaxKeys
         /\ Members(KeptBuckets(list)) \subseteq Members(list)
         /\ list[Len(list)] \in Members(KeptBuckets(list))
         /\ EvictedUploaders(list) \subseteq Uploader
         /\ \A c \in Members(list) :
              c \in Members(KeptBuckets(list)) <=> c.rider \notin EvictedUploaders(list)
<1>1. PICK n \in 1..MaxKeys + 1 : n = Len(list)
  OBVIOUS
<1>2. DOMAIN list = 1..n /\ \A m \in 1..n : list[m] \in Bucket
  BY <1>1, LenProperties, ElementOfSeq
<1>3. PICK kept : kept = KeptBuckets(list)
  OBVIOUS
<1>4. ToSet(list) = Members(list)
  BY <1>1, <1>2 DEF ToSet, Members
<1>5. CASE n <= MaxKeys
  <2>1. kept = list
    BY <1>1, <1>3, <1>5, LimitsBounds DEF KeptBuckets
  <2>2. EvictedUploaders(list) = {}
    BY <1>3, <2>1 DEF EvictedUploaders
  <2>3. list[n] \in Members(list)
    BY <1>1 DEF Members
  <2> QED BY <1>1, <1>3, <1>5, <2>1, <2>2, <2>3
<1>6. CASE n > MaxKeys
  <2>1. kept = Tail(list) /\ list # <<>> /\ n >= 2 /\ n = MaxKeys + 1
    BY <1>1, <1>3, <1>6, LimitsBounds, EmptySeq DEF KeptBuckets
  <2>2. kept \in Seq(Bucket) /\ Len(kept) = n - 1 /\ \A m \in 1..n - 1 : kept[m] = list[m + 1]
    BY <1>1, <2>1, HeadTailProperties
  <2>3. ToSet(kept) = Members(kept)
    <3>1. DOMAIN kept = 1..Len(kept)
      BY <2>2, LenProperties
    <3> QED BY <3>1 DEF ToSet, Members
  <2>4. \A p, q \in 1..n : list[p].rider = list[q].rider => p = q
    BY <1>1 DEF OnePerRider
  <2>5. OnePerRider(kept)
    BY <2>1, <2>2, <2>4 DEF OnePerRider
  <2>6. Members(kept) = {list[m] : m \in 2..n}
    <3>1. \A c \in Members(kept) : \E m \in 2..n : c = list[m]
      BY <2>1, <2>2 DEF Members
    <3>2. ASSUME NEW m \in 2..n PROVE list[m] \in Members(kept)
      <4>1. m - 1 \in 1..n - 1 /\ kept[m - 1] = list[m]
        BY <2>1, <2>2
      <4> QED BY <4>1, <2>2 DEF Members
    <3> QED BY <3>1, <3>2
  <2>7. Members(list) = {list[m] : m \in 1..n}
    BY <1>1 DEF Members
  <2>8. list[1] \notin Members(kept)
    BY <2>1, <2>4, <2>6
  <2>9. Members(list) \ Members(kept) = {list[1]}
    BY <2>1, <2>6, <2>7, <2>8
  <2>10. EvictedUploaders(list) = {list[1].rider}
    BY <1>3, <1>4, <2>3, <2>9 DEF EvictedUploaders
  <2>11. \A m \in 2..n : list[m].rider # list[1].rider
    BY <2>1, <2>4
  <2>12. list[1].rider \in Uploader
    BY <1>2, <2>1 DEF Bucket
  <2>13. list[n] \in Members(kept)
    BY <2>1, <2>6
  <2>14. Members(kept) \subseteq Members(list)
    BY <2>1, <2>6, <2>7
  <2> QED BY <1>1, <1>3, <2>1, <2>2, <2>5, <2>6, <2>7, <2>8, <2>9, <2>10, <2>11, <2>12, <2>13, <2>14,
             LimitsBounds
<1> QED BY <1>1, <1>5, <1>6, LimitsBounds

-----------------------------------------------------------------------------
RateInv == LimitsTyped /\ BucketsKept /\ TokensCounted /\ RatesHeld /\ RetriesKept

Refilled(b) == IF b.ticks + (now - b.at) > Full THEN Full ELSE b.ticks + (now - b.at)

\* A bucket fills by the time that passed, and not above the brim.
LEMMA RefilledBounds ==
  ASSUME now \in Nat, NEW b, b.at \in Nat, b.ticks \in Nat, b.ticks <= Full, b.at <= now
  PROVE  Refilled(b) \in 0..Full /\ Refilled(b) <= b.ticks + (now - b.at)
<1>1. PICK t \in Nat, a \in Nat, f \in Nat : t = b.ticks /\ a = b.at /\ f = Full
  BY Dues
<1>2. Refilled(b) = IF t + (now - a) > f THEN f ELSE t + (now - a)
  BY <1>1 DEF Refilled
<1> QED BY <1>1, <1>2

\* What a rider has on an instance is within the brim.
LEMMA TicksAre ==
  ASSUME RateInv, NEW i \in Instance, NEW rider \in Uploader
  PROVE  /\ Ticks(i, rider) \in 0..Full
         /\ BucketsOf(i, rider) = {} =>
              Ticks(i, rider) = Full /\ \A b \in Members(buckets[i]) : b.rider # rider
         /\ BucketsOf(i, rider) # {} => \E b \in Members(buckets[i]) : b.rider = rider
         /\ \A b \in Members(buckets[i]) : b \in Bucket /\
              (b.rider = rider => BucketsOf(i, rider) # {} /\ Ticks(i, rider) = Refilled(b))
<1>1. PICK list \in Seq(Bucket) : list = buckets[i]
  BY DEF RateInv, LimitsTyped
<1>2. PICK n \in Nat : n = Len(list)
  BY LenProperties
<1>3. DOMAIN list = 1..n /\ \A k \in 1..n : list[k] \in Bucket /\ list[k] \in Members(list)
  BY <1>2, LenProperties, ElementOfSeq DEF Members
<1>4. \A b \in Members(list) : \E k \in 1..n : b = list[k]
  BY <1>2 DEF Members
<1>5. BucketsOf(i, rider) = {k \in 1..n : list[k].rider = rider}
  BY <1>1, <1>3 DEF BucketsOf
<1>6. now \in Nat /\ \A b \in Members(list) : b \in Bucket /\ b.at \in Nat /\ b.ticks \in 0..Full /\ b.at <= now
  BY <1>1, <1>3, <1>4, LimitsBounds, SMTT(30) DEF RateInv, LimitsTyped, TokensCounted, Bucket, Time
<1>7. ASSUME NEW k \in 1..n, list[k].rider = rider
      PROVE  Ticks(i, rider) = Refilled(list[k])
  <2>1. BucketsOf(i, rider) = {k}
    BY <1>1, <1>2, <1>5, <1>7 DEF RateInv, BucketsKept, OnePerRider
  <2> QED BY <1>1, <2>1 DEF Ticks, Refilled
<1>8. \A b \in Members(list) : Refilled(b) \in 0..Full
  BY <1>6, RefilledBounds
<1>9. BucketsOf(i, rider) = {} => Ticks(i, rider) = Full
  BY DEF Ticks
<1>10. \A b \in Members(list) : b.rider = rider =>
         BucketsOf(i, rider) # {} /\ Ticks(i, rider) = Refilled(b)
  BY <1>4, <1>5, <1>7
<1>11. BucketsOf(i, rider) # {} => \E b \in Members(list) : b.rider = rider
  BY <1>3, <1>5
<1>12. Ticks(i, rider) \in 0..Full
  <2>1. CASE BucketsOf(i, rider) = {}
    BY <1>9, <2>1, Dues
  <2>2. CASE BucketsOf(i, rider) # {}
    BY <1>8, <1>10, <1>11, <2>2
  <2> QED BY <2>1, <2>2
<1> QED BY <1>1, <1>6, <1>9, <1>10, <1>11, <1>12

\* A token is spent on an upload of now.
LEMMA TokenSpent ==
  ASSUME now \in Nat, NEW times \in Seq(Time), NEW ticks \in 0..Full, NEW rider, ticks >= Refill,
         \A j \in 1..Len(times) :
           times[j] <= now /\ ticks + Due(Len(times) - j + 1) <= now - times[j],
         now \in Time
  PROVE  LET b == [rider |-> rider, ticks |-> ticks - Refill, at |-> now] IN
         /\ Append(times, now) \in Seq(Time)
         /\ Spent(b, Append(times, now))
         /\ Len(Append(times, now)) = Len(times) + 1
         /\ \A j \in 1..Len(times) : Append(times, now)[j] = times[j]
         /\ Append(times, now)[Len(times) + 1] = now
<1>1. PICK n \in Nat : n = Len(times)
  BY LenProperties
<1>2. PICK all : all = Append(times, now)
  OBVIOUS
<1>3. /\ all \in Seq(Time) /\ Len(all) = n + 1
      /\ \A j \in 1..n : all[j] = times[j]
      /\ all[n + 1] = now
  BY <1>1, <1>2, AppendProperties
<1>4. \A j \in 1..n : times[j] \in Nat
  BY <1>1, ElementOfSeq, LimitsBounds DEF Time
<1>5. Full \in Nat /\ Refill \in Nat /\ Due(1) = Refill - Full /\ ticks \in Nat /\ ticks <= Full
  BY Dues, LimitsBounds
<1>6. ASSUME NEW j \in 1..n
      PROVE  all[j] <= now /\ (ticks - Refill) + Due(n + 1 - j + 1) <= now - all[j]
  <2>0. n - j + 1 \in Int
    BY <1>1
  <2>1. PICK m \in Int : m = n - j + 1
    BY <2>0
  <2>4. n + 1 - j + 1 = m + 1
    BY <1>1, <2>1
  <2>2. Due(m) \in Int /\ Due(m + 1) = Due(m) + Refill
    BY Dues
  <2>3. ticks + Due(m) <= now - times[j] /\ times[j] <= now
    BY <1>1, <2>1
  <2> QED BY <1>3, <1>4, <1>5, <2>1, <2>2, <2>3, <2>4
<1>7. (ticks - Refill) + Due(n + 1 - (n + 1) + 1) <= now - all[n + 1]
  <2>1. n + 1 - (n + 1) + 1 = 1
    OBVIOUS
  <2> QED BY <1>3, <1>5, <2>1
<1>8. ASSUME NEW j \in 1..n + 1
      PROVE  all[j] <= now /\ (ticks - Refill) + Due(n + 1 - j + 1) <= now - all[j]
  <2>1. CASE j = n + 1
    BY <1>3, <1>7, <2>1
  <2>2. CASE j \in 1..n
    BY <1>6, <2>2
  <2> QED BY <2>1, <2>2
<1>9. Spent([rider |-> rider, ticks |-> ticks - Refill, at |-> now], all)
  BY <1>3, <1>8 DEF Spent
<1> QED BY <1>1, <1>2, <1>3, <1>9

\* What a bucket was spent on, looked at now.
LEMMA SpentByNow ==
  ASSUME RateInv, NEW i \in Instance, NEW rider \in Uploader
  PROVE  /\ admitted[i][rider] \in Seq(Time)
         /\ \A j \in 1..Len(admitted[i][rider]) :
              /\ admitted[i][rider][j] <= now
              /\ Ticks(i, rider) + Due(Len(admitted[i][rider]) - j + 1) <= now - admitted[i][rider][j]
<1>1. PICK times \in Seq(Time) : times = admitted[i][rider]
  BY DEF RateInv, LimitsTyped
<1>2. PICK n \in Nat : n = Len(times)
  BY LenProperties
<1>3. now \in Nat /\ \A j \in 1..n : times[j] \in Nat
  BY <1>2, ElementOfSeq, LimitsBounds DEF Time, RateInv, LimitsTyped
<1>4. CASE BucketsOf(i, rider) = {}
  <2>1. times = <<>>
    BY <1>1, <1>4, TicksAre DEF RateInv, TokensCounted
  <2> QED BY <1>1, <2>1, EmptySeq
<1>5. CASE BucketsOf(i, rider) # {}
  <2>1. PICK b \in Members(buckets[i]) : b.rider = rider /\ b \in Bucket /\ Ticks(i, rider) = Refilled(b)
    BY <1>5, TicksAre
  <2>2. b.at <= now /\ Spent(b, times)
    BY <1>1, <2>1 DEF RateInv, TokensCounted
  <2>3. b.at \in Nat /\ b.ticks \in Nat /\ b.ticks <= Full
    BY <2>1, LimitsBounds, Dues DEF Bucket, Time
  <2>4. ASSUME NEW j \in 1..n
        PROVE times[j] <= now /\ Ticks(i, rider) + Due(n - j + 1) <= now - times[j]
    <3>1. PICK d \in Int : d = Due(n - j + 1)
      BY <1>2, Dues, SMTT(90)
    <3>2. times[j] <= b.at /\ b.ticks + d <= b.at - times[j]
      BY <1>2, <2>2, <3>1 DEF Spent
    <3>3. Ticks(i, rider) <= b.ticks + (now - b.at) /\ Ticks(i, rider) \in Int
      <4>1. Refilled(b) \in 0..Full /\ Refilled(b) <= b.ticks + (now - b.at)
        BY <1>3, <2>2, <2>3, RefilledBounds
      <4> QED BY <2>1, <4>1, Dues
    <3> QED BY <1>3, <2>2, <2>3, <3>1, <3>2, <3>3, SMTT(90)
  <2> QED BY <1>1, <1>2, <2>4
<1> QED BY <1>4, <1>5

\* An upload that is admitted is paid for, and keeps the rates.
LEMMA AdmitKeepsRates ==
  ASSUME RateInv, NEW i \in Instance, NEW rider \in Uploader, NEW r \in Upload, Admit(r, i, rider),
         uploadOf' \in [Upload -> UploadState]
  PROVE  /\ RateInv'
         /\ admitted'[i][rider] = Append(admitted[i][rider], now)
         /\ \A q \in Uploader \ forgotten' : q # rider => admitted'[i][q] = admitted[i][q]
<1> DEFINE t == Ticks(i, rider) - Refill
           b == [rider |-> rider, ticks |-> t, at |-> now]
<1>1. Ticks(i, rider) \in 0..Full /\ Ticks(i, rider) >= Refill /\ t \in 0..Full
  BY TicksAre, Dues, LimitsBounds DEF Admit, Admits
<1>2. PICK list : list = Put(i, rider, t)
  OBVIOUS
<1>3. /\ list \in Seq(Bucket) /\ OnePerRider(list)
      /\ Len(list) \in 1..MaxKeys + 1 /\ list[Len(list)] = b
      /\ Members(list) = {c \in Members(buckets[i]) : c.rider # rider} \cup {b}
  BY <1>1, <1>2, PutAtTheEnd DEF RateInv
<1>4. PICK kept, gone : kept = KeptBuckets(list) /\ gone = EvictedUploaders(list)
  OBVIOUS
<1>5. /\ kept \in Seq(Bucket) /\ OnePerRider(kept) /\ Len(kept) <= MaxKeys
      /\ Members(kept) \subseteq Members(list) /\ b \in Members(kept)
      /\ gone \subseteq Uploader
      /\ \A c \in Members(list) : c \in Members(kept) <=> c.rider \notin gone
  BY <1>3, <1>4, FirstForgotten
<1>6. rider \notin gone
  BY <1>5, <1>3
<1>7. /\ now' = now /\ tours' = tours
      /\ buckets' = [buckets EXCEPT ![i] = kept]
      /\ admitted' = [admitted EXCEPT ![i] = [q \in Uploader |->
                       IF q \in gone THEN <<>> ELSE IF q = rider THEN Append(@[q], now) ELSE @[q]]]
      /\ retryAt' = [retryAt EXCEPT ![i][rider] = Never]
      /\ forgotten' = forgotten \cup gone
  BY <1>2, <1>4 DEF Admit
<1> HIDE DEF t
<1>8. PICK times \in Seq(Time) : times = admitted[i][rider]
  BY DEF RateInv, LimitsTyped
<1>9. PICK all : all = Append(times, now)
  OBVIOUS
<1>10. PICK n \in Nat : n = Len(times)
  BY LenProperties
<1>11. now \in Nat /\ now \in Time
  BY LimitsBounds DEF Time, RateInv, LimitsTyped
<1>12. /\ all \in Seq(Time) /\ Spent(b, all) /\ Len(all) = n + 1
       /\ \A j \in 1..n : all[j] = times[j]
       /\ all[n + 1] = now
  BY <1>1, <1>8, <1>9, <1>10, <1>11, SpentByNow, TokenSpent DEF t
<1>13. /\ buckets'[i] = kept
       /\ \A q \in Uploader :
            admitted'[i][q] = IF q \in gone THEN <<>> ELSE IF q = rider THEN all ELSE admitted[i][q]
       /\ \A o \in Instance : o # i => buckets'[o] = buckets[o] /\ admitted'[o] = admitted[o]
       /\ \A o \in Instance, q \in Uploader :
            retryAt'[o][q] = IF o = i /\ q = rider THEN Never ELSE retryAt[o][q]
  BY <1>7, <1>8, <1>9 DEF RateInv, LimitsTyped
<1>14. LimitsTyped'
  <2>1. now' \in Time /\ tours' \in [Uploader -> Nat] /\ uploadOf' \in [Upload -> UploadState]
    BY <1>7 DEF RateInv, LimitsTyped
  <2>2. buckets' \in [Instance -> Seq(Bucket)]
    BY <1>5, <1>7 DEF RateInv, LimitsTyped
  <2>3. admitted' \in [Instance -> [Uploader -> Seq(Time)]]
    <3>1. \A q \in Uploader : admitted'[i][q] \in Seq(Time)
      BY <1>12, <1>13, EmptySeq, ZenonT(90) DEF RateInv, LimitsTyped
    <3>2. [q \in Uploader |-> IF q \in gone THEN <<>>
             ELSE IF q = rider THEN Append(admitted[i][q], now) ELSE admitted[i][q]]
            \in [Uploader -> Seq(Time)]
      BY <1>8, <1>9, <1>12, EmptySeq DEF RateInv, LimitsTyped
    <3> QED BY <1>7, <3>2 DEF RateInv, LimitsTyped
  <2>4. retryAt' \in [Instance -> [Uploader -> Nat]]
    <3>1. Never \in Nat
      BY LimitsBounds DEF Never
    <3> QED BY <1>7, <3>1 DEF RateInv, LimitsTyped
  <2>5. forgotten' \subseteq Uploader
    BY <1>5, <1>7 DEF RateInv, LimitsTyped
  <2> QED BY <2>1, <2>2, <2>3, <2>4, <2>5 DEF LimitsTyped
<1>15. BucketsKept'
  BY <1>5, <1>13 DEF RateInv, BucketsKept
<1>16. b.rider = rider /\ b.at = now /\ b.ticks = t
  OBVIOUS
<1> HIDE DEF b
<1>17. \A c \in Members(kept) : c = b \/ (c \in Members(buckets[i]) /\ c.rider # rider /\ c.rider \notin gone)
  BY <1>3, <1>5
<1>18. TokensCounted'
  <2> SUFFICES ASSUME NEW o \in Instance
      PROVE /\ \A c \in Members(buckets'[o]) : c.at <= now' /\ Spent(c, admitted'[o][c.rider])
            /\ \A q \in Uploader :
                 (\A c \in Members(buckets'[o]) : c.rider # q) => admitted'[o][q] = <<>>
    BY DEF TokensCounted
  <2>1. CASE o # i
    BY <1>7, <1>13, <2>1 DEF RateInv, TokensCounted
  <2>2. CASE o = i
    <3>1. ASSUME NEW c \in Members(kept) PROVE c.at <= now /\ Spent(c, admitted'[i][c.rider])
      <4>1. CASE c = b
        <5>1. admitted'[i][c.rider] = all
          BY <1>6, <1>13, <1>16, <4>1
        <5> QED BY <1>11, <1>12, <1>16, <4>1, <5>1
      <4>2. CASE c # b
        <5>1. c \in Members(buckets[i]) /\ c.rider # rider /\ c.rider \notin gone /\ c.rider \in Uploader
          BY <1>17, <4>2, TicksAre DEF Bucket
        <5> QED BY <1>13, <5>1 DEF RateInv, TokensCounted
      <4> QED BY <4>1, <4>2
    <3>2. ASSUME NEW q \in Uploader, \A c \in Members(kept) : c.rider # q
          PROVE  admitted'[i][q] = <<>>
      <4>1. q # rider
        BY <1>5, <1>16, <3>2
      <4>2. CASE q \in gone
        BY <1>13, <4>2
      <4>3. CASE q \notin gone
        <5>1. \A c \in Members(buckets[i]) : c.rider # q
          BY <1>3, <1>5, <3>2, <4>1, <4>3
        <5> QED BY <1>13, <4>1, <4>3, <5>1 DEF RateInv, TokensCounted
      <4> QED BY <4>2, <4>3
    <3> QED BY <1>7, <1>13, <2>2, <3>1, <3>2
  <2> QED BY <2>1, <2>2
<1>19. RatesHeld'
  <2> SUFFICES ASSUME NEW o \in Instance, NEW q \in Uploader,
                      NEW k \in 1..Len(admitted'[o][q]), NEW j \in 1..k
      PROVE  Due(k - j + 1) <= admitted'[o][q][k] - admitted'[o][q][j]
    BY DEF RatesHeld
  <2>1. CASE o # i \/ (q # rider /\ q \notin gone)
    BY <1>13, <2>1 DEF RateInv, RatesHeld
  <2>2. CASE o = i /\ q \in gone
    <3>1. admitted'[o][q] = <<>>
      BY <1>13, <2>2
    <3> QED BY <3>1, EmptySeq
  <2>3. CASE o = i /\ q = rider
    <3>1. admitted'[o][q] = all
      BY <1>6, <1>13, <2>3
    <3>2. CASE k \in 1..n
      <4>1. Due(k - j + 1) <= times[k] - times[j]
        BY <1>8, <1>10, <3>2 DEF RateInv, RatesHeld
      <4> QED BY <1>12, <3>1, <3>2, <4>1
    <3>3. CASE k = n + 1
      <4>1. PICK d \in Int : d = Due(k - j + 1)
        BY <3>3, Dues
      <4>2. j \in 1..n + 1 /\ n + 1 - j + 1 = k - j + 1
        BY <3>3
      <4>3. b.ticks + d <= b.at - all[j]
        BY <1>12, <4>1, <4>2 DEF Spent
      <4>4. all[j] \in Nat
        BY <1>12, <4>2, ElementOfSeq, LimitsBounds DEF Time
      <4>5. b.ticks \in Nat
        BY <1>1, <1>16, Dues
      <4> QED BY <1>11, <1>12, <1>16, <3>1, <3>3, <4>1, <4>3, <4>4, <4>5
    <3> QED BY <1>10, <1>12, <3>1, <3>2, <3>3
  <2> QED BY <2>1, <2>2, <2>3
<1>20. RetriesKept'
  <2> SUFFICES ASSUME NEW o \in Instance, NEW c \in Members(buckets'[o]), retryAt'[o][c.rider] < Never'
      PROVE  c.ticks + (retryAt'[o][c.rider] - c.at) >= Refill
    BY DEF RetriesKept
  <2>1. CASE o # i
    BY <1>13, <2>1, TicksAre DEF RateInv, RetriesKept, Never, Bucket
  <2>2. CASE o = i
    <3>1. c \in Members(kept)
      BY <1>13, <2>2
    <3>2. Never \in Nat /\ ~(Never < Never)
      BY LimitsBounds DEF Never
    <3>3. c # b
      BY <1>13, <1>16, <2>2, <3>2 DEF Never
    <3>4. c \in Members(buckets[i]) /\ c.rider # rider /\ c.rider \in Uploader
      BY <1>17, <3>1, <3>3, TicksAre DEF Bucket
    <3> QED BY <1>13, <2>2, <3>4 DEF RateInv, RetriesKept, Never
  <2> QED BY <2>1, <2>2
<1>21. RateInv'
  BY <1>14, <1>15, <1>18, <1>19, <1>20 DEF RateInv
<1>22. \A q \in Uploader \ forgotten' : q # rider => admitted'[i][q] = admitted[i][q]
  BY <1>7, <1>13
<1> QED BY <1>6, <1>8, <1>9, <1>13, <1>21, <1>22

\* An upload that is throttled keeps the rates.
LEMMA ThrottleKeepsRates ==
  ASSUME RateInv, NEW i \in Instance, NEW rider \in Uploader, Throttle(i, rider)
  PROVE  RateInv'
<1> DEFINE t == Ticks(i, rider)
           b == [rider |-> rider, ticks |-> t, at |-> now]
<1>1. t \in 0..Full /\ t < Refill /\ t \in Nat
  BY TicksAre, Dues, LimitsBounds DEF Throttle, Admits
<1>2. BucketsOf(i, rider) # {}
  BY <1>1, TicksAre, Dues, LimitsBounds
<1>3. PICK list : list = Put(i, rider, t)
  OBVIOUS
<1>4. /\ list \in Seq(Bucket) /\ OnePerRider(list) /\ Len(list) = Len(buckets[i])
      /\ Members(list) = {c \in Members(buckets[i]) : c.rider # rider} \cup {b}
  BY <1>1, <1>2, <1>3, PutAtTheEnd DEF RateInv
<1>5. PICK wait \in Nat : wait = RetryAfter(t) /\ t + wait >= Refill
  BY <1>1, RoundedUp
<1>6. /\ now' = now /\ UNCHANGED <<uploadOf, tours, admitted, forgotten>>
      /\ buckets' = [buckets EXCEPT ![i] = list]
      /\ retryAt' = [retryAt EXCEPT ![i][rider] = now + wait]
  BY <1>3, <1>5 DEF Throttle
<1>7. now \in Nat
  BY LimitsBounds DEF Time, RateInv, LimitsTyped
<1>8. /\ buckets'[i] = list
      /\ \A o \in Instance : o # i => buckets'[o] = buckets[o]
      /\ \A o \in Instance, q \in Uploader :
           retryAt'[o][q] = IF o = i /\ q = rider THEN now + wait ELSE retryAt[o][q]
  BY <1>6 DEF RateInv, LimitsTyped
<1>9. LimitsTyped'
  BY <1>4, <1>5, <1>6, <1>7 DEF RateInv, LimitsTyped
<1>10. BucketsKept'
  BY <1>4, <1>8 DEF RateInv, BucketsKept
<1>11. RatesHeld'
  BY <1>6 DEF RateInv, RatesHeld
<1>12. b.rider = rider /\ b.at = now /\ b.ticks = t
  OBVIOUS
<1>13. PICK times \in Seq(Time) : times = admitted[i][rider]
  BY SpentByNow
<1>14. Spent(b, times)
  BY <1>12, <1>13, SpentByNow DEF Spent
<1> HIDE DEF b
<1>15. TokensCounted'
  <2> SUFFICES ASSUME NEW o \in Instance
      PROVE /\ \A c \in Members(buckets'[o]) : c.at <= now /\ Spent(c, admitted[o][c.rider])
            /\ \A q \in Uploader :
                 (\A c \in Members(buckets'[o]) : c.rider # q) => admitted[o][q] = <<>>
    BY <1>6 DEF TokensCounted
  <2>1. CASE o # i
    BY <1>8, <2>1 DEF RateInv, TokensCounted
  <2>2. CASE o = i
    <3>1. ASSUME NEW c \in Members(list) PROVE c.at <= now /\ Spent(c, admitted[i][c.rider])
      <4>1. CASE c = b
        BY <1>7, <1>12, <1>13, <1>14, <4>1
      <4>2. CASE c # b
        BY <1>4, <4>2 DEF RateInv, TokensCounted
      <4> QED BY <4>1, <4>2
    <3>2. ASSUME NEW q \in Uploader, \A c \in Members(list) : c.rider # q
          PROVE  admitted[i][q] = <<>>
      <4>1. q # rider
        BY <1>4, <1>12, <3>2
      <4>2. \A c \in Members(buckets[i]) : c.rider # q
        BY <1>4, <3>2, <4>1
      <4> QED BY <4>2 DEF RateInv, TokensCounted
    <3> QED BY <1>8, <2>2, <3>1, <3>2
  <2> QED BY <2>1, <2>2
<1>16. RetriesKept'
  <2> SUFFICES ASSUME NEW o \in Instance, NEW c \in Members(buckets'[o]), retryAt'[o][c.rider] < Never
      PROVE  c.ticks + (retryAt'[o][c.rider] - c.at) >= Refill
    BY DEF RetriesKept, Never
  <2>1. CASE o # i
    BY <1>8, <2>1, TicksAre, SMTT(30) DEF RateInv, RetriesKept, Bucket
  <2>2. CASE o = i /\ c = b
    <3>1. c.ticks = t /\ c.at = now /\ retryAt'[o][c.rider] = now + wait
      BY <1>8, <1>12, <2>2
    <3> QED BY <1>1, <1>5, <1>7, <3>1, LimitsBounds
  <2>3. CASE o = i /\ c # b
    <3>1. c \in Members(buckets[i]) /\ c.rider # rider /\ c.rider \in Uploader
      BY <1>4, <1>8, <2>3, TicksAre DEF Bucket
    <3> QED BY <1>8, <2>3, <3>1 DEF RateInv, RetriesKept
  <2> QED BY <2>1, <2>2, <2>3
<1> QED BY <1>9, <1>10, <1>11, <1>15, <1>16 DEF RateInv

\* A step of an upload, or of the clock, leaves the buckets alone.
LEMMA OthersKeepRates ==
  ASSUME RateInv, UNCHANGED <<buckets, limitsHistory>>, now' \in Time, now <= now',
         uploadOf' \in [Upload -> UploadState], tours' \in [Uploader -> Nat]
  PROVE  RateInv'
<1>1. UNCHANGED <<admitted, retryAt, forgotten>> /\ buckets' = buckets
  BY DEF limitsHistory
<1>2. LimitsTyped'
  BY <1>1 DEF RateInv, LimitsTyped
<1>3. BucketsKept' /\ RatesHeld'
  BY <1>1 DEF RateInv, BucketsKept, RatesHeld
<1>4. RetriesKept'
  BY <1>1 DEF RateInv, RetriesKept, Never
<1>5. TokensCounted'
  <2>1. now \in Nat /\ now' \in Nat
    BY LimitsBounds DEF Time, RateInv, LimitsTyped
  <2>2. \A i \in Instance : \A b \in Members(buckets[i]) : b.at \in Nat /\ b.at <= now'
    <3> SUFFICES ASSUME NEW i \in Instance, NEW b \in Members(buckets[i])
                 PROVE b.at \in Nat /\ b.at <= now'
      OBVIOUS
    <3>1. buckets[i] \in Seq(Bucket)
      BY DEF RateInv, LimitsTyped
    <3>2. b \in Bucket
      BY <3>1, ElementOfSeq DEF Members
    <3>3. b.at \in Nat /\ b.at <= now
      BY <3>2, LimitsBounds DEF Bucket, Time, RateInv, TokensCounted
    <3> QED BY <2>1, <3>3
  <2> QED BY <1>1, <2>2 DEF RateInv, TokensCounted
<1> QED BY <1>2, <1>3, <1>4, <1>5 DEF RateInv

-----------------------------------------------------------------------------
\* The uploads of a rider that are under way, and those past the check of the quota.
Active(rider) == {r \in Upload : uploadOf[r].pc # "idle" /\ uploadOf[r].rider = rider}
Storing(rider) == {r \in Upload : uploadOf[r].pc = "store" /\ uploadOf[r].rider = rider}

\* Each upload under way has a token of its own, spent when it began.
HasToken(r, rider, i, k) ==
  k \in 1..Len(admitted[i][rider]) /\ admitted[i][rider][k] = uploadOf[r].at
TokensOf(rider, f) ==
  /\ f \in [Active(rider) -> Instance \X Nat]
  /\ \A r, q \in Active(rider) : f[r] = f[q] => r = q
  /\ \A r \in Active(rider) : HasToken(r, rider, f[r][1], f[r][2])
UploadsAdmitted == \A rider \in Uploader \ forgotten : \E f : TokensOf(rider, f)

\* Nobody checks the quota of a rider who has reached it: those past the check were so together.
AtOnce == Capacity + MaxDuration \div Refill
Burst == Cardinality(Instance) * AtOnce
OvershootCounted ==
  \A rider \in Uploader \ forgotten :
    tours[rider] >= MaxTours =>
      /\ IsFiniteSet(Storing(rider))
      /\ tours[rider] + Cardinality(Storing(rider)) <= MaxTours - 1 + Burst

LimitsInv == RateInv /\ UploadsTimed /\ UploadsAdmitted /\ OvershootCounted

\* Numbers have a least one.
LEMMA LeastOf ==
  ASSUME NEW T \in SUBSET Nat, T # {}
  PROVE  \E m \in T : \A k \in T : m <= k
<1>1. T \subseteq Nat
  OBVIOUS
<1>2. PICK m \in T : \A k \in T : <<k, m>> \notin OpToRel(<, Nat)
  BY <1>1, WFMin, NatLessThanWellFounded, Zenon
<1>3. \A k \in T : ~(k < m)
  BY <1>1, <1>2, Zenon DEF OpToRel
<1> QED BY <1>3

\* The bounds on uploads at once are numbers.
LEMMA BurstBounds == AtOnce \in Nat /\ Burst \in Nat
<1>1. MaxDuration \div Refill \in Nat
  <2>1. PICK x \in Nat, d \in Nat \ {0} : x = MaxDuration /\ d = Refill
    BY LimitsBounds
  <2>2. PICK q \in Int : q = x \div d /\ x < d * q + d
    BY Divides
  <2>3. q >= 0
    <3>1. ASSUME q <= -1 PROVE FALSE
      <4>1. d * q + d <= 0
        <5>1. d * (q + 1) = d * q + d /\ q + 1 <= 0 /\ d >= 0
          BY <3>1
        <5>2. d * (q + 1) <= 0
          BY <5>1
        <5> QED BY <5>1, <5>2
      <4>2. d * q + d \in Int
        OBVIOUS
      <4> QED BY <2>2, <4>1, <4>2
    <3> QED BY <3>1
  <2> QED BY <2>1, <2>2, <2>3
<1>2. AtOnce \in Nat
  BY <1>1, LimitsBounds DEF AtOnce
<1>3. Cardinality(Instance) \in Nat
  BY LimitsBounds, FS_CardinalityType
<1> QED BY <1>2, <1>3 DEF Burst

\* Uploads that an instance admitted within MaxDuration are AtOnce at most.
LEMMA WithinBurst ==
  ASSUME NEW m \in Int, Due(m) <= MaxDuration
  PROVE  m <= AtOnce
<1>1. PICK x \in Nat, d \in Nat \ {0}, c \in Nat \ {0} : x = MaxDuration /\ d = Refill /\ c = Capacity
  BY LimitsBounds
<1>2. PICK q \in Int : q = x \div d /\ x < d * q + d
  BY Divides
<1>3. PICK y \in Int : y = m - c
  BY <1>1
<1>4. y * d <= x
  BY <1>1, <1>3 DEF Due
<1>5. ASSUME y >= q + 1 PROVE FALSE
  <2>1. (y - (q + 1)) * d >= 0
    BY <1>5
  <2>2. (y - (q + 1)) * d = y * d - (d * q + d)
    OBVIOUS
  <2>3. y * d \in Int /\ d * q + d \in Int
    OBVIOUS
  <2> QED BY <1>2, <1>4, <2>1, <2>2, <2>3
<1>6. AtOnce = c + q
  BY <1>1, <1>2 DEF AtOnce
<1> QED BY <1>1, <1>3, <1>5, <1>6

\* A rider has few uploads under way.
LEMMA FewActive ==
  ASSUME LimitsInv, NEW rider \in Uploader \ forgotten
  PROVE  /\ IsFiniteSet(Active(rider)) /\ Cardinality(Active(rider)) <= Burst
         /\ Cardinality(Active(rider)) \in Nat
<1>1. PICK f : TokensOf(rider, f)
  BY DEF LimitsInv, UploadsAdmitted
<1> DEFINE A == Active(rider)
           Of(i) == {k \in Nat : \E r \in A : f[r] = <<i, k>>}
           low == [i \in Instance |-> CHOOSE m \in Of(i) : \A k \in Of(i) : m <= k]
           g == [r \in A |-> <<f[r][1], f[r][2] - low[f[r][1]] + 1>>]
<1>2. \A r \in A : /\ f[r] = <<f[r][1], f[r][2]>> /\ f[r][1] \in Instance /\ f[r][2] \in Nat
                   /\ HasToken(r, rider, f[r][1], f[r][2])
  BY <1>1 DEF TokensOf
<1>3. \A r, q \in A : f[r] = f[q] => r = q
  BY <1>1 DEF TokensOf
<1>4. \A r \in A : /\ uploadOf[r].at \in Nat /\ uploadOf[r].at <= now
                   /\ now - uploadOf[r].at <= MaxDuration
  BY LimitsBounds DEF Active, LimitsInv, RateInv, LimitsTyped, UploadState, UploadsTimed, Time
<1>5. ASSUME NEW r \in A PROVE LET i == f[r][1] IN
        low[i] \in Nat /\ f[r][2] >= low[i] /\ f[r][2] - low[i] + 1 <= AtOnce
  <2>1. PICK i \in Instance, k \in Nat : f[r] = <<i, k>> /\ HasToken(r, rider, i, k)
    BY <1>2
  <2>2. Of(i) \in SUBSET Nat /\ k \in Of(i)
    BY <2>1
  <2>3. \E m \in Of(i) : \A j \in Of(i) : m <= j
    BY <2>2, LeastOf
  <2>4. PICK m \in Nat : m = low[i] /\ m \in Of(i) /\ m <= k
    BY <2>2, <2>3
  <2>5. PICK q \in A : f[q] = <<i, m>>
    BY <2>4
  <2>6. HasToken(q, rider, i, m)
    BY <1>2, <2>5
  <2>7. k - m + 1 \in Int /\ m \in 1..k
    BY <2>1, <2>4, <2>6, SMTT(40) DEF HasToken
  <2>8. Due(k - m + 1) <= uploadOf[r].at - uploadOf[q].at
    BY <2>1, <2>6, <2>7 DEF HasToken, LimitsInv, RateInv, RatesHeld
  <2>9. Due(k - m + 1) <= MaxDuration
    <3>1. PICK d \in Int : d = Due(k - m + 1)
      BY <2>7, Dues
    <3>2. now \in Nat /\ MaxDuration \in Nat
      BY LimitsBounds DEF LimitsInv, RateInv, LimitsTyped, Time
    <3> QED BY <1>4, <2>8, <3>1, <3>2
  <2>10. k - m + 1 <= AtOnce
    BY <2>7, <2>9, WithinBurst
  <2> QED BY <2>1, <2>4, <2>10
<1> HIDE DEF low
<1>6. g \in Injection(A, Instance \X (1..AtOnce))
  <2>1. \A r \in A : f[r][2] - low[f[r][1]] + 1 \in 1..AtOnce
    BY <1>2, <1>5, BurstBounds
  <2>2. g \in [A -> Instance \X (1..AtOnce)]
    BY <1>2, <2>1
  <2>3. ASSUME NEW r \in A, NEW q \in A, g[r] = g[q] PROVE r = q
    <3>1. f[r][1] = f[q][1] /\ f[r][2] - low[f[r][1]] + 1 = f[q][2] - low[f[q][1]] + 1
      BY <2>3
    <3>2. f[r][2] = f[q][2]
      <4>1. PICK l \in Nat : l = low[f[r][1]]
        BY <1>5
      <4> QED BY <1>2, <3>1, <4>1
    <3> QED BY <1>2, <1>3, <3>1, <3>2
  <2> QED BY <2>2, <2>3 DEF Injection, IsInjective
<1> HIDE DEF g
<1>7. IsFiniteSet(1..AtOnce) /\ Cardinality(1..AtOnce) = AtOnce
  BY BurstBounds, FS_Interval
<1>8. /\ IsFiniteSet(Instance \X (1..AtOnce))
      /\ Cardinality(Instance \X (1..AtOnce)) = Burst
  BY <1>7, LimitsBounds, FS_Product DEF Burst
<1>9. IsFiniteSet(A) /\ Cardinality(A) <= Burst
  BY <1>6, <1>8, FS_Injection
<1> QED BY <1>9, FS_CardinalityType

\* Few of them have passed the quota.
LEMMA StoringFew ==
  ASSUME LimitsInv, NEW rider \in Uploader \ forgotten
  PROVE  /\ IsFiniteSet(Storing(rider)) /\ Cardinality(Storing(rider)) \in Nat
         /\ Cardinality(Storing(rider)) <= Burst
<1>1. Storing(rider) \in SUBSET Active(rider)
  BY DEF Storing, Active
<1>2. IsFiniteSet(Storing(rider)) /\ Cardinality(Storing(rider)) <= Cardinality(Active(rider))
  BY <1>1, FewActive, FS_Subset
<1> QED BY <1>2, FewActive, FS_CardinalityType, BurstBounds

\* No upload begins, and those that go on keep their time.
LEMMA NoneBegins ==
  ASSUME LimitsInv, admitted' = admitted, forgotten' = forgotten,
         \A rider \in Uploader : \A r \in Active(rider)' :
           r \in Active(rider) /\ uploadOf'[r].at = uploadOf[r].at
  PROVE  UploadsAdmitted'
<1> SUFFICES ASSUME NEW rider \in Uploader \ forgotten PROVE \E f : TokensOf(rider, f)'
  BY DEF UploadsAdmitted
<1>1. PICK f : TokensOf(rider, f)
  BY DEF LimitsInv, UploadsAdmitted
<1>2. PICK before, after : before = Active(rider) /\ after = Active(rider)'
  OBVIOUS
<1>3. after \subseteq before /\ \A r \in after : uploadOf'[r].at = uploadOf[r].at
  BY <1>2
<1>4. /\ f \in [before -> Instance \X Nat]
      /\ \A r, q \in before : f[r] = f[q] => r = q
      /\ \A r \in before : HasToken(r, rider, f[r][1], f[r][2])
  BY <1>1, <1>2 DEF TokensOf
<1>5. PICK g \in [after -> Instance \X Nat] : \A r \in after : g[r] = f[r]
  <2>1. [r \in after |-> f[r]] \in [after -> Instance \X Nat]
    BY <1>3, <1>4
  <2> QED BY <2>1
<1>6. \A r, q \in after : g[r] = g[q] => r = q
  BY <1>3, <1>4, <1>5
<1>7. ASSUME NEW r \in after PROVE HasToken(r, rider, g[r][1], g[r][2])'
  <2>1. HasToken(r, rider, g[r][1], g[r][2])
    BY <1>3, <1>4, <1>5
  <2> QED BY <1>3, <2>1 DEF HasToken
<1>8. TokensOf(rider, g)'
  BY <1>2, <1>5, <1>6, <1>7 DEF TokensOf
<1> QED BY <1>8

\* Nobody passes the check of the quota.
LEMMA NoneStoresMore ==
  ASSUME LimitsInv, forgotten \subseteq forgotten',
         \A rider \in Uploader : tours'[rider] \in Nat /\ tours'[rider] <= tours[rider],
         \A rider \in Uploader : tours[rider] >= MaxTours => Storing(rider)' \subseteq Storing(rider)
  PROVE  OvershootCounted'
<1> SUFFICES ASSUME NEW rider \in Uploader \ forgotten', tours'[rider] >= MaxTours
    PROVE /\ IsFiniteSet(Storing(rider)')
          /\ tours'[rider] + Cardinality(Storing(rider)') <= MaxTours - 1 + Burst
  BY DEF OvershootCounted, Burst, AtOnce
<1>1. tours[rider] \in Nat /\ tours'[rider] \in Nat /\ tours'[rider] <= tours[rider]
  BY DEF LimitsInv, RateInv, LimitsTyped
<1>2. tours[rider] >= MaxTours
  BY <1>1, LimitsBounds
<1>3. /\ IsFiniteSet(Storing(rider)) /\ Cardinality(Storing(rider)) \in Nat
      /\ tours[rider] + Cardinality(Storing(rider)) <= MaxTours - 1 + Burst
  BY <1>2, StoringFew DEF LimitsInv, OvershootCounted
<1>4. Storing(rider)' \in SUBSET Storing(rider)
  BY <1>2
<1>5. /\ IsFiniteSet(Storing(rider)') /\ Cardinality(Storing(rider)') <= Cardinality(Storing(rider))
      /\ Cardinality(Storing(rider)') \in Nat
  BY <1>3, <1>4, FS_Subset, FS_CardinalityType
<1> QED BY <1>1, <1>3, <1>5, BurstBounds, LimitsBounds

\* How an upload is after one step of it: it goes on, or is over.
LEMMA UploadMoves ==
  ASSUME LimitsInv, NEW r \in Upload, uploadOf[r].pc # "idle", UNCHANGED <<now, buckets, limitsHistory>>,
         tours' \in [Uploader -> Nat],
         \/ uploadOf' = [uploadOf EXCEPT ![r] = NoUpload]
         \/ uploadOf' = [uploadOf EXCEPT ![r] = [uploadOf[r] EXCEPT !.pc = "store"]]
  PROVE  RateInv' /\ UploadsTimed' /\ UploadsAdmitted'
<1>1. uploadOf \in [Upload -> UploadState] /\ now \in Time /\ now <= now
  BY LimitsBounds DEF LimitsInv, RateInv, LimitsTyped, Time
<1>2. NoUpload \in UploadState /\ [uploadOf[r] EXCEPT !.pc = "store"] \in UploadState
  BY <1>1, LimitsBounds DEF NoUpload, UploadState, Time
<1>3. uploadOf' \in [Upload -> UploadState]
  BY <1>1, <1>2
<1>4. RateInv'
  BY <1>1, <1>3, OthersKeepRates DEF LimitsInv
<1>5. /\ \A x \in Upload : x # r => uploadOf'[x] = uploadOf[x]
      /\ \/ uploadOf'[r].pc = "idle"
         \/ uploadOf'[r].rider = uploadOf[r].rider /\ uploadOf'[r].at = uploadOf[r].at
  BY <1>1 DEF NoUpload, UploadState
<1>6. UploadsTimed'
  BY <1>5 DEF LimitsInv, UploadsTimed
<1>7. \A rider \in Uploader : \A x \in Active(rider)' :
        x \in Active(rider) /\ uploadOf'[x].at = uploadOf[x].at
  BY <1>5 DEF Active
<1> QED BY <1>4, <1>6, <1>7, NoneBegins DEF limitsHistory

\* An upload that is admitted keeps the invariant.
LEMMA AdmitKeeps ==
  ASSUME LimitsInv, NEW i \in Instance, NEW rider \in Uploader, NEW r \in Upload, Admit(r, i, rider)
  PROVE  LimitsInv'
<1>1. /\ uploadOf \in [Upload -> UploadState] /\ now \in Time /\ now \in Nat
      /\ tours \in [Uploader -> Nat]
  BY LimitsBounds DEF LimitsInv, RateInv, LimitsTyped, Time
<1>2. /\ uploadOf[r].pc = "idle" /\ now' = now /\ tours' = tours /\ forgotten \subseteq forgotten'
      /\ uploadOf' = [uploadOf EXCEPT ![r] = [pc |-> "quota", rider |-> rider, at |-> now]]
      /\ \A o \in Instance : o # i => admitted'[o] = admitted[o]
  BY DEF Admit, LimitsInv, RateInv, LimitsTyped
<1>3. [pc |-> "quota", rider |-> rider, at |-> now] \in UploadState
  BY <1>1 DEF UploadState
<1>4. uploadOf' \in [Upload -> UploadState]
  BY <1>1, <1>2, <1>3
<1>5. /\ RateInv'
      /\ admitted'[i][rider] = Append(admitted[i][rider], now)
      /\ \A q \in Uploader \ forgotten' : q # rider => admitted'[i][q] = admitted[i][q]
  BY <1>4, AdmitKeepsRates DEF LimitsInv
<1>6. /\ \A x \in Upload : x # r => uploadOf'[x] = uploadOf[x]
      /\ uploadOf'[r].pc = "quota" /\ uploadOf'[r].rider = rider /\ uploadOf'[r].at = now
  BY <1>1, <1>2
<1>7. UploadsTimed'
  BY <1>1, <1>2, <1>6, LimitsBounds DEF LimitsInv, UploadsTimed
<1>8. OvershootCounted'
  <2>1. \A q \in Uploader : Storing(q)' \subseteq Storing(q)
    BY <1>6 DEF Storing
  <2>2. \A q \in Uploader : tours'[q] \in Nat /\ tours'[q] <= tours[q]
    BY <1>1, <1>2
  <2> QED BY <1>2, <2>1, <2>2, NoneStoresMore
<1>9. UploadsAdmitted'
  <2> SUFFICES ASSUME NEW q \in Uploader \ forgotten' PROVE \E f : TokensOf(q, f)'
    BY DEF UploadsAdmitted
  <2>1. PICK f : TokensOf(q, f)
    BY <1>2 DEF LimitsInv, UploadsAdmitted
  <2>2. CASE q # rider
    <3>1. Active(q)' = Active(q) /\ \A x \in Active(q) : uploadOf'[x] = uploadOf[x]
      BY <1>2, <1>6, <2>2 DEF Active
    <3>2. \A o \in Instance : admitted'[o][q] = admitted[o][q]
      BY <1>2, <1>5, <2>2
    <3>3. \A x \in Active(q) : HasToken(x, q, f[x][1], f[x][2])'
      BY <2>1, <3>1, <3>2 DEF TokensOf, HasToken
    <3>4. TokensOf(q, f)'
      BY <2>1, <3>1, <3>3 DEF TokensOf
    <3> QED BY <3>4
  <2>3. CASE q = rider
    <3>1. PICK times \in Seq(Time) : times = admitted[i][rider]
      BY DEF LimitsInv, RateInv, LimitsTyped
    <3>2. PICK n \in Nat : n = Len(times)
      BY <3>1, LenProperties
    <3>3. PICK all : all = Append(times, now)
      OBVIOUS
    <3>4. /\ Len(all) = n + 1 /\ all[n + 1] = now
          /\ \A j \in 1..n : all[j] = times[j]
      BY <1>1, <3>2, <3>3, AppendProperties
    <3>5. admitted'[i][rider] = all
      BY <1>5, <3>1, <3>3
    <3>6. PICK before, after : before = Active(q) /\ after = Active(q)'
      OBVIOUS
    <3>7. after = before \cup {r} /\ r \notin before /\ \A x \in before : uploadOf'[x] = uploadOf[x]
      BY <1>2, <1>6, <2>3, <3>6 DEF Active
    <3>8. /\ f \in [before -> Instance \X Nat]
          /\ \A x, y \in before : f[x] = f[y] => x = y
          /\ \A x \in before : HasToken(x, q, f[x][1], f[x][2])
      BY <2>1, <3>6 DEF TokensOf
    <3>9. PICK g \in [after -> Instance \X Nat] : g[r] = <<i, n + 1>> /\ \A x \in before : g[x] = f[x]
      <4> DEFINE h == [x \in after |-> IF x = r THEN <<i, n + 1>> ELSE f[x]]
      <4>1. <<i, n + 1>> \in Instance \X Nat
        BY <3>2
      <4>2. h \in [after -> Instance \X Nat]
        BY <3>7, <3>8, <4>1
      <4>3. h[r] = <<i, n + 1>> /\ \A x \in before : h[x] = f[x]
        BY <3>7
      <4> QED BY <4>2, <4>3
    <3>10. ASSUME NEW x \in before PROVE HasToken(x, q, g[x][1], g[x][2])' /\ g[x] # <<i, n + 1>>
      <4>1. PICK o \in Instance, k \in Nat : f[x] = <<o, k>>
        BY <3>8
      <4>2. HasToken(x, q, o, k) /\ g[x] = <<o, k>> /\ g[x][1] = o /\ g[x][2] = k
        BY <3>8, <3>9, <4>1
      <4>3. uploadOf'[x] = uploadOf[x]
        BY <3>7
      <4>4. CASE o = i
        <5>1. k \in 1..n /\ times[k] = uploadOf[x].at
          BY <2>3, <3>1, <3>2, <4>2, <4>4 DEF HasToken
        <5>2. k \in 1..n + 1 /\ k # n + 1 /\ all[k] = uploadOf[x].at
          BY <3>4, <5>1
        <5>3. k \in 1..Len(admitted'[o][q]) /\ admitted'[o][q][k] = uploadOf'[x].at
          BY <2>3, <3>4, <3>5, <4>3, <4>4, <5>2
        <5> QED BY <4>2, <5>2, <5>3 DEF HasToken
      <4>5. CASE o # i
        <5>1. k \in 1..Len(admitted'[o][q]) /\ admitted'[o][q][k] = uploadOf'[x].at
          BY <1>2, <4>2, <4>3, <4>5 DEF HasToken
        <5> QED BY <4>2, <4>5, <5>1 DEF HasToken
      <4> QED BY <4>4, <4>5
    <3>11. HasToken(r, q, g[r][1], g[r][2])'
      <4>1. n + 1 \in 1..n + 1
        BY <3>2
      <4>2. g[r][1] = i /\ g[r][2] = n + 1
        BY <3>9
      <4>3. n + 1 \in 1..Len(admitted'[i][q]) /\ admitted'[i][q][n + 1] = uploadOf'[r].at
        BY <1>6, <2>3, <3>4, <3>5, <4>1
      <4> QED BY <4>2, <4>3 DEF HasToken
    <3>12. \A x, y \in after : g[x] = g[y] => x = y
      BY <3>7, <3>8, <3>9, <3>10
    <3>13. \A x \in after : HasToken(x, q, g[x][1], g[x][2])'
      BY <3>7, <3>10, <3>11
    <3>14. TokensOf(q, g)'
      BY <3>6, <3>9, <3>12, <3>13 DEF TokensOf
    <3> QED BY <3>14
  <2> QED BY <2>2, <2>3
<1> QED BY <1>5, <1>7, <1>8, <1>9 DEF LimitsInv

\* An upload that is throttled keeps it.
LEMMA ThrottleKeeps ==
  ASSUME LimitsInv, NEW i \in Instance, NEW rider \in Uploader, Throttle(i, rider)
  PROVE  LimitsInv'
<1>1. RateInv'
  BY ThrottleKeepsRates DEF LimitsInv
<1>2. UNCHANGED <<now, uploadOf, tours, admitted, forgotten>>
  BY DEF Throttle
<1>3. UploadsTimed'
  BY <1>2 DEF LimitsInv, UploadsTimed
<1>4. UploadsAdmitted'
  BY <1>2, NoneBegins DEF Active
<1>5. OvershootCounted'
  <2>1. \A q \in Uploader : tours'[q] \in Nat /\ tours'[q] <= tours[q]
    BY <1>2 DEF LimitsInv, RateInv, LimitsTyped
  <2> QED BY <1>2, <2>1, NoneStoresMore DEF Storing
<1> QED BY <1>1, <1>3, <1>4, <1>5 DEF LimitsInv

\* The check of the quota keeps it.
LEMMA CheckQuotaKeeps ==
  ASSUME LimitsInv, NEW r \in Upload, CheckQuota(r)
  PROVE  LimitsInv'
<1>1. /\ uploadOf \in [Upload -> UploadState] /\ tours \in [Uploader -> Nat]
      /\ uploadOf[r].pc = "quota" /\ uploadOf[r].rider \in Uploader
  BY DEF CheckQuota, LimitsInv, RateInv, LimitsTyped, UploadsTimed
<1>2. RateInv' /\ UploadsTimed' /\ UploadsAdmitted'
  BY <1>1, UploadMoves DEF CheckQuota
<1>3. UNCHANGED <<tours, forgotten>>
  BY DEF CheckQuota, limitsHistory
<1>4. /\ \A x \in Upload : x # r => uploadOf'[x] = uploadOf[x]
      /\ OverQuota(uploadOf[r].rider) => uploadOf'[r].pc = "idle"
      /\ uploadOf'[r].pc # "idle" => uploadOf'[r].rider = uploadOf[r].rider
  BY <1>1 DEF CheckQuota, NoUpload, UploadState
<1>5. ASSUME NEW q \in Uploader, tours[q] >= MaxTours PROVE Storing(q)' \subseteq Storing(q)
  <2>1. OverQuota(q)
    BY <1>1, <1>5, LimitsBounds DEF OverQuota
  <2> QED BY <1>4, <2>1 DEF Storing
<1>6. OvershootCounted'
  BY <1>1, <1>3, <1>5, NoneStoresMore
<1> QED BY <1>2, <1>6 DEF LimitsInv

\* An upload that fails keeps it.
LEMMA UploadFailsKeeps ==
  ASSUME LimitsInv, NEW r \in Upload, UploadFails(r)
  PROVE  LimitsInv'
<1>1. uploadOf \in [Upload -> UploadState] /\ tours \in [Uploader -> Nat]
  BY DEF LimitsInv, RateInv, LimitsTyped
<1>2. RateInv' /\ UploadsTimed' /\ UploadsAdmitted'
  BY <1>1, UploadMoves DEF UploadFails
<1>3. UNCHANGED <<tours, forgotten>>
  BY DEF UploadFails, limitsHistory
<1>4. (\A x \in Upload : x # r => uploadOf'[x] = uploadOf[x]) /\ uploadOf'[r].pc = "idle"
  BY <1>1 DEF UploadFails, NoUpload
<1>5. \A q \in Uploader : Storing(q)' \subseteq Storing(q)
  BY <1>4 DEF Storing
<1>6. OvershootCounted'
  BY <1>1, <1>3, <1>5, NoneStoresMore
<1> QED BY <1>2, <1>6 DEF LimitsInv

\* Storing a tour keeps it.
LEMMA StoreKeeps ==
  ASSUME LimitsInv, NEW r \in Upload, Store(r)
  PROVE  LimitsInv'
<1>1. /\ uploadOf \in [Upload -> UploadState] /\ tours \in [Uploader -> Nat]
      /\ uploadOf[r].pc = "store" /\ uploadOf[r].rider \in Uploader
  BY DEF Store, LimitsInv, RateInv, LimitsTyped, UploadsTimed
<1>2. PICK rider \in Uploader : rider = uploadOf[r].rider
  BY <1>1
<1>3. /\ tours' = [tours EXCEPT ![rider] = @ + 1]
      /\ uploadOf' = [uploadOf EXCEPT ![r] = NoUpload]
      /\ UNCHANGED <<now, buckets, limitsHistory, forgotten>>
  BY <1>2 DEF Store, limitsHistory
<1>4. tours' \in [Uploader -> Nat]
  BY <1>1, <1>3
<1>5. RateInv' /\ UploadsTimed' /\ UploadsAdmitted'
  BY <1>1, <1>3, <1>4, UploadMoves
<1>6. (\A x \in Upload : x # r => uploadOf'[x] = uploadOf[x]) /\ uploadOf'[r].pc = "idle"
  BY <1>1, <1>3 DEF NoUpload
<1>7. /\ Storing(rider)' = Storing(rider) \ {r} /\ r \in Storing(rider)
      /\ \A q \in Uploader : q # rider => Storing(q)' = Storing(q)
  BY <1>1, <1>2, <1>6 DEF Storing
<1>8. OvershootCounted'
  <2> SUFFICES ASSUME NEW q \in Uploader \ forgotten, tours'[q] >= MaxTours
      PROVE /\ IsFiniteSet(Storing(q)')
            /\ tours'[q] + Cardinality(Storing(q)') <= MaxTours - 1 + Burst
    BY <1>3 DEF OvershootCounted, Burst, AtOnce
  <2>1. CASE q # rider
    <3>1. tours'[q] = tours[q] /\ Storing(q)' = Storing(q)
      BY <1>1, <1>3, <1>7, <2>1
    <3> QED BY <3>1 DEF LimitsInv, OvershootCounted
  <2>2. CASE q = rider
    <3>1. tours[q] \in Nat /\ tours'[q] = tours[q] + 1
      BY <1>1, <1>3, <2>2
    <3>2. /\ IsFiniteSet(Storing(q)) /\ Cardinality(Storing(q)) \in Nat
          /\ Cardinality(Storing(q)) <= Burst
      BY <2>2, StoringFew
    <3>3. /\ IsFiniteSet(Storing(q)')
          /\ Cardinality(Storing(q)') = Cardinality(Storing(q)) - 1
      BY <1>7, <2>2, <3>2, FS_RemoveElement
    <3>4. CASE tours[q] >= MaxTours
      <4>1. tours[q] + Cardinality(Storing(q)) <= MaxTours - 1 + Burst
        BY <3>4 DEF LimitsInv, OvershootCounted
      <4> QED BY <3>1, <3>2, <3>3, <4>1, LimitsBounds, BurstBounds
    <3>5. CASE tours[q] < MaxTours
      <4>1. tours'[q] <= MaxTours
        BY <3>1, <3>5, LimitsBounds
      <4> QED BY <3>1, <3>2, <3>3, <4>1, LimitsBounds, BurstBounds
    <3> QED BY <3>1, <3>4, <3>5, LimitsBounds
  <2> QED BY <2>1, <2>2
<1> QED BY <1>5, <1>8 DEF LimitsInv

\* Deleting a stored tour keeps it.
LEMMA RemoveStoredKeeps ==
  ASSUME LimitsInv, NEW rider \in Uploader, RemoveStoredTour(rider)
  PROVE  LimitsInv'
<1>1. /\ tours \in [Uploader -> Nat] /\ uploadOf \in [Upload -> UploadState] /\ now \in Time /\ now <= now
  BY LimitsBounds DEF LimitsInv, RateInv, LimitsTyped, Time
<1>2. \A q \in Uploader : tours'[q] \in Nat /\ tours'[q] <= tours[q]
  BY <1>1 DEF RemoveStoredTour
<1>3. tours' \in [Uploader -> Nat]
  BY <1>1 DEF RemoveStoredTour
<1>4. UNCHANGED <<now, buckets, uploadOf, limitsHistory, admitted, forgotten>>
  BY DEF RemoveStoredTour, limitsHistory
<1>5. RateInv'
  BY <1>1, <1>3, <1>4, OthersKeepRates DEF LimitsInv
<1>6. UploadsTimed' /\ UploadsAdmitted'
  BY <1>4, NoneBegins DEF LimitsInv, UploadsTimed, Active
<1>7. OvershootCounted'
  BY <1>2, <1>4, NoneStoresMore DEF Storing
<1> QED BY <1>5, <1>6, <1>7 DEF LimitsInv

\* Time that passes keeps it.
LEMMA TickKeeps ==
  ASSUME LimitsInv, Tick
  PROVE  LimitsInv'
<1>1. /\ tours \in [Uploader -> Nat] /\ uploadOf \in [Upload -> UploadState]
      /\ now \in Nat /\ now' \in Time /\ now <= now' /\ now' = now + 1
  BY LimitsBounds DEF LimitsInv, RateInv, LimitsTyped, Time, Tick
<1>2. UNCHANGED <<buckets, uploadOf, tours, limitsHistory, admitted, forgotten>>
  BY DEF Tick, limitsHistory
<1>3. RateInv'
  BY <1>1, <1>2, OthersKeepRates DEF LimitsInv
<1>4. UploadsTimed'
  <2> SUFFICES ASSUME NEW r \in Upload, uploadOf[r].pc # "idle"
      PROVE /\ uploadOf[r].rider \in Uploader /\ uploadOf[r].at <= now'
            /\ now' - uploadOf[r].at <= MaxDuration
    BY <1>2 DEF UploadsTimed
  <2>1. uploadOf[r].rider \in Uploader /\ uploadOf[r].at <= now /\ uploadOf[r].at \in Nat
    BY <1>1, LimitsBounds DEF LimitsInv, UploadsTimed, UploadState, Time
  <2>2. now - uploadOf[r].at < MaxDuration
    BY DEF Tick
  <2> QED BY <1>1, <2>1, <2>2, LimitsBounds
<1>5. UploadsAdmitted'
  BY <1>2, NoneBegins DEF Active
<1>6. OvershootCounted'
  BY <1>1, <1>2, NoneStoresMore DEF Storing
<1> QED BY <1>3, <1>4, <1>5, <1>6 DEF LimitsInv

\* It holds at first.
LEMMA LimitsStart == LimitsInit => LimitsInv
<1> SUFFICES ASSUME LimitsInit PROVE LimitsInv
  OBVIOUS
<1>1. now = 0 /\ forgotten = {} /\ 0 \in Time /\ Never \in Nat
  BY LimitsBounds DEF LimitsInit, Time, Never
<1>2. /\ \A i \in Instance : buckets[i] = <<>>
      /\ \A i \in Instance, q \in Uploader : admitted[i][q] = <<>>
      /\ \A r \in Upload : uploadOf[r].pc = "idle"
      /\ \A q \in Uploader : tours[q] = 0
  BY DEF LimitsInit, NoUpload
<1>3. <<>> \in Seq(Time) /\ <<>> \in Seq(Bucket)
  BY EmptySeq
<1>4. LimitsTyped
  <2>1. buckets \in [Instance -> Seq(Bucket)] /\ tours \in [Uploader -> Nat]
    BY <1>3 DEF LimitsInit
  <2>2. uploadOf \in [Upload -> UploadState]
    BY <1>1 DEF LimitsInit, NoUpload, UploadState
  <2>3. admitted \in [Instance -> [Uploader -> Seq(Time)]]
    BY <1>3 DEF LimitsInit
  <2>4. retryAt \in [Instance -> [Uploader -> Nat]]
    BY <1>1 DEF LimitsInit
  <2> QED BY <1>1, <2>1, <2>2, <2>3, <2>4 DEF LimitsTyped
<1>5. \A i \in Instance : Len(buckets[i]) = 0 /\ Members(buckets[i]) = {}
  BY <1>2 DEF Members
<1>6. BucketsKept /\ TokensCounted /\ RetriesKept
  <2>1. BucketsKept
    BY <1>5, LimitsBounds DEF BucketsKept, OnePerRider
  <2>2. TokensCounted
    BY <1>2, <1>5 DEF TokensCounted
  <2>3. RetriesKept
    BY <1>5 DEF RetriesKept
  <2> QED BY <2>1, <2>2, <2>3
<1>7. RatesHeld
  BY <1>2 DEF RatesHeld
<1>8. UploadsTimed
  BY <1>2 DEF UploadsTimed
<1>9. UploadsAdmitted
  <2> SUFFICES ASSUME NEW q \in Uploader PROVE \E f : TokensOf(q, f)
    BY DEF UploadsAdmitted
  <2>1. Active(q) = {}
    BY <1>2 DEF Active
  <2>2. TokensOf(q, [r \in Active(q) |-> <<r, 0>>])
    BY <2>1 DEF TokensOf
  <2> QED BY <2>2
<1>10. OvershootCounted
  BY <1>2, LimitsBounds DEF OvershootCounted
<1> QED BY <1>4, <1>6, <1>7, <1>8, <1>9, <1>10 DEF LimitsInv, RateInv

\* The rate limit and the quota hold, for any riders, instances, capacities and times: what an
\* instance admits, what concurrent uploads add to the cap, what is remembered, and when to retry.
THEOREM LimitsAlwaysHold == LimitsSpec => []LimitsHold
<1>1. LimitsInv /\ [LimitsNext]_limitsVars => LimitsInv'
  <2> SUFFICES ASSUME LimitsInv, [LimitsNext]_limitsVars PROVE LimitsInv'
    OBVIOUS
  <2>1. CASE UNCHANGED limitsVars
    <3>1. UNCHANGED <<now, buckets, uploadOf, tours, admitted, retryAt, forgotten, limitsHistory>>
      BY <2>1 DEF limitsVars, limitsHistory
    <3>2. /\ now \in Time /\ now <= now /\ tours \in [Uploader -> Nat]
          /\ uploadOf \in [Upload -> UploadState]
      BY LimitsBounds DEF LimitsInv, RateInv, LimitsTyped, Time
    <3>3. RateInv'
      BY <3>1, <3>2, OthersKeepRates DEF LimitsInv
    <3>4. UploadsTimed'
      BY <3>1 DEF LimitsInv, UploadsTimed
    <3>5. UploadsAdmitted'
      BY <3>1, NoneBegins DEF Active
    <3>6. OvershootCounted'
      BY <3>1, <3>2, NoneStoresMore DEF Storing
    <3> QED BY <3>3, <3>4, <3>5, <3>6 DEF LimitsInv
  <2>2. CASE LimitsNext
    BY <2>2, AdmitKeeps, ThrottleKeeps, CheckQuotaKeeps, StoreKeeps, UploadFailsKeeps,
       RemoveStoredKeeps, TickKeeps DEF LimitsNext
  <2> QED BY <2>1, <2>2
<1>2. LimitsInv => LimitsHold
  <2> SUFFICES ASSUME LimitsInv PROVE LimitsHold
    OBVIOUS
  <2> USE DEF LimitsInv, RateInv
  <2>1. LimitsTypeOK
    <3>1. \A i \in Instance : IsInjective([k \in DOMAIN buckets[i] |-> buckets[i][k].rider])
      <4> SUFFICES ASSUME NEW i \in Instance
                   PROVE IsInjective([k \in DOMAIN buckets[i] |-> buckets[i][k].rider])
        OBVIOUS
      <4>1. DOMAIN buckets[i] = 1..Len(buckets[i])
        BY LenProperties DEF LimitsTyped
      <4> QED BY <4>1 DEF IsInjective, BucketsKept, OnePerRider
    <3> QED BY <3>1 DEF LimitsTypeOK, LimitsTyped, UploadState
  <2>2. RateHeld
    <3> SUFFICES ASSUME NEW i \in Instance, NEW rider \in Uploader,
                        NEW k \in DOMAIN admitted[i][rider], NEW j \in 1..k
        PROVE (k - j + 1 - Capacity) * Refill <= admitted[i][rider][k] - admitted[i][rider][j]
      BY DEF RateHeld
    <3>1. k \in 1..Len(admitted[i][rider])
      BY LenProperties DEF LimitsTyped
    <3>2. Due(k - j + 1) <= admitted[i][rider][k] - admitted[i][rider][j]
      <4>1. RatesHeld
        OBVIOUS
      <4> HIDE DEF LimitsInv, RateInv
      <4> QED BY ONLY <3>1, <4>1, i \in Instance, rider \in Uploader, j \in 1..k DEF RatesHeld
    <3>3. k \in Int /\ j \in Int
      <4>1. admitted[i][rider] \in Seq(Time)
        BY DEF LimitsTyped
      <4>2. Len(admitted[i][rider]) \in Nat
        BY <4>1, LenProperties
      <4> QED BY <3>1, <4>2
    <3>4. PICK m \in Int : m = k - j + 1
      BY <3>3
    <3>5. Due(m) = (m - Capacity) * Refill
      BY DEF Due
    <3>6. (m - Capacity) * Refill <= admitted[i][rider][k] - admitted[i][rider][j]
      BY ONLY <3>2, <3>4, <3>5
    <3> QED BY <3>3, <3>4, <3>6, LimitsBounds
  <2>3. OvershootBounded
    <3> SUFFICES ASSUME NEW rider \in Uploader \ forgotten
                 PROVE tours[rider] <= MaxTours - 1 + Burst
      BY DEF OvershootBounded, Burst, AtOnce
    <3>1. tours[rider] \in Nat /\ Cardinality(Storing(rider)) \in Nat
      BY StoringFew DEF LimitsTyped
    <3> QED BY <3>1, LimitsBounds, BurstBounds DEF OvershootCounted
  <2>4. KeysBounded
    BY DEF KeysBounded, BucketsKept
  <2>5. RetryAfterHonoured
    <3> SUFFICES ASSUME NEW i \in Instance, NEW rider \in Uploader, retryAt[i][rider] <= now
                 PROVE Ticks(i, rider) >= Refill
      BY DEF RetryAfterHonoured
    <3>1. CASE BucketsOf(i, rider) = {}
      BY <3>1, TicksAre, Dues, LimitsBounds
    <3>2. CASE BucketsOf(i, rider) # {}
      <4>1. PICK b \in Members(buckets[i]) :
              b.rider = rider /\ b \in Bucket /\ Ticks(i, rider) = Refilled(b)
        BY <3>2, TicksAre
      <4>2. PICK t \in Nat, a \in Nat, u \in Nat, n \in Nat :
              t = b.ticks /\ a = b.at /\ u = retryAt[i][rider] /\ n = now
        <5>1. b.ticks \in Nat /\ b.at \in Nat
          BY <4>1, LimitsBounds, Dues DEF Bucket, Time
        <5>2. now \in Nat
          BY LimitsBounds DEF LimitsTyped, Time
        <5>3. retryAt[i][rider] \in Nat
          BY DEF LimitsTyped
        <5> QED BY <5>1, <5>2, <5>3
      <4>3. u < Never
        BY <4>2, LimitsBounds DEF Never, LimitsTyped, Time
      <4>4. t + (u - a) >= Refill
        BY <4>1, <4>2, <4>3 DEF RetriesKept
      <4>5. Refilled(b) = IF t + (n - a) > Full THEN Full ELSE t + (n - a)
        BY <4>2 DEF Refilled
      <4> QED BY <4>1, <4>2, <4>4, <4>5, Dues, LimitsBounds
    <3> QED BY <3>1, <3>2
  <2> QED BY <2>1, <2>2, <2>3, <2>4, <2>5 DEF LimitsHold
<1> QED BY <1>1, <1>2, LimitsStart, PTL DEF LimitsSpec

-----------------------------------------------------------------------------
(* The map and its memo. *)

\* A tour that was listed has stayed as it was, was moved or was deleted.
StandsSince(t, listed) == t \in Tour /\ listed \in Kept /\ doc[t] \in {listed, "moved", "deleted"}

\* A memoised map shows each tour that is still as it was listed.
MapStands(e) ==
  \A t \in DOMAIN e.signature :
    StandsSince(t, e.signature[t]) /\ (doc[t] = e.signature[t] => e.result[t] = ShownAs(t))

\* What a request has read since it listed the tours tells which of them still have points inline.
ReadsStand(q) ==
  \A t \in DOMAIN q.list :
    /\ StandsSince(t, q.list[t]) /\ Owner[t] = q.rider
    /\ "inline" \notin q.unread =>
         (doc[t] = "inline" => t \in q.inline) /\ (q.list[t] = "moved" => t \notin q.inline)
    /\ "tracks" \notin q.unread => (q.list[t] = "moved" /\ doc[t] = "moved" => t \in q.tracks)

RequestRecord == [pc: {"idle", "list", "compute"}, rider: Rider \cup {"none"}, list: Listed,
                  tracks: SUBSET Tour, inline: SUBSET Tour, unread: SUBSET {"tracks", "inline"}]

MapsInv ==
  /\ doc \in [Tour -> Kept \cup {"none", "deleted"}] /\ track \in SUBSET Tour
  /\ \A t \in Tour : doc[t] = "moved" => t \in track
  /\ entries \in Seq(Range(entries)) /\ \A e \in Range(entries) : MapStands(e)
  /\ mapRequest \in [MapRequest -> RequestRecord]
  /\ \A r \in MapRequest : mapRequest[r].pc = "compute" => ReadsStand(mapRequest[r])

AnsweredShown == \A t \in DOMAIN answered'.list :
                   doc[t] = answered'.list[t] => answered'.map[t] = ShownAs(t)

\* Nothing is shown wrongly where nothing is answered.
LEMMA Unshown == ASSUME answered' = Unanswered PROVE AnsweredShown
BY DEF AnsweredShown, Unanswered, NoTours

\* A listing, by the tours it has.
LEMMA ListedIs ==
  ASSUME NEW list PROVE list \in Listed <=> \E some \in SUBSET Tour : list \in [some -> Kept]
BY DEF Listed

\* A request that is idle is a request.
LEMMA IdleTyped == Idle \in RequestRecord /\ Idle.pc = "idle"
<1>1. NoTours \in Listed
  BY ListedIs DEF NoTours
<1> QED BY <1>1 DEF Idle, RequestRecord

-----------------------------------------------------------------------------
\* Storage moves on: no tour comes back to what it was.

\* Tours that move or are deleted keep the invariant.
LEMMA StorageMoves ==
  ASSUME MapsInv, UNCHANGED <<cache, mapRequest>>,
         doc' \in [Tour -> Kept \cup {"none", "deleted"}], track' \in SUBSET Tour,
         \A t \in Tour : doc'[t] = "moved" => t \in track',
         \A t \in Tour : doc'[t] # doc[t] =>
                           doc'[t] \in {"moved", "deleted"} /\ doc[t] # "deleted"
                           /\ (doc'[t] = "moved" => doc[t] \in {"none", "inline"})
  PROVE  MapsInv'
<1>1. \A t, listed : StandsSince(t, listed) =>
        StandsSince(t, listed)' /\ (doc'[t] = listed => doc[t] = listed)
  BY DEF StandsSince, Kept, MapsInv
<1>2. \A t \in Tour : doc'[t] = doc[t] => ShownAs(t)' = ShownAs(t)
  BY DEF ShownAs
<1>3. ASSUME NEW e, MapStands(e) PROVE MapStands(e)'
  <2>1. ASSUME NEW t \in DOMAIN e.signature
        PROVE  StandsSince(t, e.signature[t])' /\ (doc'[t] = e.signature[t] => e.result[t] = ShownAs(t)')
    <3>1. StandsSince(t, e.signature[t]) /\ (doc[t] = e.signature[t] => e.result[t] = ShownAs(t))
      BY <1>3 DEF MapStands
    <3> QED BY <3>1, <1>1, <1>2 DEF StandsSince
  <2> QED BY <2>1 DEF MapStands
<1>4. ASSUME NEW q, ReadsStand(q) PROVE ReadsStand(q)'
  <2>1. ASSUME NEW t \in DOMAIN q.list
        PROVE  /\ StandsSince(t, q.list[t])' /\ Owner[t] = q.rider
               /\ "inline" \notin q.unread =>
                    (doc'[t] = "inline" => t \in q.inline) /\ (q.list[t] = "moved" => t \notin q.inline)
               /\ "tracks" \notin q.unread => (q.list[t] = "moved" /\ doc'[t] = "moved" => t \in q.tracks)
    <3>1. /\ StandsSince(t, q.list[t]) /\ Owner[t] = q.rider
          /\ "inline" \notin q.unread =>
               (doc[t] = "inline" => t \in q.inline) /\ (q.list[t] = "moved" => t \notin q.inline)
          /\ "tracks" \notin q.unread => (q.list[t] = "moved" /\ doc[t] = "moved" => t \in q.tracks)
      BY <1>4 DEF ReadsStand
    <3>2. StandsSince(t, q.list[t])' /\ (doc'[t] = q.list[t] => doc[t] = q.list[t])
      BY <3>1, <1>1
    <3>3. t \in Tour /\ (doc'[t] = "inline" => doc[t] = "inline")
      BY <3>1 DEF StandsSince
    <3> QED BY <3>1, <3>2, <3>3
  <2> QED BY <2>1 DEF ReadsStand
<1>5. entries' = entries /\ mapRequest' = mapRequest
  BY DEF cache
<1> QED BY <1>3, <1>4, <1>5 DEF MapsInv

\* A request moves on; the storage and the memo stay.
LEMMA RequestMoves ==
  ASSUME MapsInv, NEW r \in MapRequest, NEW q \in RequestRecord,
         UNCHANGED <<storage, cache>>, mapRequest' = [mapRequest EXCEPT ![r] = q],
         q.pc = "compute" => ReadsStand(q)
  PROVE  MapsInv'
<1>1. doc' = doc /\ track' = track /\ entries' = entries
  BY DEF storage, cache
<1>2. mapRequest' \in [MapRequest -> RequestRecord]
  BY DEF MapsInv
<1>3. \A p \in MapRequest : mapRequest'[p] = IF p = r THEN q ELSE mapRequest[p]
  BY DEF MapsInv
<1>4. \A e : MapStands(e) => MapStands(e)'
  BY <1>1 DEF MapStands, StandsSince, ShownAs
<1>5. \A p : ReadsStand(p) => ReadsStand(p)'
  BY <1>1 DEF ReadsStand, StandsSince
<1> QED BY <1>1, <1>2, <1>3, <1>4, <1>5 DEF MapsInv

\* The memo is of what it was and of a map that stands; the request is done.
LEMMA MemoChanges ==
  ASSUME MapsInv, NEW r \in MapRequest, NEW e, MapStands(e),
         entries' \in Seq(Range(entries) \cup {e}),
         UNCHANGED storage, mapRequest' = [mapRequest EXCEPT ![r] = Idle]
  PROVE  MapsInv'
<1>1. doc' = doc /\ track' = track
  BY DEF storage
<1>2. mapRequest' \in [MapRequest -> RequestRecord]
  BY IdleTyped DEF MapsInv
<1>3. \A p \in MapRequest : mapRequest'[p] = IF p = r THEN Idle ELSE mapRequest[p]
  BY DEF MapsInv
<1>4. \A f : MapStands(f) => MapStands(f)'
  BY <1>1 DEF MapStands, StandsSince, ShownAs
<1>5. \A p : ReadsStand(p) => ReadsStand(p)'
  BY <1>1 DEF ReadsStand, StandsSince
<1>6. entries' \in Seq(Range(entries')) /\ Range(entries') \subseteq Range(entries) \cup {e}
  <2>1. PICK s : s = entries'
    OBVIOUS
  <2>2. PICK A : A = Range(entries) \cup {e}
    OBVIOUS
  <2>3. s \in Seq(A) => s \in Seq(Range(s)) /\ Range(s) \subseteq A
    BY DEF Range
  <2> QED BY <2>1, <2>2, <2>3
<1> QED BY <1>1, <1>2, <1>3, <1>4, <1>5, <1>6, IdleTyped DEF MapsInv

-----------------------------------------------------------------------------
\* The memo without a rider's entry, and with a new one at its end.

\* The memo with an entry put last.
LEMMA AtTheEnd ==
  ASSUME MapsInv, NEW rider, NEW e
  PROVE  /\ Append(Without(rider), e) \in Seq(Range(entries) \cup {e})
         /\ Len(Append(Without(rider), e)) \in Nat
<1> DEFINE S == Range(entries)
<1>1. entries \in Seq(S) /\ DOMAIN entries = 1..Len(entries)
  BY LenProperties DEF MapsInv
<1>2. Without(rider) \in Seq(S)
  <2>1. CASE EntriesOf(rider) = {}
    BY <1>1, <2>1 DEF Without
  <2>2. CASE EntriesOf(rider) # {}
    <3>1. PICK k : k = (CHOOSE i \in EntriesOf(rider) : TRUE)
      OBVIOUS
    <3>2. k \in 1..Len(entries)
      BY <2>2, <3>1, <1>1 DEF EntriesOf
    <3>3. RemoveAt(entries, k) \in Seq(S)
      <4> HIDE DEF S
      <4> QED BY <1>1, <3>2, Taken
    <3> QED BY <2>2, <3>1, <3>3 DEF Without
  <2> QED BY <2>1, <2>2
<1>3. PICK w : w = Without(rider)
  OBVIOUS
<1> DEFINE T == S \cup {e}
<1>4. w \in Seq(T)
  <2>1. w \in Seq(S) /\ S \subseteq T
    BY <1>2, <1>3
  <2> HIDE DEF S, T
  <2> QED BY <2>1
<1>5. e \in T
  OBVIOUS
<1>6. Append(w, e) \in Seq(T)
  <2> HIDE DEF T
  <2> QED BY <1>4, <1>5, AppendProperties
<1>7. Len(Append(w, e)) \in Nat
  <2> HIDE DEF T
  <2> QED BY <1>6, LenProperties
<1> QED BY <1>3, <1>6, <1>7

\* As many entries go as it takes, and no more than there are.
LEMMA EvictedBounds ==
  ASSUME NEW total, NEW list, Len(list) \in Nat
  PROVE  LET n == Evicted(total, list) IN
         /\ n \in 0..Len(list)
         /\ n = Len(list) \/ ~Exceeds(Minus(total, PointsOfEntries(SubSeq(list, 1, n))))
<1> DEFINE Fits(n) == n = Len(list) \/ ~Exceeds(Minus(total, PointsOfEntries(SubSeq(list, 1, n))))
           W == {n \in 0..Len(list) : Fits(n)}
<1>1. Len(list) \in W
  OBVIOUS
<1>2. PICK n \in W : \A m \in W : n <= m
  <2>1. W \subseteq Nat /\ W # {}
    BY <1>1
  <2> HIDE DEF W
  <2> QED BY <2>1, LeastOf
<1>3. \A m \in 0..(n - 1) : Exceeds(Minus(total, PointsOfEntries(SubSeq(list, 1, m))))
  <2> SUFFICES ASSUME NEW m \in 0..(n - 1) PROVE ~Fits(m)
    OBVIOUS
  <2>1. n \in 0..Len(list)
    BY <1>2
  <2>2. m \in 0..Len(list) /\ ~(n <= m)
    BY <2>1
  <2>3. m \notin W
    <3> HIDE DEF W
    <3> QED BY <1>2, <2>2
  <2> QED BY <2>2, <2>3
<1>4. n \in 0..Len(list) /\ Fits(n)
  BY <1>2
<1> QED BY <1>3, <1>4 DEF Evicted

-----------------------------------------------------------------------------
\* Listing the tours keeps it, and answers right.
LEMMA ListToursShows ==
  ASSUME MapsInv, NEW r \in MapRequest, ListTours(r) PROVE MapsInv' /\ AnsweredShown
<1>1. PICK list : list = [t \in ToursOf(mapRequest[r].rider) |-> doc[t]]
  OBVIOUS
<1>2. PICK rider : rider = mapRequest[r].rider
  OBVIOUS
<1>3. mapRequest[r] \in RequestRecord
  BY DEF MapsInv
<1>4. \A t \in DOMAIN list : t \in Tour /\ list[t] = doc[t] /\ list[t] \in Kept /\ Owner[t] = rider
  BY <1>1, <1>2 DEF ToursOf
<1>5. ASSUME NEW i \in EntriesOf(rider), entries[i].signature = list,
             entries' = Reinserted(rider, entries[i]), UNCHANGED storage,
             mapRequest' = [mapRequest EXCEPT ![r] = Idle],
             answered' = [list |-> list, map |-> entries[i].result]
      PROVE  MapsInv' /\ AnsweredShown
  <2>1. entries[i] \in Range(entries)
    BY DEF EntriesOf, Range
  <2>2. PICK e : e = entries[i]
    OBVIOUS
  <2>3. MapStands(e)
    BY <2>1, <2>2 DEF MapsInv
  <2>4. entries' \in Seq(Range(entries) \cup {e})
    BY <1>5, <2>2, AtTheEnd DEF Reinserted
  <2>5. MapsInv'
    BY <1>5, <2>3, <2>4, MemoChanges
  <2>6. AnsweredShown
    BY <1>5, <2>2, <2>3 DEF AnsweredShown, MapStands
  <2> QED BY <2>5, <2>6
<1>6. ASSUME mapRequest' = [mapRequest EXCEPT ![r].pc = "compute", ![r].list = list,
                                              ![r].unread = {"tracks", "inline"}],
             answered' = Unanswered, UNCHANGED cache, UNCHANGED storage
      PROVE  MapsInv' /\ AnsweredShown
  <2>1. PICK q : q = [mapRequest[r] EXCEPT !.pc = "compute", !.list = list, !.unread = {"tracks", "inline"}]
    OBVIOUS
  <2>2. list \in Listed
    <3>1. list \in [ToursOf(mapRequest[r].rider) -> Kept]
      BY <1>1 DEF ToursOf
    <3>2. ToursOf(mapRequest[r].rider) \in SUBSET Tour
      BY DEF ToursOf
    <3> QED BY <3>1, <3>2, ListedIs
  <2>3. q \in RequestRecord
    BY <1>3, <2>1, <2>2 DEF RequestRecord
  <2>4. ReadsStand(q)
    <3>1. q.list = list /\ q.rider = rider /\ q.unread = {"tracks", "inline"}
      BY <1>2, <1>3, <2>1 DEF RequestRecord
    <3> QED BY <3>1, <1>4 DEF ReadsStand, StandsSince
  <2>5. mapRequest' = [mapRequest EXCEPT ![r] = q]
    BY <1>6, <1>3, <2>1 DEF MapsInv, RequestRecord
  <2> QED BY <1>6, <2>3, <2>4, <2>5, RequestMoves, Unshown
<1> QED BY <1>1, <1>2, <1>5, <1>6 DEF ListTours, SignatureFor

\* Reading the tracks keeps it, and answers right.
LEMMA ReadTracksShows ==
  ASSUME MapsInv, NEW r \in MapRequest, ReadTracks(r) PROVE MapsInv' /\ AnsweredShown
<1>1. mapRequest[r] \in RequestRecord
  BY DEF MapsInv
<1>2. PICK q : q = [mapRequest[r] EXCEPT !.unread = @ \ {"tracks"},
                                         !.tracks = {t \in track : Owner[t] = mapRequest[r].rider}]
  OBVIOUS
<1>3. q \in RequestRecord
  BY <1>1, <1>2 DEF RequestRecord, MapsInv
<1>4. /\ q.pc = mapRequest[r].pc /\ q.list = mapRequest[r].list /\ q.rider = mapRequest[r].rider
      /\ q.inline = mapRequest[r].inline /\ q.unread = mapRequest[r].unread \ {"tracks"}
      /\ q.tracks = {t \in track : Owner[t] = mapRequest[r].rider}
  BY <1>1, <1>2 DEF RequestRecord
<1>5. q.pc = "compute" => ReadsStand(q)
  <2> SUFFICES ASSUME q.pc = "compute", NEW t \in DOMAIN q.list
               PROVE  /\ StandsSince(t, q.list[t]) /\ Owner[t] = q.rider
                      /\ "inline" \notin q.unread =>
                           (doc[t] = "inline" => t \in q.inline) /\ (q.list[t] = "moved" => t \notin q.inline)
                      /\ "tracks" \notin q.unread =>
                           (q.list[t] = "moved" /\ doc[t] = "moved" => t \in q.tracks)
    BY DEF ReadsStand
  <2>1. PICK p : p = mapRequest[r]
    OBVIOUS
  <2>2. ReadsStand(p)
    BY <1>4, <2>1 DEF MapsInv
  <2>3. /\ StandsSince(t, p.list[t]) /\ Owner[t] = p.rider
        /\ "inline" \notin p.unread =>
             (doc[t] = "inline" => t \in p.inline) /\ (p.list[t] = "moved" => t \notin p.inline)
        /\ "tracks" \notin p.unread => (p.list[t] = "moved" /\ doc[t] = "moved" => t \in p.tracks)
    BY <1>4, <2>1, <2>2 DEF ReadsStand
  <2>4. t \in Tour /\ (p.list[t] = "moved" => doc[t] # "inline") /\ (doc[t] = "moved" => t \in track)
    BY <2>3 DEF StandsSince, MapsInv
  <2> QED BY <1>4, <2>1, <2>3, <2>4
<1>6. mapRequest' = [mapRequest EXCEPT ![r] = q]
  BY <1>1, <1>2 DEF ReadTracks, MapsInv, RequestRecord
<1> QED BY <1>3, <1>5, <1>6, RequestMoves, Unshown DEF ReadTracks

\* Reading the tours of old shape keeps it, and answers right.
LEMMA ReadInlineShows ==
  ASSUME MapsInv, NEW r \in MapRequest, ReadInline(r) PROVE MapsInv' /\ AnsweredShown
<1>1. mapRequest[r] \in RequestRecord
  BY DEF MapsInv
<1> DEFINE found == {t \in ToursOf(mapRequest[r].rider) : doc[t] = "inline"}
<1>2. PICK q : q = [mapRequest[r] EXCEPT !.unread = @ \ {"inline"}, !.inline = found]
  OBVIOUS
<1>3. q \in RequestRecord
  <2>1. found \subseteq Tour
    BY DEF ToursOf
  <2> QED BY <1>1, <1>2, <2>1 DEF RequestRecord
<1>4. /\ q.pc = mapRequest[r].pc /\ q.list = mapRequest[r].list /\ q.rider = mapRequest[r].rider
      /\ q.tracks = mapRequest[r].tracks /\ q.unread = mapRequest[r].unread \ {"inline"}
      /\ q.inline = found
  BY <1>1, <1>2 DEF RequestRecord
<1>5. q.pc = "compute" => ReadsStand(q)
  <2> SUFFICES ASSUME q.pc = "compute", NEW t \in DOMAIN q.list
               PROVE  /\ StandsSince(t, q.list[t]) /\ Owner[t] = q.rider
                      /\ "inline" \notin q.unread =>
                           (doc[t] = "inline" => t \in q.inline) /\ (q.list[t] = "moved" => t \notin q.inline)
                      /\ "tracks" \notin q.unread =>
                           (q.list[t] = "moved" /\ doc[t] = "moved" => t \in q.tracks)
    BY DEF ReadsStand
  <2>1. PICK p : p = mapRequest[r]
    OBVIOUS
  <2>2. ReadsStand(p)
    BY <1>4, <2>1 DEF MapsInv
  <2>3. /\ StandsSince(t, p.list[t]) /\ Owner[t] = p.rider
        /\ "inline" \notin p.unread =>
             (doc[t] = "inline" => t \in p.inline) /\ (p.list[t] = "moved" => t \notin p.inline)
        /\ "tracks" \notin p.unread => (p.list[t] = "moved" /\ doc[t] = "moved" => t \in p.tracks)
    BY <1>4, <2>1, <2>2 DEF ReadsStand
  <2>4. t \in Tour /\ (p.list[t] = "moved" => doc[t] # "inline") /\ (doc[t] = "moved" => t \in track)
    BY <2>3 DEF StandsSince, MapsInv
  <2>5. t \in found <=> Owner[t] = p.rider /\ doc[t] = "inline"
    BY <2>1, <2>4 DEF ToursOf, Kept
  <2> HIDE DEF found
  <2> QED BY <1>4, <2>1, <2>3, <2>4, <2>5
<1>6. mapRequest' = [mapRequest EXCEPT ![r] = q]
  BY <1>1, <1>2 DEF ReadInline, MapsInv, RequestRecord
<1> QED BY <1>3, <1>5, <1>6, RequestMoves, Unshown DEF ReadInline

\* What is computed of what was read stands, whatever happened between the reads.
LEMMA StoreMapShows ==
  ASSUME MapsInv, NEW r \in MapRequest, StoreMap(r) PROVE MapsInv' /\ AnsweredShown
<1>1. PICK points : points = PointCountOf(Computed(r))
  OBVIOUS
<1>2. PICK e : e = [rider |-> mapRequest[r].rider, result |-> Computed(r), points |-> points,
                    signature |-> SignatureFor(mapRequest[r].list)]
  OBVIOUS
<1>3. PICK list : list = Append(Without(mapRequest[r].rider), e)
  OBVIOUS
<1>4. PICK n : n = Evicted(Total(mapRequest[r].rider, points), list)
  OBVIOUS
<1>5. /\ entries' = SubSeq(list, n + 1, Len(list))
      /\ mapRequest' = [mapRequest EXCEPT ![r] = Idle]
      /\ answered' = [list |-> mapRequest[r].list, map |-> Computed(r)]
      /\ mapRequest[r].pc = "compute" /\ mapRequest[r].unread = {} /\ UNCHANGED storage
  BY <1>1, <1>2, <1>3, <1>4 DEF StoreMap
<1>6. list \in Seq(Range(entries) \cup {e}) /\ Len(list) \in Nat
  BY <1>3, AtTheEnd
<1>7. entries' \in Seq(Range(entries) \cup {e})
  <2>1. n \in 0..Len(list)
    BY <1>4, <1>6, EvictedBounds
  <2>2. PICK A : A = Range(entries) \cup {e}
    OBVIOUS
  <2>3. \A k \in 1..Len(list) : list[k] \in A
    BY <1>6, <2>2, ElementOfSeq
  <2>4. PICK m \in Nat : m = Len(list)
    BY <1>6
  <2>5. n + 1 \in Int /\ m \in Int /\ \A k \in n + 1..m : list[k] \in A
    BY <2>1, <2>3, <2>4
  <2>6. SubSeq(list, n + 1, m) \in Seq(A)
    BY <2>5, SubSeqProperties
  <2> QED BY <1>5, <2>2, <2>4, <2>6
<1>8. ReadsStand(mapRequest[r])
  BY <1>5 DEF MapsInv
<1>9. \A t \in DOMAIN mapRequest[r].list :
        /\ StandsSince(t, mapRequest[r].list[t])
        /\ doc[t] = mapRequest[r].list[t] => Computed(r)[t] = ShownAs(t)
  <2> SUFFICES ASSUME NEW t \in DOMAIN mapRequest[r].list
               PROVE  /\ StandsSince(t, mapRequest[r].list[t])
                      /\ doc[t] = mapRequest[r].list[t] => Computed(r)[t] = ShownAs(t)
    OBVIOUS
  <2>1. /\ StandsSince(t, mapRequest[r].list[t])
        /\ doc[t] = "inline" => t \in mapRequest[r].inline
        /\ mapRequest[r].list[t] = "moved" => t \notin mapRequest[r].inline
        /\ mapRequest[r].list[t] = "moved" /\ doc[t] = "moved" => t \in mapRequest[r].tracks
    BY <1>5, <1>8 DEF ReadsStand
  <2>2. Computed(r)[t] = IF t \in mapRequest[r].inline THEN "line"
                         ELSE IF t \in mapRequest[r].tracks THEN "segments" ELSE "nothing"
    BY DEF Computed
  <2> QED BY <2>1, <2>2 DEF StandsSince, Kept, ShownAs
<1>10. MapStands(e)
  <2>1. e.signature = mapRequest[r].list /\ e.result = Computed(r)
    BY <1>2 DEF SignatureFor
  <2> QED BY <1>9, <2>1 DEF MapStands
<1>11. AnsweredShown
  BY <1>5, <1>9 DEF AnsweredShown
<1> QED BY <1>5, <1>7, <1>10, <1>11, MemoChanges

\* It holds at first.
LEMMA HeatmapStart == HeatmapInit => MapsInv
<1> SUFFICES ASSUME HeatmapInit PROVE MapsInv
  OBVIOUS
<1>1. entries \in Seq(Range(entries)) /\ Range(entries) = {}
  BY DEF HeatmapInit, Range
<1>2. mapRequest \in [MapRequest -> RequestRecord] /\ \A r \in MapRequest : mapRequest[r].pc = "idle"
  BY IdleTyped DEF HeatmapInit
<1> QED BY <1>1, <1>2 DEF HeatmapInit, MapsInv, Kept

\* Every step keeps it, and answers right.
LEMMA HeatmapStep == ASSUME MapsInv, HeatmapNext PROVE MapsInv' /\ AnsweredShown
<1>1. ASSUME NEW t \in Tour, StoreTrack(t) PROVE MapsInv' /\ AnsweredShown
  BY <1>1, StorageMoves, Unshown DEF StoreTrack, MapsInv
<1>2. ASSUME NEW t \in Tour, CreateOrMoveTour(t) PROVE MapsInv' /\ AnsweredShown
  <2>1. /\ doc' \in [Tour -> Kept \cup {"none", "deleted"}]
        /\ \A p \in Tour : doc'[p] = IF p = t THEN "moved" ELSE doc[p]
    BY <1>2 DEF CreateOrMoveTour, MapsInv, Kept
  <2> QED BY <1>2, <2>1, StorageMoves, Unshown DEF CreateOrMoveTour, MapsInv
<1>3. ASSUME NEW t \in Tour, DeleteTour(t) PROVE MapsInv' /\ AnsweredShown
  <2>1. /\ doc' \in [Tour -> Kept \cup {"none", "deleted"}]
        /\ \A p \in Tour : doc'[p] = IF p = t THEN "deleted" ELSE doc[p]
    BY <1>3 DEF DeleteTour, MapsInv, Kept
  <2> QED BY <1>3, <2>1, StorageMoves, Unshown DEF DeleteTour, MapsInv, Kept
<1>4. ASSUME NEW t \in Tour, DeleteTrack(t) PROVE MapsInv' /\ AnsweredShown
  BY <1>4, StorageMoves, Unshown DEF DeleteTrack, MapsInv
<1>5. ASSUME NEW r \in MapRequest, NEW rider \in Rider, BeginGetMapData(r, rider)
      PROVE  MapsInv' /\ AnsweredShown
  <2>1. [Idle EXCEPT !.pc = "list", !.rider = rider] \in RequestRecord
    BY IdleTyped DEF RequestRecord
  <2>2. [Idle EXCEPT !.pc = "list", !.rider = rider].pc = "list"
    BY DEF Idle
  <2> QED BY <1>5, <2>1, <2>2, RequestMoves, Unshown DEF BeginGetMapData
<1>6. ASSUME NEW r \in MapRequest, QueryRejects(r) PROVE MapsInv' /\ AnsweredShown
  BY <1>6, IdleTyped, RequestMoves, Unshown DEF QueryRejects
<1> QED BY <1>1, <1>2, <1>3, <1>4, <1>5, <1>6, ListToursShows, ReadTracksShows, ReadInlineShows,
           StoreMapShows DEF HeatmapNext

(* No map of GetMapData, computed or memoised, shows a tour that is still as it was listed
   otherwise than with its own track: for any riders, tours and requests. *)
THEOREM MapsAlwaysComplete == HeatmapSpec => MapsComplete
<1>1. ASSUME MapsInv, [HeatmapNext]_heatmapVars PROVE MapsInv'
  <2>1. CASE UNCHANGED heatmapVars
    <3>1. doc' = doc /\ track' = track /\ entries' = entries /\ mapRequest' = mapRequest
      BY <2>1 DEF heatmapVars, storage, cache
    <3>2. \A e : MapStands(e) => MapStands(e)'
      BY <3>1 DEF MapStands, StandsSince, ShownAs
    <3>3. \A q : ReadsStand(q) => ReadsStand(q)'
      BY <3>1 DEF ReadsStand, StandsSince
    <3> QED BY <1>1, <3>1, <3>2, <3>3 DEF MapsInv
  <2> QED BY <1>1, <2>1, HeatmapStep
<1>2. MapsInv /\ [HeatmapNext]_heatmapVars =>
        [\A t \in DOMAIN answered'.list :
           doc[t] = answered'.list[t] => answered'.map[t] = ShownAs(t)]_heatmapVars
  BY HeatmapStep DEF AnsweredShown
<1> QED BY <1>1, <1>2, HeatmapStart, PTL DEF HeatmapSpec, MapsComplete

-----------------------------------------------------------------------------
(* The memo: whose maps it holds, and in which order. *)

OneEach(list) == \A i, j \in 1..Len(list) : list[i].rider = list[j].rider => i = j
InOrder(list, since) == \A i, j \in 1..Len(list) : i < j => <<list[i].rider, list[j].rider>> \in since
OwnMap(e) ==
  DOMAIN e.result = DOMAIN e.signature /\ \A t \in DOMAIN e.signature : Owner[t] = e.rider
OwnMaps(list) == \A i \in 1..Len(list) : OwnMap(list[i])

MemoInv ==
  /\ doc \in [Tour -> Kept \cup {"none", "deleted"}] /\ track \in SUBSET Tour
  /\ entries \in Seq(Entry) /\ OneEach(entries) /\ OwnMaps(entries) /\ InOrder(entries, usage)
  /\ cachedPoints \in Counts
  /\ mapRequest \in [MapRequest -> RequestRecord]
  /\ \A r \in MapRequest : mapRequest[r].pc # "idle" => mapRequest[r].rider \in Rider
  /\ answered \in [list: Listed, map: Maps]
  /\ usage \subseteq Rider \X Rider

\* A memo without a rider's entry, and one more at its end: whose maps it holds, and in which order.
LEMMA PutLast ==
  ASSUME MemoInv, NEW rider \in Rider, NEW e \in Entry, e.rider = rider, OwnMap(e), Use(rider)
  PROVE  LET list == Append(Without(rider), e) IN
         /\ list \in Seq(Entry) /\ OneEach(list) /\ OwnMaps(list) /\ InOrder(list, usage')
         /\ Len(list) \in Nat /\ PointsOf(rider) \in Counts
<1>1. entries \in Seq(Entry) /\ OneEach(entries) /\ OwnMaps(entries) /\ InOrder(entries, usage)
  BY DEF MemoInv
<1>2. PICK n \in Nat : n = Len(entries)
  BY <1>1, LenProperties
<1>3. DOMAIN entries = 1..n /\ \A i \in 1..n : entries[i] \in Entry
  BY <1>1, <1>2, LenProperties, ElementOfSeq
<1>4. PICK w : w = Without(rider)
  OBVIOUS
<1>5. PICK l \in Nat : l = Len(w)
  <2>1. CASE EntriesOf(rider) = {}
    BY <1>2, <1>4, <2>1 DEF Without
  <2>2. CASE EntriesOf(rider) # {}
    <3>1. PICK k : k = (CHOOSE i \in EntriesOf(rider) : TRUE)
      OBVIOUS
    <3>2. k \in 1..n /\ w = RemoveAt(entries, k)
      BY <1>3, <1>4, <2>2, <3>1 DEF EntriesOf, Without
    <3>3. Len(w) = n - 1
      BY <1>1, <1>2, <3>2, Taken
    <3> QED BY <3>2, <3>3
  <2> QED BY <2>1, <2>2
<1>6. /\ w \in Seq(Entry) /\ \A i \in 1..l : w[i].rider # rider
      /\ \A i \in 1..l : \E p \in 1..n : w[i] = entries[p]
      /\ \A i, j \in 1..l : i < j => \E p, q \in 1..n : p < q /\ w[i] = entries[p] /\ w[j] = entries[q]
      /\ PointsOf(rider) \in Counts
  <2>1. CASE EntriesOf(rider) = {}
    <3>1. w = entries /\ l = n /\ PointsOf(rider) = 0
      BY <1>2, <1>4, <1>5, <2>1 DEF Without, PointsOf
    <3>2. \A i \in 1..n : entries[i].rider # rider
      BY <1>3, <2>1 DEF EntriesOf
    <3> QED BY <1>1, <3>1, <3>2 DEF Counts
  <2>2. CASE EntriesOf(rider) # {}
    <3>1. PICK k : k = (CHOOSE i \in EntriesOf(rider) : TRUE)
      OBVIOUS
    <3>2. k \in 1..n /\ entries[k].rider = rider /\ w = RemoveAt(entries, k) /\ PointsOf(rider) = entries[k].points
      BY <1>3, <1>4, <2>2, <3>1 DEF EntriesOf, Without, PointsOf
    <3>3. /\ w \in Seq(Entry) /\ l = n - 1
          /\ \A i \in 1..n - 1 : w[i] = IF i < k THEN entries[i] ELSE entries[i + 1]
      BY <1>1, <1>2, <1>5, <3>2, Taken
    <3>4. PICK v : v = [i \in 1..n - 1 |-> IF i < k THEN i ELSE i + 1]
      OBVIOUS
    <3>5. \A i \in 1..n - 1 : v[i] = IF i < k THEN i ELSE i + 1
      BY <3>4
    <3>6. \A i \in 1..n - 1 : v[i] \in 1..n /\ v[i] # k
      BY <3>2, <3>5
    <3>7. \A i \in 1..n - 1 : w[i] = entries[v[i]]
      BY <3>3, <3>5
    <3>8. \A i, j \in 1..n - 1 : i < j => v[i] < v[j]
      BY <3>2, <3>4
    <3>9. \A i \in 1..n - 1 : w[i].rider # rider
      BY <1>1, <1>2, <3>2, <3>6, <3>7 DEF OneEach
    <3>10. PointsOf(rider) \in Counts
      BY <1>3, <3>2 DEF Entry
    <3>11. \A i \in 1..n - 1 : \E p \in 1..n : w[i] = entries[p]
      BY <3>6, <3>7
    <3>12. \A i, j \in 1..n - 1 : i < j => \E p, q \in 1..n : p < q /\ w[i] = entries[p] /\ w[j] = entries[q]
      BY <3>6, <3>7, <3>8
    <3> QED BY <3>3, <3>9, <3>10, <3>11, <3>12
  <2> QED BY <2>1, <2>2
<1>7. PICK list : list = Append(w, e)
  OBVIOUS
<1>8. /\ list \in Seq(Entry) /\ Len(list) = l + 1 /\ list[l + 1] = e /\ \A i \in 1..l : list[i] = w[i]
  BY <1>5, <1>6, <1>7, AppendProperties
<1>9. \A i \in 1..l + 1 : i \in 1..l \/ i = l + 1
  OBVIOUS
<1>10. OneEach(list)
  <2>1. \A i, j \in 1..l : list[i].rider = list[j].rider => i = j
    <3> SUFFICES ASSUME NEW i \in 1..l, NEW j \in 1..l, i < j PROVE list[i].rider # list[j].rider
      OBVIOUS
    <3>1. PICK p \in 1..n, q \in 1..n : p < q /\ w[i] = entries[p] /\ w[j] = entries[q]
      BY <1>6
    <3>2. entries[p].rider # entries[q].rider
      BY <1>1, <1>2, <3>1 DEF OneEach
    <3> QED BY <1>8, <3>1, <3>2
  <2>2. \A i \in 1..l : list[i].rider # list[l + 1].rider
    BY <1>6, <1>8
  <2>3. \A i, j \in 1..l + 1 : list[i].rider = list[j].rider => i = j
    BY <1>9, <2>1, <2>2
  <2> QED BY <1>8, <2>3 DEF OneEach
<1>11. OwnMaps(list)
  <2>1. \A i \in 1..l : OwnMap(list[i])
    <3> SUFFICES ASSUME NEW i \in 1..l PROVE OwnMap(list[i])
      OBVIOUS
    <3>1. PICK p \in 1..n : list[i] = entries[p]
      BY <1>6, <1>8
    <3> QED BY <1>1, <1>2, <3>1 DEF OwnMaps
  <2> QED BY <1>8, <1>9, <2>1 DEF OwnMaps
<1>12. InOrder(list, usage')
  <2> SUFFICES ASSUME NEW i \in 1..l + 1, NEW j \in 1..l + 1, i < j
               PROVE  <<list[i].rider, list[j].rider>> \in usage'
    BY <1>8 DEF InOrder
  <2>1. usage' = (usage \ ({rider} \X Rider)) \cup ((Rider \ {rider}) \X {rider})
    BY DEF Use
  <2>2. i \in 1..l
    BY <1>9
  <2>3. list[i].rider # rider /\ list[i].rider \in Rider
    <3>1. list[i] \in Entry /\ list[i].rider # rider
      BY <1>3, <1>6, <1>8, <2>2
    <3> QED BY <3>1 DEF Entry
  <2>4. CASE j = l + 1
    BY <1>8, <2>1, <2>3, <2>4
  <2>5. CASE j \in 1..l
    <3>1. PICK p \in 1..n, q \in 1..n : p < q /\ w[i] = entries[p] /\ w[j] = entries[q]
      BY <1>6, <2>2, <2>5
    <3>2. <<list[i].rider, list[j].rider>> \in usage
      BY <1>1, <1>2, <1>8, <2>2, <2>5, <3>1 DEF InOrder
    <3> QED BY <2>1, <2>3, <3>2
  <2> QED BY <1>9, <2>4, <2>5
<1> QED BY <1>4, <1>6, <1>7, <1>8, <1>10, <1>11, <1>12

\* A map, by the tours it has.
LEMMA MapIs ==
  ASSUME NEW map
  PROVE  map \in Maps <=> \E some \in SUBSET Tour : map \in [some -> {"nothing", "line", "segments"}]
BY DEF Maps

\* What is computed for a list is a map.
LEMMA ComputedIs ==
  ASSUME NEW r, mapRequest[r].list \in Listed PROVE Computed(r) \in Maps
<1>1. PICK some \in SUBSET Tour : DOMAIN mapRequest[r].list = some
  BY DEF Listed
<1>2. Computed(r) \in [some -> {"nothing", "line", "segments"}]
  BY <1>1 DEF Computed
<1> QED BY <1>2, MapIs

\* No answer is an answer of nothing.
LEMMA UnansweredTyped == Unanswered \in [list: Listed, map: Maps]
<1>1. NoTours \in Listed
  BY ListedIs DEF NoTours
<1>2. NoTours \in Maps
  BY MapIs DEF NoTours
<1> QED BY <1>1, <1>2 DEF Unanswered

\* A request that has become idle leaves the others.
LEMMA RequestIdles ==
  ASSUME MemoInv, NEW r \in MapRequest, mapRequest' = [mapRequest EXCEPT ![r] = Idle]
  PROVE  /\ mapRequest' \in [MapRequest -> RequestRecord]
         /\ \A p \in MapRequest : mapRequest'[p].pc # "idle" => mapRequest'[p].rider \in Rider
<1>1. mapRequest \in [MapRequest -> RequestRecord]
  BY DEF MemoInv
<1>2. \A p \in MapRequest : mapRequest'[p] = IF p = r THEN Idle ELSE mapRequest[p]
  BY <1>1
<1>3. mapRequest' \in [MapRequest -> RequestRecord]
  BY <1>1, IdleTyped
<1> QED BY <1>2, <1>3, IdleTyped DEF MemoInv

\* A request that goes on with a rider leaves the memo as it is.
LEMMA RequestGoesOn ==
  ASSUME MemoInv, NEW r \in MapRequest, NEW q \in RequestRecord, q.pc # "idle" => q.rider \in Rider,
         UNCHANGED <<storage, cache>>, mapRequest' = [mapRequest EXCEPT ![r] = q],
         answered' = Unanswered
  PROVE  MemoInv'
<1>1. doc' = doc /\ track' = track /\ entries' = entries /\ cachedPoints' = cachedPoints /\ usage' = usage
  BY DEF storage, cache
<1>2. mapRequest \in [MapRequest -> RequestRecord]
  BY DEF MemoInv
<1>3. \A p \in MapRequest : mapRequest'[p] = IF p = r THEN q ELSE mapRequest[p]
  BY <1>2
<1>4. mapRequest' \in [MapRequest -> RequestRecord]
  BY <1>2
<1>5. \A p \in MapRequest : mapRequest'[p].pc # "idle" => mapRequest'[p].rider \in Rider
  BY <1>3 DEF MemoInv
<1> QED BY <1>1, <1>4, <1>5, UnansweredTyped DEF MemoInv

-----------------------------------------------------------------------------
\* The memo, step by step.

\* Listing the tours moves an entry to the end, or leaves the memo alone.
LEMMA ListToursKeeps ==
  ASSUME MemoInv, NEW r \in MapRequest, ListTours(r) PROVE MemoInv'
<1>1. PICK rider : rider = mapRequest[r].rider
  OBVIOUS
<1>2. PICK list : list = [t \in ToursOf(rider) |-> doc[t]]
  OBVIOUS
<1>3. mapRequest[r].pc = "list" /\ mapRequest[r] \in RequestRecord /\ rider \in Rider
  BY <1>1 DEF ListTours, MemoInv
<1>4. list \in Listed
  <2>1. list \in [ToursOf(rider) -> Kept] /\ ToursOf(rider) \in SUBSET Tour
    BY <1>2 DEF ToursOf
  <2> QED BY <2>1, ListedIs
<1>5. doc' = doc /\ track' = track
  BY DEF ListTours, storage
<1>6. ASSUME NEW i \in EntriesOf(rider), entries' = Reinserted(rider, entries[i]), Use(rider),
             mapRequest' = [mapRequest EXCEPT ![r] = Idle],
             answered' = [list |-> list, map |-> entries[i].result], cachedPoints' = cachedPoints
      PROVE  MemoInv'
  <2>1. PICK e : e = entries[i]
    OBVIOUS
  <2>2. i \in 1..Len(entries) /\ e.rider = rider
    BY <2>1, LenProperties DEF EntriesOf, MemoInv
  <2>3. e \in Entry /\ OwnMap(e)
    BY <2>1, <2>2, ElementOfSeq DEF MemoInv, OwnMaps
  <2>4. PICK put : put = Append(Without(rider), e)
    OBVIOUS
  <2>5. put \in Seq(Entry) /\ OneEach(put) /\ OwnMaps(put) /\ InOrder(put, usage')
    BY <1>3, <1>6, <2>2, <2>3, <2>4, PutLast
  <2>6. /\ mapRequest' \in [MapRequest -> RequestRecord]
        /\ \A p \in MapRequest : mapRequest'[p].pc # "idle" => mapRequest'[p].rider \in Rider
    BY <1>6, RequestIdles
  <2>7. answered' \in [list: Listed, map: Maps]
    BY <1>4, <1>6, <2>1, <2>3 DEF Entry
  <2>8. usage' \subseteq Rider \X Rider
    BY <1>3, <1>6 DEF Use, MemoInv
  <2>9. entries' = put
    BY <1>6, <2>1, <2>4 DEF Reinserted
  <2>10. doc \in [Tour -> Kept \cup {"none", "deleted"}] /\ track \in SUBSET Tour
        /\ cachedPoints \in Counts
    BY DEF MemoInv
  <2> QED BY <1>5, <1>6, <2>5, <2>6, <2>7, <2>8, <2>9, <2>10 DEF MemoInv
<1>7. ASSUME mapRequest' = [mapRequest EXCEPT ![r].pc = "compute", ![r].list = list,
                                              ![r].unread = {"tracks", "inline"}],
             answered' = Unanswered, UNCHANGED cache
      PROVE  MemoInv'
  <2>1. PICK q : q = [mapRequest[r] EXCEPT !.pc = "compute", !.list = list, !.unread = {"tracks", "inline"}]
    OBVIOUS
  <2>2. q \in RequestRecord /\ q.rider = rider
    BY <1>1, <1>3, <1>4, <2>1 DEF RequestRecord
  <2>3. mapRequest' = [mapRequest EXCEPT ![r] = q]
    BY <1>3, <1>7, <2>1 DEF MemoInv, RequestRecord
  <2> QED BY <1>3, <1>5, <1>7, <2>2, <2>3, RequestGoesOn DEF storage
<1> QED BY <1>1, <1>2, <1>6, <1>7 DEF ListTours

\* Counts are added and taken away to counts, and a count never exceeds what the cache may hold:
\* nothing is evicted (heatmapCache.js:41, see CacheBounded).
LEMMA CountsStay ==
  /\ \A a, b \in Counts : Plus(a, b) \in Counts /\ Minus(a, b) \in Counts
  /\ \A a \in Counts : ~Exceeds(a)
<1>1. NaN = -1 /\ MaxPoints \in Nat
  BY HeatmapCacheAssumption DEF NaN
<1>2. \A a \in Counts : a = 0 \/ a = NaN
  BY DEF Counts
<1>3. \A a, b \in Counts : Plus(a, b) \in {0, NaN} /\ Minus(a, b) \in {0, NaN}
  BY <1>1, <1>2 DEF Plus, Minus
<1>4. \A a \in Counts : ~Exceeds(a)
  BY <1>1, <1>2 DEF Exceeds
<1> QED BY <1>3, <1>4 DEF Counts

\* The count of no entries is none.
LEMMA NothingCounted == ASSUME NEW list, DOMAIN list = {} PROVE PointsOfEntries(list) = 0
<1>1. PICK f : f = [i \in DOMAIN list |-> list[i].points]
  OBVIOUS
<1>2. DOMAIN f = {}
  BY <1>1
<1>3. SumOf(f) = 0
  <2>1. UNION {{x} \X (1..f[x]) : x \in DOMAIN f} = {}
    BY <1>2
  <2> QED BY <2>1, FS_EmptySet DEF SumOf
<1> QED BY <1>1, <1>3 DEF PointsOfEntries

\* Nothing goes where the count is one of these.
LEMMA NoneEvicted ==
  ASSUME NEW total \in Counts, NEW list \in Seq(Entry)
  PROVE  /\ Evicted(total, list) = 0 /\ SubSeq(list, 1, Len(list)) = list
         /\ Minus(total, PointsOfEntries(SubSeq(list, 1, 0))) \in Counts
<1>1. PICK l \in Nat : l = Len(list) /\ DOMAIN list = 1..l
  BY LenProperties
<1>2. DOMAIN SubSeq(list, 1, 0) = {}
  <2>1. SubSeq(list, 1, 0) \in Seq(Entry) /\ Len(SubSeq(list, 1, 0)) = 0
    BY <1>1, SubSeqProperties
  <2> QED BY <2>1, LenProperties
<1>3. Minus(total, PointsOfEntries(SubSeq(list, 1, 0))) \in Counts
  <2>1. PointsOfEntries(SubSeq(list, 1, 0)) = 0 /\ 0 \in Counts
    BY <1>2, NothingCounted DEF Counts
  <2> QED BY <2>1, CountsStay
<1> DEFINE Goes(m) == Exceeds(Minus(total, PointsOfEntries(SubSeq(list, 1, m))))
<1>4. ~Goes(0)
  BY <1>3, CountsStay
<1>5. Evicted(total, list) =
        CHOOSE n \in 0..l : (n = l \/ ~Goes(n)) /\ \A m \in 0..(n - 1) : Goes(m)
  BY <1>1 DEF Evicted
<1> HIDE DEF Goes
<1>6. \A n \in 0..l : ((n = l \/ ~Goes(n)) /\ \A m \in 0..(n - 1) : Goes(m)) <=> n = 0
  <2>1. ASSUME NEW n \in 0..l, n # 0 PROVE ~(\A m \in 0..(n - 1) : Goes(m))
    <3>1. 0 \in 0..(n - 1)
      BY <1>1, <2>1
    <3> QED BY <1>4, <3>1
  <2>2. \A m \in 0..(0 - 1) : Goes(m)
    OBVIOUS
  <2> QED BY <1>4, <2>1, <2>2
<1>7. Evicted(total, list) = 0
  <2>1. 0 \in 0..l
    BY <1>1
  <2>2. (CHOOSE n \in 0..l : (n = l \/ ~Goes(n)) /\ \A m \in 0..(n - 1) : Goes(m)) = 0
    BY <1>6, <2>1
  <2> QED BY <1>5, <2>2
<1>8. SubSeq(list, 1, Len(list)) = list
  <2>1. PICK s : s = SubSeq(list, 1, l)
    OBVIOUS
  <2>2. s \in Seq(Entry) /\ Len(s) = l /\ \A i \in 1..l : s[i] = list[i]
    BY <1>1, <2>1, SubSeqProperties
  <2> QED BY <1>1, <2>1, <2>2, SeqEqual
<1> QED BY <1>3, <1>7, <1>8

\* Storing a map replaces the rider's own.
LEMMA StoreMapKeeps ==
  ASSUME MemoInv, MapsInv, NEW r \in MapRequest, StoreMap(r) PROVE MemoInv'
<1>1. PICK rider : rider = mapRequest[r].rider
  OBVIOUS
<1>2. PICK map : map = Computed(r)
  OBVIOUS
<1>3. PICK points : points = PointCountOf(map)
  OBVIOUS
<1>4. PICK e : e = [rider |-> rider, result |-> map, points |-> points,
                    signature |-> SignatureFor(mapRequest[r].list)]
  OBVIOUS
<1>5. PICK list : list = Append(Without(rider), e)
  OBVIOUS
<1>6. /\ mapRequest[r].pc = "compute" /\ mapRequest[r] \in RequestRecord /\ rider \in Rider
      /\ mapRequest[r].list \in Listed
  BY <1>1 DEF StoreMap, MemoInv, RequestRecord
<1>7. map \in Maps
  BY <1>2, <1>6, ComputedIs
<1>8. points \in Counts
  BY <1>3 DEF PointCountOf, Counts
<1>9. e \in Entry /\ e.rider = rider
  BY <1>4, <1>6, <1>7, <1>8 DEF Entry, SignatureFor
<1>10. OwnMap(e)
  <2>1. DOMAIN map = DOMAIN mapRequest[r].list
    BY <1>2 DEF Computed
  <2>2. \A t \in DOMAIN mapRequest[r].list : Owner[t] = rider
    BY <1>1, <1>6 DEF MapsInv, ReadsStand
  <2> QED BY <1>4, <2>1, <2>2 DEF OwnMap, SignatureFor
<1>11. Use(rider)
  BY <1>1 DEF StoreMap
<1>12. /\ list \in Seq(Entry) /\ OneEach(list) /\ OwnMaps(list) /\ InOrder(list, usage')
       /\ Len(list) \in Nat /\ PointsOf(rider) \in Counts
  BY <1>5, <1>6, <1>9, <1>10, <1>11, PutLast
<1>13. PICK total : total = Total(rider, points)
  OBVIOUS
<1>14. total \in Counts
  BY <1>8, <1>12, <1>13, CountsStay DEF Total, MemoInv
<1>15. /\ entries' = SubSeq(list, Evicted(total, list) + 1, Len(list))
       /\ cachedPoints' = Minus(total, PointsOfEntries(SubSeq(list, 1, Evicted(total, list))))
       /\ mapRequest' = [mapRequest EXCEPT ![r] = Idle]
       /\ answered' = [list |-> mapRequest[r].list, map |-> map]
       /\ UNCHANGED storage
  BY <1>1, <1>2, <1>3, <1>4, <1>5, <1>13 DEF StoreMap
<1>16. entries' = list /\ cachedPoints' \in Counts
  BY <1>12, <1>14, <1>15, NoneEvicted
<1>17. /\ mapRequest' \in [MapRequest -> RequestRecord]
       /\ \A p \in MapRequest : mapRequest'[p].pc # "idle" => mapRequest'[p].rider \in Rider
  BY <1>15, RequestIdles
<1>18. answered' \in [list: Listed, map: Maps]
  BY <1>6, <1>7, <1>15
<1>19. usage' \subseteq Rider \X Rider
  BY <1>6, <1>11 DEF Use, MemoInv
<1>20. doc' \in [Tour -> Kept \cup {"none", "deleted"}] /\ track' \in SUBSET Tour
  BY <1>15 DEF storage, MemoInv
<1> QED BY <1>12, <1>16, <1>17, <1>18, <1>19, <1>20 DEF MemoInv

\* Storage moves on without the memo.
LEMMA StorageKeeps ==
  ASSUME MemoInv, UNCHANGED <<cache, mapRequest>>, answered' = Unanswered,
         doc' \in [Tour -> Kept \cup {"none", "deleted"}], track' \in SUBSET Tour
  PROVE  MemoInv'
<1>1. entries' = entries /\ cachedPoints' = cachedPoints /\ usage' = usage /\ mapRequest' = mapRequest
  BY DEF cache
<1> QED BY <1>1, UnansweredTyped DEF MemoInv

\* It holds at first.
LEMMA MemoStart == HeatmapInit => MemoInv
<1> SUFFICES ASSUME HeatmapInit PROVE MemoInv
  OBVIOUS
<1>1. entries = <<>> /\ cachedPoints = 0 /\ usage = {}
  BY DEF HeatmapInit
<1>2. PICK list : list = entries
  OBVIOUS
<1>3. list \in Seq(Entry) /\ Len(list) = 0 /\ DOMAIN list = {}
  BY <1>1, <1>2
<1>4. OneEach(list) /\ OwnMaps(list) /\ InOrder(list, usage)
  BY <1>3 DEF OneEach, OwnMaps, InOrder
<1>5. mapRequest \in [MapRequest -> RequestRecord] /\ \A r \in MapRequest : mapRequest[r].pc = "idle"
  BY IdleTyped DEF HeatmapInit
<1>6. doc \in [Tour -> Kept \cup {"none", "deleted"}] /\ track \in SUBSET Tour
  BY DEF HeatmapInit, Kept
<1>7. answered \in [list: Listed, map: Maps]
  BY UnansweredTyped DEF HeatmapInit
<1>8. cachedPoints \in Counts
  BY <1>1 DEF Counts
<1> QED BY <1>1, <1>2, <1>3, <1>4, <1>5, <1>6, <1>7, <1>8 DEF MemoInv

\* Every step keeps it.
LEMMA MemoStep == ASSUME MemoInv, MapsInv, HeatmapNext PROVE MemoInv'
<1>1. doc \in [Tour -> Kept \cup {"none", "deleted"}] /\ track \in SUBSET Tour
      /\ mapRequest \in [MapRequest -> RequestRecord]
  BY DEF MemoInv
<1>2. ASSUME NEW t \in Tour, StoreTrack(t) PROVE MemoInv'
  BY <1>1, <1>2, StorageKeeps DEF StoreTrack
<1>3. ASSUME NEW t \in Tour, CreateOrMoveTour(t) PROVE MemoInv'
  <2>1. doc' \in [Tour -> Kept \cup {"none", "deleted"}]
    BY <1>1, <1>3 DEF CreateOrMoveTour, Kept
  <2> QED BY <1>1, <1>3, <2>1, StorageKeeps DEF CreateOrMoveTour
<1>4. ASSUME NEW t \in Tour, DeleteTour(t) PROVE MemoInv'
  <2>1. doc' \in [Tour -> Kept \cup {"none", "deleted"}]
    BY <1>1, <1>4 DEF DeleteTour
  <2> QED BY <1>1, <1>4, <2>1, StorageKeeps DEF DeleteTour
<1>5. ASSUME NEW t \in Tour, DeleteTrack(t) PROVE MemoInv'
  BY <1>1, <1>5, StorageKeeps DEF DeleteTrack
<1>6. ASSUME NEW r \in MapRequest, NEW rider \in Rider, BeginGetMapData(r, rider) PROVE MemoInv'
  <2>1. PICK q : q = [Idle EXCEPT !.pc = "list", !.rider = rider]
    OBVIOUS
  <2>2. q \in RequestRecord /\ q.rider = rider
    BY <2>1, IdleTyped DEF RequestRecord
  <2> QED BY <1>6, <2>1, <2>2, RequestGoesOn DEF BeginGetMapData
<1>7. ASSUME NEW r \in MapRequest, ReadTracks(r) PROVE MemoInv'
  <2>0. mapRequest[r] \in RequestRecord
    BY <1>1
  <2>1. PICK q : q = [mapRequest[r] EXCEPT !.unread = @ \ {"tracks"},
                                           !.tracks = {t \in track : Owner[t] = mapRequest[r].rider}]
    OBVIOUS
  <2>2. q \in RequestRecord /\ q.pc = mapRequest[r].pc /\ q.rider = mapRequest[r].rider
    BY <1>1, <2>0, <2>1 DEF RequestRecord
  <2>3. mapRequest' = [mapRequest EXCEPT ![r] = q]
    BY <1>1, <1>7, <2>1 DEF ReadTracks, RequestRecord
  <2>4. q.pc # "idle" => q.rider \in Rider
    BY <2>2 DEF MemoInv
  <2> QED BY <1>7, <2>2, <2>3, <2>4, RequestGoesOn DEF ReadTracks
<1>8. ASSUME NEW r \in MapRequest, ReadInline(r) PROVE MemoInv'
  <2>0. mapRequest[r] \in RequestRecord
    BY <1>1
  <2>1. PICK found \in SUBSET Tour : found = {t \in ToursOf(mapRequest[r].rider) : doc[t] = "inline"}
    BY DEF ToursOf
  <2>2. PICK q : q = [mapRequest[r] EXCEPT !.unread = @ \ {"inline"}, !.inline = found]
    OBVIOUS
  <2>3. q \in RequestRecord /\ q.pc = mapRequest[r].pc /\ q.rider = mapRequest[r].rider
    BY <2>0, <2>2 DEF RequestRecord
  <2>4. mapRequest' = [mapRequest EXCEPT ![r] = q]
    BY <1>1, <1>8, <2>1, <2>2 DEF ReadInline, RequestRecord
  <2>5. q.pc # "idle" => q.rider \in Rider
    BY <2>3 DEF MemoInv
  <2> QED BY <1>8, <2>3, <2>4, <2>5, RequestGoesOn DEF ReadInline
<1>9. ASSUME NEW r \in MapRequest, QueryRejects(r) PROVE MemoInv'
  BY <1>9, IdleTyped, RequestGoesOn DEF QueryRejects
<1> QED BY <1>2, <1>3, <1>4, <1>5, <1>6, <1>7, <1>8, <1>9, ListToursKeeps, StoreMapKeeps DEF HeatmapNext

\* It says what the memo holds.
LEMMA MemoIsSound == MemoInv /\ MapsInv => MemoSound
<1> SUFFICES ASSUME MemoInv, MapsInv PROVE MemoSound
  OBVIOUS
<1>1. PICK n \in Nat : n = Len(entries)
  BY LenProperties DEF MemoInv
<1>2. DOMAIN entries = 1..n /\ \A i \in 1..n : entries[i] \in Entry
  BY <1>1, LenProperties, ElementOfSeq DEF MemoInv
<1>3. \A i, j \in 1..n : entries[i].rider = entries[j].rider => i = j
  BY <1>1 DEF MemoInv, OneEach
<1>4. HeatmapTypeOK
  BY <1>2, <1>3 DEF MemoInv, HeatmapTypeOK, RequestRecord
<1>5. MemoOfRider
  <2> SUFFICES ASSUME NEW e \in Range(entries)
               PROVE  /\ DOMAIN e.result = DOMAIN e.signature
                      /\ \A t \in DOMAIN e.signature :
                           Owner[t] = e.rider /\ (doc[t] = e.signature[t] => e.result[t] = ShownAs(t))
    BY DEF MemoOfRider
  <2>1. PICK i \in 1..n : e = entries[i]
    BY <1>2 DEF Range
  <2>2. OwnMap(e)
    BY <1>1, <2>1 DEF MemoInv, OwnMaps
  <2>3. MapStands(e)
    BY DEF MapsInv
  <2> QED BY <2>2, <2>3 DEF OwnMap, MapStands
<1>6. LeastRecentFirst
  BY <1>1, <1>2 DEF MemoInv, InOrder, LeastRecentFirst
<1> QED BY <1>4, <1>5, <1>6 DEF MemoSound

(* The memo holds at most one map of each rider, of the rider's own tours, each shown with its own
   track as long as it is as it was listed, in the order of last use: for any riders, tours and
   requests. *)
THEOREM MemoAlwaysSound == HeatmapSpec => []MemoSound
<1>1. ASSUME MemoInv, MapsInv, [HeatmapNext]_heatmapVars PROVE MemoInv' /\ MapsInv'
  <2>1. CASE UNCHANGED heatmapVars
    <3>1. /\ doc' = doc /\ track' = track /\ entries' = entries /\ mapRequest' = mapRequest
          /\ answered' = answered /\ cachedPoints' = cachedPoints /\ usage' = usage
      BY <2>1 DEF heatmapVars, storage, cache
    <3>2. \A e : MapStands(e) => MapStands(e)'
      BY <3>1 DEF MapStands, StandsSince, ShownAs
    <3>3. \A q : ReadsStand(q) => ReadsStand(q)'
      BY <3>1 DEF ReadsStand, StandsSince
    <3> QED BY <1>1, <3>1, <3>2, <3>3 DEF MemoInv, MapsInv
  <2> QED BY <1>1, <2>1, MemoStep, HeatmapStep
<1> QED BY <1>1, MemoStart, HeatmapStart, MemoIsSound, PTL DEF HeatmapSpec

-----------------------------------------------------------------------------
(* ListApi. *)

ListApiSpec == ListApiInit /\ [][ListApiNext]_listApiVars

\* The items of a list past the first k, and where those of a set stand.
Past(s, k) == {s[i] : i \in {j \in 1..Len(s) : j > k}}
Places(s, U) == {i \in 1..Len(s) : s[i] \in U}
Distinct(s) == \A i, j \in 1..Len(s) : s[i] = s[j] => i = j

\* The items a reader has not come to.
Ahead == IF token = NoToken THEN {} ELSE Past(listing, token)

PagesTyped ==
  /\ listing \in Seq(TourIds) /\ Distinct(listing) /\ untouched \subseteq Range(listing)
  /\ read \in Seq(TourIds) /\ limit \in 0..MaxPageSize /\ token \in {NoToken} \cup (Nat \ {0})
  /\ limit = 0 => token = NoToken
  /\ ups \in Nat /\ downs \in Nat

\* One list is ahead of another, at a place, by one item and one that was moved, at most.
OneAhead(r, s, k, d) == \E x : Past(r, k) \subseteq Past(s, k) \cup {d, x}

OneMissed(r, s, k, V) == \E x : Past(r, k) \cap V \subseteq Past(s, k) \cup {x}

\* What was read by the time a list has moved on: what it passes by, and what comes again.
FewMissed(U, ahead, R, n) == Cardinality((U \ ahead) \ R) <= n
FewRepeated(U, ahead, s, n) ==
  Cardinality(Places(s, U)) + Cardinality(ahead \cap U \cap Range(s)) <= Cardinality(U \cap Range(s)) + n

PagesInv ==
  /\ PagesTyped
  /\ limit # 0 => FewMissed(untouched, Ahead, Range(read), ups)
  /\ FewRepeated(untouched, Ahead, read, downs)
  /\ ups + downs = 0 /\ limit # 0 =>
       IF token = NoToken THEN read = listing ELSE token <= Len(listing) /\ read = SubSeq(listing, 1, token)
  /\ PagesAsAsked /\ CodingAccepted

-----------------------------------------------------------------------------
\* Sets that lose an element, or gain one.

\* A part of a finite set is no larger.
LEMMA PartNoLarger ==
  ASSUME NEW S, IsFiniteSet(S), NEW T, T \subseteq S
  PROVE  IsFiniteSet(T) /\ Cardinality(T) \in Nat /\ Cardinality(S) \in Nat /\ Cardinality(T) <= Cardinality(S)
BY FS_Subset, FS_CardinalityType

\* With one element more it is larger by one at most.
LEMMA OneMore ==
  ASSUME NEW S, IsFiniteSet(S), NEW x, NEW T, T \subseteq S \cup {x}
  PROVE  Cardinality(T) \in Nat /\ Cardinality(S) \in Nat /\ Cardinality(T) <= Cardinality(S) + 1
<1>1. IsFiniteSet(S \cup {x}) /\ Cardinality(S \cup {x}) <= Cardinality(S) + 1 /\ Cardinality(S) \in Nat
  BY FS_AddElement, FS_CardinalityType
<1>2. Cardinality(T) \in Nat /\ Cardinality(S \cup {x}) \in Nat /\ Cardinality(T) <= Cardinality(S \cup {x})
  BY <1>1, PartNoLarger
<1> QED BY <1>1, <1>2

\* A list that moves towards its head passes one item by, at most.
LEMMA MissedOneMore ==
  ASSUME NEW U, IsFiniteSet(U), NEW V, V \subseteq U, NEW A, NEW B, NEW y, NEW R, NEW n \in Nat,
         FewMissed(U, A, R, n), A \cap V \subseteq B \cup {y}
  PROVE  FewMissed(V, B, R, n + 1)
<1>1. IsFiniteSet((U \ A) \ R)
  BY PartNoLarger
<1>2. (V \ B) \ R \subseteq ((U \ A) \ R) \cup {y}
  OBVIOUS
<1>3. /\ Cardinality((V \ B) \ R) \in Nat /\ Cardinality((U \ A) \ R) \in Nat
      /\ Cardinality((V \ B) \ R) <= Cardinality((U \ A) \ R) + 1
  BY <1>1, <1>2, OneMore
<1> QED BY <1>3 DEF FewMissed

\* A list that does not passes none by.
LEMMA MissedNoMore ==
  ASSUME NEW U, IsFiniteSet(U), NEW V, V \subseteq U, NEW A, NEW B, NEW R, NEW n \in Nat,
         FewMissed(U, A, R, n), A \cap V \subseteq B
  PROVE  FewMissed(V, B, R, n)
<1>1. IsFiniteSet((U \ A) \ R)
  BY PartNoLarger
<1>2. (V \ B) \ R \subseteq (U \ A) \ R
  OBVIOUS
<1>3. /\ Cardinality((V \ B) \ R) \in Nat /\ Cardinality((U \ A) \ R) \in Nat
      /\ Cardinality((V \ B) \ R) <= Cardinality((U \ A) \ R)
  BY <1>1, <1>2, PartNoLarger
<1> QED BY <1>3 DEF FewMissed

\* There are as many places as positions, and less one item at least one less.
LEMMA PlacesFinite ==
  ASSUME NEW S, NEW s \in Seq(S), NEW U
  PROVE  IsFiniteSet(Places(s, U)) /\ Cardinality(Places(s, U)) \in Nat
<1>1. Len(s) \in Nat
  BY LenProperties
<1>2. IsFiniteSet(1..Len(s))
  BY <1>1, FS_Interval
<1> QED BY <1>2, PartNoLarger DEF Places

\* An item that was edited or deleted no longer counts, read once or more.
LEMMA FewRepeatedOf ==
  ASSUME NEW S, NEW s \in Seq(S), NEW U, IsFiniteSet(U), NEW d, NEW A, NEW B, NEW n \in Nat,
         NEW m \in Nat, FewRepeated(U, A, s, n),
         Cardinality(B \cap (U \ {d}) \cap Range(s)) <= Cardinality(A \cap U \cap Range(s)) + m
  PROVE  FewRepeated(U \ {d}, B, s, n + m)
<1> DEFINE V == U \ {d}  P == Places(s, U)  Q == Places(s, V)
           X == U \cap Range(s)  Y == V \cap Range(s)
           J == A \cap U \cap Range(s)  K == B \cap V \cap Range(s)
<1>1. /\ IsFiniteSet(P) /\ IsFiniteSet(X) /\ IsFiniteSet(V)
      /\ Cardinality(P) \in Nat /\ Cardinality(Q) \in Nat
  BY PlacesFinite, PartNoLarger
<1>2. Cardinality(X) \in Nat /\ Cardinality(Y) \in Nat /\ Cardinality(J) \in Nat /\ Cardinality(K) \in Nat
  BY PartNoLarger
<1>3. Y = X \ {d} /\ (d \in X => \E i \in P : s[i] = d)
  <2>1. \A t \in Range(s) : \E i \in 1..Len(s) : s[i] = t
    BY LenProperties DEF Range
  <2> QED BY <2>1 DEF Places
<1>4. /\ Q \subseteq P /\ \A i \in P : s[i] = d => Q \subseteq P \ {i}
  BY DEF Places
<1>5. Cardinality(P) + Cardinality(J) <= Cardinality(X) + n /\ Cardinality(K) <= Cardinality(J) + m
  BY DEF FewRepeated
<1>6. SUFFICES Cardinality(Q) + Cardinality(K) <= Cardinality(Y) + (n + m)
  BY DEF FewRepeated
<1> HIDE DEF V, P, Q, X, Y, J, K
<1>7. CASE d \in X
  <2>1. Cardinality(Y) = Cardinality(X) - 1
    BY <1>1, <1>3, <1>7, FS_RemoveElement
  <2>2. PICK i \in P : s[i] = d
    BY <1>3, <1>7
  <2>3. IsFiniteSet(P \ {i}) /\ Cardinality(P \ {i}) = Cardinality(P) - 1
    BY <1>1, FS_RemoveElement
  <2>4. Cardinality(Q) <= Cardinality(P \ {i})
    BY <1>4, <2>2, <2>3, PartNoLarger
  <2> QED BY <1>1, <1>2, <1>5, <2>1, <2>3, <2>4, SMTT(90)
<1>8. CASE d \notin X
  <2>1. Cardinality(Y) = Cardinality(X)
    BY <1>1, <1>3, <1>8, FS_RemoveElement
  <2>2. Cardinality(Q) <= Cardinality(P)
    BY <1>1, <1>4, PartNoLarger
  <2> QED BY <1>1, <1>2, <1>5, <2>1, <2>2
<1> QED BY <1>7, <1>8

\* A list that moves towards its tail brings one item back, at most.
LEMMA RepeatedOneMore ==
  ASSUME NEW S, NEW s \in Seq(S), NEW U, IsFiniteSet(U), NEW d, NEW A, NEW B, NEW x, NEW n \in Nat,
         FewRepeated(U, A, s, n), B \cap (U \ {d}) \subseteq A \cup {x}
  PROVE  FewRepeated(U \ {d}, B, s, n + 1)
<1>1. IsFiniteSet(A \cap U \cap Range(s))
  BY PartNoLarger
<1>2. B \cap (U \ {d}) \cap Range(s) \subseteq (A \cap U \cap Range(s)) \cup {x}
  OBVIOUS
<1>3. Cardinality(B \cap (U \ {d}) \cap Range(s)) <= Cardinality(A \cap U \cap Range(s)) + 1
  BY <1>1, <1>2, OneMore
<1> QED BY <1>3, FewRepeatedOf

\* A list that does not brings none back.
LEMMA RepeatedNoMore ==
  ASSUME NEW S, NEW s \in Seq(S), NEW U, IsFiniteSet(U), NEW d, NEW A, NEW B, NEW n \in Nat,
         FewRepeated(U, A, s, n), B \cap (U \ {d}) \subseteq A
  PROVE  FewRepeated(U \ {d}, B, s, n)
<1>1. IsFiniteSet(A \cap U \cap Range(s))
  BY PartNoLarger
<1>2. B \cap (U \ {d}) \cap Range(s) \subseteq A \cap U \cap Range(s)
  OBVIOUS
<1>3. /\ Cardinality(B \cap (U \ {d}) \cap Range(s)) \in Nat /\ Cardinality(A \cap U \cap Range(s)) \in Nat
      /\ Cardinality(B \cap (U \ {d}) \cap Range(s)) <= Cardinality(A \cap U \cap Range(s))
  BY <1>1, <1>2, PartNoLarger
<1>4. /\ Cardinality(B \cap (U \ {d}) \cap Range(s)) <= Cardinality(A \cap U \cap Range(s)) + 0
      /\ n + 0 = n
  BY <1>3
<1>5. FewRepeated(U \ {d}, B, s, n + 0)
  BY <1>4, FewRepeatedOf
<1> QED BY <1>4, <1>5

-----------------------------------------------------------------------------
\* Sequences that lose an item, or gain one.

\* The range of a list is what it holds, the past of none.
LEMMA PastOfNone ==
  ASSUME NEW S, NEW s \in Seq(S)
  PROVE  /\ Past(s, 0) = Range(s) /\ Len(s) \in Nat /\ DOMAIN s = 1..Len(s)
         /\ \A t \in Range(s) : \E i \in 1..Len(s) : s[i] = t
         /\ \A i \in 1..Len(s) : s[i] \in Range(s) /\ s[i] \in S
         /\ IsFiniteSet(Range(s))
<1>1. Len(s) \in Nat /\ DOMAIN s = 1..Len(s) /\ \A i \in 1..Len(s) : s[i] \in S
  BY LenProperties, ElementOfSeq
<1>2. Range(s) = {s[i] : i \in 1..Len(s)}
  BY <1>1 DEF Range
<1>3. Past(s, 0) = Range(s)
  BY <1>1, <1>2 DEF Past
<1>4. IsFiniteSet(Range(s))
  <2>1. IsFiniteSet(1..Len(s))
    BY <1>1, FS_Interval
  <2>2. [i \in 1..Len(s) |-> s[i]] \in Surjection(1..Len(s), Range(s))
    BY <1>2 DEF Surjection
  <2> QED BY <2>1, <2>2, FS_Surjection
<1> QED BY <1>1, <1>2, <1>3, <1>4

IsInserted(S, s, p, e, r) ==
  /\ r \in Seq(S) /\ Len(r) = Len(s) + 1
  /\ \A i \in 1..Len(s) + 1 : r[i] = IF i < p THEN s[i] ELSE IF i = p THEN e ELSE s[i - 1]

\* What InsertAt makes of a list.
LEMMA Inserted ==
  ASSUME NEW S, NEW s \in Seq(S), NEW p \in 1..Len(s) + 1, NEW e \in S
  PROVE  IsInserted(S, s, p, e, InsertAt(s, p, e))
<1>1. PICK n \in Nat : n = Len(s) /\ \A i \in 1..n : s[i] \in S
  BY PastOfNone
<1> DEFINE a == SubSeq(s, 1, p - 1)  b == SubSeq(s, p, n)  c == <<e>>
<1>2. a \in Seq(S) /\ Len(a) = p - 1 /\ \A i \in 1..p - 1 : a[i] = s[i]
  <2>1. 1 \in Int /\ p - 1 \in Int /\ \A i \in 1..p - 1 : s[i] \in S
    BY <1>1
  <2>2. /\ a \in Seq(S) /\ Len(a) = IF 1 <= p - 1 THEN p - 1 - 1 + 1 ELSE 0
        /\ \A i \in 1..p - 1 - 1 + 1 : a[i] = s[1 + i - 1]
    BY <2>1, SubSeqProperties
  <2> HIDE DEF a
  <2> QED BY <1>1, <2>2
<1>3. b \in Seq(S) /\ Len(b) = n - p + 1 /\ \A i \in 1..n - p + 1 : b[i] = s[p + i - 1]
  <2>1. p \in Int /\ n \in Int /\ \A i \in p..n : s[i] \in S
    BY <1>1
  <2>2. /\ b \in Seq(S) /\ Len(b) = IF p <= n THEN n - p + 1 ELSE 0
        /\ \A i \in 1..n - p + 1 : b[i] = s[p + i - 1]
    BY <2>1, SubSeqProperties
  <2> HIDE DEF b
  <2>3. p <= n + 1 /\ p \in Nat /\ n \in Nat
    BY <1>1
  <2> QED BY ONLY <2>2, <2>3, SMTT(30)
<1>4. c \in Seq(S) /\ Len(c) = 1 /\ c[1] = e
  OBVIOUS
<1>5. InsertAt(s, p, e) = (a \o c) \o b
  BY <1>1 DEF InsertAt
<1> HIDE DEF a, b, c
<1>6. /\ a \o c \in Seq(S) /\ Len(a \o c) = Len(a) + Len(c)
      /\ \A i \in 1..Len(a) + Len(c) : (a \o c)[i] = IF i <= Len(a) THEN a[i] ELSE c[i - Len(a)]
  BY <1>2, <1>4, ConcatProperties, Zenon
<1>7. PICK d : d = a \o c
  OBVIOUS
<1>8. d \in Seq(S) /\ Len(d) = p /\ \A i \in 1..p : d[i] = IF i < p THEN s[i] ELSE e
  <2>1. d \in Seq(S) /\ Len(d) = p
    BY <1>1, <1>2, <1>4, <1>6, <1>7
  <2>2. ASSUME NEW i \in 1..p PROVE d[i] = IF i < p THEN s[i] ELSE e
    <3>1. d[i] = IF i <= p - 1 THEN a[i] ELSE c[i - (p - 1)]
      BY <1>1, <1>2, <1>4, <1>6, <1>7
    <3>2. CASE i < p
      BY <1>1, <1>2, <3>1, <3>2
    <3>3. CASE i = p
      <4>1. i - (p - 1) = 1 /\ ~(i <= p - 1)
        BY <3>3
      <4> QED BY <1>4, <3>1, <3>3, <4>1
    <3> QED BY <3>2, <3>3
  <2> QED BY <2>1, <2>2
<1>9. /\ d \o b \in Seq(S) /\ Len(d \o b) = Len(d) + Len(b)
      /\ \A i \in 1..Len(d) + Len(b) : (d \o b)[i] = IF i <= Len(d) THEN d[i] ELSE b[i - Len(d)]
  BY <1>3, <1>8, ConcatProperties, Zenon
<1>10. PICK r : r = d \o b
  OBVIOUS
<1>11. ASSUME NEW i \in 1..n + 1
       PROVE  r[i] = IF i < p THEN s[i] ELSE IF i = p THEN e ELSE s[i - 1]
  <2>1. r[i] = IF i <= p THEN d[i] ELSE b[i - p]
    BY <1>1, <1>3, <1>8, <1>9, <1>10
  <2>2. CASE i <= p
    BY <1>8, <2>1, <2>2
  <2>3. CASE i > p
    <3>1. i - p \in 1..n - p + 1 /\ p + (i - p) - 1 = i - 1
      BY <1>1, <2>3
    <3>2. b[i - p] = s[i - 1]
      BY <1>3, <3>1
    <3> QED BY <2>1, <2>3, <3>2
  <2> QED BY <2>2, <2>3
<1>12. r \in Seq(S) /\ Len(r) = n + 1
  BY <1>1, <1>3, <1>8, <1>9, <1>10
<1> QED BY <1>1, <1>5, <1>7, <1>10, <1>11, <1>12 DEF IsInserted

\* A list that loses an item moves one towards its head.
LEMMA DeletedPast ==
  ASSUME NEW S, NEW s \in Seq(S), Distinct(s), NEW p \in 1..Len(s), NEW k \in Nat
  PROVE  LET r == RemoveAt(s, p) IN
         /\ r \in Seq(S) /\ Distinct(r) /\ Range(r) = Range(s) \ {s[p]} /\ Past(r, k) \subseteq Past(s, k)
         /\ OneAhead(s, r, k, s[p])
<1>1. PICK n \in Nat : n = Len(s)
  BY PastOfNone
<1>2. PICK r : r = RemoveAt(s, p)
  OBVIOUS
<1>3. /\ r \in Seq(S) /\ Len(r) = n - 1
      /\ \A i \in 1..n - 1 : r[i] = IF i < p THEN s[i] ELSE s[i + 1]
  BY <1>1, <1>2, Taken
<1>4. Range(r) = {r[i] : i \in 1..n - 1} /\ Range(s) = {s[i] : i \in 1..n}
  BY <1>1, <1>3, PastOfNone DEF Range
<1>5. ASSUME NEW i \in 1..n - 1
      PROVE  \E j \in 1..n : j # p /\ j >= i /\ r[i] = s[j] /\ j = IF i < p THEN i ELSE i + 1
  BY <1>1, <1>3
<1>6. ASSUME NEW j \in 1..n, j # p
      PROVE  \E i \in 1..n - 1 : i <= j /\ j <= i + 1 /\ r[i] = s[j]
  <2>1. CASE j < p
    BY <1>1, <1>3, <2>1
  <2>2. CASE j > p
    <3>1. j - 1 \in 1..n - 1 /\ ~(j - 1 < p) /\ j - 1 + 1 = j
      BY <1>1, <2>2
    <3>2. r[j - 1] = s[j]
      BY <1>3, <3>1
    <3> QED BY <3>1, <3>2
  <2> QED BY <1>1, <1>6, <2>1, <2>2
<1>7. Distinct(r)
  <2> SUFFICES ASSUME NEW i \in 1..n - 1, NEW j \in 1..n - 1, r[i] = r[j] PROVE i = j
    BY <1>3 DEF Distinct
  <2>1. PICK a \in 1..n : r[i] = s[a] /\ a = IF i < p THEN i ELSE i + 1
    BY <1>5
  <2>2. PICK b \in 1..n : r[j] = s[b] /\ b = IF j < p THEN j ELSE j + 1
    BY <1>5
  <2>3. a = b
    BY <1>1, <2>1, <2>2 DEF Distinct
  <2> QED BY <2>1, <2>2, <2>3
<1>8. \A j \in 1..n : s[j] = s[p] => j = p
  BY <1>1 DEF Distinct
<1>9. Range(r) = Range(s) \ {s[p]}
  <2>1. Range(r) \subseteq Range(s) \ {s[p]}
    BY <1>4, <1>5, <1>8
  <2>2. Range(s) \ {s[p]} \subseteq Range(r)
    BY <1>4, <1>6
  <2> QED BY <2>1, <2>2
<1>10. Past(r, k) \subseteq Past(s, k)
  <2> SUFFICES ASSUME NEW i \in 1..n - 1, i > k PROVE r[i] \in Past(s, k)
    BY <1>3 DEF Past
  <2>1. PICK j \in 1..n : j >= i /\ r[i] = s[j]
    BY <1>5
  <2>2. j > k
    BY <2>1
  <2> QED BY <1>1, <2>1, <2>2 DEF Past
<1>11. Past(s, k) \subseteq Past(r, k) \cup {s[p], s[k + 1]}
  <2> SUFFICES ASSUME NEW j \in 1..n, j > k, j # p, j # k + 1 PROVE s[j] \in Past(r, k)
    BY <1>1 DEF Past
  <2>1. PICK i \in 1..n - 1 : j <= i + 1 /\ r[i] = s[j]
    BY <1>6
  <2>2. i > k
    BY <1>1, <2>1
  <2> QED BY <1>3, <2>1, <2>2 DEF Past
<1>12. OneAhead(s, r, k, s[p])
  BY <1>11 DEF OneAhead
<1> QED BY <1>2, <1>3, <1>7, <1>9, <1>10, <1>12

\* A list that gains an item moves one towards its tail.
LEMMA UploadedPast ==
  ASSUME NEW S, NEW s \in Seq(S), Distinct(s), NEW p \in 1..Len(s) + 1, NEW e \in S, e \notin Range(s),
         NEW k \in Nat
  PROVE  LET r == InsertAt(s, p, e) IN
         /\ r \in Seq(S) /\ Len(r) = Len(s) + 1 /\ Distinct(r) /\ Range(r) = Range(s) \cup {e}
         /\ Past(s, k) \subseteq Past(r, k) /\ OneAhead(r, s, k, e)
<1>1. PICK n \in Nat : n = Len(s)
  BY PastOfNone
<1>2. PICK r : r = InsertAt(s, p, e)
  OBVIOUS
<1>3. /\ r \in Seq(S) /\ Len(r) = n + 1
      /\ \A i \in 1..n + 1 : r[i] = IF i < p THEN s[i] ELSE IF i = p THEN e ELSE s[i - 1]
  BY <1>1, <1>2, Inserted, SMTT(30) DEF IsInserted
<1>4. Range(r) = {r[i] : i \in 1..n + 1} /\ Range(s) = {s[i] : i \in 1..n}
  BY <1>1, <1>3, PastOfNone DEF Range
<1>5. ASSUME NEW i \in 1..n + 1, i # p
      PROVE  \E j \in 1..n : i <= j + 1 /\ r[i] = s[j] /\ j = IF i < p THEN i ELSE i - 1
  <2>1. CASE i < p
    BY <1>1, <1>3, <2>1
  <2>2. CASE i > p
    <3>1. i - 1 \in 1..n /\ r[i] = s[i - 1]
      BY <1>1, <1>3, <2>2
    <3> QED BY <2>2, <3>1
  <2> QED BY <1>1, <1>5, <2>1, <2>2
<1>6. ASSUME NEW j \in 1..n
      PROVE  \E i \in 1..n + 1 : i # p /\ i >= j /\ r[i] = s[j]
  <2>1. CASE j < p
    BY <1>1, <1>3, <2>1
  <2>2. CASE j >= p
    <3>1. j + 1 \in 1..n + 1 /\ ~(j + 1 < p) /\ j + 1 # p /\ j + 1 - 1 = j
      BY <1>1, <2>2
    <3>2. r[j + 1] = s[j]
      BY <1>3, <3>1
    <3> QED BY <3>1, <3>2
  <2> QED BY <1>1, <2>1, <2>2
<1>7. r[p] = e /\ p \in 1..n + 1
  BY <1>1, <1>3
<1>8. \A i \in 1..n + 1 : r[i] = e => i = p
  BY <1>4, <1>5
<1>9. Distinct(r)
  <2> SUFFICES ASSUME NEW i \in 1..n + 1, NEW j \in 1..n + 1, r[i] = r[j] PROVE i = j
    BY <1>3 DEF Distinct
  <2>1. CASE i = p \/ j = p
    BY <1>7, <1>8, <2>1
  <2>2. CASE i # p /\ j # p
    <3>1. PICK a \in 1..n : r[i] = s[a] /\ a = IF i < p THEN i ELSE i - 1
      BY <1>5, <2>2
    <3>2. PICK b \in 1..n : r[j] = s[b] /\ b = IF j < p THEN j ELSE j - 1
      BY <1>5, <2>2
    <3>3. a = b
      BY <1>1, <3>1, <3>2 DEF Distinct
    <3> QED BY <1>1, <2>2, <3>1, <3>2, <3>3
  <2> QED BY <2>1, <2>2
<1>10. Range(r) = Range(s) \cup {e}
  BY <1>4, <1>5, <1>6, <1>7
<1>11. Past(s, k) \subseteq Past(r, k)
  <2> SUFFICES ASSUME NEW j \in 1..n, j > k PROVE s[j] \in Past(r, k)
    BY <1>1 DEF Past
  <2>1. PICK i \in 1..n + 1 : i >= j /\ r[i] = s[j]
    BY <1>6
  <2>2. i > k
    BY <2>1
  <2> QED BY <1>3, <2>1, <2>2 DEF Past
<1>12. Past(r, k) \subseteq Past(s, k) \cup {s[k], e}
  <2> SUFFICES ASSUME NEW i \in 1..n + 1, i > k, i # p PROVE r[i] \in Past(s, k) \cup {s[k]}
    BY <1>3, <1>7 DEF Past
  <2>1. PICK j \in 1..n : i <= j + 1 /\ r[i] = s[j]
    BY <1>5
  <2>2. j = k \/ j > k
    BY <2>1
  <2> QED BY <1>1, <2>1, <2>2 DEF Past
<1>13. OneAhead(r, s, k, e)
  BY <1>12 DEF OneAhead
<1> QED BY <1>1, <1>2, <1>3, <1>9, <1>10, <1>11, <1>13

\* An item that moves to another place moves others the other way.
LEMMA EditedPast ==
  ASSUME NEW S, NEW s \in Seq(S), Distinct(s), NEW p \in 1..Len(s), NEW q \in 1..Len(s), p # q, NEW k \in Nat
  PROVE  LET r == InsertAt(RemoveAt(s, p), q, s[p])  m == s[p] IN
         /\ r \in Seq(S) /\ Len(r) = Len(s) /\ Distinct(r) /\ Range(r) = Range(s)
         /\ p < q => Past(r, k) \subseteq Past(s, k) \cup {m} /\ OneAhead(s, r, k, m)
         /\ q < p => Past(s, k) \subseteq Past(r, k) \cup {m} /\ OneAhead(r, s, k, m)
<1>1. PICK n \in Nat : n = Len(s)
  BY PastOfNone
<1>2. PICK w : w = RemoveAt(s, p)
  OBVIOUS
<1>3. /\ w \in Seq(S) /\ Len(w) = n - 1 /\ Distinct(w) /\ Range(w) = Range(s) \ {s[p]}
      /\ \A i \in 1..n - 1 : w[i] = IF i < p THEN s[i] ELSE s[i + 1]
  BY <1>1, <1>2, Taken, DeletedPast
<1>4. PICK r : r = InsertAt(w, q, s[p])
  OBVIOUS
<1>5. q \in 1..(n - 1) + 1 /\ (n - 1) + 1 = n /\ s[p] \in S /\ s[p] \in Range(s)
  BY <1>1, PastOfNone
<1>6. /\ r \in Seq(S) /\ Len(r) = n
      /\ \A i \in 1..n : r[i] = IF i < q THEN w[i] ELSE IF i = q THEN s[p] ELSE w[i - 1]
  <2>1. q \in 1..Len(w) + 1
    BY <1>3, <1>5
  <2>2. /\ r \in Seq(S) /\ Len(r) = Len(w) + 1
        /\ \A i \in 1..Len(w) + 1 : r[i] = IF i < q THEN w[i] ELSE IF i = q THEN s[p] ELSE w[i - 1]
    <3>1. PICK m \in S : m = s[p]
      BY <1>5
    <3>2. IsInserted(S, w, q, m, InsertAt(w, q, m))
      <4>1. w \in Seq(S)
        BY <1>3
      <4>2. m \in S
        OBVIOUS
      <4> QED BY ONLY <4>1, <4>2, <2>1, Inserted, Zenon
    <3> QED BY <1>4, <3>1, <3>2 DEF IsInserted
  <2> QED BY <1>3, <1>5, <2>2
<1>7. Distinct(r) /\ Range(r) = Range(s)
  <2>1. Distinct(r) /\ Range(r) = Range(w) \cup {s[p]}
    BY <1>3, <1>4, <1>5, UploadedPast
  <2> QED BY <1>3, <1>5, <2>1
<1>8. ASSUME p < q
      PROVE  Past(r, k) \subseteq Past(s, k) \cup {s[p]} /\ Past(s, k) \subseteq Past(r, k) \cup {s[p], s[k + 1]}
  <2>1. ASSUME NEW i \in 1..n PROVE r[i] = IF i < p \/ i > q THEN s[i] ELSE IF i = q THEN s[p] ELSE s[i + 1]
    <3>1. CASE i < q
      <4>1. i \in 1..n - 1
        BY <1>1, <3>1
      <4> QED BY <1>1, <1>3, <1>6, <1>8, <3>1, <4>1
    <3>2. CASE i = q
      BY <1>6, <1>8, <3>2
    <3>3. CASE i > q
      <4>1. i - 1 \in 1..n - 1 /\ ~(i - 1 < p) /\ i - 1 + 1 = i
        BY <1>1, <1>8, <3>3
      <4>2. w[i - 1] = s[i]
        BY <1>3, <4>1
      <4> QED BY <1>6, <3>3, <4>2
    <3> QED BY <1>1, <3>1, <3>2, <3>3
  <2>2. Past(r, k) \subseteq Past(s, k) \cup {s[p]}
    <3> SUFFICES ASSUME NEW i \in 1..n, i > k, i # q PROVE r[i] \in Past(s, k)
      <4>1. r[q] = s[p]
        BY <1>1, <1>6
      <4> QED BY <1>6, <4>1 DEF Past
    <3>1. PICK j \in 1..n : j > k /\ r[i] = s[j]
      <4>1. CASE i < p \/ i > q
        BY <2>1, <4>1
      <4>2. CASE ~(i < p \/ i > q)
        <5>1. i + 1 \in 1..n /\ i + 1 > k /\ r[i] = s[i + 1]
          BY <1>1, <2>1, <4>2
        <5> QED BY <5>1
      <4> QED BY <4>1, <4>2
    <3> QED BY <1>1, <3>1 DEF Past
  <2>3. Past(s, k) \subseteq Past(r, k) \cup {s[p], s[k + 1]}
    <3> SUFFICES ASSUME NEW j \in 1..n, j > k, j # p, j # k + 1 PROVE s[j] \in Past(r, k)
      BY <1>1 DEF Past
    <3>1. PICK i \in 1..n : i > k /\ r[i] = s[j]
      <4>1. CASE j < p \/ j > q
        BY <2>1, <4>1
      <4>2. CASE ~(j < p \/ j > q)
        <5>1. j - 1 \in 1..n /\ j - 1 > k /\ ~(j - 1 < p \/ j - 1 > q) /\ j - 1 # q /\ j - 1 + 1 = j
          BY <1>1, <4>2
        <5>2. r[j - 1] = s[j]
          BY <2>1, <5>1
        <5> QED BY <5>1, <5>2
      <4> QED BY <4>1, <4>2
    <3> QED BY <1>6, <3>1 DEF Past
  <2> QED BY <2>2, <2>3
<1>9. ASSUME q < p
      PROVE  Past(s, k) \subseteq Past(r, k) \cup {s[p]} /\ Past(r, k) \subseteq Past(s, k) \cup {s[p], s[k]}
  <2>1. ASSUME NEW i \in 1..n PROVE r[i] = IF i < q \/ i > p THEN s[i] ELSE IF i = q THEN s[p] ELSE s[i - 1]
    <3>1. CASE i < q
      <4>1. i \in 1..n - 1
        BY <1>1, <3>1
      <4> QED BY <1>1, <1>3, <1>6, <1>9, <3>1, <4>1
    <3>2. CASE i = q
      BY <1>6, <1>9, <3>2
    <3>3. CASE i > q
      <4>1. i - 1 \in 1..n - 1 /\ i - 1 + 1 = i
        BY <1>1, <1>9, <3>3
      <4>2. w[i - 1] = IF i - 1 < p THEN s[i - 1] ELSE s[i]
        BY <1>3, <4>1
      <4>3. i - 1 < p <=> ~(i > p)
        BY <1>1
      <4> QED BY <1>6, <3>3, <4>2, <4>3
    <3> QED BY <1>1, <3>1, <3>2, <3>3
  <2>2. Past(s, k) \subseteq Past(r, k) \cup {s[p]}
    <3> SUFFICES ASSUME NEW j \in 1..n, j > k, j # p PROVE s[j] \in Past(r, k)
      BY <1>1 DEF Past
    <3>1. PICK i \in 1..n : i > k /\ r[i] = s[j]
      <4>1. CASE j < q \/ j > p
        BY <2>1, <4>1
      <4>2. CASE ~(j < q \/ j > p)
        <5>1. j + 1 \in 1..n /\ j + 1 > k /\ ~(j + 1 < q \/ j + 1 > p) /\ j + 1 # q /\ j + 1 - 1 = j
          BY <1>1, <4>2
        <5>2. r[j + 1] = s[j]
          BY <2>1, <5>1
        <5> QED BY <5>1, <5>2
      <4> QED BY <4>1, <4>2
    <3> QED BY <1>6, <3>1 DEF Past
  <2>3. Past(r, k) \subseteq Past(s, k) \cup {s[p], s[k]}
    <3> SUFFICES ASSUME NEW i \in 1..n, i > k, i # q PROVE r[i] \in Past(s, k) \cup {s[k]}
      BY <1>6, <2>1, <1>9, SMTT(90) DEF Past
    <3>1. PICK j \in 1..n : (j > k \/ j = k) /\ r[i] = s[j]
      <4>1. CASE i < q \/ i > p
        BY <2>1, <4>1
      <4>2. CASE ~(i < q \/ i > p)
        <5>1. i - 1 \in 1..n /\ (i - 1 > k \/ i - 1 = k) /\ r[i] = s[i - 1]
          BY <1>1, <2>1, <4>2
        <5> QED BY <5>1
      <4> QED BY <4>1, <4>2
    <3> QED BY <1>1, <3>1 DEF Past
  <2> QED BY <2>2, <2>3
<1>10. p < q => Past(r, k) \subseteq Past(s, k) \cup {s[p]} /\ OneAhead(s, r, k, s[p])
  BY <1>8 DEF OneAhead
<1>11. q < p => Past(s, k) \subseteq Past(r, k) \cup {s[p]} /\ OneAhead(r, s, k, s[p])
  BY <1>9 DEF OneAhead
<1> QED BY <1>1, <1>2, <1>4, <1>6, <1>7, <1>10, <1>11

-----------------------------------------------------------------------------
\* Pages.

\* The least of two.
LEMMA LeastOfTwo == ASSUME NEW a \in Nat, NEW b \in Nat PROVE Min({a, b}) = IF a <= b THEN a ELSE b
<1>1. PICK m \in {a, b} : m = IF a <= b THEN a ELSE b
  OBVIOUS
<1>2. \A y \in {a, b} : m <= y
  BY <1>1
<1>3. \A m2 \in {a, b} : (\A y \in {a, b} : m2 <= y) => m2 = m
  BY <1>1
<1>4. Min({a, b}) = m
  BY <1>2, <1>3 DEF Min
<1> QED BY <1>1, <1>4

\* A page is the items from its offset on, as many as were asked for or there are.
LEMMA PageRead ==
  ASSUME PagesTyped, NEW o \in Nat, NEW l \in Nat \ {0}
  PROVE  \E items \in Seq(TourIds), more \in BOOLEAN :
           /\ queryUserPage(o, l) = [items |-> items, more |-> more]
           /\ Distinct(items) /\ Len(items) <= l /\ more = (Len(listing) > o + l)
           /\ o <= Len(listing) => Len(items) = IF more THEN l ELSE Len(listing) - o
           /\ \A i \in 1..Len(items) : o + i \in 1..Len(listing) /\ items[i] = listing[o + i]
           /\ Range(items) = Past(listing, o) \ Past(listing, o + l)
           /\ Past(listing, o + l) \subseteq Past(listing, o)
<1>1. PICK n \in Nat : n = Len(listing) /\ \A i \in 1..n : listing[i] \in TourIds
  BY PastOfNone DEF PagesTyped
<1>a. Min({o + l + 1, n}) = IF o + l + 1 <= n THEN o + l + 1 ELSE n
  BY LeastOfTwo
<1>b. PICK c \in Nat : c = Min({o + l + 1, n})
  BY <1>a
<1>2. c = IF o + l + 1 <= n THEN o + l + 1 ELSE n
  BY <1>a, <1>b
<1>3. PICK got : got = SubSeq(listing, o + 1, c)
  OBVIOUS
<1>4. /\ got \in Seq(TourIds) /\ Len(got) = IF o + 1 <= c THEN c - o ELSE 0
      /\ \A i \in 1..c - o : got[i] = listing[o + i]
  <2>1. o + 1 \in Int /\ c \in Int /\ \A i \in o + 1..c : listing[i] \in TourIds
    BY <1>1, <1>2
  <2>2. /\ got \in Seq(TourIds) /\ Len(got) = IF o + 1 <= c THEN c - (o + 1) + 1 ELSE 0
        /\ \A i \in 1..c - (o + 1) + 1 : got[i] = listing[o + 1 + i - 1]
    BY <1>3, <2>1, SubSeqProperties
  <2> QED BY <2>2
<1>5. PICK g \in Nat : g = Len(got) /\ g = IF o + 1 <= c THEN c - o ELSE 0
  BY <1>4, PastOfNone
<1>c. Min({l, g}) = IF l <= g THEN l ELSE g
  BY LeastOfTwo
<1>d. PICK k \in Nat : k = Min({l, g})
  BY <1>c
<1>6. k = IF l <= g THEN l ELSE g
  BY <1>c, <1>d
<1>7. PICK items : items = SubSeq(got, 1, k)
  OBVIOUS
<1>8. items \in Seq(TourIds) /\ Len(items) = k /\ \A i \in 1..k : items[i] = got[i]
  <2>1. 1 \in Int /\ k \in Int /\ \A i \in 1..k : got[i] \in TourIds
    BY <1>4, <1>5, <1>6, PastOfNone
  <2>2. /\ items \in Seq(TourIds) /\ Len(items) = IF 1 <= k THEN k - 1 + 1 ELSE 0
        /\ \A i \in 1..k - 1 + 1 : items[i] = got[1 + i - 1]
    BY <1>7, <2>1, SubSeqProperties
  <2> QED BY <2>2
<1>9. queryUserPage(o, l) = [items |-> items, more |-> g > l]
  BY <1>1, <1>b, <1>3, <1>5, <1>d, <1>7 DEF queryUserPage
<1>10. (g > l) = (n > o + l) /\ k <= l /\ (o <= n => k = IF n > o + l THEN l ELSE n - o)
  BY <1>2, <1>5, <1>6
<1>11. ASSUME NEW i \in 1..k PROVE o + i \in 1..n /\ o + i <= o + l /\ items[i] = listing[o + i]
  <2>1. i \in 1..c - o /\ o + i <= n
    BY <1>2, <1>5, <1>6
  <2> QED BY <1>4, <1>6, <1>8, <2>1
<1>12. \A i, j \in 1..n : listing[i] = listing[j] => i = j
  BY <1>1 DEF PagesTyped, Distinct
<1>13. Distinct(items)
  <2> SUFFICES ASSUME NEW i \in 1..k, NEW j \in 1..k, items[i] = items[j] PROVE i = j
    BY <1>8 DEF Distinct
  <2>1. o + i = o + j
    BY <1>11, <1>12
  <2> QED BY <2>1
<1>14. Past(listing, o + l) \subseteq Past(listing, o)
  BY <1>1 DEF Past
<1>15. Range(items) = {items[i] : i \in 1..k}
  BY <1>8, PastOfNone DEF Range
<1>16. Range(items) \subseteq Past(listing, o) \ Past(listing, o + l)
  <2> SUFFICES ASSUME NEW i \in 1..k PROVE items[i] \in Past(listing, o) /\ items[i] \notin Past(listing, o + l)
    BY <1>15
  <2>1. o + i \in 1..n /\ o + i > o /\ ~(o + i > o + l) /\ items[i] = listing[o + i]
    BY <1>11
  <2> QED BY <1>1, <1>12, <2>1 DEF Past
<1>17. Past(listing, o) \ Past(listing, o + l) \subseteq Range(items)
  <2> SUFFICES ASSUME NEW j \in 1..n, j > o, ~(j > o + l) PROVE listing[j] \in Range(items)
    BY <1>1 DEF Past
  <2>1. j - o \in 1..k /\ o + (j - o) = j
    BY <1>2, <1>5, <1>6
  <2>2. items[j - o] = listing[j]
    BY <1>11, <2>1
  <2> QED BY <1>15, <2>1, <2>2
<1>18. \E more \in BOOLEAN : more = (n > o + l)
  <2>1. (n > o + l) \in BOOLEAN
    OBVIOUS
  <2> QED BY <2>1, Zenon
<1>e. PICK more \in BOOLEAN : more = (n > o + l)
  BY <1>18
<1>19. queryUserPage(o, l) = [items |-> items, more |-> more]
  BY <1>9, <1>10, <1>e
<1>20. Len(items) <= l /\ (o <= n => Len(items) = IF more THEN l ELSE n - o)
  BY <1>8, <1>10, <1>e
<1>21. \A i \in 1..Len(items) : o + i \in 1..n /\ items[i] = listing[o + i]
  BY <1>8, <1>11
<1>22. Range(items) = Past(listing, o) \ Past(listing, o + l)
  BY <1>16, <1>17
<1>23. items \in Seq(TourIds)
  BY <1>8
<1> WITNESS items \in Seq(TourIds), more \in BOOLEAN
<1> QED BY ONLY <1>1, <1>13, <1>14, <1>e, <1>19, <1>20, <1>21, <1>22, SMTT(30)

\* The places of a set's items, in what was read and in a page after it.
LEMMA PlacesOfPage ==
  ASSUME NEW S, NEW s \in Seq(S), NEW t \in Seq(S), Distinct(t), NEW U, IsFiniteSet(U)
  PROVE  Cardinality(Places(s \o t, U)) = Cardinality(Places(s, U)) + Cardinality(U \cap Range(t))
<1>1. PICK m \in Nat, n \in Nat : m = Len(s) /\ n = Len(t)
  BY PastOfNone
<1>2. PICK st : st = s \o t
  OBVIOUS
<1>3. st \in Seq(S) /\ Len(st) = m + n /\ \A i \in 1..m + n : st[i] = IF i <= m THEN s[i] ELSE t[i - m]
  <2>1. /\ s \o t \in Seq(S) /\ Len(s \o t) = Len(s) + Len(t)
        /\ \A i \in 1..Len(s) + Len(t) : (s \o t)[i] = IF i <= Len(s) THEN s[i] ELSE t[i - Len(s)]
    BY ConcatProperties, Zenon
  <2> QED BY <1>1, <1>2, <2>1
<1>4. PICK P : P = Places(s, U)
  OBVIOUS
<1>5. PICK Q : Q = {i \in m + 1..m + n : st[i] \in U}
  OBVIOUS
<1>6. Places(st, U) = P \cup Q /\ P \cap Q = {}
  <2>1. \A i : i \in 1..m + n <=> i \in 1..m \/ i \in m + 1..m + n
    BY <1>1
  <2>2. \A i \in 1..m : st[i] = s[i] /\ i \notin m + 1..m + n
    BY <1>1, <1>3
  <2> QED BY <1>1, <1>3, <1>4, <1>5, <2>1, <2>2 DEF Places
<1>7. IsFiniteSet(P) /\ Cardinality(P) \in Nat
  BY <1>4, PlacesFinite
<1>8. IsFiniteSet(Q)
  <2>1. IsFiniteSet(m + 1..m + n)
    BY <1>1, FS_Interval
  <2> QED BY <1>5, <2>1, PartNoLarger
<1>9. Cardinality(Q) = Cardinality(U \cap Range(t))
  <2> DEFINE f == [i \in Q |-> t[i - m]]
  <2>1. ASSUME NEW i \in Q PROVE i - m \in 1..n /\ st[i] = t[i - m] /\ t[i - m] \in U
    <3>1. i \in m + 1..m + n /\ st[i] \in U
      BY <1>5
    <3>2. i - m \in 1..n /\ ~(i <= m) /\ i \in 1..m + n
      BY <1>1, <3>1
    <3> QED BY <1>3, <3>1, <3>2
  <2>2. f \in [Q -> U \cap Range(t)]
    BY <1>1, <2>1, PastOfNone
  <2>3. \A i, j \in Q : f[i] = f[j] => i = j
    <3> SUFFICES ASSUME NEW i \in Q, NEW j \in Q, t[i - m] = t[j - m] PROVE i = j
      OBVIOUS
    <3>1. i - m = j - m
      BY <1>1, <2>1 DEF Distinct
    <3>2. i \in Int /\ j \in Int
      BY <1>1, <1>5
    <3> QED BY <1>1, <3>1, <3>2
  <2>4. \A u \in U \cap Range(t) : \E i \in Q : f[i] = u
    <3> SUFFICES ASSUME NEW u \in U \cap Range(t) PROVE \E i \in Q : t[i - m] = u
      OBVIOUS
    <3>1. PICK j \in 1..n : t[j] = u
      BY <1>1, PastOfNone
    <3>2. m + j \in m + 1..m + n /\ m + j - m = j /\ ~(m + j <= m) /\ m + j \in 1..m + n
      BY <1>1
    <3>3. st[m + j] = u
      BY <1>3, <3>1, <3>2
    <3> QED BY <1>5, <3>1, <3>2, <3>3
  <2> HIDE DEF f
  <2>5. f \in Bijection(Q, U \cap Range(t))
    BY <2>2, <2>3, <2>4 DEF Bijection, Injection, Surjection, IsInjective
  <2>6. ExistsBijection(Q, U \cap Range(t))
    BY <2>5 DEF ExistsBijection
  <2> QED BY <1>8, <2>6, FS_Bijection
<1>10. Cardinality(P \cup Q) = Cardinality(P) + Cardinality(Q)
  <2>1. Cardinality(P \cup Q) = Cardinality(P) + Cardinality(Q) - Cardinality(P \cap Q)
    BY <1>7, <1>8, FS_Union
  <2>2. Cardinality(P \cap Q) = 0 /\ Cardinality(P) \in Nat /\ Cardinality(Q) \in Nat
    BY <1>6, <1>7, <1>8, FS_EmptySet, FS_CardinalityType
  <2> QED BY <2>1, <2>2
<1> QED BY <1>2, <1>4, <1>6, <1>9, <1>10

\* Sets apart, counted together.
LEMMA Together ==
  ASSUME NEW S, NEW T, IsFiniteSet(S), IsFiniteSet(T), S \cap T = {}
  PROVE  Cardinality(S \cup T) = Cardinality(S) + Cardinality(T)
<1>1. Cardinality(S \cup T) = Cardinality(S) + Cardinality(T) - Cardinality(S \cap T)
  BY FS_Union
<1>2. Cardinality(S \cap T) = 0 /\ Cardinality(S) \in Nat /\ Cardinality(T) \in Nat
  BY FS_EmptySet, FS_CardinalityType
<1> QED BY <1>1, <1>2

\* What a list begins with.
LEMMA Prefix ==
  ASSUME NEW S, NEW s \in Seq(S), NEW k \in 0..Len(s)
  PROVE  /\ SubSeq(s, 1, k) \in Seq(S) /\ Len(SubSeq(s, 1, k)) = k
         /\ \A i \in 1..k : SubSeq(s, 1, k)[i] = s[i]
<1>1. PICK n \in Nat : n = Len(s) /\ \A i \in 1..n : s[i] \in S
  BY PastOfNone
<1>2. 1 \in Int /\ k \in Int /\ \A i \in 1..k : s[i] \in S
  BY <1>1
<1>3. PICK a : a = SubSeq(s, 1, k)
  OBVIOUS
<1>4. /\ a \in Seq(S) /\ Len(a) = IF 1 <= k THEN k - 1 + 1 ELSE 0
      /\ \A i \in 1..k - 1 + 1 : a[i] = s[1 + i - 1]
  BY <1>2, <1>3, SubSeqProperties
<1>5. k \in Nat
  BY <1>1
<1>6. Len(a) = k /\ \A i \in 1..k : a[i] = s[i]
  BY <1>4, <1>5
<1> QED BY <1>3, <1>4, <1>6

\* A page takes the reader on: it counts what it holds once more, and passes nothing by.
LEMMA PageKeeps ==
  ASSUME NEW S, NEW s \in Seq(S), NEW t \in Seq(S), Distinct(t), NEW U, IsFiniteSet(U), NEW A, NEW B,
         B \subseteq A, Range(t) = A \ B, NEW m, NEW n \in Nat,
         FewMissed(U, A, Range(s), m), FewRepeated(U, A, s, n)
  PROVE  FewMissed(U, B, Range(s \o t), m) /\ FewRepeated(U, B, s \o t, n)
<1>1. PICK R : R = Range(s)
  OBVIOUS
<1>2. PICK I : I = Range(t)
  OBVIOUS
<1>3. Range(s \o t) = R \cup I
  BY <1>1, <1>2, RangeConcatenation, ZenonT(90)
<1>4. (U \ B) \ (R \cup I) = (U \ A) \ R
  BY <1>2
<1>5. FewMissed(U, B, Range(s \o t), m)
  BY <1>1, <1>3, <1>4 DEF FewMissed
<1>6. PICK p : p = Cardinality(Places(s, U))
  OBVIOUS
<1>7. p \in Nat /\ Cardinality(Places(s \o t, U)) = p + Cardinality(U \cap I)
  BY <1>2, <1>6, PlacesOfPage, PlacesFinite
<1>8. PICK J : J = U \cap I \cap R
  OBVIOUS
<1>9. PICK K : K = (U \cap I) \ R
  OBVIOUS
<1>10. PICK L : L = B \cap U \cap R
  OBVIOUS
<1>11. IsFiniteSet(J) /\ IsFiniteSet(K) /\ IsFiniteSet(L) /\ IsFiniteSet(U \cap R)
  BY <1>8, <1>9, <1>10, PartNoLarger
<1>12. Cardinality(U \cap I) = Cardinality(J) + Cardinality(K)
  <2>1. U \cap I = J \cup K /\ J \cap K = {}
    BY <1>8, <1>9
  <2> QED BY <1>11, <2>1, Together
<1>13. Cardinality(A \cap U \cap R) = Cardinality(L) + Cardinality(J)
  <2>1. A \cap U \cap R = L \cup J /\ L \cap J = {}
    BY <1>2, <1>8, <1>10
  <2> QED BY <1>11, <2>1, Together
<1>14. Cardinality(U \cap (R \cup I)) = Cardinality(U \cap R) + Cardinality(K)
  <2>1. U \cap (R \cup I) = (U \cap R) \cup K /\ (U \cap R) \cap K = {}
    BY <1>9
  <2> QED BY <1>11, <2>1, Together
<1>15. B \cap U \cap (R \cup I) = L
  BY <1>2, <1>10
<1>16. p + Cardinality(A \cap U \cap R) <= Cardinality(U \cap R) + n
  BY <1>1, <1>6 DEF FewRepeated
<1>17. PICK j \in Nat, k \in Nat, l \in Nat, u \in Nat :
         j = Cardinality(J) /\ k = Cardinality(K) /\ l = Cardinality(L) /\ u = Cardinality(U \cap R)
  BY <1>11, FS_CardinalityType
<1>18. p + (l + j) <= u + n
  BY <1>13, <1>16, <1>17
<1>19. (p + (j + k)) + l <= (u + k) + n
  BY <1>7, <1>18
<1>20. Cardinality(Places(s \o t, U)) + Cardinality(B \cap U \cap Range(s \o t))
         <= Cardinality(U \cap Range(s \o t)) + n
  BY <1>3, <1>7, <1>12, <1>14, <1>15, <1>17, <1>19
<1> QED BY <1>5, <1>20 DEF FewRepeated

\* What was read of a list that did not change, with the next page, is what the list begins with.
LEMMA PrefixGrown ==
  ASSUME NEW S, NEW s \in Seq(S), NEW o \in Nat, NEW t \in Seq(S), o + Len(t) <= Len(s),
         \A i \in 1..Len(t) : t[i] = s[o + i]
  PROVE  SubSeq(s, 1, o) \o t = SubSeq(s, 1, o + Len(t))
<1>1. PICK m \in Nat, n \in Nat : m = Len(t) /\ n = Len(s)
  BY PastOfNone
<1>2. PICK a : a = SubSeq(s, 1, o)
  OBVIOUS
<1>3. PICK b : b = SubSeq(s, 1, o + m)
  OBVIOUS
<1>4. \A i \in 1..n : s[i] \in S
  BY <1>1, PastOfNone
<1>5. a \in Seq(S) /\ Len(a) = o /\ \A i \in 1..o : a[i] = s[i]
  BY <1>1, <1>2, <1>4, Prefix
<1>6. b \in Seq(S) /\ Len(b) = o + m /\ \A i \in 1..o + m : b[i] = s[i]
  BY <1>1, <1>3, <1>4, Prefix
<1>7. PICK c : c = a \o t
  OBVIOUS
<1>8. c \in Seq(S) /\ Len(c) = o + m /\ \A i \in 1..o + m : c[i] = IF i <= o THEN a[i] ELSE t[i - o]
  <2>1. /\ a \o t \in Seq(S) /\ Len(a \o t) = Len(a) + Len(t)
        /\ \A i \in 1..Len(a) + Len(t) : (a \o t)[i] = IF i <= Len(a) THEN a[i] ELSE t[i - Len(a)]
    BY <1>5, ConcatProperties, Zenon
  <2> QED BY <1>1, <1>5, <1>7, <2>1
<1>9. ASSUME NEW i \in 1..o + m PROVE c[i] = b[i]
  <2>1. CASE i <= o
    BY <1>1, <1>5, <1>6, <1>8, <2>1
  <2>2. CASE ~(i <= o)
    <3>1. i - o \in 1..m /\ o + (i - o) = i
      BY <1>1, <2>2
    <3>2. t[i - o] = s[i]
      BY <1>1, <3>1
    <3> QED BY <1>6, <1>8, <2>2, <3>2
  <2> QED BY <2>1, <2>2
<1>10. c = b
  BY <1>6, <1>8, <1>9, SeqEqual
<1> QED BY <1>1, <1>2, <1>3, <1>7, <1>10

-----------------------------------------------------------------------------
\* The steps of a reading.

\* An answer is compressed as its request allows.
LEMMA CodingChosen ==
  ASSUME ListApiAssumption, NEW accept, NEW size \in Nat,
         reply'.accept = accept, reply'.size = size, reply'.coding = chooseEncoding(accept, size)
  PROVE  CodingAccepted'
<1>1. CASE size < MinCompressed
  BY <1>1 DEF chooseEncoding, CodingAccepted
<1>2. CASE ~(size < MinCompressed)
  <2>1. size >= MinCompressed
    BY <1>2 DEF ListApiAssumption
  <2>2. reply'.coding # "none" => reply'.coding \in accepted(accept)
    BY <1>2 DEF chooseEncoding
  <2>3. \A c \in accepted(accept) : \E offer \in Range(accept) : offer[1] = c /\ offer[2] > 0
    BY DEF accepted
  <2> QED BY <2>1, <2>2, <2>3 DEF CodingAccepted
<1> QED BY <1>1, <1>2

\* A page, the first or one that follows, keeps the count and ends where the next begins.
LEMMA PageAnswered ==
  ASSUME ListApiAssumption, PagesTyped, NEW o \in Nat, NEW l \in 1..MaxPageSize, NEW s \in Seq(TourIds),
         s = IF o = 0 THEN <<>> ELSE read,
         NEW U, U \subseteq Range(listing), NEW m, NEW n \in Nat,
         FewMissed(U, Past(listing, o), Range(s), m), FewRepeated(U, Past(listing, o), s, n),
         NEW accept, listing' = listing,
         Answer([kind |-> "page", limit |-> l, offset |-> o], accept, queryUserPage(o, l))
  PROVE  /\ read' \in Seq(TourIds) /\ token' \in {NoToken} \cup (Nat \ {0})
         /\ FewMissed(U, Ahead', Range(read'), m) /\ FewRepeated(U, Ahead', read', n)
         /\ o <= Len(listing) /\ s = SubSeq(listing, 1, o) =>
              IF token' = NoToken THEN read' = listing
              ELSE token' <= Len(listing) /\ read' = SubSeq(listing, 1, token')
         /\ token' # NoToken => token' < Len(listing)
         /\ reply'.size <= l /\ CodingAccepted'
<1>1. PICK k \in Nat : k = Len(listing)
  BY PastOfNone DEF PagesTyped
<1>2. l \in Nat \ {0} /\ o + l \in Nat \ {0} /\ NoToken \notin Nat
  BY DEF ListApiAssumption, NoToken
<1>3. PICK items \in Seq(TourIds), more \in BOOLEAN :
         /\ queryUserPage(o, l) = [items |-> items, more |-> more]
         /\ Distinct(items) /\ Len(items) <= l /\ more = (Len(listing) > o + l)
         /\ o <= Len(listing) => Len(items) = IF more THEN l ELSE Len(listing) - o
         /\ \A i \in 1..Len(items) : o + i \in 1..Len(listing) /\ items[i] = listing[o + i]
         /\ Range(items) = Past(listing, o) \ Past(listing, o + l)
         /\ Past(listing, o + l) \subseteq Past(listing, o)
  BY <1>2, PageRead
<1>4. /\ read' = s \o items /\ token' = (IF more THEN o + l ELSE NoToken)
      /\ reply'.size = Len(items) /\ reply'.accept = accept
      /\ reply'.coding = chooseEncoding(accept, Len(items))
  BY <1>3 DEF Answer
<1>5. Len(items) \in Nat
  BY PastOfNone
<1>6. read' \in Seq(TourIds)
  <2>1. s \o items \in Seq(TourIds)
    BY ConcatProperties, Zenon
  <2> QED BY <1>4, <2>1
<1>7. token' \in {NoToken} \cup (Nat \ {0})
  BY <1>2, <1>4
<1>8. Ahead' = Past(listing, o + l)
  <2>1. CASE more
    <3>1. token' = o + l /\ token' # NoToken
      BY <1>2, <1>4, <2>1
    <3> QED BY <3>1 DEF Ahead
  <2>2. CASE ~more
    <3>1. token' = NoToken
      BY <1>4, <2>2
    <3>2. ~(k > o + l)
      BY <1>1, <1>3, <2>2
    <3>3. \A j \in 1..k : ~(j > o + l)
      BY <1>1, <1>2, <3>2
    <3>4. Past(listing, o + l) = {}
      BY <1>1, <3>3 DEF Past
    <3> QED BY <3>1, <3>4 DEF Ahead
  <2> QED BY <2>1, <2>2
<1>9. FewMissed(U, Ahead', Range(read'), m) /\ FewRepeated(U, Ahead', read', n)
  <2>1. IsFiniteSet(U)
    <3>1. IsFiniteSet(Range(listing))
      BY PastOfNone DEF PagesTyped
    <3> QED BY <3>1, FS_Subset
  <2>2. FewMissed(U, Past(listing, o + l), Range(s \o items), m) /\ FewRepeated(U, Past(listing, o + l), s \o items, n)
    BY ONLY <1>3, <2>1, PageKeeps, s \in Seq(TourIds), n \in Nat, SMTT(30),
       FewMissed(U, Past(listing, o), Range(s), m), FewRepeated(U, Past(listing, o), s, n)
  <2> QED BY <1>4, <1>8, <2>2
<1>10. ASSUME o <= Len(listing), s = SubSeq(listing, 1, o)
       PROVE  IF token' = NoToken THEN read' = listing
              ELSE token' <= Len(listing) /\ read' = SubSeq(listing, 1, token')
  <2>1. o + Len(items) <= k /\ (~more => o + Len(items) = k) /\ (more => Len(items) = l)
    BY <1>1, <1>2, <1>3, <1>5, <1>10
  <2>2. read' = SubSeq(listing, 1, o + Len(items))
    <3>1. SubSeq(listing, 1, o) \o items = SubSeq(listing, 1, o + Len(items))
      <4>1. listing \in Seq(TourIds) /\ o + Len(items) <= Len(listing)
        BY <1>1, <2>1 DEF PagesTyped
      <4>2. \A i \in 1..Len(items) : items[i] = listing[o + i]
        BY <1>3
      <4> QED BY ONLY <4>1, <4>2, items \in Seq(TourIds), o \in Nat, PrefixGrown, SMTT(90)
    <3> QED BY <1>4, <1>10, <3>1
  <2>3. CASE more
    BY <1>1, <1>2, <1>4, <2>1, <2>2, <2>3
  <2>4. CASE ~more
    <3>1. SubSeq(listing, 1, Len(listing)) = listing
      BY SubSeqFull DEF PagesTyped
    <3> QED BY <1>1, <1>4, <2>1, <2>2, <2>4, <3>1
  <2> QED BY <2>3, <2>4
<1>11. token' # NoToken => token' < Len(listing)
  BY <1>1, <1>2, <1>3, <1>4
<1>12. CodingAccepted'
  BY <1>4, <1>5, CodingChosen
<1> QED BY <1>3, <1>4, <1>6, <1>7, <1>9, <1>10, <1>11, <1>12

\* A first request begins anew.
LEMMA GetToursPages ==
  ASSUME ListApiAssumption, PagesInv, NEW l, NEW t \in {NoToken, 0}, NEW accept, GetTours(l, t, accept)
  PROVE  PagesInv'
<1>1. listing' = listing /\ untouched' = Range(listing) /\ ups' = 0 /\ downs' = 0
  BY DEF GetTours
<1>2. /\ listing \in Seq(TourIds) /\ Distinct(listing) /\ Past(listing, 0) = Range(listing)
      /\ IsFiniteSet(Range(listing)) /\ Len(listing) \in Nat
  BY PastOfNone DEF PagesInv, PagesTyped
<1>3. PICK U : U = Range(listing)
  OBVIOUS
<1>4. PICK s \in Seq(TourIds) : s = <<>>
  BY EmptySeq
<1>5. /\ FewMissed(U, Past(listing, 0), Range(s), 0) /\ FewRepeated(U, Past(listing, 0), s, 0)
      /\ Range(s) = {}
  <2>1. Range(s) = {} /\ Places(s, U) = {}
    BY <1>4 DEF Places, Range
  <2>2. (U \ Past(listing, 0)) \ Range(s) = {} /\ Past(listing, 0) \cap U \cap Range(s) = {} /\ U \cap Range(s) = {}
    BY <1>2, <1>3, <2>1
  <2>3. Cardinality({}) = 0 /\ 0 <= 0 /\ 0 + 0 = 0
    BY FS_EmptySet
  <2>4. FewMissed(U, Past(listing, 0), Range(s), 0)
    BY <2>2, <2>3 DEF FewMissed
  <2>5. /\ Cardinality(Places(s, U)) = 0 /\ Cardinality(Past(listing, 0) \cap U \cap Range(s)) = 0
        /\ Cardinality(U \cap Range(s)) = 0
    BY <2>1, <2>2, <2>3
  <2>6. FewRepeated(U, Past(listing, 0), s, 0)
    BY <2>3, <2>5 DEF FewRepeated
  <2> QED BY <2>1, <2>4, <2>6
<1>6. ~(t > 0)
  BY DEF NoToken
<1>7. 0 \notin 1..MaxPageSize /\ 0 # NoToken /\ 0 \in 0..MaxPageSize /\ 1..MaxPageSize \subseteq 0..MaxPageSize
  BY DEF NoToken, ListApiAssumption
<1>8. CASE l = 0 /\ t = NoToken
  <2>1. pageRequest(l, t) = [kind |-> "all", limit |-> 0, offset |-> 0]
    <3>1. l \notin 1..MaxPageSize
      BY <1>7, <1>8
    <3> QED BY <1>6, <1>8, <3>1 DEF pageRequest
  <2>2. limit' = 0 /\ Answer([kind |-> "all", limit |-> 0, offset |-> 0], accept, [items |-> listing, more |-> FALSE])
    BY <2>1 DEF GetTours
  <2>3. /\ read' = s \o listing /\ token' = NoToken /\ reply'.kind = "all"
        /\ reply'.accept = accept /\ reply'.size = Len(listing)
        /\ reply'.coding = chooseEncoding(accept, Len(listing))
    BY <1>4, <2>2 DEF Answer
  <2>4. read' = listing
    BY <1>2, <1>4, <2>3, ConcatEmptySeq
  <2>5. PagesTyped'
    BY <1>1, <1>2, <1>7, <2>2, <2>3, <2>4 DEF PagesTyped
  <2>6. Ahead' = {}
    BY <2>3 DEF Ahead
  <2>7. FewMissed(U, {}, Range(s \o listing), 0) /\ FewRepeated(U, {}, s \o listing, 0)
    <3>1. Range(listing) = Past(listing, 0) \ {}
      BY <1>2
    <3>2. 0 \in Nat /\ {} \subseteq Past(listing, 0) /\ IsFiniteSet(U)
      BY <1>2, <1>3
    <3>3. PICK A : A = Past(listing, 0)
      OBVIOUS
    <3>4. PICK B : B = {}
      OBVIOUS
    <3>5. /\ FewMissed(U, A, Range(s), 0) /\ FewRepeated(U, A, s, 0)
          /\ B \subseteq A /\ Range(listing) = A \ B
      BY <1>5, <3>1, <3>3, <3>4
    <3>6. FewMissed(U, B, Range(s \o listing), 0) /\ FewRepeated(U, B, s \o listing, 0)
      BY ONLY <1>2, <3>2, <3>5, s \in Seq(TourIds), PageKeeps, SMTT(30)
    <3> QED BY <3>4, <3>6
  <2>8. (FewMissed(untouched, Ahead, Range(read), ups) /\ FewRepeated(untouched, Ahead, read, downs))'
    BY <1>1, <1>3, <2>3, <2>6, <2>7
  <2>9. CodingAccepted'
    BY <1>2, <2>3, CodingChosen
  <2>10. PagesAsAsked'
    BY <2>3 DEF PagesAsAsked
  <2> QED BY <2>2, <2>5, <2>8, <2>9, <2>10 DEF PagesInv
<1>9. CASE l \in 1..MaxPageSize /\ t = NoToken
  <2>1. pageRequest(l, t) = [kind |-> "page", limit |-> l, offset |-> 0]
    <3>1. l # 0
      BY <1>7, <1>9
    <3> QED BY <1>6, <1>9, <3>1 DEF pageRequest
  <2>2. limit' = l /\ Answer([kind |-> "page", limit |-> l, offset |-> 0], accept, queryUserPage(0, l))
    BY <2>1 DEF GetTours
  <2>3. U \subseteq Range(listing) /\ s = (IF 0 = 0 THEN <<>> ELSE read) /\ 0 \in Nat
    BY <1>3, <1>4
  <2>4. /\ read' \in Seq(TourIds) /\ token' \in {NoToken} \cup (Nat \ {0})
        /\ FewMissed(U, Ahead', Range(read'), 0) /\ FewRepeated(U, Ahead', read', 0)
        /\ 0 <= Len(listing) /\ s = SubSeq(listing, 1, 0) =>
             IF token' = NoToken THEN read' = listing
             ELSE token' <= Len(listing) /\ read' = SubSeq(listing, 1, token')
        /\ token' # NoToken => token' < Len(listing)
        /\ reply'.size <= l /\ CodingAccepted'
    BY <1>1, <1>5, <1>9, <2>2, <2>3, PageAnswered DEF PagesInv
  <2>5. SubSeq(listing, 1, 0) = s
    BY <1>4, SubSeqEmpty
  <2>6. PagesTyped'
    BY <1>1, <1>2, <1>7, <1>9, <2>2, <2>4 DEF PagesTyped
  <2>7. (FewMissed(untouched, Ahead, Range(read), ups) /\ FewRepeated(untouched, Ahead, read, downs))'
    BY <1>1, <1>3, <2>4
  <2>8. PagesAsAsked'
    BY <1>1, <2>2, <2>4 DEF PagesAsAsked
  <2>9. IF token' = NoToken THEN read' = listing ELSE token' <= Len(listing) /\ read' = SubSeq(listing, 1, token')
    BY <1>2, <2>4, <2>5
  <2> QED BY <1>1, <2>4, <2>6, <2>7, <2>8, <2>9 DEF PagesInv
<1>10. CASE ~(l = 0 /\ t = NoToken) /\ ~(l \in 1..MaxPageSize /\ t = NoToken)
  <2>1. pageRequest(l, t).kind = "invalid"
    <3>1. ~(l \in 1..MaxPageSize /\ t > 0)
      BY <1>6, <1>10
    <3> QED BY <1>10, <3>1 DEF pageRequest
  <2>2. /\ limit' = 0 /\ read' = <<>> /\ token' = NoToken
        /\ reply' = [status |-> 400, kind |-> "invalid", accept |-> accept, coding |-> "none", size |-> 0]
    BY <2>1 DEF GetTours
  <2>3. reply'.kind = "invalid" /\ reply'.coding = "none"
    BY <2>2
  <2>4. PagesTyped'
    BY <1>1, <1>2, <1>4, <1>7, <2>2 DEF PagesTyped
  <2>5. FewRepeated(untouched, Ahead, read, downs)'
    <3>1. /\ Places(s, U) = {} /\ {} \cap U \cap Range(s) = {} /\ U \cap Range(s) = {}
      BY <1>4, <1>5 DEF Places
    <3>2. Cardinality({}) = 0 /\ 0 + 0 = 0 /\ 0 <= 0
      BY FS_EmptySet
    <3>3. /\ Cardinality(Places(s, U)) = 0 /\ Cardinality({} \cap U \cap Range(s)) = 0
          /\ Cardinality(U \cap Range(s)) = 0
      BY <3>1, <3>2
    <3>4. FewRepeated(U, {}, s, 0)
      BY <3>2, <3>3 DEF FewRepeated
    <3>5. Ahead' = {}
      BY <2>2 DEF Ahead
    <3> QED BY <1>1, <1>3, <1>4, <2>2, <3>4, <3>5
  <2>6. PagesAsAsked' /\ CodingAccepted'
    BY <2>3 DEF PagesAsAsked, CodingAccepted
  <2> QED BY <2>2, <2>4, <2>5, <2>6 DEF PagesInv
<1> QED BY <1>8, <1>9, <1>10

\* A page that follows.
LEMMA NextPagePages ==
  ASSUME ListApiAssumption, PagesInv, NEW accept, NextPage(accept)
  PROVE  PagesInv'
<1>1. /\ token \in Nat \ {0} /\ token # NoToken /\ limit \in 1..MaxPageSize /\ limit # 0
      /\ UNCHANGED <<listing, untouched, limit, ups, downs>>
  <2>1. limit \in 0..MaxPageSize /\ limit # 0 => limit \in 1..MaxPageSize
    BY DEF ListApiAssumption
  <2> QED BY <2>1 DEF NextPage, PagesInv, PagesTyped
<1>2. pageRequest(limit, token) = [kind |-> "page", limit |-> limit, offset |-> token]
  BY <1>1 DEF pageRequest
<1>3. Answer([kind |-> "page", limit |-> limit, offset |-> token], accept, queryUserPage(token, limit))
  BY <1>2 DEF NextPage
<1>4. /\ read \in Seq(TourIds) /\ read = (IF token = 0 THEN <<>> ELSE read) /\ untouched \subseteq Range(listing)
      /\ ups \in Nat /\ downs \in Nat /\ token \in Nat
      /\ FewMissed(untouched, Past(listing, token), Range(read), ups)
      /\ FewRepeated(untouched, Past(listing, token), read, downs)
  BY <1>1 DEF PagesInv, PagesTyped, Ahead
<1>5. /\ read' \in Seq(TourIds) /\ token' \in {NoToken} \cup (Nat \ {0})
      /\ FewMissed(untouched, Ahead', Range(read'), ups) /\ FewRepeated(untouched, Ahead', read', downs)
      /\ token <= Len(listing) /\ read = SubSeq(listing, 1, token) =>
           IF token' = NoToken THEN read' = listing
           ELSE token' <= Len(listing) /\ read' = SubSeq(listing, 1, token')
      /\ token' # NoToken => token' < Len(listing)
      /\ reply'.size <= limit /\ CodingAccepted'
  BY <1>1, <1>3, <1>4, PageAnswered DEF PagesInv
<1>6. PagesTyped'
  BY <1>1, <1>5 DEF PagesInv, PagesTyped
<1>7. (FewMissed(untouched, Ahead, Range(read), ups) /\ FewRepeated(untouched, Ahead, read, downs))'
  BY <1>1, <1>5
<1>8. PagesAsAsked'
  BY <1>1, <1>5 DEF PagesAsAsked
<1>9. ups + downs = 0 =>
        IF token' = NoToken THEN read' = listing ELSE token' <= Len(listing) /\ read' = SubSeq(listing, 1, token')
  BY <1>1, <1>5 DEF PagesInv
<1> QED BY <1>1, <1>5, <1>6, <1>7, <1>8, <1>9 DEF PagesInv

\* A change that moves what is ahead of the reader towards the head passes one tour by at most.
LEMMA MovedUp ==
  ASSUME PagesInv, Reading, NEW d, untouched' = untouched \ {d}, limit' = limit, token' = token,
         read' = read, reply' = reply, listing' \in Seq(TourIds), Distinct(listing'),
         untouched' \subseteq Range(listing'), NEW k \in Nat, k = (IF token = NoToken THEN 0 ELSE token),
         ups' = ups + 1, downs' = downs, Past(listing', k) \cap untouched' \subseteq Past(listing, k),
         OneMissed(listing, listing', k, untouched')
  PROVE  PagesInv'
<1>1. /\ limit # 0 /\ ups \in Nat /\ downs \in Nat /\ read \in Seq(TourIds) /\ IsFiniteSet(untouched)
      /\ token \in {NoToken} \cup (Nat \ {0}) /\ NoToken \notin Nat
  <2>1. IsFiniteSet(Range(listing))
    BY PastOfNone DEF PagesInv, PagesTyped
  <2>2. IsFiniteSet(untouched)
    BY <2>1, FS_Subset DEF PagesInv, PagesTyped
  <2> QED BY <2>2 DEF PagesInv, PagesTyped, Reading, NoToken
<1>2. PICK V : V = untouched'
  OBVIOUS
<1>3. PICK A : A = Ahead
  OBVIOUS
<1>4. PICK B : B = Ahead'
  OBVIOUS
<1>5. /\ V = untouched \ {d} /\ V \subseteq untouched
      /\ FewMissed(untouched, A, Range(read), ups) /\ FewRepeated(untouched, A, read, downs)
  BY <1>1, <1>2, <1>3 DEF PagesInv
<1>6. B \cap V \subseteq A /\ \E y : A \cap V \subseteq B \cup {y}
  BY <1>2, <1>3, <1>4 DEF Ahead, OneMissed
<1>7. PICK y : A \cap V \subseteq B \cup {y}
  BY <1>6
<1>8. FewMissed(V, B, Range(read), ups + 1)
  BY <1>1, <1>5, <1>7, MissedOneMore
<1>9. FewRepeated(V, B, read, downs)
  BY <1>1, <1>5, <1>6, RepeatedNoMore
<1>10. PagesTyped' /\ ~(ups' + downs' = 0) /\ ups' # 0
  BY <1>1 DEF PagesInv, PagesTyped
<1>11. (FewMissed(untouched, Ahead, Range(read), ups) /\ FewRepeated(untouched, Ahead, read, downs))'
  BY <1>2, <1>4, <1>8, <1>9
<1>12. PagesAsAsked' /\ CodingAccepted'
  BY <1>10 DEF PagesInv, PagesAsAsked, CodingAccepted
<1> QED BY <1>10, <1>11, <1>12 DEF PagesInv

\* One that moves it towards the tail brings one back at most.
LEMMA MovedDown ==
  ASSUME PagesInv, Reading, NEW d, untouched' = untouched \ {d}, limit' = limit, token' = token,
         read' = read, reply' = reply, listing' \in Seq(TourIds), Distinct(listing'),
         untouched' \subseteq Range(listing'), NEW k \in Nat, k = (IF token = NoToken THEN 0 ELSE token),
         ups' = ups, downs' = downs + 1, Len(listing) <= Len(listing'),
         Past(listing, k) \cap untouched' \subseteq Past(listing', k),
         OneMissed(listing', listing, k, untouched')
  PROVE  PagesInv'
<1>1. /\ limit # 0 /\ ups \in Nat /\ downs \in Nat /\ read \in Seq(TourIds) /\ IsFiniteSet(untouched)
      /\ token \in {NoToken} \cup (Nat \ {0}) /\ NoToken \notin Nat
  <2>1. IsFiniteSet(Range(listing))
    BY PastOfNone DEF PagesInv, PagesTyped
  <2>2. IsFiniteSet(untouched)
    BY <2>1, FS_Subset DEF PagesInv, PagesTyped
  <2> QED BY <2>2 DEF PagesInv, PagesTyped, Reading, NoToken
<1>2. PICK V : V = untouched'
  OBVIOUS
<1>3. PICK A : A = Ahead
  OBVIOUS
<1>4. PICK B : B = Ahead'
  OBVIOUS
<1>5. /\ V = untouched \ {d} /\ V \subseteq untouched
      /\ FewMissed(untouched, A, Range(read), ups) /\ FewRepeated(untouched, A, read, downs)
  BY <1>1, <1>2, <1>3 DEF PagesInv
<1>6. A \cap V \subseteq B /\ \E x : B \cap V \subseteq A \cup {x}
  BY <1>2, <1>3, <1>4 DEF Ahead, OneMissed
<1>7. PICK x : B \cap V \subseteq A \cup {x}
  BY <1>6
<1>8. FewMissed(V, B, Range(read), ups)
  BY <1>1, <1>5, <1>6, MissedNoMore
<1>9. FewRepeated(V, B, read, downs + 1)
  BY <1>1, <1>5, <1>7, RepeatedOneMore
<1>10. PagesTyped' /\ ~(ups' + downs' = 0)
  BY <1>1 DEF PagesInv, PagesTyped
<1>11. (FewMissed(untouched, Ahead, Range(read), ups) /\ FewRepeated(untouched, Ahead, read, downs))'
  BY <1>2, <1>4, <1>8, <1>9
<1>12. Len(listing) \in Nat /\ Len(listing') \in Nat
  BY PastOfNone DEF PagesInv, PagesTyped
<1>13. token < Len(listing) /\ token # NoToken => token < Len(listing')
  BY <1>1, <1>12
<1>14. PagesAsAsked' /\ CodingAccepted'
  BY <1>13 DEF PagesInv, PagesAsAsked, CodingAccepted
<1> QED BY <1>10, <1>11, <1>14 DEF PagesInv

\* Where a reader stands, and what it reads of.
LEMMA ReaderStands ==
  ASSUME PagesInv
  PROVE  /\ \E k \in Nat : k = (IF token = NoToken THEN 0 ELSE token)
         /\ listing \in Seq(TourIds) /\ Distinct(listing) /\ untouched \subseteq Range(listing)
         /\ ups \in Nat /\ downs \in Nat /\ Len(listing) \in Nat /\ DOMAIN listing = 1..Len(listing)
BY PastOfNone DEF PagesInv, PagesTyped, NoToken

\* An upload moves those below it towards the tail.
LEMMA UploadPages ==
  ASSUME PagesInv, NEW place \in 1..(Len(listing) + 1), NEW t \in TourIds, UploadAt(t, place)
  PROVE  PagesInv'
<1>1. PICK k \in Nat : k = (IF token = NoToken THEN 0 ELSE token)
  BY ReaderStands
<1>2. /\ t \notin Range(listing) /\ listing' = InsertAt(listing, place, t) /\ Reading
      /\ ups' = ups /\ downs' = downs + 1 /\ untouched' = untouched /\ UNCHANGED <<limit, token, read, reply>>
  BY DEF UploadAt
<1>3. /\ listing' \in Seq(TourIds) /\ Len(listing') = Len(listing) + 1 /\ Distinct(listing')
      /\ Range(listing') = Range(listing) \cup {t} /\ Past(listing, k) \subseteq Past(listing', k)
      /\ OneAhead(listing', listing, k, t)
  <2>1. PICK r : r = InsertAt(listing, place, t)
    OBVIOUS
  <2>2. /\ r \in Seq(TourIds) /\ Len(r) = Len(listing) + 1 /\ Distinct(r)
        /\ Range(r) = Range(listing) \cup {t} /\ Past(listing, k) \subseteq Past(r, k)
        /\ OneAhead(r, listing, k, t)
    <3>1. listing \in Seq(TourIds) /\ Distinct(listing)
      BY ReaderStands
    <3> QED BY ONLY <1>2, <2>1, <3>1, t \in TourIds, place \in 1..(Len(listing) + 1), k \in Nat, UploadedPast, SMTT(30)
  <2> QED BY <1>2, <2>1, <2>2
<1>4. untouched' = untouched \ {t} /\ untouched' \subseteq Range(listing') /\ Len(listing) <= Len(listing')
  BY <1>2, <1>3, ReaderStands
<1>5. OneMissed(listing', listing, k, untouched')
  BY <1>3, <1>4 DEF OneAhead, OneMissed
<1>6. Past(listing, k) \cap untouched' \subseteq Past(listing', k)
  BY <1>3
<1>7. limit' = limit /\ token' = token /\ read' = read /\ reply' = reply
  BY <1>2
<1> QED BY ONLY PagesInv, <1>1, <1>2, <1>3, <1>4, <1>5, <1>6, <1>7, MovedDown, Zenon

\* A deletion moves them towards the head.
LEMMA DeletePages ==
  ASSUME PagesInv, NEW place \in DOMAIN listing, DeleteAt(place)
  PROVE  PagesInv'
<1>1. PICK k \in Nat : k = (IF token = NoToken THEN 0 ELSE token)
  BY ReaderStands
<1>2. PICK d : d = listing[place]
  OBVIOUS
<1>3. /\ listing' = RemoveAt(listing, place) /\ Reading /\ untouched' = untouched \ {d}
      /\ ups' = ups + 1 /\ downs' = downs /\ UNCHANGED <<limit, token, read, reply>>
  BY <1>2 DEF DeleteAt
<1>4. /\ listing' \in Seq(TourIds) /\ Distinct(listing') /\ Range(listing') = Range(listing) \ {d}
      /\ Past(listing', k) \subseteq Past(listing, k)
      /\ OneAhead(listing, listing', k, d)
  <2>1. PICK r : r = RemoveAt(listing, place)
    OBVIOUS
  <2>2. /\ r \in Seq(TourIds) /\ Distinct(r) /\ Range(r) = Range(listing) \ {d}
        /\ Past(r, k) \subseteq Past(listing, k)
        /\ OneAhead(listing, r, k, d)
    BY <1>2, <2>1, ReaderStands, DeletedPast
  <2> QED BY <1>3, <2>1, <2>2
<1>5. untouched' \subseteq Range(listing')
  BY <1>3, <1>4, ReaderStands
<1>6. OneMissed(listing, listing', k, untouched')
  BY <1>3, <1>4 DEF OneAhead, OneMissed
<1>7. Past(listing', k) \cap untouched' \subseteq Past(listing, k)
  BY <1>4
<1>8. limit' = limit /\ token' = token /\ read' = read /\ reply' = reply
  BY <1>3
<1> QED BY ONLY PagesInv, <1>1, <1>3, <1>4, <1>5, <1>6, <1>7, <1>8, MovedUp, Zenon

\* An edit moves those between the old place and the new one.
LEMMA EditPages ==
  ASSUME PagesInv, NEW place \in DOMAIN listing, NEW to \in DOMAIN listing, EditAt(place, to)
  PROVE  PagesInv'
<1>1. PICK k \in Nat : k = (IF token = NoToken THEN 0 ELSE token)
  BY ReaderStands
<1>2. PICK d : d = listing[place]
  OBVIOUS
<1>3. /\ listing' = InsertAt(RemoveAt(listing, place), to, d) /\ Reading /\ untouched' = untouched \ {d}
      /\ place # to /\ ups' = (IF place < to THEN ups + 1 ELSE ups)
      /\ downs' = (IF to < place THEN downs + 1 ELSE downs) /\ UNCHANGED <<limit, token, read, reply>>
  BY <1>2 DEF EditAt
<1>4. /\ listing' \in Seq(TourIds) /\ Len(listing') = Len(listing) /\ Distinct(listing')
      /\ Range(listing') = Range(listing)
      /\ place < to => Past(listing', k) \subseteq Past(listing, k) \cup {d}
                       /\ OneAhead(listing, listing', k, d)
      /\ to < place => Past(listing, k) \subseteq Past(listing', k) \cup {d}
                       /\ OneAhead(listing', listing, k, d)
  <2>1. PICK r : r = InsertAt(RemoveAt(listing, place), to, d)
    OBVIOUS
  <2>2. /\ r \in Seq(TourIds) /\ Len(r) = Len(listing) /\ Distinct(r) /\ Range(r) = Range(listing)
        /\ place < to => Past(r, k) \subseteq Past(listing, k) \cup {d}
                         /\ OneAhead(listing, r, k, d)
        /\ to < place => Past(listing, k) \subseteq Past(r, k) \cup {d}
                         /\ OneAhead(r, listing, k, d)
    <3>1. listing \in Seq(TourIds) /\ Distinct(listing) /\ place \in 1..Len(listing) /\ to \in 1..Len(listing)
      BY ReaderStands
    <3> QED BY ONLY <1>2, <1>3, <2>1, <3>1, k \in Nat, EditedPast, SMTT(30)
  <2> QED BY <1>3, <2>1, <2>2
<1>5. untouched' \subseteq Range(listing') /\ d \notin untouched'
  BY <1>3, <1>4, ReaderStands
<1>6. limit' = limit /\ token' = token /\ read' = read /\ reply' = reply
  BY <1>3
<1>7. CASE place < to
  <2>1. ups' = ups + 1 /\ downs' = downs
    BY <1>3, <1>7, ReaderStands
  <2>2. /\ Past(listing', k) \cap untouched' \subseteq Past(listing, k)
        /\ OneMissed(listing, listing', k, untouched')
    BY <1>4, <1>5, <1>7 DEF OneAhead, OneMissed
  <2> QED BY ONLY PagesInv, <1>1, <1>3, <1>4, <1>5, <1>6, <2>1, <2>2, MovedUp, Zenon
<1>8. CASE to < place
  <2>1. ups' = ups /\ downs' = downs + 1 /\ Len(listing) <= Len(listing')
    BY <1>3, <1>4, <1>8, ReaderStands
  <2>2. /\ Past(listing, k) \cap untouched' \subseteq Past(listing', k)
        /\ OneMissed(listing', listing, k, untouched')
    BY <1>4, <1>5, <1>8 DEF OneAhead, OneMissed
  <2> QED BY ONLY PagesInv, <1>1, <1>3, <1>4, <1>5, <1>6, <2>1, <2>2, MovedDown, Zenon
<1>9. place < to \/ to < place
  BY <1>3, ReaderStands
<1> QED BY <1>7, <1>8, <1>9

-----------------------------------------------------------------------------

\* A finite set has a sequence of its elements.
LEMMA SequenceOf ==
  ASSUME NEW S, IsFiniteSet(S)
  PROVE  SetToSeq(S) \in Seq(S) /\ Distinct(SetToSeq(S))
<1>1. PICK n \in Nat : n = Cardinality(S) /\ ExistsBijection(1..n, S)
  BY FS_CardinalityType
<1>2. PICK f \in Bijection(1..n, S) : TRUE
  BY <1>1 DEF ExistsBijection
<1>3. f \in [1..n -> S] /\ IsInjective(f)
  BY <1>2 DEF Bijection, Injection, Surjection, IsInjective
<1>4. SetToSeq(S) \in [1..n -> S] /\ IsInjective(SetToSeq(S))
  BY <1>1, <1>3 DEF SetToSeq
<1> QED BY <1>4, IsASeq DEF IsInjective, Distinct

\* A reading begins with nothing read.
LEMMA InitPages == ASSUME ListApiAssumption, ListApiInit PROVE PagesInv
<1>1. PICK some \in SUBSET TourIds : listing = SetToSeq(some)
  BY DEF ListApiInit
<1>2. IsFiniteSet(some)
  BY FS_Subset DEF ListApiAssumption
<1>3. listing \in Seq(some) /\ Distinct(listing)
  BY <1>1, <1>2, SequenceOf
<1>4. listing \in Seq(TourIds)
  BY <1>3, SeqMonotonic
<1>5. read = <<>> /\ read \in Seq(TourIds) /\ 0 \in 0..MaxPageSize
  BY EmptySeq DEF ListApiInit, ListApiAssumption
<1>6. PagesTyped
  BY <1>3, <1>4, <1>5 DEF ListApiInit, PagesTyped
<1>7. Places(read, untouched) = {} /\ Ahead \cap untouched \cap Range(read) = {} /\ untouched \cap Range(read) = {}
  BY <1>5 DEF ListApiInit, Places
<1>8. Cardinality({}) = 0 /\ 0 + 0 = 0 /\ 0 <= 0
  BY FS_EmptySet
<1>9. /\ Cardinality(Places(read, untouched)) = 0 /\ Cardinality(Ahead \cap untouched \cap Range(read)) = 0
      /\ Cardinality(untouched \cap Range(read)) = 0 /\ downs = 0 /\ limit = 0
  BY <1>7, <1>8 DEF ListApiInit
<1>10. FewRepeated(untouched, Ahead, read, downs)
  BY <1>8, <1>9 DEF FewRepeated
<1>11. PagesAsAsked /\ CodingAccepted
  BY DEF ListApiInit, PagesAsAsked, CodingAccepted
<1> QED BY <1>6, <1>9, <1>10, <1>11 DEF PagesInv

\* Every step keeps it.
LEMMA StepPages == ASSUME ListApiAssumption, PagesInv, [ListApiNext]_listApiVars PROVE PagesInv'
<1>1. ASSUME NEW accept \in Codings, NextPage(accept) PROVE PagesInv'
  BY <1>1, NextPagePages
<1>2. ASSUME NEW accept \in Codings, NEW l \in Limits, NEW t \in {NoToken, 0}, GetTours(l, t, accept) PROVE PagesInv'
  BY <1>2, GetToursPages
<1>3. ASSUME NEW place \in 1..(Len(listing) + 1), NEW t \in TourIds, UploadAt(t, place) PROVE PagesInv'
  BY <1>3, UploadPages
<1>4. ASSUME NEW place \in DOMAIN listing, DeleteAt(place) PROVE PagesInv'
  BY <1>4, DeletePages
<1>5. ASSUME NEW place \in DOMAIN listing, NEW to \in DOMAIN listing, EditAt(place, to) PROVE PagesInv'
  BY <1>5, EditPages
<1>6. CASE UNCHANGED listApiVars
  <2>1. Ahead' = Ahead /\ PagesTyped' = PagesTyped /\ PagesAsAsked' = PagesAsAsked /\ CodingAccepted' = CodingAccepted
    BY <1>6 DEF listApiVars, Ahead, PagesTyped, PagesAsAsked, CodingAccepted
  <2> QED BY <1>6, <2>1 DEF listApiVars, PagesInv
<1> QED BY <1>1, <1>2, <1>3, <1>4, <1>5, <1>6 DEF ListApiNext

\* What was read is what the pages promise.
LEMMA InvPages == ASSUME PagesInv PROVE PagesSound
<1>1. /\ ups \in Nat /\ downs \in Nat /\ listing \in Seq(TourIds) /\ read \in Seq(TourIds)
      /\ IsFiniteSet(untouched) /\ DOMAIN read = 1..Len(read)
  <2>1. IsFiniteSet(Range(listing)) /\ DOMAIN read = 1..Len(read)
    BY PastOfNone DEF PagesInv, PagesTyped
  <2>2. IsFiniteSet(untouched)
    BY <2>1, FS_Subset DEF PagesInv, PagesTyped
  <2> QED BY <2>1, <2>2 DEF PagesInv, PagesTyped
<1>2. Done => Cardinality(untouched \ Range(read)) <= ups
  <2> SUFFICES ASSUME Done PROVE Cardinality(untouched \ Range(read)) <= ups
    OBVIOUS
  <2>1. (untouched \ Ahead) \ Range(read) = untouched \ Range(read) /\ limit # 0
    BY DEF Done, Ahead
  <2> QED BY <2>1 DEF PagesInv, FewMissed
<1>3. Cardinality({i \in DOMAIN read : read[i] \in untouched}) <= Cardinality(untouched \cap Range(read)) + downs
  <2>1. {i \in DOMAIN read : read[i] \in untouched} = Places(read, untouched)
    BY <1>1 DEF Places
  <2>2. Cardinality(Places(read, untouched)) \in Nat /\ Cardinality(untouched \cap Range(read)) \in Nat
        /\ Cardinality(Ahead \cap untouched \cap Range(read)) \in Nat
    BY <1>1, PlacesFinite, PartNoLarger
  <2>3. Cardinality(Places(read, untouched)) + Cardinality(Ahead \cap untouched \cap Range(read))
          <= Cardinality(untouched \cap Range(read)) + downs
    BY DEF PagesInv, FewRepeated
  <2>4. PICK a \in Nat, b \in Nat, c \in Nat :
          /\ a = Cardinality(Places(read, untouched)) /\ b = Cardinality(untouched \cap Range(read))
          /\ c = Cardinality(Ahead \cap untouched \cap Range(read))
    BY <2>2
  <2>5. a <= b + downs
    BY <1>1, <2>3, <2>4
  <2> QED BY <2>1, <2>4, <2>5
<1>4. Done /\ ups + downs = 0 => read = listing
  BY DEF PagesInv, Done
<1> QED BY <1>2, <1>3, <1>4 DEF PagesInv, PagesSound, PagesAddUp

\* A client that pages through its tours misses one that nobody touched only for a change that moved
\* another towards the head, and reads one twice only for one that moved another towards the tail; while
\* nothing changes it reads the list; no page is larger than was asked for, and none is offered that is
\* empty (paging.js, db.js); every answer is in a coding the client gives a weight (compression.js).
THEOREM PagesAlwaysSound == ListApiSpec => []PagesSound
<1>1. ListApiInit => PagesInv
  BY ListApiAssumption, InitPages
<1>2. PagesInv /\ [ListApiNext]_listApiVars => PagesInv'
  BY ListApiAssumption, StepPages
<1>3. PagesInv => PagesSound
  BY InvPages
<1> QED BY <1>1, <1>2, <1>3, PTL DEF ListApiSpec

=============================================================================
