--------------------------- MODULE AccountDeletion ---------------------------
(***************************************************************************)
(* The end of one rider's account: DELETE /account queues the directory id *)
(* and purges the rider's data; a daily job purges it again, deletes the   *)
(* identity through Graph and takes the entry off the queue. Meanwhile the *)
(* rider's other devices send requests, any call may be rejected, and an   *)
(* instance or a run of the job may stop at any await.                     *)
(***************************************************************************)
EXTENDS Naturals, FiniteSets

CONSTANTS
  Request,        \* the requests of a run; newId() of a request is the request itself
  Job,            \* the scheduled job, one run after the other (concurrency: process-deletions)
  DeletionMaxFaults  \* how many calls are rejected, answers lost and instances stopped in a run

ASSUME AccountAssumption ==
  /\ Job \notin Request
  /\ DeletionMaxFaults \in Nat

VARIABLES
  entry,     \* whether the deletions container holds the rider's object id
  identity,  \* whether the directory still has the user
  data,      \* the documents and blobs of the rider that exist
  call,      \* the state of each request's handler and of the job
  queued,    \* history: whether a DeleteAccount has queued the rider
  late,      \* history: whether a request began after the identity was gone, or was let in by
             \* refusePendingDeletion and still under way when a run of the job began
  deletionFaults     \* how many faults have happened

deletionHistory == <<queued, late>>
deletionVars == <<entry, identity, data, call, deletionHistory, deletionFaults>>

-----------------------------------------------------------------------------
\* The profile, and the tour, track, GPX and photo a request uploads (both sizes of a photo are one
\* item, TourStore tells them apart).
User == <<"user", "rider">>
Kind == {"tour", "track", "gpx", "photo"}
Item == {User} \cup (Kind \X Request)

Worker == Request \cup {Job}

\* The requests refusePendingDeletion guards.
Guarded == {"getMe", "updateProfile", "uploadTour"}
Op == Guarded \cup {"none", "uploadImage", "deleteAccount", "job"}

\* The remote call a handler or the job awaits next.
DeletionPc == {"idle", "done",
       "readProfile", "createProfile", "upsertProfile",
       "storeGpx", "createTrack", "createTour",
       "storePhoto", "append", "rollback",
       "queue",
       "verify", "graph", "remove",
       "listDocuments", "deleteDocuments", "deleteBlobs"}

Answer == {"none", "ok", "refused", "failed", "crashed"}

Call == [op: Op, pc: DeletionPc,
         tour: Worker,               \* the tour of an UploadImage
         todo: SUBSET Item,          \* the parallel deletes not settled yet
         toList: SUBSET Kind,        \* the containers a purge has still to list
         answer: Answer,             \* "failed" before "done": a parallel call was rejected
         before: SUBSET Item]        \* history: what existed when the purge was asked for

DeletionTypeOK ==
  /\ entry \in BOOLEAN /\ identity \in BOOLEAN
  /\ data \subseteq Item
  /\ call \in [Worker -> Call]
  /\ queued \in BOOLEAN /\ late \in BOOLEAN
  /\ deletionFaults \in 0..DeletionMaxFaults

DeletionInit ==
  /\ entry = FALSE /\ identity = TRUE
  /\ data = {User}
  /\ call = [w \in Worker |-> [op |-> IF w = Job THEN "job" ELSE "none", pc |-> "idle",
                               tour |-> w, todo |-> {}, toList |-> {}, answer |-> "none",
                               before |-> {}]]
  /\ queued = FALSE /\ late = FALSE
  /\ deletionFaults = 0

-----------------------------------------------------------------------------
Goto(w, pc) == call' = [call EXCEPT ![w].pc = pc]

\* A request is answered; a run of the job ends and the next one may start.
Finish(w, answer) ==
  call' = [call EXCEPT ![w].pc = IF w = Job THEN "idle" ELSE "done",
                       ![w].todo = {}, ![w].toList = {}, ![w].tour = w, ![w].answer = answer,
                       ![w].before = IF w # Job /\ answer = "ok" THEN @ ELSE {}]

RollBack(r, items, answer) ==
  call' = [call EXCEPT ![r].pc = "rollback", ![r].todo = items, ![r].answer = answer]

Fault == deletionFaults < DeletionMaxFaults /\ deletionFaults' = deletionFaults + 1

DeletionUnderWay(r) == call[r].pc \notin {"idle", "done"}

\* A token is checked by its signature alone: it is good until it expires, with or without a user.
Begin(r, op, pc) ==
  /\ call[r].pc = "idle"
  /\ call' = [call EXCEPT ![r].op = op, ![r].pc = pc]
  /\ late' = (late \/ ~identity)
  /\ UNCHANGED <<entry, identity, data, queued, deletionFaults>>

\* 410 while the rider is queued. Authentication before it and what refuses after it (429, quota,
\* a bad body) write nothing.
\* Mutant: the check of the queue is left out.
BeginGuardedUnchecked(r, op, pc) == Begin(r, op, pc)
BeginGuarded(r, op, pc) ==
  IF entry
    THEN /\ call[r].pc = "idle"
         /\ call' = [call EXCEPT ![r].op = op, ![r].pc = "done", ![r].answer = "refused"]
         /\ UNCHANGED <<entry, identity, data, deletionHistory, deletionFaults>>
    ELSE Begin(r, op, pc)

-----------------------------------------------------------------------------
\* GetMe: reads the profile, creates it if there is none (a 409 means another request just did).
BeginGetMe(r) == BeginGuarded(r, "getMe", "readProfile")

ReadProfile(r) ==
  /\ call[r].pc = "readProfile"
  /\ IF User \in data THEN Finish(r, "ok") ELSE Goto(r, "createProfile")
  /\ UNCHANGED <<entry, identity, data, deletionHistory, deletionFaults>>

CreateProfile(r) ==
  /\ call[r].pc = "createProfile"
  /\ data' = data \cup {User}
  /\ Finish(r, "ok")
  /\ UNCHANGED <<entry, identity, deletionHistory, deletionFaults>>

\* UpdateProfile: an upsert of what was read, or of a new profile.
BeginUpdateProfile(r) == BeginGuarded(r, "updateProfile", "upsertProfile")

UpsertProfile(r) ==
  /\ call[r].pc = "upsertProfile"
  /\ data' = data \cup {User}
  /\ Finish(r, "ok")
  /\ UNCHANGED <<entry, identity, deletionHistory, deletionFaults>>

\* UploadTour: the check comes long before the first write (body, quota and parse are awaited).
BeginUploadTour(r) == BeginGuarded(r, "uploadTour", "storeGpx")

Store(r, pc, x, next) ==
  /\ call[r].pc = pc
  /\ data' = data \cup {x}
  /\ IF next = "done" THEN Finish(r, "ok") ELSE Goto(r, next)
  /\ UNCHANGED <<entry, identity, deletionHistory, deletionFaults>>

StoreGpx(r)    == Store(r, "storeGpx", <<"gpx", r>>, "createTrack")
CreateTrack(r) == Store(r, "createTrack", <<"track", r>>, "createTour")
CreateTour(r)  == Store(r, "createTour", <<"tour", r>>, "done")

\* UploadImage is not guarded by the queue, but needs a tour.
BeginUploadImage(r, t) ==
  /\ call[r].pc = "idle"
  /\ <<"tour", t>> \in data
  /\ call' = [call EXCEPT ![r].op = "uploadImage", ![r].pc = "storePhoto", ![r].tour = t]
  /\ late' = (late \/ ~identity)
  /\ UNCHANGED <<entry, identity, data, queued, deletionFaults>>

StorePhoto(r) == Store(r, "storePhoto", <<"photo", r>>, "append")

\* The tour went meanwhile ('gone'): the photo is deleted again.
AppendPhoto(r) ==
  /\ call[r].pc = "append"
  /\ IF <<"tour", call[r].tour>> \in data
       THEN Finish(r, "ok")
       ELSE RollBack(r, {<<"photo", r>>}, "refused")
  /\ UNCHANGED <<entry, identity, data, deletionHistory, deletionFaults>>

\* What withRollback undoes when the call a handler awaits rejects.
Undo(r) == CASE call[r].pc = "createTrack" -> {<<"gpx", r>>}
             [] call[r].pc = "createTour" -> {<<"gpx", r>>, <<"track", r>>}
             [] call[r].pc \in {"storePhoto", "append"} -> {<<"photo", r>>}
             [] OTHER -> {}

\* One of a handler's parallel deletes settles; the answer follows the last one.
Settled(w, x, answer) ==
  LET left == call[w].todo \ {x} IN
  IF left = {} THEN Finish(w, answer)
               ELSE call' = [call EXCEPT ![w].todo = left, ![w].answer = answer]

RollBackOne(r, x) ==
  /\ call[r].pc = "rollback" /\ x \in call[r].todo
  /\ data' = data \ {x}
  /\ Settled(r, x, call[r].answer)
  /\ UNCHANGED <<entry, identity, deletionHistory, deletionFaults>>

-----------------------------------------------------------------------------
\* DeleteAccount: the queue entry first, then the purge. A rider who is queued may ask again.
BeginDeleteAccount(r) ==
  /\ call[r].pc = "idle"
  /\ call' = [call EXCEPT ![r].op = "deleteAccount", ![r].pc = "queue", ![r].before = data]
  /\ late' = (late \/ ~identity)
  /\ UNCHANGED <<entry, identity, data, queued, deletionFaults>>

StartPurge(w) ==
  call' = [call EXCEPT ![w].pc = "listDocuments", ![w].toList = {"tour", "track"},
                       ![w].answer = "none"]

Queue(r) ==
  /\ call[r].pc = "queue"
  /\ entry' = TRUE
  /\ queued' = TRUE
  /\ StartPurge(r)
  /\ UNCHANGED <<identity, data, late, deletionFaults>>

\* purgeAccountData. Tours and tracks are listed side by side, and deleted together with the
\* profile, which is not looked for first; the blobs only when every document is gone.
Listed(kind) == {x \in data : x[1] = kind}

\* Mutant: only the tracks that still have a tour are found.
ListDocumentsByTour(w, kind) ==
  LET left == call[w].toList \ {kind} IN
  /\ call[w].pc = "listDocuments" /\ kind \in call[w].toList
  /\ call' = [call EXCEPT
       ![w].toList = left,
       ![w].todo = @ \cup {x \in Listed(kind) : <<"tour", x[2]>> \in data}
                     \cup (IF left = {} THEN {User} ELSE {}),
       ![w].pc = IF left = {} THEN "deleteDocuments" ELSE @]
  /\ UNCHANGED <<entry, identity, data, deletionHistory, deletionFaults>>

ListDocuments(w, kind) ==
  LET left == call[w].toList \ {kind} IN
  /\ call[w].pc = "listDocuments" /\ kind \in call[w].toList
  /\ call' = [call EXCEPT
       ![w].toList = left,
       ![w].todo = @ \cup Listed(kind) \cup (IF left = {} THEN {User} ELSE {}),
       ![w].pc = IF left = {} THEN "deleteDocuments" ELSE @]
  /\ UNCHANGED <<entry, identity, data, deletionHistory, deletionFaults>>

\* settleAllLimited: the deletes run on after a failure, which is thrown once all have settled.
DocumentSettled(w, x, answer) ==
  LET left == call[w].todo \ {x} IN
  CASE left # {} -> call' = [call EXCEPT ![w].todo = left, ![w].answer = answer]
    [] left = {} /\ answer = "failed" -> Finish(w, "failed")
    [] OTHER -> call' = [call EXCEPT ![w].todo = {}, ![w].pc = "deleteBlobs",
                                     ![w].toList = {"gpx", "photo"}]

DeleteDocument(w, x) ==
  /\ call[w].pc = "deleteDocuments" /\ x \in call[w].todo
  /\ data' = data \ {x}
  /\ DocumentSettled(w, x, call[w].answer)
  /\ UNCHANGED <<entry, identity, deletionHistory, deletionFaults>>

\* The blobs under the rider's prefix in the two containers, side by side, each listed and then
\* deleted. A purge that succeeds answers its request, and takes the job on to Graph.
Purged(w, answer) ==
  CASE answer = "failed" -> Finish(w, "failed")
    [] answer # "failed" /\ w = Job ->
         call' = [call EXCEPT ![w].pc = "graph", ![w].todo = {}, ![w].toList = {}]
    [] OTHER -> Finish(w, "ok")

\* Mutant: the job goes on whether the purge succeeded or not.
BlobsSettledUnchecked(w, todo, toList, answer) ==
  IF todo = {} /\ toList = {}
    THEN Purged(w, "none")
    ELSE call' = [call EXCEPT ![w].todo = todo, ![w].toList = toList, ![w].answer = answer]
BlobsSettled(w, todo, toList, answer) ==
  IF todo = {} /\ toList = {}
    THEN Purged(w, answer)
    ELSE call' = [call EXCEPT ![w].todo = todo, ![w].toList = toList, ![w].answer = answer]

ListBlobs(w, kind) ==
  /\ call[w].pc = "deleteBlobs" /\ kind \in call[w].toList
  /\ BlobsSettled(w, call[w].todo \cup Listed(kind), call[w].toList \ {kind}, call[w].answer)
  /\ UNCHANGED <<entry, identity, data, deletionHistory, deletionFaults>>

DeleteBlob(w, x) ==
  /\ call[w].pc = "deleteBlobs" /\ x \in call[w].todo
  /\ data' = data \ {x}
  /\ BlobsSettled(w, call[w].todo \ {x}, call[w].toList, call[w].answer)
  /\ UNCHANGED <<entry, identity, deletionHistory, deletionFaults>>

-----------------------------------------------------------------------------
\* The job: for a queued rider whose profile is gone, purge, Graph, then off the queue. A run that
\* fails or refuses leaves the entry for the next one.
JobStart ==
  /\ call[Job].pc = "idle" /\ entry
  /\ call' = [call EXCEPT ![Job].pc = "verify", ![Job].before = data]
  /\ late' = (late \/ \E r \in Request : call[r].op \in Guarded /\ DeletionUnderWay(r))
  /\ UNCHANGED <<entry, identity, data, queued, deletionFaults>>

\* Mutant: an account is refused for anything a failed purge left of it.
JobVerifyAnyData ==
  /\ call[Job].pc = "verify"
  /\ IF data # {} THEN Finish(Job, "refused") ELSE StartPurge(Job)
  /\ UNCHANGED <<entry, identity, data, deletionHistory, deletionFaults>>

JobVerify ==
  /\ call[Job].pc = "verify"
  /\ IF User \in data THEN Finish(Job, "refused") ELSE StartPurge(Job)
  /\ UNCHANGED <<entry, identity, data, deletionHistory, deletionFaults>>

\* Graph's 204 and its 404 both count as deleted.
JobGraph ==
  /\ call[Job].pc = "graph"
  /\ identity' = FALSE
  /\ Goto(Job, "remove")
  /\ UNCHANGED <<entry, data, deletionHistory, deletionFaults>>

JobRemove ==
  /\ call[Job].pc = "remove"
  /\ entry' = FALSE
  /\ Finish(Job, "ok")
  /\ UNCHANGED <<identity, data, deletionHistory, deletionFaults>>

-----------------------------------------------------------------------------
\* The calls a handler awaits one at a time; before a purge lists any blob it opens both containers.
RejectsAlone(w) ==
  \/ call[w].pc \in DeletionPc \ {"idle", "done", "rollback", "deleteDocuments", "deleteBlobs"}
  \/ call[w].pc = "deleteBlobs" /\ call[w].todo = {} /\ call[w].toList = {"gpx", "photo"}

\* Any awaited call may reject without having been applied.
\* Mutant: a rejected call of Graph still takes the entry off the queue.
CallRejectsGraphIgnored(w) ==
  /\ Fault
  /\ RejectsAlone(w)
  /\ CASE call[w].pc = "graph" -> Goto(w, "remove")
       [] Undo(w) = {} -> Finish(w, "failed")
       [] OTHER -> RollBack(w, Undo(w), "failed")
  /\ UNCHANGED <<entry, identity, data, deletionHistory>>

CallRejects(w) ==
  /\ Fault
  /\ RejectsAlone(w)
  /\ IF Undo(w) = {} THEN Finish(w, "failed") ELSE RollBack(w, Undo(w), "failed")
  /\ UNCHANGED <<entry, identity, data, deletionHistory>>

DeleteRejects(w, x) ==
  /\ Fault
  /\ x \in call[w].todo
  /\ \/ call[w].pc = "rollback" /\ Settled(w, x, "failed")
     \/ call[w].pc = "deleteDocuments" /\ DocumentSettled(w, x, "failed")
     \/ /\ call[w].pc = "deleteBlobs"
        /\ BlobsSettled(w, call[w].todo \ {x}, call[w].toList, "failed")
  /\ UNCHANGED <<entry, identity, data, deletionHistory>>

ListRejects(w, kind) ==
  /\ Fault
  /\ call[w].pc = "deleteBlobs" /\ kind \in call[w].toList
  /\ BlobsSettled(w, call[w].todo, call[w].toList \ {kind}, "failed")
  /\ UNCHANGED <<entry, identity, data, deletionHistory>>

\* Graph deletes the user, but the call times out (GRAPH_TIMEOUT_MS).
GraphAnswerLost ==
  /\ Fault
  /\ call[Job].pc = "graph"
  /\ identity' = FALSE
  /\ Finish(Job, "failed")
  /\ UNCHANGED <<entry, data, deletionHistory>>

\* The instance, or the run of the job, stops.
Crash(w) ==
  /\ Fault
  /\ DeletionUnderWay(w)
  /\ Finish(w, "crashed")
  /\ UNCHANGED <<entry, identity, data, deletionHistory>>

Step(w) ==
  \/ ReadProfile(w) \/ CreateProfile(w) \/ UpsertProfile(w)
  \/ StoreGpx(w) \/ CreateTrack(w) \/ CreateTour(w)
  \/ StorePhoto(w) \/ AppendPhoto(w)
  \/ Queue(w)
  \/ \E kind \in Kind : ListDocuments(w, kind) \/ ListBlobs(w, kind)
  \/ \E x \in Item : RollBackOne(w, x) \/ DeleteDocument(w, x) \/ DeleteBlob(w, x)

JobStep == Step(Job) \/ JobVerify \/ JobGraph \/ JobRemove

BeginAny(r) ==
  \/ BeginGetMe(r) \/ BeginUpdateProfile(r) \/ BeginUploadTour(r) \/ BeginDeleteAccount(r)
  \/ \E t \in Request : BeginUploadImage(r, t)

Fails ==
  \/ GraphAnswerLost
  \/ \E w \in Worker :
       \/ CallRejects(w) \/ Crash(w)
       \/ \E x \in Item : DeleteRejects(w, x)
       \/ \E kind \in Kind : ListRejects(w, kind)

\* No request is under way, the queue is empty and the job is between two runs.
Quiescent == ~entry /\ call[Job].pc = "idle" /\ \A r \in Request : ~DeletionUnderWay(r)
DeletionRest == Quiescent /\ UNCHANGED deletionVars

DeletionNext ==
  \/ \E r \in Request : BeginAny(r) \/ Step(r)
  \/ JobStart \/ JobStep
  \/ Fails
  \/ DeletionRest

DeletionSpec == DeletionInit /\ [][DeletionNext]_deletionVars

\* Handlers run to their end or are stopped by the platform, the job is scheduled every day.
DeletionFairness ==
  /\ WF_deletionVars(JobStart) /\ WF_deletionVars(JobStep)
  /\ \A r \in Request : WF_deletionVars(Step(r))
DeletionFairSpec == DeletionSpec /\ DeletionFairness

-----------------------------------------------------------------------------
\* A DeleteAccount that is answered 204 leaves nothing that was there when it was asked for, not
\* even what an earlier, failed purge lost the tour of (accountPurge.js:12); only the profile can
\* be back, written by a request that was let in before the rider was queued.
AnsweredMeansPurged ==
  \A r \in Request :
    call[r].op = "deleteAccount" /\ call[r].answer = "ok" =>
      call[r].before \cap data \subseteq {User}

\* The job deletes an identity only when everything that was there when its run began is gone:
\* nothing is left without an owner and without an entry to find it by (deletionJob.js:122).
IdentityGoesLast ==
  [][identity /\ ~identity' => call[Job].before \cap data \subseteq {User}]_deletionVars

\* Once queued, a rider stays queued until the identity is gone, whatever fails.
QueuedUntilIdentityGone == queued /\ ~entry => ~identity

\* The queue is what the job and the 410 of the handlers rely on (pendingDeletion.js:7,
\* deletionJob.js:39): it is of its type and holds whom it must.
QueueHolds == DeletionTypeOK /\ QueuedUntilIdentityGone

\* Once the identity is gone nothing of the rider is left, except a photo whose own upload failed or
\* was stopped while the job ran: everything else is purged or was never let in, unless a request
\* was let in and then overtaken by a whole run of the job, or used a token of the deleted identity.
NothingOutlivesIdentity ==
  ~identity /\ ~late => \A x \in data :
    /\ x[1] = "photo"
    /\ DeletionUnderWay(x[2]) \/ call[x[2]].answer \in {"failed", "crashed"}

\* Every queued account is deleted in the end, unless a profile was left or written behind its
\* purge, which the job takes for an entry the API did not leave (deletionJob.js:84).
QueuedEndsOrRefused == []<>(queued => (~entry /\ ~identity) \/ User \in data)

=============================================================================
