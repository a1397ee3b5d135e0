------------------------- MODULE AccountDeletionProofs -------------------------
(***************************************************************************)
(* TLAPS proofs about AccountDeletion: the queue holds whom it must, a     *)
(* DeleteAccount that is answered has purged, the identity goes last and   *)
(* nothing outlives it, for any number of requests and faults.             *)
(***************************************************************************)
EXTENDS AccountDeletion, TLAPS

-----------------------------------------------------------------------------
\* The inductive invariant.

\* Which step belongs to which operation; only the job verifies, calls Graph and takes entries off.
StepsOf(op) ==
  CASE op = "none" -> {"idle"}
    [] op = "getMe" -> {"readProfile", "createProfile", "done"}
    [] op = "updateProfile" -> {"upsertProfile", "done"}
    [] op = "uploadTour" -> {"storeGpx", "createTrack", "createTour", "rollback", "done"}
    [] op = "uploadImage" -> {"storePhoto", "append", "rollback", "done"}
    [] op = "deleteAccount" ->
         {"queue", "listDocuments", "deleteDocuments", "deleteBlobs", "done"}
    [] op = "job" -> {"idle", "verify", "listDocuments", "deleteDocuments", "deleteBlobs",
                      "graph", "remove"}

StepsMatch ==
  /\ \A w \in Worker : (w = Job <=> call[w].op = "job") /\ call[w].pc \in StepsOf(call[w].op)
  /\ \A r \in Request : call[r].pc = "idle" => call[r].answer = "none" /\ call[r].before = {}

\* The request of a stored item is past the step that stores it: once deleted, it stays deleted.
Made(x) ==
  LET q == call[x[2]] IN
  /\ x[1] = "gpx" => q.op = "uploadTour" /\ q.pc # "storeGpx"
  /\ x[1] = "track" => q.op = "uploadTour" /\ q.pc \notin {"storeGpx", "createTrack"}
  /\ x[1] = "tour" =>
       q.op = "uploadTour" /\ q.pc \notin {"storeGpx", "createTrack", "createTour"}
  /\ x[1] = "photo" => q.op = "uploadImage" /\ q.pc # "storePhoto"

AllMade ==
  /\ \A x \in data : x # User => Made(x)
  /\ \A w \in Worker : \A x \in call[w].before : x # User => Made(x)

\* What a purge has not deleted of what was there before it is still to be listed or deleted,
\* unless one of its deletes was rejected.
Left(w) == (call[w].before \cap data) \ {User}
Documents == {"tour", "track"}

PurgeOf(w) ==
  LET q == call[w] IN
  /\ q.pc = "listDocuments" =>
       \A x \in Left(w) : x[1] \in Documents => x[1] \in q.toList \/ x \in q.todo
  /\ q.pc = "deleteDocuments" /\ q.answer # "failed" =>
       \A x \in Left(w) : x[1] \in Documents => x \in q.todo
  /\ q.pc = "deleteBlobs" =>
       \A x \in Left(w) : /\ x[1] \notin Documents
                          /\ q.answer # "failed" => x[1] \in q.toList \/ x \in q.todo
  /\ q.pc = "graph" => Left(w) = {}
  /\ q.op = "deleteAccount" /\ q.answer = "ok" => q.pc = "done" /\ Left(w) = {}

PurgesLeaveNothing == \A w \in Worker : PurgeOf(w)

\* A photo that is taken back is gone when its upload is refused.
PhotosTakenBack ==
  \A r \in Request : call[r].op = "uploadImage" =>
    /\ call[r].pc = "rollback" => call[r].todo = {<<"photo", r>>}
    /\ call[r].pc = "done" /\ call[r].answer \notin {"ok", "failed", "crashed"} =>
         <<"photo", r>> \notin data

\* The job runs for a rider who is queued, and takes the entry off after the identity.
JobRuns == call[Job].pc # "idle"

QueueFirst ==
  /\ JobRuns => entry
  /\ call[Job].pc = "remove" => ~identity
  /\ QueuedUntilIdentityGone

\* Nobody but a late request writes to the account while the job runs, or after the identity.
Quiet == \A r \in Request : ~(call[r].op \in Guarded /\ DeletionUnderWay(r))

PhotoOfFailure(x) ==
  x[1] = "photo" /\ (DeletionUnderWay(x[2]) \/ call[x[2]].answer \in {"failed", "crashed"})

PhotosSeen ==
  /\ call[Job].pc = "deleteBlobs" /\ call[Job].answer # "failed" =>
       \A x \in data : x[1] = "photo" =>
         "photo" \in call[Job].toList \/ x \in call[Job].todo \/ PhotoOfFailure(x)
  /\ call[Job].pc = "graph" => \A x \in data : x[1] = "photo" => PhotoOfFailure(x)

JobSeesAll ==
  JobRuns /\ ~late =>
    /\ Quiet /\ PhotosSeen
    /\ \A x \in data : x[1] # "photo" => x \in call[Job].before
    /\ call[Job].pc # "verify" => User \notin data

NothingLeft == ~identity /\ ~late => Quiet /\ \A x \in data : PhotoOfFailure(x)

DeletionInv ==
  /\ DeletionTypeOK /\ StepsMatch /\ AllMade /\ PurgesLeaveNothing /\ PhotosTakenBack
  /\ QueueFirst /\ JobSeesAll /\ NothingLeft

-----------------------------------------------------------------------------
\* What becomes of the call of one worker.

Becomes(w, op, pc, todo, toList, answer, before) ==
  /\ call' \in [Worker -> Call] /\ \A v \in Worker : v # w => call'[v] = call[v]
  /\ call'[w].op = op /\ call'[w].pc = pc /\ call'[w].todo = todo /\ call'[w].toList = toList
  /\ call'[w].answer = answer /\ call'[w].before = before

\* A request is answered, or a run of the job ends.
LEMMA FinishBecomes ==
  ASSUME DeletionTypeOK, NEW w \in Worker, NEW answer \in Answer, Finish(w, answer)
  PROVE  Becomes(w, call[w].op, IF w = Job THEN "idle" ELSE "done", {}, {}, answer,
                 IF w # Job /\ answer = "ok" THEN call[w].before ELSE {})
<1> DEFINE pc == IF w = Job THEN "idle" ELSE "done"
           before == IF w # Job /\ answer = "ok" THEN call[w].before ELSE {}
           c == [call[w] EXCEPT !.pc = pc, !.todo = {}, !.toList = {}, !.tour = w,
                                !.answer = answer, !.before = before]
<1>1. call[w] \in Call /\ pc \in DeletionPc
  BY DEF DeletionTypeOK, DeletionPc
<1>2. before \in SUBSET Item
  BY <1>1 DEF Call
<1>3. call' = [call EXCEPT ![w] = c]
  BY DEF DeletionTypeOK, Finish
<1> HIDE DEF pc, before
<1>4. /\ c \in Call
      /\ c.op = call[w].op /\ c.pc = pc /\ c.todo = {} /\ c.toList = {}
      /\ c.answer = answer /\ c.before = before
  BY <1>1, <1>2 DEF Call
<1>5. call'[w] = c /\ \A v \in Worker : v # w => call'[v] = call[v]
  BY <1>3 DEF DeletionTypeOK
<1>6. call' \in [Worker -> Call]
  BY <1>3, <1>4 DEF DeletionTypeOK
<1> QED BY <1>4, <1>5, <1>6 DEF Becomes, pc, before

\* It goes on to its next call.
LEMMA GotoBecomes ==
  ASSUME DeletionTypeOK, NEW w \in Worker, NEW pc \in DeletionPc, Goto(w, pc)
  PROVE  Becomes(w, call[w].op, pc, call[w].todo, call[w].toList, call[w].answer, call[w].before)
<1> DEFINE c == [call[w] EXCEPT !.pc = pc]
<1>1. call[w] \in Call
  BY DEF DeletionTypeOK
<1>2. /\ c \in Call
      /\ c.op = call[w].op /\ c.pc = pc /\ c.todo = call[w].todo
      /\ c.toList = call[w].toList /\ c.answer = call[w].answer
      /\ c.before = call[w].before
  BY <1>1 DEF Call, DeletionPc, Worker, Answer, Op, Guarded
<1>3. call' = [call EXCEPT ![w] = c]
  BY DEF DeletionTypeOK, Goto
<1>4. call'[w] = c /\ \A v \in Worker : v # w => call'[v] = call[v]
  BY <1>3 DEF DeletionTypeOK
<1>5. call' \in [Worker -> Call]
  BY <1>2, <1>3 DEF DeletionTypeOK
<1> QED BY <1>2, <1>4, <1>5 DEF Becomes

\* It takes back what it stored.
LEMMA RollBackBecomes ==
  ASSUME DeletionTypeOK, NEW w \in Worker, NEW items \in SUBSET Item, NEW answer \in Answer,
         RollBack(w, items, answer)
  PROVE  Becomes(w, call[w].op, "rollback", items, call[w].toList, answer, call[w].before)
<1> DEFINE c == [call[w] EXCEPT !.pc = "rollback", !.todo = items, !.answer = answer]
<1>1. call[w] \in Call
  BY DEF DeletionTypeOK
<1>2. /\ c \in Call
      /\ c.op = call[w].op /\ c.pc = "rollback" /\ c.todo = items
      /\ c.toList = call[w].toList /\ c.answer = answer
      /\ c.before = call[w].before
  BY <1>1, ZenonT(40) DEF Call, DeletionPc, Worker, Answer, Op, Guarded
<1>3. call' = [call EXCEPT ![w] = c]
  BY DEF DeletionTypeOK, RollBack
<1>4. call'[w] = c /\ \A v \in Worker : v # w => call'[v] = call[v]
  BY <1>3 DEF DeletionTypeOK
<1>5. call' \in [Worker -> Call]
  BY <1>2, <1>3 DEF DeletionTypeOK
<1> QED BY <1>2, <1>4, <1>5 DEF Becomes

\* A purge starts.
LEMMA StartPurgeBecomes ==
  ASSUME DeletionTypeOK, NEW w \in Worker, StartPurge(w)
  PROVE  Becomes(w, call[w].op, "listDocuments", call[w].todo, {"tour", "track"}, "none", call[w].before)
<1> DEFINE c == [call[w] EXCEPT !.pc = "listDocuments", !.toList = {"tour", "track"},
                                !.answer = "none"]
<1>1. call[w] \in Call
  BY DEF DeletionTypeOK
<1>2. /\ c \in Call
      /\ c.op = call[w].op /\ c.pc = "listDocuments" /\ c.todo = call[w].todo
      /\ c.toList = {"tour", "track"} /\ c.answer = "none"
      /\ c.before = call[w].before
  BY <1>1, ZenonT(40) DEF Call, Kind, DeletionPc, Worker, Answer, Op, Guarded
<1>3. call' = [call EXCEPT ![w] = c]
  BY DEF DeletionTypeOK, StartPurge
<1>4. call'[w] = c /\ \A v \in Worker : v # w => call'[v] = call[v]
  BY <1>3 DEF DeletionTypeOK
<1>5. call' \in [Worker -> Call]
  BY <1>2, <1>3 DEF DeletionTypeOK
<1> QED BY <1>2, <1>4, <1>5 DEF Becomes

\* The rest of a purge: the shapes in which it goes on.
LEMMA PurgeBecomes ==
  ASSUME DeletionTypeOK, NEW w \in Worker, NEW pc \in DeletionPc,
         NEW todo \in SUBSET Item, NEW toList \in SUBSET Kind, NEW answer \in Answer,
         \/ /\ answer = call[w].answer
            /\ \/ call' = [call EXCEPT ![w].toList = toList, ![w].todo = todo, ![w].pc = pc]
               \/ call' = [call EXCEPT ![w].todo = todo, ![w].pc = pc, ![w].toList = toList]
               \/ call' = [call EXCEPT ![w].pc = pc, ![w].todo = todo, ![w].toList = toList]
         \/ /\ pc = call[w].pc
            /\ call' = [call EXCEPT ![w].todo = todo, ![w].toList = toList, ![w].answer = answer]
         \/ /\ pc = call[w].pc /\ toList = call[w].toList
            /\ call' = [call EXCEPT ![w].todo = todo, ![w].answer = answer]
  PROVE  Becomes(w, call[w].op, pc, todo, toList, answer, call[w].before)
<1>1. call[w] \in Call
  BY DEF DeletionTypeOK
<1>2. ASSUME NEW c \in Call, call' = [call EXCEPT ![w] = c],
             c.op = call[w].op, c.pc = pc, c.todo = todo, c.toList = toList,
             c.answer = answer, c.before = call[w].before
      PROVE  Becomes(w, call[w].op, pc, todo, toList, answer, call[w].before)
  <2>1. call'[w] = c /\ \A v \in Worker : v # w => call'[v] = call[v]
    BY <1>2 DEF DeletionTypeOK
  <2>2. call' \in [Worker -> Call]
    BY <1>2 DEF DeletionTypeOK
  <2> QED BY <1>2, <2>1, <2>2 DEF Becomes
<1>3. CASE /\ answer = call[w].answer
              /\ call' = [call EXCEPT ![w].toList = toList, ![w].todo = todo, ![w].pc = pc]
  <2> DEFINE c == [call[w] EXCEPT !.toList = toList, !.todo = todo, !.pc = pc]
  <2>1. call' = [call EXCEPT ![w] = c]
    BY <1>3 DEF DeletionTypeOK
  <2>2. c \in Call /\ c.op = call[w].op /\ c.before = call[w].before
    BY <1>1 DEF Call
  <2>3. /\ c.pc = pc /\ c.todo = todo /\ c.toList = toList /\ c.answer = answer
    BY <1>1, <1>3 DEF Call
  <2> HIDE DEF c
  <2> QED BY <1>2, <2>1, <2>2, <2>3
<1>4. CASE /\ answer = call[w].answer
              /\ call' = [call EXCEPT ![w].todo = todo, ![w].pc = pc, ![w].toList = toList]
  <2> DEFINE c == [call[w] EXCEPT !.todo = todo, !.pc = pc, !.toList = toList]
  <2>1. call' = [call EXCEPT ![w] = c]
    BY <1>4 DEF DeletionTypeOK
  <2>2. c \in Call /\ c.op = call[w].op /\ c.before = call[w].before
    BY <1>1 DEF Call
  <2>3. /\ c.pc = pc /\ c.todo = todo /\ c.toList = toList /\ c.answer = answer
    BY <1>1, <1>4 DEF Call
  <2> HIDE DEF c
  <2> QED BY <1>2, <2>1, <2>2, <2>3
<1>5. CASE /\ answer = call[w].answer
              /\ call' = [call EXCEPT ![w].pc = pc, ![w].todo = todo, ![w].toList = toList]
  <2> DEFINE c == [call[w] EXCEPT !.pc = pc, !.todo = todo, !.toList = toList]
  <2>1. call' = [call EXCEPT ![w] = c]
    BY <1>5 DEF DeletionTypeOK
  <2>2. c \in Call /\ c.op = call[w].op /\ c.before = call[w].before
    BY <1>1 DEF Call
  <2>3. /\ c.pc = pc /\ c.todo = todo /\ c.toList = toList /\ c.answer = answer
    BY <1>1, <1>5 DEF Call
  <2> HIDE DEF c
  <2> QED BY <1>2, <2>1, <2>2, <2>3
<1>6. CASE /\ pc = call[w].pc
              /\ call' = [call EXCEPT ![w].todo = todo, ![w].toList = toList, ![w].answer = answer]
  <2> DEFINE c == [call[w] EXCEPT !.todo = todo, !.toList = toList, !.answer = answer]
  <2>1. call' = [call EXCEPT ![w] = c]
    BY <1>6 DEF DeletionTypeOK
  <2>2. c \in Call /\ c.op = call[w].op /\ c.before = call[w].before
    BY <1>1 DEF Call
  <2>3. /\ c.pc = pc /\ c.todo = todo /\ c.toList = toList /\ c.answer = answer
    BY <1>1, <1>6 DEF Call
  <2> HIDE DEF c
  <2> QED BY <1>2, <2>1, <2>2, <2>3
<1>7. CASE /\ pc = call[w].pc /\ toList = call[w].toList
              /\ call' = [call EXCEPT ![w].todo = todo, ![w].answer = answer]
  <2> DEFINE c == [call[w] EXCEPT !.todo = todo, !.answer = answer]
  <2>1. call' = [call EXCEPT ![w] = c]
    BY <1>7 DEF DeletionTypeOK
  <2>2. c \in Call /\ c.op = call[w].op /\ c.before = call[w].before
    BY <1>1 DEF Call
  <2>3. /\ c.pc = pc /\ c.todo = todo /\ c.toList = toList /\ c.answer = answer
    BY <1>1, <1>7 DEF Call
  <2> HIDE DEF c
  <2> QED BY <1>2, <2>1, <2>2, <2>3
<1> QED BY <1>3, <1>4, <1>5, <1>6, <1>7

\* A handler whose delete settled goes on with what is left, or has failed.
LEMMA DocumentSettledBecomes ==
  ASSUME DeletionTypeOK, NEW w \in Worker, NEW x \in Item, NEW answer \in Answer,
         DocumentSettled(w, x, answer)
  PROVE  LET left == call[w].todo \ {x} IN
         \/ /\ left # {}
            /\ Becomes(w, call[w].op, call[w].pc, left, call[w].toList, answer, call[w].before)
         \/ answer = "failed" /\ Finish(w, "failed")
         \/ /\ left = {} /\ answer # "failed"
            /\ Becomes(w, call[w].op, "deleteBlobs", {}, {"gpx", "photo"}, call[w].answer,
                       call[w].before)
<1> DEFINE left == call[w].todo \ {x}
<1>1. /\ call[w].todo \in SUBSET Item /\ left \in SUBSET Item /\ call[w].toList \in SUBSET Kind
      /\ call[w].answer \in Answer /\ call[w].pc \in DeletionPc
  BY DEF DeletionTypeOK, Call
<1>2. CASE left # {}
  <2>1. call' = [call EXCEPT ![w].todo = left, ![w].answer = answer]
    BY <1>2 DEF DocumentSettled
  <2> HIDE DEF left
  <2> QED BY <1>1, <1>2, <2>1, PurgeBecomes DEF left
<1>3. CASE left = {} /\ answer = "failed"
  BY <1>3 DEF DocumentSettled
<1>4. CASE left = {} /\ answer # "failed"
  <2>1. call' = [call EXCEPT ![w].todo = {}, ![w].pc = "deleteBlobs", ![w].toList = {"gpx", "photo"}]
    BY <1>4 DEF DocumentSettled
  <2>2. {} \in SUBSET Item /\ {"gpx", "photo"} \in SUBSET Kind /\ "deleteBlobs" \in DeletionPc
    BY DEF Kind, DeletionPc
  <2> QED BY <1>1, <1>4, <2>1, <2>2, PurgeBecomes
<1> QED BY <1>2, <1>3, <1>4

\* A handler whose blobs settled goes on with what is left, has failed, or is through.
LEMMA BlobsSettledBecomes ==
  ASSUME DeletionTypeOK, NEW w \in Worker, NEW todo \in SUBSET Item, NEW toList \in SUBSET Kind,
         NEW answer \in Answer, BlobsSettled(w, todo, toList, answer)
  PROVE  \/ /\ ~(todo = {} /\ toList = {})
            /\ Becomes(w, call[w].op, call[w].pc, todo, toList, answer, call[w].before)
         \/ answer = "failed" /\ Finish(w, "failed")
         \/ /\ todo = {} /\ toList = {} /\ answer # "failed"
            /\ \/ /\ w = Job
                  /\ Becomes(w, call[w].op, "graph", {}, {}, call[w].answer, call[w].before)
               \/ w # Job /\ Finish(w, "ok")
<1>1. call[w].answer \in Answer /\ call[w].pc \in DeletionPc
  BY DEF DeletionTypeOK, Call
<1>2. CASE ~(todo = {} /\ toList = {})
  <2>1. call' = [call EXCEPT ![w].todo = todo, ![w].toList = toList, ![w].answer = answer]
    BY <1>2 DEF BlobsSettled
  <2> QED BY <1>1, <1>2, <2>1, PurgeBecomes
<1>3. CASE todo = {} /\ toList = {} /\ answer = "failed"
  BY <1>3 DEF BlobsSettled, Purged
<1>4. CASE todo = {} /\ toList = {} /\ answer # "failed" /\ w = Job
  <2>1. call' = [call EXCEPT ![w].pc = "graph", ![w].todo = {}, ![w].toList = {}]
    BY <1>4 DEF BlobsSettled, Purged
  <2>2. "graph" \in DeletionPc
    BY DEF DeletionPc
  <2> QED BY <1>1, <1>4, <2>1, <2>2, PurgeBecomes
<1>5. CASE todo = {} /\ toList = {} /\ answer # "failed" /\ w # Job
  BY <1>5 DEF BlobsSettled, Purged
<1> QED BY <1>2, <1>3, <1>4, <1>5

-----------------------------------------------------------------------------
\* Facts about items.

\* An item is the user or a thing of a request.
LEMMA ItemShape ==
  ASSUME NEW x \in Item
  PROVE  \/ x = User /\ x[1] = "user"
         \/ x # User /\ x[1] \in Kind /\ x[2] \in Request /\ x = <<x[1], x[2]>>
BY DEF Item, User, Kind

\* The things of a request are items.
LEMMA ItemsOf ==
  ASSUME NEW r \in Request, NEW kind \in Kind
  PROVE  <<kind, r>> \in Item /\ <<kind, r>> # User /\ <<kind, r>>[1] = kind /\ <<kind, r>>[2] = r
BY DEF Item, User, Kind

\* The steps of each operation, without the CASE.
LEMMA StepsListed ==
  /\ StepsOf("none") = {"idle"}
  /\ StepsOf("getMe") = {"readProfile", "createProfile", "done"}
  /\ StepsOf("updateProfile") = {"upsertProfile", "done"}
  /\ StepsOf("uploadTour") = {"storeGpx", "createTrack", "createTour", "rollback", "done"}
  /\ StepsOf("uploadImage") = {"storePhoto", "append", "rollback", "done"}
  /\ StepsOf("deleteAccount") =
       {"queue", "listDocuments", "deleteDocuments", "deleteBlobs", "done"}
  /\ StepsOf("job") = {"idle", "verify", "listDocuments", "deleteDocuments", "deleteBlobs",
                       "graph", "remove"}
BY DEF StepsOf

\* What a call is at tells whose it is.
LEMMA OpOfStep ==
  ASSUME DeletionTypeOK, StepsMatch, NEW w \in Worker
  PROVE  LET q == call[w] IN
         /\ q.op \in Op
         /\ w = Job => q.op = "job" /\ q.pc \in StepsOf("job")
         /\ w # Job => w \in Request /\ q.op # "job" /\ (q.pc = "idle" => q.op = "none")
         /\ q.pc \in {"readProfile", "createProfile"} => q.op = "getMe"
         /\ q.pc = "upsertProfile" => q.op = "updateProfile"
         /\ q.pc \in {"storeGpx", "createTrack", "createTour"} => q.op = "uploadTour"
         /\ q.pc \in {"storePhoto", "append"} => q.op = "uploadImage"
         /\ q.pc = "rollback" => q.op \in {"uploadTour", "uploadImage"}
         /\ q.pc = "queue" => q.op = "deleteAccount"
         /\ q.pc \in {"listDocuments", "deleteDocuments", "deleteBlobs"} =>
              q.op \in {"deleteAccount", "job"}
         /\ q.pc \in {"verify", "graph", "remove"} => w = Job
<1>1. call[w].op \in Op
  BY DEF DeletionTypeOK, Call
<1>2. (w = Job <=> call[w].op = "job") /\ call[w].pc \in StepsOf(call[w].op)
  BY DEF StepsMatch
<1> QED BY <1>1, <1>2, StepsListed DEF Op, Guarded, Worker

-----------------------------------------------------------------------------
\* A step of a request that is under way keeps the invariant if it does these things only.
LEMMA RequestKeeps ==
  ASSUME DeletionInv, NEW r \in Request,
         NEW pc, NEW todo, NEW toList, NEW answer, NEW before,
         Becomes(r, call[r].op, pc, todo, toList, answer, before),
         DeletionUnderWay(r), pc \in StepsOf(call[r].op), before \subseteq call[r].before,
         deletionFaults' \in 0..DeletionMaxFaults,
         UNCHANGED <<late, identity>>,
         UNCHANGED <<entry, queued>> \/ (entry' = TRUE /\ queued' = TRUE),
         data' \subseteq Item,
         \A x \in data' \ data : \/ x = User /\ call[r].op \in Guarded
                                 \/ /\ x # User /\ x[2] = r /\ ~Made(x) /\ Made(x)'
                                    /\ x[1] = "photo" \/ call[r].op \in Guarded,
         \A x \in Item : x # User /\ x[2] = r /\ Made(x) => Made(x)',
         PurgeOf(r)',
         call[r].op = "uploadImage" =>
           /\ pc = "rollback" => todo = {<<"photo", r>>}
           /\ pc = "done" /\ answer \notin {"ok", "failed", "crashed"} => <<"photo", r>> \notin data',
         \A x \in data' : x # User /\ x[1] = "photo" /\ x[2] = r =>
           \/ pc # "done" \/ answer \in {"failed", "crashed"}
           \/ \E t \in data : t[1] = "tour"
  PROVE  DeletionInv'
<1> USE DEF DeletionInv
<1>1. r # Job /\ r \in Worker /\ Job \in Worker
  BY AccountAssumption DEF Worker
<1>2. /\ call'[r].op = call[r].op /\ call'[r].pc = pc /\ call'[r].todo = todo
      /\ call'[r].answer = answer /\ call'[r].before = before
      /\ \A v \in Worker : v # r => call'[v] = call[v]
      /\ call'[Job] = call[Job]
  BY <1>1 DEF Becomes
<1>3. call[r].op \notin {"none", "job"} /\ pc # "idle"
  BY <1>1, OpOfStep, StepsListed DEF DeletionUnderWay, Op, Guarded, StepsMatch
<1>4. \A x \in Item : x # User => /\ x[2] \in Request /\ x[2] \in Worker
                                  /\ x[2] # r => call'[x[2]] = call[x[2]]
  BY <1>2, ItemShape DEF Worker
<1>5. data \subseteq Item /\ \A w \in Worker : call[w].before \subseteq Item
  BY DEF DeletionTypeOK, Call
<1>6. DeletionTypeOK'
  BY DEF DeletionTypeOK, Becomes
<1>7. StepsMatch'
  BY <1>1, <1>2, <1>3 DEF StepsMatch, Worker
<1>8. \A x \in Item : x # User /\ Made(x) => Made(x)'
  <2> SUFFICES ASSUME NEW x \in Item, x # User, Made(x) PROVE Made(x)'
    OBVIOUS
  <2>1. CASE x[2] = r
    BY <2>1
  <2>2. CASE x[2] # r
    BY <1>4, <2>2 DEF Made
  <2> QED BY <2>1, <2>2
<1>9. AllMade'
  <2>1. \A x \in data' : x # User => Made(x)'
    BY <1>5, <1>8 DEF AllMade
  <2>2. \A w \in Worker : \A x \in call'[w].before : x # User => Made(x)'
    BY <1>2, <1>5, <1>8 DEF AllMade
  <2> QED BY <2>1, <2>2 DEF AllMade
<1>10. PurgesLeaveNothing'
  <2> SUFFICES ASSUME NEW v \in Worker, v # r PROVE PurgeOf(v)'
    BY DEF PurgesLeaveNothing
  <2>1. call'[v] = call[v] /\ PurgeOf(v)
    BY <1>2 DEF PurgesLeaveNothing
  <2>2. Left(v)' \subseteq Left(v)
    BY <1>5, <2>1 DEF Left, AllMade
  <2> QED BY <2>1, <2>2 DEF PurgeOf
<1>11. PhotosTakenBack'
  <2> SUFFICES ASSUME NEW v \in Request, v # r, call'[v].op = "uploadImage"
               PROVE  /\ call'[v].pc = "rollback" => call'[v].todo = {<<"photo", v>>}
                      /\ call'[v].pc = "done" /\ call'[v].answer \notin {"ok", "failed", "crashed"}
                           => <<"photo", v>> \notin data'
    BY <1>2 DEF PhotosTakenBack
  <2>1. call'[v] = call[v]
    BY <1>2 DEF Worker
  <2>2. <<"photo", v>> # User /\ <<"photo", v>>[2] # r
    BY ItemsOf DEF Kind
  <2>3. <<"photo", v>> \in data' => <<"photo", v>> \in data
    BY <2>2
  <2> QED BY <2>1, <2>3 DEF PhotosTakenBack
<1>12. QueueFirst'
  BY <1>2 DEF QueueFirst, QueuedUntilIdentityGone, JobRuns
<1>13. Quiet => Quiet' /\ \A x \in data' \ data : x # User /\ x[1] = "photo" /\ x[2] = r
  <2> SUFFICES ASSUME Quiet
               PROVE  Quiet' /\ \A x \in data' \ data : x # User /\ x[1] = "photo" /\ x[2] = r
    OBVIOUS
  <2>1. call[r].op \notin Guarded
    BY DEF Quiet
  <2>2. Quiet'
    BY <1>2, <2>1 DEF Quiet, DeletionUnderWay, Worker
  <2> QED BY <2>1, <2>2
<1>14. ASSUME \A t \in data : t[1] # "tour", NEW x \in data', x # User, x[1] = "photo",
              x \in data => PhotoOfFailure(x), x \in data \/ x[2] = r
       PROVE  PhotoOfFailure(x)'
  <2>1. CASE x[2] = r
    BY <1>2, <1>3, <1>14, <2>1 DEF PhotoOfFailure, DeletionUnderWay
  <2>2. CASE x[2] # r
    BY <1>4, <1>14, <2>2 DEF PhotoOfFailure, DeletionUnderWay
  <2> QED BY <2>1, <2>2
<1>15. JobSeesAll'
  <2> SUFFICES ASSUME JobRuns', ~late'
               PROVE  JobSeesAll'
    BY DEF JobSeesAll
  <2>1. /\ JobRuns /\ ~late /\ Quiet /\ PhotosSeen
        /\ \A x \in data : x[1] # "photo" => x \in call[Job].before
        /\ call[Job].pc # "verify" => User \notin data
    BY <1>2 DEF JobRuns, JobSeesAll
  <2>2. Quiet' /\ \A x \in data' \ data : x # User /\ x[1] = "photo" /\ x[2] = r
    BY <1>13, <2>1
  <2>3. call[Job].pc \in {"deleteBlobs", "graph"} => \A t \in data : t[1] # "tour"
    <3> SUFFICES ASSUME call[Job].pc \in {"deleteBlobs", "graph"}, NEW t \in data, t[1] = "tour"
                 PROVE  FALSE
      OBVIOUS
    <3>1. t \in Left(Job)
      BY <1>5, <2>1, ItemShape DEF Left, User
    <3> QED BY <1>1, <3>1 DEF PurgesLeaveNothing, PurgeOf, Documents
  <2>4. \A x \in data : x[1] = "photo" => x # User
    BY DEF User
  <2>5. PhotosSeen'
    BY <1>2, <1>14, <2>1, <2>2, <2>3, <2>4 DEF PhotosSeen
  <2> QED BY <1>2, <2>1, <2>2, <2>5 DEF JobSeesAll
<1>16. NothingLeft'
  <2> SUFFICES ASSUME ~identity, ~late PROVE Quiet' /\ \A x \in data' : PhotoOfFailure(x)'
    BY DEF NothingLeft
  <2>1. Quiet /\ \A x \in data : PhotoOfFailure(x)
    BY DEF NothingLeft
  <2>2. Quiet' /\ \A x \in data' \ data : x # User /\ x[1] = "photo" /\ x[2] = r
    BY <1>13, <2>1
  <2>3. \A x \in data : x[1] = "photo" /\ x # User
    BY <2>1 DEF PhotoOfFailure, User
  <2> QED BY <1>14, <2>1, <2>2, <2>3
<1> QED BY <1>6, <1>7, <1>9, <1>10, <1>11, <1>12, <1>15, <1>16

\* A step of the job that deletes only keeps the invariant if the purge and the queue are kept.
LEMMA JobKeeps ==
  ASSUME DeletionInv, NEW pc, NEW todo, NEW toList, NEW answer, NEW before,
         Becomes(Job, "job", pc, todo, toList, answer, before),
         pc \in StepsOf("job"), before \subseteq call[Job].before,
         deletionFaults' \in 0..DeletionMaxFaults, UNCHANGED <<queued, late>>,
         entry' \in BOOLEAN, identity' \in BOOLEAN, data' \subseteq data,
         PurgeOf(Job)', QueueFirst',
         JobRuns, call[Job].pc = "verify" /\ pc # "idle" => User \notin data',
         pc # "idle" => before = call[Job].before,
         JobRuns' /\ ~late /\ PhotosSeen /\ (\A x \in data : x[1] # "photo" => x \in call[Job].before)
           => PhotosSeen',
         identity' = identity \/ (call[Job].pc = "graph" /\ identity' = FALSE)
  PROVE  DeletionInv'
<1> USE DEF DeletionInv
<1>1. Job \notin Request /\ Job \in Worker /\ Request \subseteq Worker
  BY AccountAssumption DEF Worker
<1>2. /\ call'[Job].op = "job" /\ call'[Job].pc = pc /\ call'[Job].before = before
      /\ \A v \in Worker : v # Job => call'[v] = call[v]
      /\ \A r \in Request : call'[r] = call[r]
  BY <1>1 DEF Becomes
<1>3. data \subseteq Item /\ \A w \in Worker : call[w].before \subseteq Item
  BY DEF DeletionTypeOK, Call
<1>4. DeletionTypeOK'
  BY DEF DeletionTypeOK, Becomes
<1>5. StepsMatch'
  BY <1>1, <1>2 DEF StepsMatch
<1>6. \A x \in Item : x # User => (Made(x)' <=> Made(x)) /\ (PhotoOfFailure(x)' <=> PhotoOfFailure(x))
  BY <1>2, ItemShape DEF Made, PhotoOfFailure, DeletionUnderWay
<1>7. AllMade'
  <2>1. \A x \in data' : x # User => Made(x)'
    BY <1>3, <1>6 DEF AllMade
  <2>2. \A w \in Worker : \A x \in call'[w].before : x # User => Made(x)'
    BY <1>1, <1>2, <1>3, <1>6 DEF AllMade
  <2> QED BY <2>1, <2>2 DEF AllMade
<1>8. PurgesLeaveNothing'
  <2> SUFFICES ASSUME NEW v \in Worker, v # Job PROVE PurgeOf(v)'
    BY DEF PurgesLeaveNothing
  <2>1. call'[v] = call[v] /\ PurgeOf(v)
    BY <1>2 DEF PurgesLeaveNothing
  <2>2. Left(v)' \subseteq Left(v)
    BY <2>1 DEF Left
  <2> QED BY <2>1, <2>2 DEF PurgeOf
<1>9. PhotosTakenBack'
  BY <1>2 DEF PhotosTakenBack
<1>10. Quiet' <=> Quiet
  BY <1>2 DEF Quiet, DeletionUnderWay
<1>11. JobSeesAll'
  BY <1>2, <1>10 DEF JobSeesAll, JobRuns
<1>12. NothingLeft'
  <2> SUFFICES ASSUME ~identity', ~late PROVE Quiet' /\ \A x \in data' : PhotoOfFailure(x)'
    BY DEF NothingLeft
  <2>1. CASE ~identity
    <3>1. \A x \in data : x # User
      BY <2>1 DEF NothingLeft, PhotoOfFailure, User
    <3> QED BY <1>3, <1>6, <1>10, <2>1, <3>1 DEF NothingLeft
  <2>2. CASE identity
    <3>1. call[Job].pc = "graph"
      BY <2>2
    <3>2. /\ Quiet /\ PhotosSeen /\ User \notin data
          /\ \A x \in data : x[1] # "photo" => x \in call[Job].before
      BY <3>1 DEF JobSeesAll, JobRuns
    <3>3. Left(Job) = {}
      BY <1>1, <3>1 DEF PurgesLeaveNothing, PurgeOf
    <3>4. \A x \in data : x # User /\ x[1] = "photo"
      BY <3>2, <3>3 DEF Left
    <3>5. \A x \in data : PhotoOfFailure(x)
      BY <3>1, <3>2, <3>4 DEF PhotosSeen
    <3> QED BY <1>3, <1>6, <1>10, <3>2, <3>4, <3>5
  <2> QED BY <2>1, <2>2
<1> QED BY <1>4, <1>5, <1>7, <1>8, <1>9, <1>11, <1>12

\* A request that comes in keeps the invariant: it has stored nothing, and what the queue refuses
\* while the job runs, or what is late, does not count.
LEMMA ComesIn ==
  ASSUME DeletionInv, NEW r \in Request, call[r].pc = "idle",
         NEW op \in Op \ {"none", "job"}, NEW pc \in StepsOf(op), NEW answer, NEW before,
         Becomes(r, op, pc, call[r].todo, call[r].toList, answer, before),
         pc \notin {"rollback", "listDocuments", "deleteDocuments", "deleteBlobs"},
         before \subseteq data,
         UNCHANGED <<entry, identity, data, queued, deletionFaults>>,
         pc # "done" => answer = "none" /\ late' = (late \/ ~identity),
         pc = "done" => answer = "refused" /\ op \in Guarded /\ late' = late,
         op \in Guarded /\ pc # "done" => ~entry
  PROVE  DeletionInv'
<1> USE DEF DeletionInv
<1>1. r # Job /\ r \in Worker /\ Job \in Worker
  BY AccountAssumption DEF Worker
<1>2. /\ call'[r].op = op /\ call'[r].pc = pc /\ call'[r].answer = answer
      /\ call'[r].before = before
      /\ \A v \in Worker : v # r => call'[v] = call[v]
      /\ call'[Job] = call[Job]
  BY <1>1 DEF Becomes
<1>3. call[r].op = "none" /\ pc # "idle"
  BY <1>1, OpOfStep, StepsListed DEF Op, Guarded
<1>4. data \subseteq Item /\ \A w \in Worker : call[w].before \subseteq Item
  BY DEF DeletionTypeOK, Call
<1>5. \A x \in Item : x # User /\ Made(x) =>
        x[2] # r /\ Made(x)' /\ (PhotoOfFailure(x) => PhotoOfFailure(x)')
  <2> SUFFICES ASSUME NEW x \in Item, x # User, Made(x)
               PROVE  x[2] # r /\ Made(x)' /\ (PhotoOfFailure(x) => PhotoOfFailure(x)')
    OBVIOUS
  <2>1. x[2] # r
    BY <1>3, ItemShape DEF Made, Kind
  <2>2. call'[x[2]] = call[x[2]]
    BY <1>2, <2>1, ItemShape DEF Worker
  <2> QED BY <2>1, <2>2 DEF Made, PhotoOfFailure, DeletionUnderWay
<1>6. DeletionTypeOK'
  BY DEF DeletionTypeOK, Becomes
<1>7. StepsMatch'
  BY <1>1, <1>2, <1>3 DEF StepsMatch, Worker
<1>8. AllMade'
  <2>1. \A x \in data' : x # User => Made(x)'
    BY <1>4, <1>5 DEF AllMade
  <2>2. \A w \in Worker : \A x \in call'[w].before : x # User => Made(x)'
    BY <1>2, <1>4, <1>5 DEF AllMade
  <2> QED BY <2>1, <2>2 DEF AllMade
<1>9. PurgesLeaveNothing'
  <2> SUFFICES ASSUME NEW v \in Worker PROVE PurgeOf(v)'
    BY DEF PurgesLeaveNothing
  <2>1. CASE v = r
    BY <1>1, <1>2, <2>1, StepsListed DEF PurgeOf, Guarded, Op
  <2>2. CASE v # r
    BY <1>2, <2>2 DEF PurgesLeaveNothing, PurgeOf, Left
  <2> QED BY <2>1, <2>2
<1>10. PhotosTakenBack'
  BY <1>2 DEF PhotosTakenBack, Worker, Guarded
<1>11. QueueFirst'
  BY <1>2 DEF QueueFirst, QueuedUntilIdentityGone, JobRuns
<1>12. \A x \in data : x # User => Made(x)
  BY DEF AllMade
<1>13. Quiet /\ (entry \/ ~identity) /\ ~late' => Quiet'
  BY <1>2 DEF Quiet, DeletionUnderWay, Worker
<1>14. late => late'
  <2>1. late \in BOOLEAN
    BY DEF DeletionTypeOK
  <2> QED BY <2>1
<1>15. JobSeesAll'
  <2> SUFFICES ASSUME JobRuns', ~late' PROVE JobSeesAll'
    BY DEF JobSeesAll
  <2>1. /\ JobRuns /\ ~late /\ entry /\ Quiet /\ PhotosSeen
        /\ \A x \in data : x[1] # "photo" => x \in call[Job].before
        /\ call[Job].pc # "verify" => User \notin data
    BY <1>2, <1>14 DEF JobRuns, JobSeesAll, QueueFirst
  <2>2. \A x \in data : x[1] = "photo" => x # User
    BY DEF User
  <2>3. PhotosSeen'
    BY <1>2, <1>4, <1>5, <1>12, <2>1, <2>2 DEF PhotosSeen
  <2> QED BY <1>2, <1>13, <2>1, <2>3 DEF JobSeesAll
<1>16. NothingLeft'
  <2> SUFFICES ASSUME ~identity, ~late' PROVE Quiet' /\ \A x \in data : PhotoOfFailure(x)'
    BY DEF NothingLeft
  <2>1. Quiet /\ \A x \in data : PhotoOfFailure(x)
    BY <1>14 DEF NothingLeft
  <2>2. \A x \in data : x # User
    BY <2>1 DEF PhotoOfFailure, User
  <2> QED BY <1>4, <1>5, <1>12, <1>13, <2>1, <2>2
<1> QED BY <1>6, <1>7, <1>8, <1>9, <1>10, <1>11, <1>15, <1>16

-----------------------------------------------------------------------------
\* A handler that fails, is refused by a rejected call or is stopped, and a run of the job that
\* fails, leave what the invariant says of the others.
LEMMA FinishFails ==
  ASSUME DeletionInv, NEW w \in Worker, NEW answer \in {"failed", "crashed"},
         DeletionUnderWay(w), Finish(w, answer), data' \subseteq data,
         UNCHANGED <<entry, identity, deletionHistory>>,
         deletionFaults' \in 0..DeletionMaxFaults
  PROVE  DeletionInv'
<1>1. DeletionTypeOK /\ StepsMatch /\ QueueFirst /\ data \subseteq Item
  BY DEF DeletionInv, DeletionTypeOK
<1>2. UNCHANGED <<queued, late>> /\ answer \in Answer /\ answer # "ok"
  BY DEF deletionHistory, Answer
<1>3. CASE w = Job
  <2>1. Becomes(Job, "job", "idle", {}, {}, answer, {})
    BY <1>1, <1>2, <1>3, FinishBecomes, OpOfStep
  <2>2. call'[Job].pc = "idle" /\ call'[Job].op = "job"
    BY <2>1 DEF Becomes
  <2>3. PurgeOf(Job)'
    BY <2>2 DEF PurgeOf
  <2>4. QueueFirst' /\ ~JobRuns'
    BY <1>1, <1>2, <2>2 DEF QueueFirst, JobRuns, QueuedUntilIdentityGone
  <2>5. JobRuns /\ "idle" \in StepsOf("job") /\ {} \subseteq call[Job].before
    BY <1>3, StepsListed DEF JobRuns, DeletionUnderWay
  <2>6. entry' \in BOOLEAN /\ identity' \in BOOLEAN
    BY <1>1 DEF DeletionTypeOK
  <2> QED BY <1>2, <2>1, <2>3, <2>4, <2>5, <2>6, JobKeeps
<1>4. CASE w # Job
  <2>1. w \in Request /\ Becomes(w, call[w].op, "done", {}, {}, answer, {})
    BY <1>1, <1>2, <1>4, FinishBecomes DEF Worker
  <2>2. call'[w].pc = "done" /\ call'[w].op = call[w].op /\ call'[w].answer = answer
    BY <2>1 DEF Becomes
  <2>3. call[w].op \in Op /\ call[w].op \notin {"none", "job"}
    BY <1>1, <1>4, OpOfStep, StepsListed DEF DeletionUnderWay, StepsMatch
  <2>4. "done" \in StepsOf(call[w].op)
    BY <2>3, StepsListed DEF Op, Guarded
  <2>5. PurgeOf(w)'
    BY <1>2, <2>2 DEF PurgeOf
  <2>6. \A x \in Item : x # User /\ x[2] = w /\ Made(x) => Made(x)'
    BY <2>2 DEF Made
  <2>7. data' \subseteq Item /\ {} \subseteq call[w].before /\ data' \ data = {}
    BY <1>1
  <2> QED BY <1>2, <2>1, <2>4, <2>5, <2>6, <2>7, RequestKeeps
<1> QED BY <1>3, <1>4

\* A purge that goes on or succeeds keeps the invariant, if what it says of the purge is kept.
LEMMA PurgeKeeps ==
  ASSUME DeletionInv, NEW w \in Worker,
         call[w].pc \in {"listDocuments", "deleteDocuments", "deleteBlobs"},
         NEW pc \in {"listDocuments", "deleteDocuments", "deleteBlobs", "graph", "done"},
         NEW todo, NEW toList, NEW answer,
         Becomes(w, call[w].op, pc, todo, toList, answer, call[w].before),
         w = Job => pc # "done", w # Job => pc # "graph",
         data' \subseteq data, UNCHANGED <<entry, identity, deletionHistory>>,
         deletionFaults' \in 0..DeletionMaxFaults,
         PurgeOf(w)', w = Job /\ PhotosSeen => PhotosSeen'
  PROVE  DeletionInv'
<1>1. /\ DeletionTypeOK /\ StepsMatch /\ QueueFirst /\ AllMade /\ JobSeesAll
      /\ data \subseteq Item
  BY DEF DeletionInv, DeletionTypeOK
<1>2. UNCHANGED <<queued, late>>
  BY DEF deletionHistory
<1>3. call[w].op \in {"deleteAccount", "job"}
  BY <1>1, OpOfStep
<1>4. CASE w = Job
  <2>1. call[w].op = "job" /\ pc \in StepsOf("job") /\ pc # "idle"
    BY <1>1, <1>4, OpOfStep, StepsListed
  <2>2. JobRuns /\ call[Job].pc # "verify"
    BY <1>4 DEF JobRuns
  <2>3. call'[Job].pc = pc
    BY <1>4 DEF Becomes
  <2>4. QueueFirst'
    BY <1>1, <1>2, <2>2, <2>3 DEF QueueFirst, JobRuns, QueuedUntilIdentityGone
  <2>5. entry' \in BOOLEAN /\ identity' \in BOOLEAN
    BY <1>1 DEF DeletionTypeOK
  <2>6. Becomes(Job, "job", pc, todo, toList, answer, call[Job].before)
    BY <1>4, <2>1
  <2> QED BY <1>2, <1>4, <2>1, <2>2, <2>4, <2>5, <2>6, JobKeeps
<1>5. CASE w # Job
  <2>1. w \in Request /\ call[w].op = "deleteAccount" /\ pc \in StepsOf("deleteAccount")
    BY <1>1, <1>3, <1>5, OpOfStep, StepsListed DEF Worker
  <2>2. DeletionUnderWay(w)
    BY DEF DeletionUnderWay
  <2>3. \A x \in Item : x # User /\ x[2] = w => ~Made(x)
    BY <2>1, ItemShape DEF Made, Kind
  <2>4. \A x \in data' : x # User => x[2] # w
    BY <1>1, <2>3 DEF AllMade
  <2>5. data' \subseteq Item /\ data' \ data = {}
    BY <1>1
  <2>6. pc \in StepsOf(call[w].op) /\ call[w].before \subseteq call[w].before
    BY <2>1
  <2>7. call[w].op # "uploadImage"
    BY <2>1
  <2> QED BY <1>2, <2>1, <2>2, <2>3, <2>4, <2>5, <2>6, <2>7, RequestKeeps
<1> QED BY <1>4, <1>5

-----------------------------------------------------------------------------
\* The steps of a purge.

\* What is listed is to be deleted.
LEMMA ListDocumentsKeeps ==
  ASSUME DeletionInv, NEW w \in Worker, NEW kind \in Kind, ListDocuments(w, kind)
  PROVE  DeletionInv'
<1> DEFINE left == call[w].toList \ {kind}
           todo == call[w].todo \cup Listed(kind) \cup (IF left = {} THEN {User} ELSE {})
           pc == IF left = {} THEN "deleteDocuments" ELSE call[w].pc
<1>1. /\ DeletionTypeOK /\ PurgeOf(w) /\ StepsMatch /\ data \subseteq Item
      /\ call[w].pc = "listDocuments" /\ kind \in call[w].toList
      /\ call' = [call EXCEPT ![w].toList = left, ![w].todo = todo, ![w].pc = pc]
      /\ UNCHANGED <<entry, identity, data, deletionHistory, deletionFaults>>
  BY DEF DeletionInv, DeletionTypeOK, PurgesLeaveNothing, ListDocuments
<1>2. /\ call[w].answer \in Answer /\ call[w].todo \subseteq Item /\ call[w].toList \subseteq Kind
      /\ pc \in DeletionPc /\ pc \in {"listDocuments", "deleteDocuments"}
  BY <1>1 DEF DeletionTypeOK, Call, DeletionPc
<1>3. todo \in SUBSET Item /\ left \in SUBSET Kind
  BY <1>1, <1>2 DEF Listed, Item
<1>4. left = {} => pc = "deleteDocuments"
  OBVIOUS
<1>5. left # {} => pc = "listDocuments"
  BY <1>1
<1>6. \A x \in data : x[1] \in call[w].toList \/ x \in call[w].todo => x[1] \in left \/ x \in todo
  BY DEF Listed
<1> HIDE DEF left, todo, pc
<1>7. Becomes(w, call[w].op, pc, todo, left, call[w].answer, call[w].before)
  BY <1>1, <1>2, <1>3, PurgeBecomes
<1>8. /\ call'[w].pc = pc /\ call'[w].todo = todo /\ call'[w].toList = left
      /\ call'[w].answer = call[w].answer /\ call'[w].before = call[w].before
      /\ call'[w].op = call[w].op
  BY <1>7 DEF Becomes
<1>9. Left(w)' = Left(w)
  BY <1>1, <1>8 DEF Left
<1>10. ~(call[w].op = "deleteAccount" /\ call[w].answer = "ok")
  BY <1>1 DEF PurgeOf
<1>11. \A x \in Left(w) : x[1] \in Documents => x[1] \in left \/ x \in todo
  BY <1>1, <1>6 DEF PurgeOf, Left
<1>12. PurgeOf(w)'
  BY <1>2, <1>4, <1>5, <1>8, <1>9, <1>10, <1>11 DEF PurgeOf
<1>13. w = Job /\ PhotosSeen => PhotosSeen'
  BY <1>2, <1>8 DEF PhotosSeen
<1>14. deletionFaults' \in 0..DeletionMaxFaults
  BY <1>1 DEF DeletionTypeOK
<1> QED BY <1>1, <1>2, <1>7, <1>12, <1>13, <1>14, PurgeKeeps

\* One document less to delete, gone or not.
LEMMA DocumentKeeps ==
  ASSUME DeletionInv, NEW w \in Worker, NEW x \in Item, NEW answer,
         call[w].pc = "deleteDocuments", DocumentSettled(w, x, answer), data' \subseteq data,
         answer = "failed" \/ (answer = call[w].answer /\ x \notin data'),
         UNCHANGED <<entry, identity, deletionHistory>>,
         deletionFaults' \in 0..DeletionMaxFaults
  PROVE  DeletionInv'
<1> DEFINE left == call[w].todo \ {x}
<1>1. DeletionTypeOK /\ PurgeOf(w) /\ DeletionUnderWay(w)
  BY DEF DeletionInv, PurgesLeaveNothing, DeletionUnderWay
<1>2. answer \in Answer
  BY <1>1 DEF DeletionTypeOK, Call, Answer
<1>3. ~(call[w].op = "deleteAccount" /\ answer = "ok")
  BY <1>1 DEF PurgeOf
<1>4. answer # "failed" => \A y \in Left(w) : y[1] \in Documents /\ y \in data' => y \in left
  BY <1>1 DEF PurgeOf
<1>5. CASE left # {} /\ Becomes(w, call[w].op, call[w].pc, left, call[w].toList, answer,
                                call[w].before)
  <2>1. /\ call'[w].pc = "deleteDocuments" /\ call'[w].todo = left
        /\ call'[w].answer = answer /\ call'[w].before = call[w].before
        /\ call'[w].op = call[w].op
    BY <1>5 DEF Becomes
  <2>2. Left(w)' \subseteq Left(w) /\ Left(w)' \subseteq data'
    BY <2>1 DEF Left
  <2>3. PurgeOf(w)'
    BY <1>3, <1>4, <2>1, <2>2 DEF PurgeOf
  <2>4. w = Job /\ PhotosSeen => PhotosSeen'
    BY <2>1 DEF PhotosSeen
  <2> QED BY <1>5, <2>3, <2>4, PurgeKeeps
<1>6. CASE answer = "failed" /\ Finish(w, "failed")
  BY <1>1, <1>6, FinishFails
<1>7. CASE /\ left = {} /\ answer # "failed"
           /\ Becomes(w, call[w].op, "deleteBlobs", {}, {"gpx", "photo"}, call[w].answer,
                      call[w].before)
  <2>1. /\ call'[w].pc = "deleteBlobs" /\ call'[w].toList = {"gpx", "photo"}
        /\ call'[w].answer = answer /\ call'[w].before = call[w].before
        /\ call'[w].op = call[w].op
    BY <1>7 DEF Becomes
  <2>2. Left(w)' \subseteq Left(w) /\ Left(w)' \subseteq data'
    BY <2>1 DEF Left
  <2>3. \A y \in Left(w)' : y[1] \notin Documents
    BY <1>4, <1>7, <2>2
  <2>4. \A y \in Left(w)' : y[1] \in {"gpx", "photo"}
    <3>1. Left(w)' \subseteq Item \ {User}
      BY <1>1, <2>2 DEF DeletionTypeOK, Left
    <3> QED BY <2>3, <3>1, ItemShape DEF Kind, Documents
  <2>5. PurgeOf(w)'
    BY <1>3, <2>1, <2>3, <2>4 DEF PurgeOf
  <2>6. w = Job /\ PhotosSeen => PhotosSeen'
    BY <2>1 DEF PhotosSeen
  <2> QED BY <1>7, <2>5, <2>6, PurgeKeeps
<1> QED BY <1>1, <1>2, <1>5, <1>6, <1>7, DocumentSettledBecomes

\* One container listed, or one blob less to delete.
LEMMA BlobsKeep ==
  ASSUME DeletionInv, NEW w \in Worker, NEW todo \in SUBSET Item, NEW toList \in SUBSET Kind,
         NEW answer, call[w].pc = "deleteBlobs", BlobsSettled(w, todo, toList, answer),
         data' \subseteq data,
         \/ answer = "failed"
         \/ /\ answer = call[w].answer
            /\ \A x \in data' : x[1] \in call[w].toList \/ x \in call[w].todo =>
                                  x[1] \in toList \/ x \in todo,
         UNCHANGED <<entry, identity, deletionHistory>>,
         deletionFaults' \in 0..DeletionMaxFaults
  PROVE  DeletionInv'
<1>1. DeletionTypeOK /\ PurgeOf(w) /\ DeletionUnderWay(w) /\ data \subseteq Item
  BY DEF DeletionInv, DeletionTypeOK, PurgesLeaveNothing, DeletionUnderWay
<1>2. answer \in Answer
  BY <1>1 DEF DeletionTypeOK, Call, Answer
<1>3. ~(call[w].op = "deleteAccount" /\ answer = "ok")
  BY <1>1 DEF PurgeOf
<1>4. \A y \in Left(w) \cap data' :
         y[1] \notin Documents /\ (answer # "failed" => y[1] \in toList \/ y \in todo)
  BY <1>1 DEF PurgeOf
<1>5. ASSUME \A v \in Worker : v # w => call'[v] = call[v], w = Job
      PROVE  \A y \in data' : y[1] = "photo" /\ PhotoOfFailure(y) => PhotoOfFailure(y)'
  <2> SUFFICES ASSUME NEW y \in data', y[1] = "photo", PhotoOfFailure(y) PROVE PhotoOfFailure(y)'
    OBVIOUS
  <2>1. y[2] \in Request
    BY <1>1, ItemShape DEF User
  <2>2. call'[y[2]] = call[y[2]]
    BY <1>5, <2>1, AccountAssumption DEF Worker
  <2> QED BY <2>2 DEF PhotoOfFailure, DeletionUnderWay
<1>6. ASSUME w = Job, PhotosSeen, \A v \in Worker : v # w => call'[v] = call[v], answer # "failed"
      PROVE  \A y \in data' : y[1] = "photo" =>
               "photo" \in toList \/ y \in todo \/ PhotoOfFailure(y)'
  <2> SUFFICES ASSUME NEW y \in data', y[1] = "photo", ~PhotoOfFailure(y)'
               PROVE  "photo" \in toList \/ y \in todo
    OBVIOUS
  <2>1. "photo" \in call[w].toList \/ y \in call[w].todo
    BY <1>5, <1>6 DEF PhotosSeen
  <2> QED BY <1>6, <2>1
<1>7. CASE Becomes(w, call[w].op, call[w].pc, todo, toList, answer, call[w].before)
  <2>1. /\ call'[w].pc = "deleteBlobs" /\ call'[w].todo = todo /\ call'[w].toList = toList
        /\ call'[w].answer = answer /\ call'[w].before = call[w].before
        /\ call'[w].op = call[w].op /\ \A v \in Worker : v # w => call'[v] = call[v]
    BY <1>7 DEF Becomes
  <2>2. Left(w)' = Left(w) \cap data'
    BY <2>1 DEF Left
  <2>3. PurgeOf(w)'
    BY <1>3, <1>4, <2>1, <2>2 DEF PurgeOf
  <2>4. w = Job /\ PhotosSeen => PhotosSeen'
    BY <1>6, <2>1 DEF PhotosSeen
  <2> QED BY <1>7, <2>3, <2>4, PurgeKeeps
<1>8. CASE answer = "failed" /\ Finish(w, "failed")
  BY <1>1, <1>8, FinishFails
<1>9. ASSUME todo = {}, toList = {}, answer # "failed" PROVE Left(w) \cap data' = {}
  BY <1>4, <1>9
<1>10. CASE /\ todo = {} /\ toList = {} /\ answer # "failed" /\ w = Job
            /\ Becomes(w, call[w].op, "graph", {}, {}, call[w].answer, call[w].before)
  <2>1. /\ call'[w].pc = "graph" /\ call'[w].before = call[w].before
        /\ call'[w].answer = answer
        /\ call'[w].op = call[w].op /\ \A v \in Worker : v # w => call'[v] = call[v]
    BY <1>10 DEF Becomes
  <2>2. Left(w)' = {}
    BY <1>9, <1>10, <2>1 DEF Left
  <2>3. PurgeOf(w)'
    BY <1>3, <2>1, <2>2 DEF PurgeOf
  <2>4. PhotosSeen => PhotosSeen'
    BY <1>6, <1>10, <2>1 DEF PhotosSeen
  <2> QED BY <1>10, <2>3, <2>4, PurgeKeeps
<1>11. CASE todo = {} /\ toList = {} /\ answer # "failed" /\ w # Job /\ Finish(w, "ok")
  <2>1. Becomes(w, call[w].op, "done", {}, {}, "ok", call[w].before)
    BY <1>1, <1>11, FinishBecomes DEF Answer
  <2>2. call'[w].pc = "done" /\ call'[w].before = call[w].before
    BY <2>1 DEF Becomes
  <2>3. Left(w)' = {}
    BY <1>9, <1>11, <2>2 DEF Left
  <2>4. PurgeOf(w)'
    BY <2>2, <2>3 DEF PurgeOf
  <2> QED BY <1>11, <2>1, <2>4, PurgeKeeps
<1> QED BY <1>1, <1>2, <1>7, <1>8, <1>10, <1>11, BlobsSettledBecomes

-----------------------------------------------------------------------------
\* The steps of a request that is no DeleteAccount.

\* A handler that goes on within its steps keeps the invariant.
LEMMA HandlerKeeps ==
  ASSUME DeletionInv, NEW r \in Request, call[r].op \in Guarded \cup {"uploadImage"},
         DeletionUnderWay(r),
         NEW pc \in StepsOf(call[r].op), NEW todo, NEW toList, NEW answer, NEW before,
         Becomes(r, call[r].op, pc, todo, toList, answer, before),
         before \subseteq call[r].before,
         UNCHANGED <<entry, identity, deletionHistory>>,
         deletionFaults' \in 0..DeletionMaxFaults, data' \subseteq Item,
         \A x \in data' \ data : \/ x = User /\ call[r].op \in Guarded
                                 \/ /\ x # User /\ x[2] = r /\ ~Made(x) /\ Made(x)'
                                    /\ x[1] = "photo" \/ call[r].op \in Guarded,
         pc \notin {"storeGpx", "storePhoto"}, pc = "createTrack" => call[r].pc = "storeGpx",
         pc = "createTour" => call[r].pc = "createTrack",
         call[r].op = "uploadImage" =>
           /\ pc = "rollback" => todo = {<<"photo", r>>}
           /\ pc = "done" => \/ answer \in {"failed", "crashed"} \/ <<"photo", r>> \notin data'
                             \/ answer = "ok" /\ \E t \in data : t[1] = "tour"
  PROVE  DeletionInv'
<1>1. DeletionTypeOK /\ StepsMatch /\ AllMade /\ data \subseteq Item
  BY DEF DeletionInv, DeletionTypeOK
<1>2. UNCHANGED <<queued, late>>
  BY DEF deletionHistory
<1>3. call'[r].op = call[r].op /\ call'[r].pc = pc
  BY DEF Becomes
<1>4. PurgeOf(r)'
  BY <1>3, StepsListed DEF PurgeOf, Guarded
<1>5. \A x \in Item : x # User /\ x[2] = r /\ Made(x) => Made(x)'
  BY <1>3 DEF Made
<1>6. \A x \in data' : x # User /\ x[1] = "photo" /\ x[2] = r =>
         \/ pc # "done" \/ answer \in {"failed", "crashed"} \/ \E t \in data : t[1] = "tour"
  <2> SUFFICES ASSUME NEW x \in data', x # User, x[1] = "photo", x[2] = r,
                      pc = "done", answer \notin {"failed", "crashed"},
                      ~ \E t \in data : t[1] = "tour"
               PROVE  FALSE
    OBVIOUS
  <2>1. x = <<"photo", r>>
    BY ItemShape
  <2>2. call[r].op # "uploadImage"
    BY <2>1
  <2>3. Made(x) \/ Made(x)'
    BY DEF AllMade, DeletionInv
  <2> QED BY <1>3, <2>2, <2>3 DEF Made
<1> QED BY <1>2, <1>4, <1>5, <1>6, RequestKeeps

\* GetMe and UpdateProfile.
LEMMA ProfileKeeps ==
  ASSUME DeletionInv, NEW w \in Worker, ReadProfile(w) \/ CreateProfile(w) \/ UpsertProfile(w)
  PROVE  DeletionInv'
<1>1. /\ DeletionTypeOK /\ StepsMatch /\ data \subseteq Item
      /\ call[w].pc \in {"readProfile", "createProfile", "upsertProfile"}
      /\ UNCHANGED <<entry, identity, deletionHistory, deletionFaults>>
      /\ data' = data \/ data' = data \cup {User}
      /\ Finish(w, "ok") \/ (call[w].pc = "readProfile" /\ Goto(w, "createProfile"))
  BY DEF DeletionInv, DeletionTypeOK, ReadProfile, CreateProfile, UpsertProfile
<1>2. /\ w \in Request /\ w # Job /\ call[w].op \in {"getMe", "updateProfile"}
      /\ call[w].pc = "readProfile" => call[w].op = "getMe"
  BY <1>1, OpOfStep, StepsListed
<1>3. /\ DeletionUnderWay(w) /\ deletionFaults' \in 0..DeletionMaxFaults /\ data' \subseteq Item
      /\ call[w].op \in Guarded
      /\ \A x \in data' \ data : x = User
  BY <1>1, <1>2 DEF DeletionUnderWay, DeletionTypeOK, Item, Guarded
<1>4. CASE Finish(w, "ok")
  <2>1. Becomes(w, call[w].op, "done", {}, {}, "ok", call[w].before)
    BY <1>1, <1>2, <1>4, FinishBecomes DEF Answer
  <2>2. "done" \in StepsOf(call[w].op) /\ call[w].before \subseteq call[w].before
    BY <1>2, StepsListed
  <2> QED BY <1>1, <1>2, <1>3, <2>1, <2>2, HandlerKeeps
<1>5. CASE call[w].pc = "readProfile" /\ Goto(w, "createProfile")
  <2>1. Becomes(w, call[w].op, "createProfile", call[w].todo, call[w].toList, call[w].answer,
                call[w].before)
    BY <1>1, <1>5, GotoBecomes DEF DeletionPc
  <2>2. "createProfile" \in StepsOf(call[w].op) /\ call[w].before \subseteq call[w].before
    BY <1>2, <1>5, StepsListed
  <2> QED BY <1>1, <1>2, <1>3, <2>1, <2>2, HandlerKeeps
<1> QED BY <1>1, <1>4, <1>5

\* UploadTour stores its GPX, then its track, then its tour; UploadImage its photo.
LEMMA StoreKeeps ==
  ASSUME DeletionInv, NEW w \in Worker,
         StoreGpx(w) \/ CreateTrack(w) \/ CreateTour(w) \/ StorePhoto(w)
  PROVE  DeletionInv'
<1>1. DeletionTypeOK /\ StepsMatch /\ data \subseteq Item
  BY DEF DeletionInv, DeletionTypeOK
<1>2. PICK kind \in Kind, next \in {"createTrack", "createTour", "done", "append"} :
         /\ data' = data \cup {<<kind, w>>}
         /\ UNCHANGED <<entry, identity, deletionHistory, deletionFaults>>
         /\ \/ /\ kind = "gpx" /\ call[w].pc = "storeGpx" /\ next = "createTrack"
               /\ Goto(w, next)
            \/ /\ kind = "track" /\ call[w].pc = "createTrack" /\ next = "createTour"
               /\ Goto(w, next)
            \/ /\ kind = "tour" /\ call[w].pc = "createTour" /\ next = "done"
               /\ Finish(w, "ok")
            \/ /\ kind = "photo" /\ call[w].pc = "storePhoto" /\ next = "append"
               /\ Goto(w, next)
  BY DEF StoreGpx, CreateTrack, CreateTour, StorePhoto, Store, Kind
<1>3. /\ w \in Request /\ w # Job
      /\ kind = "photo" => call[w].op = "uploadImage"
      /\ kind # "photo" => call[w].op = "uploadTour"
      /\ DeletionUnderWay(w)
  BY <1>1, <1>2, OpOfStep, StepsListed DEF DeletionUnderWay
<1>4. PICK todo, toList, answer :
        Becomes(w, call[w].op, next, todo, toList, answer, call[w].before)
  <2>1. CASE Finish(w, "ok") /\ next = "done"
    BY <1>1, <1>3, <2>1, FinishBecomes DEF Answer
  <2>2. CASE Goto(w, next)
    BY <1>1, <2>2, GotoBecomes DEF DeletionPc
  <2> QED BY <1>2, <2>1, <2>2
<1>5. call'[w].op = call[w].op /\ call'[w].pc = next
  BY <1>4 DEF Becomes
<1>6. /\ deletionFaults' \in 0..DeletionMaxFaults /\ data' \subseteq Item
      /\ call[w].op \in Guarded \cup {"uploadImage"}
      /\ kind # "photo" => call[w].op \in Guarded
      /\ next \in StepsOf(call[w].op) /\ call[w].before \subseteq call[w].before
  BY <1>1, <1>2, <1>3, StepsListed DEF DeletionTypeOK, Item, Guarded
<1>7. ~Made(<<kind, w>>) /\ Made(<<kind, w>>)' /\ <<kind, w>> # User
  BY <1>2, <1>3, <1>5, ItemsOf DEF Made
<1>8. \A x \in data' \ data : /\ x # User /\ x[2] = w /\ ~Made(x) /\ Made(x)'
                              /\ x[1] = "photo" \/ call[w].op \in Guarded
  BY <1>2, <1>6, <1>7
<1> QED BY <1>2, <1>3, <1>4, <1>6, <1>8, HandlerKeeps

\* A photo is appended to its tour, or taken back.
LEMMA AppendKeeps ==
  ASSUME DeletionInv, NEW w \in Worker, AppendPhoto(w)
  PROVE  DeletionInv'
<1>1. /\ DeletionTypeOK /\ StepsMatch /\ data \subseteq Item
      /\ call[w].pc = "append" /\ UNCHANGED <<entry, identity, data, deletionHistory, deletionFaults>>
      /\ \/ <<"tour", call[w].tour>> \in data /\ Finish(w, "ok")
         \/ RollBack(w, {<<"photo", w>>}, "refused")
  BY DEF DeletionInv, DeletionTypeOK, AppendPhoto
<1>2. w \in Request /\ w # Job /\ call[w].op = "uploadImage"
  BY <1>1, OpOfStep, StepsListed
<1>3. DeletionUnderWay(w) /\ deletionFaults' \in 0..DeletionMaxFaults /\ data' = data
  BY <1>1 DEF DeletionUnderWay, DeletionTypeOK
<1>4. "done" \in StepsOf(call[w].op) /\ "rollback" \in StepsOf(call[w].op)
      /\ call[w].before \subseteq call[w].before
  BY <1>2, StepsListed
<1>5. CASE <<"tour", call[w].tour>> \in data /\ Finish(w, "ok")
  <2>1. Becomes(w, call[w].op, "done", {}, {}, "ok", call[w].before)
    BY <1>1, <1>2, <1>5, FinishBecomes DEF Answer
  <2>2. \E t \in data : t[1] = "tour"
    BY <1>5
  <2> QED BY <1>1, <1>2, <1>3, <1>4, <2>1, <2>2, HandlerKeeps
<1>6. CASE RollBack(w, {<<"photo", w>>}, "refused")
  <2>1. {<<"photo", w>>} \in SUBSET Item
    BY <1>2 DEF Item, Kind
  <2>2. Becomes(w, call[w].op, "rollback", {<<"photo", w>>}, call[w].toList, "refused",
                call[w].before)
    BY <1>1, <1>6, <2>1, RollBackBecomes DEF Answer
  <2> QED BY <1>1, <1>2, <1>3, <1>4, <2>2, HandlerKeeps
<1> QED BY <1>1, <1>5, <1>6

\* What is taken back settles, deleted or not.
LEMMA SettledKeeps ==
  ASSUME DeletionInv, NEW w \in Worker, NEW x \in Item, x \in call[w].todo, NEW answer,
         call[w].pc = "rollback", Settled(w, x, answer), data' \subseteq data,
         answer = "failed" \/ (answer = call[w].answer /\ x \notin data'),
         UNCHANGED <<entry, identity, deletionHistory>>,
         deletionFaults' \in 0..DeletionMaxFaults
  PROVE  DeletionInv'
<1> DEFINE left == call[w].todo \ {x}
<1>1. DeletionTypeOK /\ StepsMatch /\ PhotosTakenBack /\ data \subseteq Item
  BY DEF DeletionInv, DeletionTypeOK
<1>2. /\ w \in Request /\ w # Job /\ call[w].op \in {"uploadTour", "uploadImage"}
      /\ call[w].op \in Guarded \cup {"uploadImage"} /\ DeletionUnderWay(w)
  BY <1>1, OpOfStep, StepsListed DEF DeletionUnderWay, Guarded
<1>3. call[w].op = "uploadImage" => x = <<"photo", w>> /\ left = {}
  BY <1>1, <1>2 DEF PhotosTakenBack
<1>4. "done" \in StepsOf(call[w].op) /\ "rollback" \in StepsOf(call[w].op)
      /\ call[w].before \subseteq call[w].before /\ {} \subseteq call[w].before
  BY <1>2, StepsListed
<1>5. /\ answer \in Answer /\ left \in SUBSET Item /\ call[w].toList \in SUBSET Kind
      /\ call[w].pc \in DeletionPc /\ data' \subseteq Item /\ data' \ data = {}
  BY <1>1 DEF DeletionTypeOK, Call, Answer
<1>6. CASE left = {}
  <2>1. Finish(w, answer)
    BY <1>6 DEF Settled
  <2>2. PICK before : /\ Becomes(w, call[w].op, "done", {}, {}, answer, before)
                      /\ before \subseteq call[w].before
    BY <1>1, <1>2, <1>4, <1>5, <2>1, FinishBecomes
  <2> QED BY <1>2, <1>3, <1>4, <1>5, <2>2, HandlerKeeps
<1>7. CASE left # {}
  <2>1. call' = [call EXCEPT ![w].todo = left, ![w].answer = answer]
    BY <1>7 DEF Settled
  <2> HIDE DEF left
  <2>2. Becomes(w, call[w].op, "rollback", left, call[w].toList, answer, call[w].before)
    BY <1>1, <1>5, <2>1, PurgeBecomes
  <2> QED BY <1>2, <1>3, <1>4, <1>5, <1>7, <2>2, HandlerKeeps
<1> QED BY <1>6, <1>7

-----------------------------------------------------------------------------
\* Requests that come in, and a DeleteAccount that queues its rider.

\* The shapes in which a request comes in.
LEMMA BeginBecomes ==
  ASSUME DeletionTypeOK, NEW r \in Request, NEW op \in Op, NEW pc \in DeletionPc,
         NEW tour \in Request, NEW answer \in Answer, NEW before \in SUBSET Item,
         \/ /\ answer = call[r].answer /\ before = call[r].before
            /\ \/ call' = [call EXCEPT ![r].op = op, ![r].pc = pc]
               \/ call' = [call EXCEPT ![r].op = op, ![r].pc = pc, ![r].tour = tour]
         \/ /\ before = call[r].before
            /\ call' = [call EXCEPT ![r].op = op, ![r].pc = pc, ![r].answer = answer]
         \/ /\ answer = call[r].answer
            /\ call' = [call EXCEPT ![r].op = op, ![r].pc = pc, ![r].before = before]
  PROVE  Becomes(r, op, pc, call[r].todo, call[r].toList, answer, before)
<1>1. r \in Worker /\ tour \in Worker /\ call[r] \in Call
  BY DEF DeletionTypeOK, Worker
<1>2. ASSUME NEW c \in Call, call' = [call EXCEPT ![r] = c],
             c.op = op, c.pc = pc, c.todo = call[r].todo, c.toList = call[r].toList,
             c.answer = answer, c.before = before
      PROVE  Becomes(r, op, pc, call[r].todo, call[r].toList, answer, before)
  <2>1. call'[r] = c /\ \A v \in Worker : v # r => call'[v] = call[v]
    BY <1>1, <1>2 DEF DeletionTypeOK
  <2>2. call' \in [Worker -> Call]
    BY <1>2 DEF DeletionTypeOK
  <2> QED BY <1>2, <2>1, <2>2 DEF Becomes
<1>3. CASE /\ answer = call[r].answer /\ before = call[r].before
              /\ call' = [call EXCEPT ![r].op = op, ![r].pc = pc]
  <2> DEFINE c == [call[r] EXCEPT !.op = op, !.pc = pc]
  <2>1. call' = [call EXCEPT ![r] = c]
    BY <1>1, <1>3 DEF DeletionTypeOK
  <2>2. c \in Call /\ c.todo = call[r].todo /\ c.toList = call[r].toList
    BY <1>1 DEF Call
  <2>3. /\ c.op = op /\ c.pc = pc /\ c.answer = answer /\ c.before = before
    BY <1>1, <1>3 DEF Call
  <2> HIDE DEF c
  <2> QED BY <1>2, <2>1, <2>2, <2>3
<1>4. CASE /\ before = call[r].before
              /\ call' = [call EXCEPT ![r].op = op, ![r].pc = pc, ![r].answer = answer]
  <2> DEFINE c == [call[r] EXCEPT !.op = op, !.pc = pc, !.answer = answer]
  <2>1. call' = [call EXCEPT ![r] = c]
    BY <1>1, <1>4 DEF DeletionTypeOK
  <2>2. c \in Call /\ c.todo = call[r].todo /\ c.toList = call[r].toList
    BY <1>1 DEF Call
  <2>3. /\ c.op = op /\ c.pc = pc /\ c.answer = answer /\ c.before = before
    BY <1>1, <1>4 DEF Call
  <2> HIDE DEF c
  <2> QED BY <1>2, <2>1, <2>2, <2>3
<1>5. CASE /\ answer = call[r].answer /\ before = call[r].before
              /\ call' = [call EXCEPT ![r].op = op, ![r].pc = pc, ![r].tour = tour]
  <2> DEFINE c == [call[r] EXCEPT !.op = op, !.pc = pc, !.tour = tour]
  <2>1. call' = [call EXCEPT ![r] = c]
    BY <1>1, <1>5 DEF DeletionTypeOK
  <2>2. c \in Call /\ c.todo = call[r].todo /\ c.toList = call[r].toList
    BY <1>1 DEF Call
  <2>3. /\ c.op = op /\ c.pc = pc /\ c.answer = answer /\ c.before = before
    BY <1>1, <1>5 DEF Call
  <2> HIDE DEF c
  <2> QED BY <1>2, <2>1, <2>2, <2>3
<1>6. CASE /\ answer = call[r].answer
              /\ call' = [call EXCEPT ![r].op = op, ![r].pc = pc, ![r].before = before]
  <2> DEFINE c == [call[r] EXCEPT !.op = op, !.pc = pc, !.before = before]
  <2>1. call' = [call EXCEPT ![r] = c]
    BY <1>1, <1>6 DEF DeletionTypeOK
  <2>2. c \in Call /\ c.todo = call[r].todo /\ c.toList = call[r].toList
    BY <1>1 DEF Call
  <2>3. /\ c.op = op /\ c.pc = pc /\ c.answer = answer /\ c.before = before
    BY <1>1, <1>6 DEF Call
  <2> HIDE DEF c
  <2> QED BY <1>2, <2>1, <2>2, <2>3
<1> QED BY <1>3, <1>4, <1>5, <1>6

\* A request that begins keeps it.
LEMMA BeginKeeps ==
  ASSUME DeletionInv, NEW r \in Request, BeginAny(r)
  PROVE  DeletionInv'
<1>1. /\ DeletionTypeOK /\ StepsMatch /\ r \in Worker /\ call[r] \in Call
      /\ AllMade /\ data \subseteq Item /\ call[r].pc = "idle"
  BY DEF DeletionInv, DeletionTypeOK, Worker, BeginAny, BeginGetMe, BeginUpdateProfile,
         BeginUploadTour, BeginGuarded, Begin, BeginDeleteAccount, BeginUploadImage
<1>2. /\ call[r].answer = "none" /\ call[r].op = "none" /\ call[r].before = {}
      /\ call[r].before \in SUBSET Item /\ call[r].answer \in Answer
  BY <1>1, OpOfStep, AccountAssumption DEF StepsMatch, Call
<1>3. ASSUME NEW op \in Guarded, NEW pc \in {"readProfile", "upsertProfile", "storeGpx"},
             pc \in StepsOf(op), BeginGuarded(r, op, pc)
      PROVE  DeletionInv'
  <2>1. op \in Op \ {"none", "job"} /\ pc \in DeletionPc /\ pc # "done" /\ "refused" \in Answer
        /\ "done" \in StepsOf(op) /\ "done" \in DeletionPc /\ op \in Op
    BY <1>3, StepsListed DEF Op, Guarded, DeletionPc, Answer
  <2>2. CASE entry
    <3>1. /\ call' = [call EXCEPT ![r].op = op, ![r].pc = "done", ![r].answer = "refused"]
          /\ UNCHANGED <<entry, identity, data, queued, late, deletionFaults>>
      BY <1>3, <2>2 DEF BeginGuarded, deletionHistory
    <3>2. Becomes(r, op, "done", call[r].todo, call[r].toList, "refused", call[r].before)
      BY <1>1, <1>2, <2>1, <3>1, BeginBecomes
    <3>3. call[r].before \subseteq data
      BY <1>2
    <3> QED BY <1>1, <1>3, <2>1, <3>1, <3>2, <3>3, ComesIn
  <2>3. CASE ~entry
    <3>1. /\ call' = [call EXCEPT ![r].op = op, ![r].pc = pc]
          /\ late' = (late \/ ~identity)
          /\ UNCHANGED <<entry, identity, data, queued, deletionFaults>>
      BY <1>3, <2>3 DEF BeginGuarded, Begin
    <3>2. Becomes(r, op, pc, call[r].todo, call[r].toList, "none", call[r].before)
      BY <1>1, <1>2, <2>1, <3>1, BeginBecomes
    <3>3. call[r].before \subseteq data
      BY <1>2
    <3> QED BY <1>1, <1>3, <2>1, <2>3, <3>1, <3>2, <3>3, ComesIn
  <2> QED BY <2>2, <2>3
<1>4. CASE BeginGetMe(r) \/ BeginUpdateProfile(r) \/ BeginUploadTour(r)
  BY <1>3, <1>4, StepsListed DEF BeginGetMe, BeginUpdateProfile, BeginUploadTour, Guarded
<1>5. CASE BeginDeleteAccount(r)
  <2>1. /\ call' = [call EXCEPT ![r].op = "deleteAccount", ![r].pc = "queue", ![r].before = data]
        /\ late' = (late \/ ~identity)
        /\ UNCHANGED <<entry, identity, data, queued, deletionFaults>>
    BY <1>5 DEF BeginDeleteAccount
  <2>2. /\ "deleteAccount" \in Op \ {"none", "job"} /\ "queue" \in DeletionPc
        /\ "queue" \in StepsOf("deleteAccount") /\ "deleteAccount" \notin Guarded
    BY StepsListed DEF Op, Guarded, DeletionPc
  <2>3. Becomes(r, "deleteAccount", "queue", call[r].todo, call[r].toList, "none", data)
    BY <1>1, <1>2, <2>1, <2>2, BeginBecomes
  <2> QED BY <1>1, <2>1, <2>2, <2>3, ComesIn
<1>6. ASSUME NEW t \in Request, BeginUploadImage(r, t)
      PROVE  DeletionInv'
  <2>1. /\ call' = [call EXCEPT ![r].op = "uploadImage", ![r].pc = "storePhoto", ![r].tour = t]
        /\ late' = (late \/ ~identity)
        /\ UNCHANGED <<entry, identity, data, queued, deletionFaults>>
    BY <1>6 DEF BeginUploadImage
  <2>2. /\ "uploadImage" \in Op \ {"none", "job"} /\ "storePhoto" \in DeletionPc
        /\ "storePhoto" \in StepsOf("uploadImage") /\ "uploadImage" \notin Guarded
    BY StepsListed DEF Op, Guarded, DeletionPc
  <2>3. Becomes(r, "uploadImage", "storePhoto", call[r].todo, call[r].toList, "none",
                call[r].before)
    BY <1>1, <1>2, <2>1, <2>2, BeginBecomes
  <2>4. call[r].before \subseteq data
    BY <1>2
  <2> QED BY <1>1, <2>1, <2>2, <2>3, <2>4, ComesIn
<1> QED BY <1>4, <1>5, <1>6 DEF BeginAny

\* Queueing a deletion keeps it.
LEMMA QueueKeeps ==
  ASSUME DeletionInv, NEW w \in Worker, Queue(w)
  PROVE  DeletionInv'
<1>1. /\ DeletionTypeOK /\ StepsMatch /\ data \subseteq Item
      /\ call[w].pc = "queue" /\ StartPurge(w) /\ entry' = TRUE /\ queued' = TRUE
      /\ UNCHANGED <<identity, data, late, deletionFaults>>
  BY DEF DeletionInv, DeletionTypeOK, Queue
<1>2. w \in Request /\ w # Job /\ call[w].op = "deleteAccount" /\ DeletionUnderWay(w)
  BY <1>1, OpOfStep, StepsListed DEF DeletionUnderWay
<1>3. Becomes(w, call[w].op, "listDocuments", call[w].todo, {"tour", "track"}, "none",
              call[w].before)
  BY <1>1, StartPurgeBecomes
<1>4. /\ call'[w].pc = "listDocuments" /\ call'[w].toList = {"tour", "track"}
      /\ call'[w].answer = "none"
  BY <1>3 DEF Becomes
<1>5. PurgeOf(w)'
  BY <1>4 DEF PurgeOf, Documents
<1>6. \A x \in Item : x # User /\ x[2] = w => ~Made(x)
  BY <1>2, ItemShape DEF Made, Kind
<1>7. data' \subseteq Item /\ data' \ data = {} /\ deletionFaults' \in 0..DeletionMaxFaults
  BY <1>1 DEF DeletionTypeOK
<1>8. \A x \in data' : x # User => x[2] # w
  BY <1>1, <1>6 DEF AllMade, DeletionInv
<1>9. "listDocuments" \in StepsOf(call[w].op) /\ call[w].before \subseteq call[w].before
  BY <1>2, StepsListed
<1> QED BY <1>1, <1>2, <1>3, <1>5, <1>6, <1>7, <1>8, <1>9, RequestKeeps

-----------------------------------------------------------------------------
\* The job's own steps.

\* A run of the job that starts keeps it.
LEMMA JobStartKeeps ==
  ASSUME DeletionInv, JobStart
  PROVE  DeletionInv'
<1> USE DEF DeletionInv
<1>1. Job \in Worker /\ Job \notin Request /\ Request \subseteq Worker
  BY AccountAssumption DEF Worker
<1>2. /\ DeletionTypeOK /\ call[Job].pc = "idle" /\ entry /\ call[Job] \in Call
      /\ call' = [call EXCEPT ![Job].pc = "verify", ![Job].before = data]
      /\ late' = (late \/ ~Quiet)
      /\ UNCHANGED <<entry, identity, data, queued, deletionFaults>>
  BY <1>1 DEF JobStart, Quiet, DeletionTypeOK
<1>3. data \subseteq Item /\ \A w \in Worker : call[w].before \subseteq Item
  BY DEF DeletionTypeOK, Call
<1> DEFINE c == [call[Job] EXCEPT !.pc = "verify", !.before = data]
<1>4. c \in Call /\ c.op = call[Job].op /\ c.pc = "verify" /\ c.before = data
  BY <1>2, <1>3 DEF Call, DeletionPc
<1>5. call' = [call EXCEPT ![Job] = c]
  BY <1>1, <1>2 DEF DeletionTypeOK
<1> HIDE DEF c
<1>6. /\ call' \in [Worker -> Call]
      /\ call'[Job].op = call[Job].op /\ call'[Job].pc = "verify" /\ call'[Job].before = data
      /\ \A v \in Worker : v # Job => call'[v] = call[v]
      /\ \A r \in Request : call'[r] = call[r]
  BY <1>1, <1>2, <1>4, <1>5 DEF DeletionTypeOK
<1>7. DeletionTypeOK'
  BY <1>2, <1>6 DEF DeletionTypeOK
<1>8. StepsMatch'
  BY <1>1, <1>6, StepsListed DEF StepsMatch
<1>9. \A x \in Item : x # User => (Made(x)' <=> Made(x)) /\ (PhotoOfFailure(x)' <=> PhotoOfFailure(x))
  BY <1>6, ItemShape DEF Made, PhotoOfFailure, DeletionUnderWay
<1>10. AllMade'
  <2>1. \A x \in data' : x # User => Made(x)'
    BY <1>2, <1>3, <1>9 DEF AllMade
  <2>2. \A w \in Worker : \A x \in call'[w].before : x # User => Made(x)'
    BY <1>1, <1>3, <1>6, <1>9 DEF AllMade
  <2> QED BY <2>1, <2>2 DEF AllMade
<1>11. PurgesLeaveNothing'
  <2> SUFFICES ASSUME NEW v \in Worker PROVE PurgeOf(v)'
    BY DEF PurgesLeaveNothing
  <2>1. CASE v = Job
    BY <1>1, <1>6, <2>1 DEF PurgeOf, StepsMatch
  <2>2. CASE v # Job
    BY <1>2, <1>6, <2>2 DEF PurgesLeaveNothing, PurgeOf, Left
  <2> QED BY <2>1, <2>2
<1>12. PhotosTakenBack'
  BY <1>2, <1>6 DEF PhotosTakenBack
<1>13. QueueFirst'
  BY <1>2, <1>6 DEF QueueFirst, QueuedUntilIdentityGone, JobRuns
<1>14. Quiet' <=> Quiet
  BY <1>6 DEF Quiet, DeletionUnderWay
<1>15. JobSeesAll'
  BY <1>2, <1>6, <1>14 DEF JobSeesAll, PhotosSeen
<1>16. NothingLeft'
  <2> SUFFICES ASSUME ~identity, ~late' PROVE Quiet' /\ \A x \in data' : PhotoOfFailure(x)'
    BY <1>2 DEF NothingLeft
  <2>1. ~late /\ Quiet /\ \A x \in data : PhotoOfFailure(x)
    BY <1>2 DEF NothingLeft, DeletionTypeOK
  <2>2. \A x \in data : x # User
    BY <2>1 DEF PhotoOfFailure, User
  <2> QED BY <1>2, <1>3, <1>9, <1>14, <2>1, <2>2
<1> QED BY <1>7, <1>8, <1>10, <1>11, <1>12, <1>13, <1>15, <1>16

\* The job that verifies the purge keeps it.
LEMMA JobVerifyKeeps ==
  ASSUME DeletionInv, JobVerify
  PROVE  DeletionInv'
<1>1. Job \in Worker /\ DeletionTypeOK /\ StepsMatch /\ QueueFirst /\ call[Job].op = "job"
  BY DEF Worker, DeletionInv, StepsMatch
<1>2. /\ call[Job].pc = "verify"
      /\ UNCHANGED <<entry, identity, data, queued, late, deletionFaults>>
      /\ Finish(Job, "refused") \/ (User \notin data /\ StartPurge(Job))
  BY DEF JobVerify, deletionHistory
<1>3. /\ JobRuns /\ entry' \in BOOLEAN /\ identity' \in BOOLEAN /\ data' \subseteq data
      /\ deletionFaults' \in 0..DeletionMaxFaults
  BY <1>1, <1>2 DEF JobRuns, DeletionTypeOK
<1>4. CASE Finish(Job, "refused")
  <2>1. Becomes(Job, "job", "idle", {}, {}, "refused", {})
    BY <1>1, <1>4, FinishBecomes DEF Answer
  <2>2. call'[Job].pc = "idle" /\ call'[Job].answer = "refused"
    BY <2>1 DEF Becomes
  <2>3. PurgeOf(Job)'
    BY <2>2 DEF PurgeOf
  <2>4. QueueFirst' /\ ~JobRuns'
    BY <1>1, <1>2, <2>2 DEF QueueFirst, JobRuns, QueuedUntilIdentityGone
  <2>5. "idle" \in StepsOf("job") /\ {} \subseteq call[Job].before
    BY StepsListed
  <2> QED BY <1>2, <1>3, <2>1, <2>3, <2>4, <2>5, JobKeeps
<1>5. CASE User \notin data /\ StartPurge(Job)
  <2>1. Becomes(Job, "job", "listDocuments", call[Job].todo, {"tour", "track"}, "none",
                call[Job].before)
    BY <1>1, <1>5, StartPurgeBecomes
  <2>2. /\ call'[Job].pc = "listDocuments" /\ call'[Job].toList = {"tour", "track"}
        /\ call'[Job].answer = "none"
    BY <2>1 DEF Becomes
  <2>3. PurgeOf(Job)'
    BY <2>2 DEF PurgeOf, Documents
  <2>4. QueueFirst' /\ PhotosSeen'
    BY <1>1, <1>2, <1>3, <2>2 DEF QueueFirst, JobRuns, QueuedUntilIdentityGone, PhotosSeen
  <2>5. "listDocuments" \in StepsOf("job")
    BY StepsListed
  <2> QED BY <1>2, <1>3, <1>5, <2>1, <2>3, <2>4, <2>5, JobKeeps
<1> QED BY <1>2, <1>4, <1>5

\* The job that deletes the identity keeps it.
LEMMA JobGraphKeeps ==
  ASSUME DeletionInv, JobGraph
  PROVE  DeletionInv'
<1>1. Job \in Worker /\ DeletionTypeOK /\ StepsMatch /\ QueueFirst /\ call[Job].op = "job"
      /\ PurgeOf(Job)
  BY DEF Worker, DeletionInv, StepsMatch, PurgesLeaveNothing
<1>2. /\ call[Job].pc = "graph" /\ identity' = FALSE /\ Goto(Job, "remove")
      /\ UNCHANGED <<entry, data, queued, late, deletionFaults>>
  BY DEF JobGraph, deletionHistory
<1>3. /\ JobRuns /\ entry' \in BOOLEAN /\ identity' \in BOOLEAN /\ data' \subseteq data
      /\ deletionFaults' \in 0..DeletionMaxFaults
  BY <1>1, <1>2 DEF JobRuns, DeletionTypeOK
<1>4. Becomes(Job, "job", "remove", call[Job].todo, call[Job].toList, call[Job].answer,
              call[Job].before)
  BY <1>1, <1>2, GotoBecomes DEF DeletionPc
<1>5. call'[Job].pc = "remove" /\ call'[Job].op = "job"
  BY <1>4 DEF Becomes
<1>6. PurgeOf(Job)'
  BY <1>5 DEF PurgeOf
<1>7. QueueFirst' /\ PhotosSeen'
  BY <1>1, <1>2, <1>3, <1>5 DEF QueueFirst, JobRuns, QueuedUntilIdentityGone, PhotosSeen
<1>8. "remove" \in StepsOf("job")
  BY StepsListed
<1> QED BY <1>2, <1>3, <1>4, <1>6, <1>7, <1>8, JobKeeps

\* The run ends with the entry off the queue, or with Graph's answer lost.
LEMMA JobEndsKeeps ==
  ASSUME DeletionInv, JobRemove \/ GraphAnswerLost
  PROVE  DeletionInv'
<1>1. Job \in Worker /\ DeletionTypeOK /\ StepsMatch /\ QueueFirst /\ call[Job].op = "job"
  BY DEF Worker, DeletionInv, StepsMatch
<1>2. PICK answer \in {"ok", "failed"} :
        /\ Finish(Job, answer) /\ UNCHANGED <<data, queued, late>>
        /\ deletionFaults' \in 0..DeletionMaxFaults
        /\ \/ call[Job].pc = "remove" /\ entry' = FALSE /\ UNCHANGED identity
           \/ call[Job].pc = "graph" /\ identity' = FALSE /\ UNCHANGED entry
  BY <1>1, AccountAssumption
     DEF JobRemove, GraphAnswerLost, deletionHistory, Fault, DeletionTypeOK
<1>3. /\ JobRuns /\ entry' \in BOOLEAN /\ identity' \in BOOLEAN /\ data' \subseteq data
      /\ identity' = identity \/ (call[Job].pc = "graph" /\ identity' = FALSE)
  BY <1>1, <1>2 DEF JobRuns, DeletionTypeOK
<1>4. Becomes(Job, "job", "idle", {}, {}, answer, {})
  BY <1>1, <1>2, FinishBecomes DEF Answer
<1>5. call'[Job].pc = "idle" /\ call'[Job].op = "job"
  BY <1>4 DEF Becomes
<1>6. PurgeOf(Job)'
  BY <1>5 DEF PurgeOf
<1>7. QueueFirst' /\ ~JobRuns'
  BY <1>1, <1>2, <1>3, <1>5 DEF QueueFirst, JobRuns, QueuedUntilIdentityGone
<1>8. "idle" \in StepsOf("job") /\ {} \subseteq call[Job].before
  BY StepsListed
<1>9. UNCHANGED <<queued, late>> /\ deletionFaults' \in 0..DeletionMaxFaults
  BY <1>2
<1>10. JobRuns /\ data' \subseteq data /\ QueueFirst' /\ ~JobRuns'
  BY <1>3, <1>7
<1>11. entry' \in BOOLEAN /\ identity' \in BOOLEAN
  BY <1>3
<1>12. identity' = identity \/ (call[Job].pc = "graph" /\ identity' = FALSE)
  BY <1>3
<1>13. "idle" \in StepsOf("job") /\ {} \subseteq call[Job].before
  BY <1>8
<1>14. /\ call[Job].pc = "verify" /\ "idle" # "idle" => User \notin data'
       /\ "idle" # "idle" => {} = call[Job].before
       /\ JobRuns' /\ ~late /\ PhotosSeen /\ (\A x \in data : x[1] # "photo" => x \in call[Job].before)
            => PhotosSeen'
  BY <1>10
<1> QED BY <1>4, <1>6, <1>9, <1>10, <1>11, <1>12, <1>13, <1>14, JobKeeps, ZenonT(60)

-----------------------------------------------------------------------------
\* The faults.

\* A fault is one of those counted.
LEMMA FaultsCounted ==
  ASSUME DeletionTypeOK, Fault
  PROVE  deletionFaults' \in 0..DeletionMaxFaults
BY AccountAssumption DEF DeletionTypeOK, Fault

\* A call that rejects keeps it.
LEMMA CallRejectsKeeps ==
  ASSUME DeletionInv, NEW w \in Worker, CallRejects(w)
  PROVE  DeletionInv'
<1>1. /\ DeletionTypeOK /\ StepsMatch /\ data \subseteq Item /\ RejectsAlone(w)
      /\ UNCHANGED <<entry, identity, data, deletionHistory>>
      /\ deletionFaults' \in 0..DeletionMaxFaults
      /\ Finish(w, "failed") \/ (Undo(w) # {} /\ RollBack(w, Undo(w), "failed"))
  BY FaultsCounted DEF DeletionInv, DeletionTypeOK, CallRejects
<1>2. DeletionUnderWay(w)
  BY <1>1 DEF RejectsAlone, DeletionUnderWay
<1>3. CASE Finish(w, "failed")
  BY <1>1, <1>2, <1>3, FinishFails
<1>4. CASE Undo(w) # {} /\ RollBack(w, Undo(w), "failed")
  <2>1. call[w].pc \in {"createTrack", "createTour", "storePhoto", "append"}
    BY <1>4 DEF Undo
  <2>2. w \in Request /\ w # Job /\ call[w].op \in {"uploadTour", "uploadImage"}
        /\ call[w].op \in Guarded \cup {"uploadImage"}
    BY <1>1, <2>1, OpOfStep, StepsListed DEF Guarded
  <2>3. call[w].op = "uploadImage" => Undo(w) = {<<"photo", w>>}
    BY <1>1, <2>1, <2>2, OpOfStep DEF Undo
  <2>4. Undo(w) \in SUBSET Item
    BY <2>1, <2>2 DEF Undo, Item, Kind
  <2>5. "rollback" \in StepsOf(call[w].op) /\ call[w].before \subseteq call[w].before
    BY <2>2, StepsListed
  <2>6. Becomes(w, call[w].op, "rollback", Undo(w), call[w].toList, "failed", call[w].before)
    BY <1>1, <1>4, <2>4, RollBackBecomes DEF Answer
  <2>7. data' \subseteq Item /\ data' \ data = {}
    BY <1>1
  <2> QED BY <1>1, <1>2, <2>2, <2>3, <2>5, <2>6, <2>7, HandlerKeeps
<1> QED BY <1>1, <1>3, <1>4

\* A delete that rejects keeps it.
LEMMA DeleteRejectsKeeps ==
  ASSUME DeletionInv, NEW w \in Worker, NEW x \in Item, DeleteRejects(w, x)
  PROVE  DeletionInv'
<1>1. /\ DeletionTypeOK /\ x \in call[w].todo
      /\ UNCHANGED <<entry, identity, data, deletionHistory>>
      /\ deletionFaults' \in 0..DeletionMaxFaults /\ data' \subseteq data
      /\ call[w].todo \ {x} \in SUBSET Item /\ call[w].toList \in SUBSET Kind
  BY FaultsCounted DEF DeletionInv, DeletionTypeOK, Call, DeleteRejects
<1>2. CASE call[w].pc = "rollback" /\ Settled(w, x, "failed")
  BY <1>1, <1>2, SettledKeeps
<1>3. CASE call[w].pc = "deleteDocuments" /\ DocumentSettled(w, x, "failed")
  BY <1>1, <1>3, DocumentKeeps
<1>4. CASE /\ call[w].pc = "deleteBlobs"
           /\ BlobsSettled(w, call[w].todo \ {x}, call[w].toList, "failed")
  BY <1>1, <1>4, BlobsKeep
<1> QED BY <1>2, <1>3, <1>4 DEF DeleteRejects

\* A listing that rejects keeps it.
LEMMA ListRejectsKeeps ==
  ASSUME DeletionInv, NEW w \in Worker, NEW kind \in Kind, ListRejects(w, kind)
  PROVE  DeletionInv'
<1>1. /\ DeletionTypeOK /\ call[w].pc = "deleteBlobs"
      /\ UNCHANGED <<entry, identity, data, deletionHistory>>
      /\ deletionFaults' \in 0..DeletionMaxFaults /\ data' \subseteq data
      /\ call[w].todo \in SUBSET Item /\ call[w].toList \ {kind} \in SUBSET Kind
      /\ BlobsSettled(w, call[w].todo, call[w].toList \ {kind}, "failed")
  BY FaultsCounted DEF DeletionInv, DeletionTypeOK, Call, ListRejects
<1> QED BY <1>1, BlobsKeep

\* A worker that stops keeps it.
LEMMA CrashKeeps ==
  ASSUME DeletionInv, NEW w \in Worker, Crash(w)
  PROVE  DeletionInv'
<1>1. /\ UNCHANGED <<entry, identity, data, deletionHistory>>
      /\ deletionFaults' \in 0..DeletionMaxFaults /\ data' \subseteq data
      /\ DeletionUnderWay(w) /\ Finish(w, "crashed")
  BY FaultsCounted DEF DeletionInv, Crash
<1> QED BY <1>1, FinishFails

-----------------------------------------------------------------------------
\* The invariant is kept by every step.

\* A step of a worker keeps it.
LEMMA StepKeeps ==
  ASSUME DeletionInv, NEW w \in Worker, Step(w)
  PROVE  DeletionInv'
<1>1. /\ DeletionTypeOK /\ call[w].todo \subseteq Item /\ call[w].toList \subseteq Kind
      /\ data \subseteq Item /\ deletionFaults \in 0..DeletionMaxFaults
  BY DEF DeletionInv, DeletionTypeOK, Call
<1>2. CASE ReadProfile(w) \/ CreateProfile(w) \/ UpsertProfile(w)
  BY <1>2, ProfileKeeps
<1>3. CASE StoreGpx(w) \/ CreateTrack(w) \/ CreateTour(w) \/ StorePhoto(w)
  BY <1>3, StoreKeeps
<1>4. CASE AppendPhoto(w)
  BY <1>4, AppendKeeps
<1>5. CASE Queue(w)
  BY <1>5, QueueKeeps
<1>6. ASSUME NEW kind \in Kind, ListDocuments(w, kind) PROVE DeletionInv'
  BY <1>6, ListDocumentsKeeps
<1>7. ASSUME NEW kind \in Kind, ListBlobs(w, kind) PROVE DeletionInv'
  <2> DEFINE todo == call[w].todo \cup Listed(kind)
  <2>1. todo \in SUBSET Item /\ call[w].toList \ {kind} \in SUBSET Kind
    BY <1>1 DEF Listed
  <2>2. /\ call[w].pc = "deleteBlobs"
        /\ BlobsSettled(w, todo, call[w].toList \ {kind}, call[w].answer)
        /\ UNCHANGED <<entry, identity, data, deletionHistory, deletionFaults>>
    BY <1>7 DEF ListBlobs
  <2>3. \A x \in data' : x[1] \in call[w].toList \/ x \in call[w].todo =>
          x[1] \in call[w].toList \ {kind} \/ x \in todo
    BY <2>2 DEF Listed
  <2> HIDE DEF todo
  <2> QED BY <1>1, <2>1, <2>2, <2>3, BlobsKeep
<1>8. ASSUME NEW x \in Item, RollBackOne(w, x) PROVE DeletionInv'
  BY <1>1, <1>8, SettledKeeps DEF RollBackOne
<1>9. ASSUME NEW x \in Item, DeleteDocument(w, x) PROVE DeletionInv'
  BY <1>1, <1>9, DocumentKeeps DEF DeleteDocument
<1>10. ASSUME NEW x \in Item, DeleteBlob(w, x) PROVE DeletionInv'
  <2>1. /\ call[w].pc = "deleteBlobs" /\ data' = data \ {x}
        /\ BlobsSettled(w, call[w].todo \ {x}, call[w].toList, call[w].answer)
        /\ UNCHANGED <<entry, identity, deletionHistory, deletionFaults>>
    BY <1>10 DEF DeleteBlob
  <2>2. call[w].todo \ {x} \in SUBSET Item /\ call[w].toList \in SUBSET Kind /\ data' \subseteq data
    BY <1>1, <2>1
  <2>3. \A y \in data' : y[1] \in call[w].toList \/ y \in call[w].todo =>
          y[1] \in call[w].toList \/ y \in call[w].todo \ {x}
    BY <2>1
  <2> QED BY <1>1, <2>1, <2>2, <2>3, BlobsKeep
<1> QED BY <1>2, <1>3, <1>4, <1>5, <1>6, <1>7, <1>8, <1>9, <1>10 DEF Step

\* Every step keeps it.
LEMMA DeletionInvKept ==
  ASSUME DeletionInv, [DeletionNext]_deletionVars
  PROVE  DeletionInv'
<1>1. Request \subseteq Worker /\ Job \in Worker
  BY DEF Worker
<1>2. ASSUME NEW r \in Request, BeginAny(r) PROVE DeletionInv'
  BY <1>2, BeginKeeps
<1>3. ASSUME NEW w \in Worker, Step(w) PROVE DeletionInv'
  BY <1>3, StepKeeps
<1>4. CASE JobStart
  BY <1>4, JobStartKeeps
<1>5. CASE JobStep
  BY <1>1, <1>3, <1>5, JobVerifyKeeps, JobGraphKeeps, JobEndsKeeps DEF JobStep
<1>6. CASE Fails
  BY <1>6, JobEndsKeeps, CallRejectsKeeps, CrashKeeps, DeleteRejectsKeeps, ListRejectsKeeps
     DEF Fails
<1>7. CASE UNCHANGED deletionVars
  BY <1>7, SMTT(40) DEF deletionVars, deletionHistory, DeletionInv, DeletionTypeOK, StepsMatch, AllMade, Made,
              PurgesLeaveNothing, PurgeOf, Left, PhotosTakenBack, QueueFirst, JobRuns,
              QueuedUntilIdentityGone, JobSeesAll, PhotosSeen, PhotoOfFailure, DeletionUnderWay,
              Quiet, NothingLeft
<1> QED BY <1>1, <1>2, <1>3, <1>4, <1>5, <1>6, <1>7 DEF DeletionNext, DeletionRest

\* It holds at first.
LEMMA DeletionInvInitially == DeletionInit => DeletionInv
<1> SUFFICES ASSUME DeletionInit PROVE DeletionInv
  OBVIOUS
<1>1. /\ entry = FALSE /\ identity = TRUE /\ data = {User} /\ queued = FALSE /\ late = FALSE
      /\ deletionFaults = 0
      /\ \A w \in Worker : /\ call[w].op = IF w = Job THEN "job" ELSE "none"
                           /\ call[w].pc = "idle" /\ call[w].answer = "none"
                           /\ call[w].before = {}
  BY DEF DeletionInit
<1>2. Job \in Worker /\ Job \notin Request /\ Request \subseteq Worker
  BY AccountAssumption DEF Worker
<1>3. call \in [Worker -> Call]
  BY DEF DeletionInit, Call, Op, DeletionPc, Answer
<1>4. DeletionTypeOK
  <2>1. 0 \in 0..DeletionMaxFaults /\ {User} \subseteq Item
    BY AccountAssumption DEF Item
  <2> QED BY <1>1, <1>3, <2>1 DEF DeletionTypeOK
<1>5. StepsMatch
  BY <1>1, <1>2, StepsListed DEF StepsMatch
<1>6. AllMade /\ PurgesLeaveNothing /\ PhotosTakenBack
  BY <1>1, <1>2 DEF AllMade, PurgesLeaveNothing, PurgeOf, PhotosTakenBack
<1>7. QueueFirst /\ JobSeesAll /\ NothingLeft
  BY <1>1, <1>2 DEF QueueFirst, JobRuns, QueuedUntilIdentityGone, JobSeesAll, NothingLeft
<1> QED BY <1>4, <1>5, <1>6, <1>7 DEF DeletionInv

\* The inductive invariant of the deletion of an account: what is stored was stored by a request
\* that is past it, a purge has listed or deleted what was there before it, the job runs for a
\* queued rider, and what it leaves is a photo of an upload that failed (accountPurge.js:12-45,
\* deletionJob.js:70-130).
THEOREM DeletionInvariant == DeletionSpec => []DeletionInv
BY DeletionInvInitially, DeletionInvKept, PTL DEF DeletionSpec

\* The queue holds its rider until the identity is gone, whatever fails (deletionJob.js:39).
THEOREM QueueAlwaysHolds == DeletionSpec => []QueueHolds
<1>1. DeletionInv => QueueHolds
  BY DEF DeletionInv, QueueFirst, QueueHolds
<1> QED BY <1>1, DeletionInvariant, PTL

\* A DeleteAccount that is answered 204 has purged all that was there when it was asked for
\* (DeleteAccount/index.js, accountPurge.js:12).
THEOREM PurgedWhenAnswered == DeletionSpec => []AnsweredMeansPurged
<1>1. DeletionInv => AnsweredMeansPurged
  BY DEF DeletionInv, PurgesLeaveNothing, PurgeOf, Left, AnsweredMeansPurged, Worker
<1> QED BY <1>1, DeletionInvariant, PTL

\* Nothing outlives an identity but a photo whose own upload failed, unless a request was late.
THEOREM OnlyFailedPhotosOutlive == DeletionSpec => []NothingOutlivesIdentity
<1>1. DeletionInv => NothingOutlivesIdentity
  BY DEF DeletionInv, NothingLeft, PhotoOfFailure, NothingOutlivesIdentity
<1> QED BY <1>1, DeletionInvariant, PTL

\* Only the job's call of Graph ends the identity.
LEMMA OnlyGraphEndsIdentity ==
  ASSUME [DeletionNext]_deletionVars, identity' # identity
  PROVE  call[Job].pc = "graph"
<1>1. ASSUME NEW r \in Request, BeginAny(r) PROVE identity' = identity
  BY <1>1 DEF BeginAny, BeginGetMe, BeginUpdateProfile, BeginUploadTour, BeginGuarded, Begin,
              BeginDeleteAccount, BeginUploadImage
<1>2. ASSUME NEW w, Step(w) PROVE identity' = identity
  BY <1>2 DEF Step, ReadProfile, CreateProfile, UpsertProfile, StoreGpx, CreateTrack, CreateTour,
              StorePhoto, Store, AppendPhoto, Queue, ListDocuments, ListBlobs, RollBackOne,
              DeleteDocument, DeleteBlob
<1>3. ASSUME Fails PROVE identity' = identity \/ call[Job].pc = "graph"
  BY <1>3 DEF Fails, GraphAnswerLost, CallRejects, Crash, DeleteRejects, ListRejects
<1>4. ASSUME JobStart \/ JobStep PROVE identity' = identity \/ call[Job].pc = "graph"
  BY <1>2, <1>4 DEF JobStart, JobStep, JobVerify, JobGraph, JobRemove
<1>5. ASSUME UNCHANGED deletionVars PROVE identity' = identity
  BY <1>5 DEF deletionVars
<1> QED BY <1>1, <1>2, <1>3, <1>4, <1>5 DEF DeletionNext, DeletionRest

\* The identity is deleted only when everything that was there when the run of the job began is
\* gone: nothing is left that no entry leads to (deletionJob.js:122).
THEOREM IdentityIsLast == DeletionSpec => IdentityGoesLast
<1>1. DeletionInv /\ [DeletionNext]_deletionVars =>
        [identity /\ ~identity' => call[Job].before \cap data \subseteq {User}]_deletionVars
  <2> SUFFICES ASSUME DeletionInv, [DeletionNext]_deletionVars, identity, ~identity'
               PROVE  call[Job].before \cap data \subseteq {User}
    OBVIOUS
  <2>1. call[Job].pc = "graph"
    BY OnlyGraphEndsIdentity
  <2> QED BY <2>1 DEF DeletionInv, PurgesLeaveNothing, PurgeOf, Left, Worker
<1> QED BY <1>1, DeletionInvariant, PTL DEF DeletionSpec, IdentityGoesLast

===============================================================================
