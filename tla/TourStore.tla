------------------------------ MODULE TourStore ------------------------------
(***************************************************************************)
(* One rider's tours: the documents in the tours container, the track      *)
(* documents beside them and the blobs they point at, under the concurrent *)
(* handlers UploadTour, UploadImage, EditTour, DeleteImage and DeleteTour. *)
(* There is no transaction across Cosmos and Blob Storage, so every remote *)
(* call of a handler is one step here, any two requests interleave at every *)
(* await, and a call may be rejected, an answer lost, an instance stopped. *)
(***************************************************************************)
EXTENDS Naturals, FiniteSets

CONSTANTS
  Request,            \* the requests of a run; newId() of a request is the request itself
  MaxImages,          \* MAX_TOUR_IMAGES
  MaxAppendAttempts,  \* MAX_APPEND_ATTEMPTS of UploadImage
  MaxReplaceAttempts, \* MAX_REPLACE_ATTEMPTS of DeleteImage
  Faults              \* what the environment may do, out of FaultKinds

\* "error": a remote call rejects and was not applied; "ackLost": it was applied and rejects all
\* the same (the answer is lost); "crash": the instance stops in the middle of a request.
FaultKinds == {"error", "ackLost", "crash"}

ASSUME StoreAssumption ==
  /\ MaxImages \in Nat \ {0}
  /\ MaxAppendAttempts \in Nat \ {0}
  /\ MaxReplaceAttempts \in Nat \ {0}
  /\ Faults \subseteq FaultKinds

VARIABLES
  tours,     \* ids of the tour documents that exist
  doc,       \* content of each tour document, Blank(t) where there is none
  stored,    \* track documents and blobs that exist
  call,      \* the state of each request's handler
  landed,    \* history: the requests whose write of the tour document was applied
  abandoned  \* history: files no handler will delete any more: a delete of them was rejected, the
             \* instance stopped holding them, or a DeleteTour did not know of them

vars == <<tours, doc, stored, call, landed, abandoned>>

-----------------------------------------------------------------------------
\* A tour document: its _etag, the ids in /images and the request its name, description and date
\* come from.
Doc == [etag: Nat, images: SUBSET Request, details: Request]

\* Mutant: a document written without the images field.
NewDocNoImages(t) == [etag |-> 1, details |-> t]
NewDoc(t) == [etag |-> 1, images |-> {}, details |-> t]
Blank(t)  == [etag |-> 0, images |-> {}, details |-> t]

\* What lies outside the tour document: its track and GPX under the tour's id, both sizes of a
\* photo under the photo's id (ids never repeat, so the tour's part of the name is left out).
File == {"track", "gpx", "full", "thumb"} \X Request

Files(t)    == {<<"track", t>>, <<"gpx", t>>}
Variants(i) == {<<"full", i>>, <<"thumb", i>>}

Op == {"none", "uploadTour", "uploadImage", "editTour", "deleteImage", "deleteTour"}

\* The remote call a handler awaits next.
Pc == {"idle",
       "storeGpx", "createTrack", "createTour",          \* UploadTour
       "storeVariants", "append", "rereadToAppend",      \* UploadImage
       "patch",                                          \* EditTour
       "replace", "rereadToReplace",                     \* DeleteImage
       "deleteDoc",                                      \* DeleteTour
       "deleting",                                       \* rollbacks, and files of what was deleted
       "done"}

Answer == {"none", "ok", "refused", "failed", "crashed"}

Call == [op: Op, pc: Pc, tour: Request, image: Request,
         current: Doc,          \* the tour as last read
         attempt: Nat,
         todo: SUBSET File,     \* the parallel storage calls not settled yet
         answer: Answer]

TypeOK ==
  /\ tours \subseteq Request
  /\ doc \in [Request -> Doc]
  /\ stored \subseteq File
  /\ call \in [Request -> Call]
  /\ landed \subseteq Request
  /\ abandoned \subseteq File

Init ==
  /\ tours = {}
  /\ doc = [t \in Request |-> Blank(t)]
  /\ stored = {}
  /\ call = [r \in Request |-> [op |-> "none", pc |-> "idle", tour |-> r, image |-> r,
                                current |-> Blank(r), attempt |-> 0, todo |-> {},
                                answer |-> "none"]]
  /\ landed = {}
  /\ abandoned = {}

-----------------------------------------------------------------------------
\* How a handler goes on.

Goto(r, pc) == call' = [call EXCEPT ![r].pc = pc]

Finished(r, answer) ==
  [call[r] EXCEPT !.pc = "done", !.current = Blank(r), !.attempt = 0, !.todo = {},
                  !.answer = answer]

Finish(r, answer) == call' = [call EXCEPT ![r] = Finished(r, answer)]

\* settleAll over deletes: they run together, and the answer follows once all have settled.
DeleteThen(r, files, answer) ==
  call' = [call EXCEPT ![r] = [@ EXCEPT !.pc = "deleting", !.current = Blank(r), !.attempt = 0,
                                        !.todo = files, !.answer = answer]]

\* What withRollback undoes when the call a handler awaits rejects.
\* Mutant: an append that gives up on conflicts, or fails, leaves the blobs.
UndoTourOnly(r) == CASE call[r].pc = "createTrack" -> {<<"gpx", r>>}
                     [] call[r].pc = "createTour" -> Files(r)
                     [] OTHER -> {}
Undo(r) == CASE call[r].pc = "createTrack" -> {<<"gpx", r>>}
             [] call[r].pc = "createTour" -> Files(r)
             [] call[r].pc \in {"append", "rereadToAppend"} -> Variants(r)
             [] OTHER -> {}

Reject(r) == IF Undo(r) = {} THEN Finish(r, "failed") ELSE DeleteThen(r, Undo(r), "failed")

AnswerLost(r) == "ackLost" \in Faults /\ Reject(r)

\* A handler that starts: 404 for a tour that is not there, otherwise it holds the tour it read.
Idle(r) == call[r].pc = "idle"

Admitted(r, op, pc, t, i, todo) ==
  call' = [call EXCEPT ![r] = [op |-> op, pc |-> pc, tour |-> t, image |-> i,
                               current |-> doc[t], attempt |-> 1, todo |-> todo,
                               answer |-> "none"]]

Refused(r, op, t, i) ==
  call' = [call EXCEPT ![r] = [@ EXCEPT !.op = op, !.pc = "done", !.tour = t, !.image = i,
                                        !.answer = "refused"]]

-----------------------------------------------------------------------------
\* UploadTour: GPX blob, then track, then tour document. Authentication, 410, 429, the quota, the
\* metadata and the parse refuse before anything is written: such a request stays idle here.

BeginUploadTour(r) ==
  /\ Idle(r)
  /\ Admitted(r, "uploadTour", "storeGpx", r, r, {})
  /\ UNCHANGED <<tours, doc, stored, landed, abandoned>>

StoreGpx(r) ==
  /\ call[r].pc = "storeGpx"
  /\ stored' = stored \cup {<<"gpx", r>>}
  /\ Goto(r, "createTrack") \/ AnswerLost(r)
  /\ UNCHANGED <<tours, doc, landed, abandoned>>

CreateTrack(r) ==
  /\ call[r].pc = "createTrack"
  /\ stored' = stored \cup {<<"track", r>>}
  /\ Goto(r, "createTour") \/ AnswerLost(r)
  /\ UNCHANGED <<tours, doc, landed, abandoned>>

CreateTour(r) ==
  /\ call[r].pc = "createTour"
  /\ tours' = tours \cup {r}
  /\ doc' = [doc EXCEPT ![r] = NewDoc(r)]
  /\ landed' = landed \cup {r}
  /\ Finish(r, "ok") \/ AnswerLost(r)
  /\ UNCHANGED <<stored, abandoned>>

-----------------------------------------------------------------------------
\* UploadImage: both sizes together, then an append to /images conditional on the ETag of the tour
\* whose images were counted.

IsFull(d) == Cardinality(d.images) >= MaxImages

BeginUploadImage(r, t) ==
  /\ Idle(r)
  /\ IF t \in tours /\ ~IsFull(doc[t])
       THEN Admitted(r, "uploadImage", "storeVariants", t, r, Variants(r))
       ELSE Refused(r, "uploadImage", t, r)
  /\ UNCHANGED <<tours, doc, stored, landed, abandoned>>

\* One of the two uploads settles; after the second, an upload that failed rolls both back.
\* Mutant: a failed upload does not stop the append.
VariantSettledUnchecked(r, x, answer) ==
  LET left == call[r].todo \ {x} IN
  call' = [call EXCEPT ![r].todo = left,
                       ![r].pc = IF left = {} THEN "append" ELSE "storeVariants"]
VariantSettled(r, x, answer) ==
  LET left == call[r].todo \ {x} IN
  CASE left # {} -> call' = [call EXCEPT ![r].todo = left, ![r].answer = answer]
    [] left = {} /\ answer = "failed" -> DeleteThen(r, Variants(r), "failed")
    [] OTHER -> call' = [call EXCEPT ![r].todo = {}, ![r].pc = "append"]

StoreVariant(r, x) ==
  /\ call[r].pc = "storeVariants"
  /\ x \in call[r].todo
  /\ \/ /\ stored' = stored \cup {x}
        /\ \/ VariantSettled(r, x, call[r].answer)
           \/ "ackLost" \in Faults /\ VariantSettled(r, x, "failed")
     \/ /\ "error" \in Faults /\ VariantSettled(r, x, "failed")
        /\ UNCHANGED stored
  /\ UNCHANGED <<tours, doc, landed, abandoned>>

\* The stored tour still carries the ETag the request read.
\* Mutant: the write is not conditional on the ETag.
MatchesWithoutETag(r) == call[r].tour \in tours
Matches(r) == LET t == call[r].tour IN t \in tours /\ doc[t].etag = call[r].current.etag

Write(t, d) == doc' = [doc EXCEPT ![t] = [d EXCEPT !.etag = doc[t].etag + 1]]

Append(r) ==
  LET t == call[r].tour IN
  /\ call[r].pc = "append"
  /\ Matches(r)
  /\ Write(t, [doc[t] EXCEPT !.images = @ \cup {r}])
  /\ landed' = landed \cup {r}
  /\ Finish(r, "ok") \/ AnswerLost(r)
  /\ UNCHANGED <<tours, stored, abandoned>>

\* 404 'gone' rolls back; 412 'conflict' reads again until MaxAppendAttempts.
AppendRefused(r) ==
  LET t == call[r].tour IN
  /\ call[r].pc = "append"
  /\ \/ t \notin tours /\ DeleteThen(r, Variants(r), "refused")
     \/ /\ t \in tours /\ ~Matches(r)
        /\ IF call[r].attempt = MaxAppendAttempts
             THEN Reject(r)
             ELSE call' = [call EXCEPT ![r].pc = "rereadToAppend", ![r].attempt = @ + 1]
  /\ UNCHANGED <<tours, doc, stored, landed, abandoned>>

\* The read of another attempt: 'gone' and 'full' roll back, otherwise the append is tried again.
RereadToAppend(r) ==
  LET t == call[r].tour IN
  /\ call[r].pc = "rereadToAppend"
  /\ IF t \in tours /\ ~IsFull(doc[t])
       THEN call' = [call EXCEPT ![r].pc = "append", ![r].current = doc[t]]
       ELSE DeleteThen(r, Variants(r), "refused")
  /\ UNCHANGED <<tours, doc, stored, landed, abandoned>>

-----------------------------------------------------------------------------
\* EditTour: an unconditional patch of the edited fields (a body with none of them writes nothing).

BeginEditTour(r, t) ==
  /\ Idle(r)
  /\ IF t \in tours
       THEN Admitted(r, "editTour", "patch", t, r, {})
       ELSE Refused(r, "editTour", t, r)
  /\ UNCHANGED <<tours, doc, stored, landed, abandoned>>

Patch(r) ==
  LET t == call[r].tour IN
  /\ call[r].pc = "patch"
  /\ t \in tours
  /\ Write(t, [doc[t] EXCEPT !.details = r])
  /\ landed' = landed \cup {r}
  /\ Finish(r, "ok") \/ AnswerLost(r)
  /\ UNCHANGED <<tours, stored, abandoned>>

\* The document went meanwhile: the 404 is not caught and answers 500.
PatchMissed(r) ==
  /\ call[r].pc = "patch"
  /\ call[r].tour \notin tours
  /\ Reject(r)
  /\ UNCHANGED <<tours, doc, stored, landed, abandoned>>

-----------------------------------------------------------------------------
\* DeleteImage: the document as read, without the entry, replaces the stored one if the ETag still
\* matches; then the photo's blobs go.

BeginDeleteImage(r, t, i) ==
  /\ Idle(r)
  /\ IF t \in tours /\ i \in doc[t].images
       THEN Admitted(r, "deleteImage", "replace", t, i, {})
       ELSE Refused(r, "deleteImage", t, i)
  /\ UNCHANGED <<tours, doc, stored, landed, abandoned>>

WithoutImage(d, i) == [d EXCEPT !.images = @ \ {i}]

Replace(r) ==
  LET t == call[r].tour
      i == call[r].image IN
  /\ call[r].pc = "replace"
  /\ Matches(r)
  /\ Write(t, WithoutImage(call[r].current, i))
  /\ landed' = landed \cup {r}
  /\ DeleteThen(r, Variants(i), "ok") \/ AnswerLost(r)
  /\ UNCHANGED <<tours, stored, abandoned>>

\* 412 reads again until MaxReplaceAttempts; a 404 of the replace is not caught and answers 500.
\* Mutant: the last conflict is answered as a success.
ReplaceRefusedGivesUp(r) ==
  /\ call[r].pc = "replace"
  /\ ~Matches(r)
  /\ IF call[r].tour \notin tours \/ call[r].attempt >= MaxReplaceAttempts
       THEN Finish(r, "ok")
       ELSE call' = [call EXCEPT ![r].pc = "rereadToReplace", ![r].attempt = @ + 1]
  /\ UNCHANGED <<tours, doc, stored, landed, abandoned>>

ReplaceRefused(r) ==
  /\ call[r].pc = "replace"
  /\ ~Matches(r)
  /\ IF call[r].tour \notin tours \/ call[r].attempt >= MaxReplaceAttempts
       THEN Reject(r)
       ELSE call' = [call EXCEPT ![r].pc = "rereadToReplace", ![r].attempt = @ + 1]
  /\ UNCHANGED <<tours, doc, stored, landed, abandoned>>

\* The fresh read is not searched for the entry again: it may be gone already.
RereadToReplace(r) ==
  LET t == call[r].tour IN
  /\ call[r].pc = "rereadToReplace"
  /\ IF t \in tours
       THEN call' = [call EXCEPT ![r].pc = "replace", ![r].current = doc[t]]
       ELSE Finish(r, "refused")
  /\ UNCHANGED <<tours, doc, stored, landed, abandoned>>

-----------------------------------------------------------------------------
\* DeleteTour: the document, then its track, its GPX and the photos it listed when it was read.

BeginDeleteTour(r, t) ==
  /\ Idle(r)
  /\ IF t \in tours
       THEN Admitted(r, "deleteTour", "deleteDoc", t, r, {})
       ELSE Refused(r, "deleteTour", t, r)
  /\ UNCHANGED <<tours, doc, stored, landed, abandoned>>

FilesOf(t, d) == Files(t) \cup UNION {Variants(i) : i \in d.images}

DeleteDoc(r) ==
  LET t == call[r].tour IN
  /\ call[r].pc = "deleteDoc"
  /\ t \in tours
  /\ tours' = tours \ {t}
  /\ doc' = [doc EXCEPT ![t] = Blank(t)]
  /\ landed' = landed \cup {r}
  /\ DeleteThen(r, FilesOf(t, call[r].current), "ok") \/ AnswerLost(r)
  /\ abandoned' = abandoned \cup UNION {Variants(i) : i \in doc[t].images \ call[r].current.images}
  /\ UNCHANGED stored

\* Another request deleted it first: deleteItem's 404 is not caught and answers 500.
DeleteDocMissed(r) ==
  /\ call[r].pc = "deleteDoc"
  /\ call[r].tour \notin tours
  /\ Reject(r)
  /\ UNCHANGED <<tours, doc, stored, landed, abandoned>>

-----------------------------------------------------------------------------
\* Storage deletes of a rollback or a delete: each settles on its own, and one that rejects makes
\* the answer a 500 once all have.

FileSettled(r, x, answer) ==
  LET left == call[r].todo \ {x} IN
  IF left = {} THEN Finish(r, answer)
               ELSE call' = [call EXCEPT ![r].todo = left, ![r].answer = answer]

DeleteFile(r, x) ==
  /\ call[r].pc = "deleting"
  /\ x \in call[r].todo
  /\ \/ /\ stored' = stored \ {x}
        /\ \/ FileSettled(r, x, call[r].answer)
           \/ "ackLost" \in Faults /\ FileSettled(r, x, "failed")
        /\ UNCHANGED abandoned
     \/ /\ "error" \in Faults /\ FileSettled(r, x, "failed")
        /\ abandoned' = abandoned \cup {x}
        /\ UNCHANGED stored
  /\ UNCHANGED <<tours, doc, landed>>

\* Any single awaited call may reject without having been applied.
\* Mutant: a rejected track write is swallowed and the tour is created all the same.
CallRejectsTrackSwallowed(r) ==
  /\ "error" \in Faults
  /\ call[r].pc \in Pc \ {"idle", "storeVariants", "deleting", "done"}
  /\ IF call[r].pc = "createTrack" THEN Goto(r, "createTour") ELSE Reject(r)
  /\ UNCHANGED <<tours, doc, stored, landed, abandoned>>

CallRejects(r) ==
  /\ "error" \in Faults
  /\ call[r].pc \in Pc \ {"idle", "storeVariants", "deleting", "done"}
  /\ Reject(r)
  /\ UNCHANGED <<tours, doc, stored, landed, abandoned>>

\* The files a handler has in hand: those it is deleting, those its rollback would delete.
Held(r) ==
  CASE call[r].pc = "deleting" -> call[r].todo
    [] call[r].pc = "createTrack" -> {<<"gpx", r>>}
    [] call[r].pc = "createTour" -> Files(r)
    [] call[r].pc \in {"storeVariants", "append", "rereadToAppend"} -> Variants(r)
    [] OTHER -> {}

\* The instance stops: nothing the handler had still to do happens.
Crash(r) ==
  /\ "crash" \in Faults
  /\ call[r].pc \notin {"idle", "done"}
  /\ Finish(r, "crashed")
  /\ abandoned' = abandoned \cup Held(r)
  /\ UNCHANGED <<tours, doc, stored, landed>>

\* Every request of the run has been answered.
Quiescent == \A r \in Request : call[r].pc = "done"
Rest == Quiescent /\ UNCHANGED vars

\* Ids a client can name: those of tours and photos that exist or once did.
TourIds == {t \in landed : call[t].op = "uploadTour"}
ImageIds(t) == {i \in landed : call[i].op = "uploadImage" /\ call[i].tour = t}

Begin(r) ==
  \/ BeginUploadTour(r)
  \/ \E t \in TourIds :
       \/ BeginUploadImage(r, t) \/ BeginEditTour(r, t) \/ BeginDeleteTour(r, t)
       \/ \E i \in ImageIds(t) : BeginDeleteImage(r, t, i)

Step(r) ==
  \/ StoreGpx(r) \/ CreateTrack(r) \/ CreateTour(r)
  \/ \E x \in File : StoreVariant(r, x)
  \/ Append(r) \/ AppendRefused(r) \/ RereadToAppend(r)
  \/ Patch(r) \/ PatchMissed(r)
  \/ Replace(r) \/ ReplaceRefused(r) \/ RereadToReplace(r)
  \/ DeleteDoc(r) \/ DeleteDocMissed(r)
  \/ \E x \in File : DeleteFile(r, x)
  \/ CallRejects(r)
  \/ Crash(r)

Next == (\E r \in Request : Begin(r) \/ Step(r)) \/ Rest

Spec == Init /\ [][Next]_vars

-----------------------------------------------------------------------------
(***************************************************************************)
(* Safety.                                                                 *)
(***************************************************************************)

\* A tour never points at a missing GPX or track (UploadTour/index.js:77, DeleteTour/index.js:12),
\* whatever call fails and wherever an instance stops.
TourWhole == \A t \in tours : Files(t) \subseteq stored

\* Every entry of /images has both its blobs: an upload appends only what it stored and no
\* longer rolls back, a delete takes the entry out before the blobs (DeleteImage/index.js:35).
NoDeadEntry == \A t \in tours : \A i \in doc[t].images : Variants(i) \subseteq stored

\* Concurrent uploads cannot pass the cap together (UploadImage/index.js:92).
ImageCap == \A t \in tours : Cardinality(doc[t].images) <= MaxImages

\* The deletes of photos or of a whole tour whose write of the document was applied.
LandedDeletes(op) == {d \in landed : call[d].op = op}

\* A tour or a photo its upload was answered 201 for stays until a delete of it lands: no edit,
\* append or delete of another photo that ran meanwhile loses it (EditTour/index.js:22).
AcknowledgedUploadsKept ==
  \A r \in Request : call[r].answer = "ok" =>
    /\ call[r].op \in {"uploadTour", "uploadImage"} =>
         \/ call[r].tour \in tours
         \/ \E d \in LandedDeletes("deleteTour") : call[d].tour = call[r].tour
    /\ call[r].op = "uploadImage" /\ call[r].tour \in tours =>
         \/ r \in doc[call[r].tour].images
         \/ \E d \in LandedDeletes("deleteImage") : call[d].image = r

\* A photo whose delete landed never comes back, not through the whole-document replace of
\* another DeleteImage that read the tour before (DeleteImage/index.js:16).
RemovedStaysRemoved ==
  \A d \in LandedDeletes("deleteImage") : call[d].image \notin doc[call[d].tour].images

\* What exists but nothing points at.
Leftover(x) == LET id == x[2] IN
  IF x[1] \in {"track", "gpx"}
    THEN id \notin tours
    ELSE call[id].tour \notin tours \/ id \notin doc[call[id].tour].images

\* At every moment, a file that nothing points at is in the hands of a handler that will delete it,
\* or one of three things happened to it: a storage delete of it was rejected, an instance stopped
\* with it in hand, or it is a photo appended between the read and the delete of a DeleteTour. So
\* an upload that was refused, failed or gave up on conflicts takes its files with it, whatever
\* else failed meanwhile (withRollback of UploadTour and UploadImage).
NothingLeaks == \A x \in stored : Leftover(x) => x \in abandoned \/ \E r \in Request : x \in Held(r)

\* What a rider was answered about photos and tours holds: what an upload was answered for stays,
\* what a delete was answered for stays away, and no request leaves a file behind unless it could
\* not delete it, was stopped, or did not know of it.
AnswersHold == AcknowledgedUploadsKept /\ RemovedStaysRemoved /\ NothingLeaks

\* The name, description and date of a tour change only when a patch of EditTour is applied: a
\* DeleteImage rewrites the whole document it read and must not undo an edit made since.
OnlyEditsChangeDetails ==
  [][\A t \in tours \cap tours' : doc'[t].details # doc[t].details =>
       \E r \in landed' \ landed : call[r].op = "editTour" /\ doc'[t].details = r]_vars

-----------------------------------------------------------------------------
(***************************************************************************)
(* The handlers implement TourLibrary: a tour is in the library while its  *)
(* document, track and GPX are all there, a photo while its entry and both *)
(* blobs are, and a request is answered when its handler is done.          *)
(***************************************************************************)
Library == INSTANCE TourLibrary WITH
  library <- {t \in tours : Files(t) \subseteq stored},
  photos  <- [t \in Request |-> {i \in doc[t].images : Variants(i) \subseteq stored}],
  details <- [t \in Request |-> doc[t].details],
  applied <- landed,
  answer  <- [r \in Request |-> IF call[r].pc = "done" THEN call[r].answer ELSE "none"]

\* Every step of a handler is one change of the library, an answer, both, or invisible to the
\* rider: no interleaving shows half a tour or a photo without its blobs.
ImplementsLibrary == Library!LibSpec

-----------------------------------------------------------------------------
(***************************************************************************)
(* The inductive strengthening of TourWhole and NoDeadEntry, which holds   *)
(* while no answer is lost (see TourStoreProofs).                          *)
(***************************************************************************)

\* The pcs at which a handler holds a tour it read.
HoldingPc == {"storeVariants", "append", "rereadToAppend", "patch", "replace", "rereadToReplace",
              "deleteDoc"}

\* The upload of an existing tour is over, so nothing of it can still be rolled back.
ToursUploaded == \A t \in tours : call[t].pc = "done"

\* A photo belongs to the one tour its upload named, and its upload is over.
Uploaded(i, t) == call[i].pc = "done" /\ call[i].tour = t
EntriesUploaded == \A t \in Request : \A i \in doc[t].images : t \in tours /\ Uploaded(i, t)

\* UploadTour has stored what its next write relies on.
TourFilesStored(r) ==
  /\ call[r].pc = "createTrack" => <<"gpx", r>> \in stored
  /\ call[r].pc = "createTour" => Files(r) \subseteq stored

\* UploadImage appends only when both its blobs are there.
VariantsStored(r) ==
  /\ call[r].pc = "storeVariants" =>
       call[r].answer = "failed" \/ Variants(r) \ call[r].todo \subseteq stored
  /\ call[r].pc \in {"append", "rereadToAppend"} => Variants(r) \subseteq stored

\* What a handler read was a state of the tour, and an equal ETag means it still is.
HeldTour(r) ==
  call[r].pc \in HoldingPc =>
    LET t == call[r].tour IN
    /\ call[t].pc = "done"
    /\ \A i \in call[r].current.images : Uploaded(i, t)
    /\ t \in tours => /\ call[r].current.etag <= doc[t].etag
                      /\ call[r].current.etag = doc[t].etag => call[r].current = doc[t]
    /\ call[r].pc \in {"replace", "rereadToReplace"} => Uploaded(call[r].image, t)

\* Whatever is being deleted is pointed at by nothing, and nothing can come to point at it.
Unreferenced(x) ==
  /\ call[x[2]].pc \in {"deleting", "done"}
  /\ x[1] \in {"track", "gpx"} => x[2] \notin tours
  /\ x[1] \in {"full", "thumb"} => \A t \in Request : x[2] \notin doc[t].images
DeletesUnreferenced(r) == call[r].pc = "deleting" => \A x \in call[r].todo : Unreferenced(x)

HandlerInv(r) ==
  TourFilesStored(r) /\ VariantsStored(r) /\ HeldTour(r) /\ DeletesUnreferenced(r)

StoreInv ==
  /\ TypeOK
  /\ ToursUploaded
  /\ EntriesUploaded
  /\ TourWhole
  /\ NoDeadEntry
  /\ \A r \in Request : HandlerInv(r)

\* For ImageCap: what an UploadImage read was not full, whenever that was.
NotFullWhenRead(r) ==
  call[r].pc \in {"storeVariants", "append", "rereadToAppend"} =>
    IsFiniteSet(call[r].current.images) /\ ~IsFull(call[r].current)
CapInv ==
  /\ \A t \in Request : IsFiniteSet(doc[t].images) /\ Cardinality(doc[t].images) <= MaxImages
  /\ \A r \in Request : NotFullWhenRead(r)

\* For OnlyEditsChangeDetails: a request lands once, and only an EditTour patches.
EditInv ==
  \A r \in Request : /\ r \in landed => call[r].pc \in {"deleting", "done"}
                     /\ call[r].pc = "patch" => call[r].op = "editTour"

=============================================================================
