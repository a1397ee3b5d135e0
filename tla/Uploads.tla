------------------------------ MODULE Uploads ------------------------------
(* Uploads from the page: photos to the open tour (ui/imageUpload.js) and     *)
(* tours (ui/uploadModal.js), both by ui/uploadRequest.js.  An upload may be  *)
(* stored and its answer lost; the rider may close, reopen and drop again     *)
(* while uploads run.                                                         *)
EXTENDS Integers, Sequences, FiniteSets, SequencesExt

CONSTANTS
  Files,              \* photos the rider drops
  UploadConcurrency,  \* UPLOAD_CONCURRENCY
  MaxTourImages,      \* MAX_TOUR_IMAGES
  Batches, Visits, Attempts, Chosen, Submits
                      \* bounds: drops, openings of the panel, tries per photo, files chosen,
                      \* submits

ASSUME UploadsAssumption ==
  /\ IsFiniteSet(Files) /\ {Batches, Attempts} \subseteq Nat \ {0}
  /\ {UploadConcurrency, MaxTourImages, Visits, Chosen, Submits} \subseteq Nat

VARIABLES
  images,     \* tour.images of the tour the photos go to
  panelShown, visit, pendingDetails,
              \* the panel shows it; how often it was opened; details still loading
  grid,       \* the upload tiles in the gallery
  photoBatch, \* each drop of photos
  job,        \* each photo's upload
  storedCopies, lost,     \* copies of a photo on the server; how many of its 201 never arrived
  form,       \* the dialog for a tour: open, the file chosen in it, its button
  submit,     \* each submit of it
  created,    \* tours stored per chosen file
  reoffered   \* failures shown in the dialog while it was open for that file

openingVars == <<panelShown, visit, pendingDetails>>
photoVars == <<images, openingVars, grid, photoBatch, job, storedCopies, lost>>
tourVars == <<form, submit, created, reoffered>>
uploadsVars == <<photoVars, tourVars>>

NoJob == [step |-> "none", batch |-> 1, tries |-> 0]
Sending(step) == step \in {"sending", "stored"}

UploadsInit ==
  /\ images = {} /\ panelShown = FALSE /\ visit = 0 /\ pendingDetails = {} /\ grid = {}
  /\ photoBatch = [b \in 1..Batches |-> [step |-> "none", visit |-> 0, files |-> <<>>]]
  /\ job = [f \in Files |-> NoJob]
  /\ storedCopies = [f \in Files |-> 0] /\ lost = [f \in Files |-> 0]
  /\ form = [open |-> FALSE, choice |-> 0, enabled |-> FALSE]
  /\ submit = [s \in 1..Submits |-> [step |-> "none", choice |-> 0]]
  /\ created = [c \in 1..Chosen |-> 0] /\ reoffered = [c \in 1..Chosen |-> 0]

-----------------------------------------------------------------------------
(* The panel: opening it empties the gallery and loads the detail.           *)

SelectTour ==
  /\ visit < Visits /\ ~form.open
  /\ panelShown' = TRUE /\ visit' = visit + 1 /\ grid' = {}
  /\ pendingDetails' = pendingDetails \cup {visit'}
  /\ UNCHANGED <<images, photoBatch, job, storedCopies, lost, tourVars>>

LeavePanel ==
  /\ panelShown /\ ~form.open /\ panelShown' = FALSE
  /\ UNCHANGED <<images, visit, pendingDetails, grid, photoBatch, job, storedCopies, lost, tourVars>>

(* The continuation of selectTour: the gallery is rendered anew.             *)
PanelDetailArrives(v) ==
  /\ v \in pendingDetails /\ pendingDetails' = pendingDetails \ {v}
  /\ grid' = IF panelShown THEN {} ELSE grid
  /\ UNCHANGED <<images, panelShown, visit, photoBatch, job, storedCopies, lost, tourVars>>

(* retryTourImages and GALLERY_CHANGED render the gallery anew, too.         *)
RendersGallery ==
  /\ panelShown /\ grid # {} /\ grid' = {}
  /\ UNCHANGED <<images, openingVars, photoBatch, job, storedCopies, lost, tourVars>>

-----------------------------------------------------------------------------
(* Photos.                                                                   *)

(* uploadImages up to its await of state.detailLoading.                      *)
DropPhotos(b) ==
  /\ panelShown /\ ~form.open /\ photoBatch[b].step = "none"
  /\ \A a \in 1..(b - 1) : photoBatch[a].step # "none"
  /\ \E files \in SUBSET {f \in Files : job[f].step = "none"} \ {{}} :
       photoBatch' = [photoBatch EXCEPT ![b] =
         [step |-> "waiting", visit |-> visit, files |-> SetToSeq(files)]]
  /\ UNCHANGED <<images, openingVars, grid, job, storedCopies, lost, tourVars>>

(* planImageUploads: the cap counts the photos there are and those accepted before. *)
Accepted(files) ==
  {files[i] : i \in {j \in DOMAIN files : Cardinality(images) + j <= MaxTourImages}}

\* Mutant: nothing waits for the detail.
DetailOver(v) == TRUE
DetailSettled(v) == v \notin pendingDetails

QueuePhotos(b) ==
  LET files == photoBatch[b].files
      mine == {f \in Range(files) : job[f].step = "none"} IN
  /\ photoBatch[b].step = "waiting" /\ DetailSettled(photoBatch[b].visit)
  /\ IF panelShown
       THEN /\ photoBatch' = [photoBatch EXCEPT ![b].step = "running"]
            /\ job' = [f \in Files |-> IF f \notin mine THEN job[f] ELSE
                 [step |-> IF f \in Accepted(files) THEN "queued" ELSE "refused",
                  batch |-> b, tries |-> 0]]
            /\ grid' = grid \cup mine
       ELSE /\ photoBatch' = [photoBatch EXCEPT ![b].step = "done"]
            /\ UNCHANGED <<job, grid>>
  /\ UNCHANGED <<images, openingVars, storedCopies, lost, tourVars>>

RunningOf(b) == {f \in Files : job[f].batch = b /\ job[f].tries = 1 /\ Sending(job[f].step)}

MayStart(f) ==
  job[f].step = "queued" /\ Cardinality(RunningOf(job[f].batch)) < UploadConcurrency

(* uploadOne, a worker's or the tile's retry.                                *)
SendPhoto(f) ==
  /\ \/ MayStart(f)
     \/ job[f].step = "retryable" /\ job[f].tries < Attempts
  /\ job' = [job EXCEPT ![f].step = "sending", ![f].tries = @ + 1]
  /\ UNCHANGED <<images, openingVars, grid, photoBatch, storedCopies, lost, tourVars>>

ServerStores(f) ==
  /\ job[f].step = "sending" /\ job' = [job EXCEPT ![f].step = "stored"]
  /\ storedCopies' = [storedCopies EXCEPT ![f] = @ + 1]
  /\ UNCHANGED <<images, openingVars, grid, photoBatch, lost, tourVars>>

PhotoAnswered(f) ==
  /\ job[f].step = "stored" /\ job' = [job EXCEPT ![f].step = "done"]
  /\ images' = images \cup {f}
  /\ UNCHANGED <<openingVars, grid, photoBatch, storedCopies, lost, tourVars>>

\* Mutant: every failure offers the retry.
UnreadableRetried == "retryable"
UnreadableStep == "unreadable"

(* readUploadResponse: a 201 that cannot be parsed is not offered again.     *)
PhotoUnreadable(f) ==
  /\ job[f].step = "stored" /\ job' = [job EXCEPT ![f].step = UnreadableStep]
  /\ UNCHANGED <<images, openingVars, grid, photoBatch, storedCopies, lost, tourVars>>

(* A failure answer, a network error, a timeout; or no token.                *)
PhotoFails(f) ==
  /\ Sending(job[f].step)
  /\ job' = [job EXCEPT ![f].step = "retryable"]
  /\ lost' = [lost EXCEPT ![f] = @ + (IF job[f].step = "stored" THEN 1 ELSE 0)]
  /\ UNCHANGED <<images, openingVars, grid, photoBatch, storedCopies, tourVars>>

-----------------------------------------------------------------------------
(* Tours.                                                                    *)

(* openUpload: the form is reset, whatever still runs.                       *)
OpenUpload ==
  /\ ~form.open /\ form' = [open |-> TRUE, choice |-> 0, enabled |-> FALSE]
  /\ UNCHANGED <<photoVars, submit, created, reoffered>>

CloseUpload ==
  /\ form.open /\ form' = [form EXCEPT !.open = FALSE]
  /\ UNCHANGED <<photoVars, submit, created, reoffered>>

(* selectFile; the n-th choice is file n.                                    *)
SelectFile(n) ==
  /\ form.open /\ \A s \in DOMAIN submit : submit[s].choice < n
  /\ form.choice < n
  /\ n = 1 \/ form.choice = n - 1 \/ \E s \in DOMAIN submit : submit[s].choice = n - 1
  /\ form' = [form EXCEPT !.choice = n, !.enabled = TRUE]
  /\ UNCHANGED <<photoVars, submit, created, reoffered>>

Submitted == [form EXCEPT !.enabled = FALSE]

HasFile == form.choice # 0

SubmitUpload(s) ==
  /\ form.open /\ form.enabled /\ HasFile
  /\ submit[s].step = "none" /\ \A r \in 1..(s - 1) : submit[r].step # "none"
  /\ submit' = [submit EXCEPT ![s] = [step |-> "sending", choice |-> form.choice]]
  /\ form' = Submitted
  /\ UNCHANGED <<photoVars, created, reoffered>>

ServerCreates(s) ==
  /\ submit[s].step = "sending" /\ submit' = [submit EXCEPT ![s].step = "stored"]
  /\ created' = [created EXCEPT ![submit[s].choice] = @ + 1]
  /\ UNCHANGED <<photoVars, form, reoffered>>

(* The dialog closes, whichever upload it is open for now, and the list loads. *)
TourAnswered(s) ==
  /\ submit[s].step = "stored" /\ submit' = [submit EXCEPT ![s].step = "listing"]
  /\ form' = [form EXCEPT !.open = FALSE]
  /\ UNCHANGED <<photoVars, created, reoffered>>

(* selectTour of the new tour: the panel leaves the one the photos go to.    *)
SelectCreated(s) ==
  /\ submit[s].step = "listing" /\ submit' = [submit EXCEPT ![s].step = "done"]
  /\ panelShown' = FALSE /\ grid' = {}
  /\ UNCHANGED <<images, visit, pendingDetails, photoBatch, job, storedCopies, lost, form, created, reoffered>>

(* showUploadFailure: the button is offered again, in whatever the form holds *)
(* by now.                                                                   *)
ShowFailure(s, step) ==
  /\ submit' = [submit EXCEPT ![s].step = step]
  /\ form' = [form EXCEPT !.enabled = TRUE]
  /\ reoffered' = [c \in 1..Chosen |->
                     reoffered[c] + (IF form.open /\ form.choice = c THEN 1 ELSE 0)]
  /\ UNCHANGED <<photoVars, created>>

(* A failure answer, a network error, a timeout; or no token.                *)
TourFails(s) ==
  /\ Sending(submit[s].step)
  /\ ShowFailure(s, IF submit[s].step = "stored" THEN "lost" ELSE "failed")

(* readUploadResponse rejects a 201 that cannot be parsed; the dialog does not *)
(* tell it from a failure.                                                   *)
TourUnreadable(s) == submit[s].step = "stored" /\ ShowFailure(s, "unreadable")

-----------------------------------------------------------------------------
PanelNext ==
  SelectTour \/ LeavePanel \/ RendersGallery \/ \E v \in pendingDetails : PanelDetailArrives(v)
PhotoNext ==
  \/ \E b \in 1..Batches : DropPhotos(b) \/ QueuePhotos(b)
  \/ \E f \in Files : SendPhoto(f) \/ ServerStores(f) \/ PhotoAnswered(f)
                        \/ PhotoUnreadable(f) \/ PhotoFails(f)
TourNext ==
  \/ OpenUpload \/ CloseUpload \/ \E n \in 1..Chosen : SelectFile(n)
  \/ \E s \in 1..Submits : SubmitUpload(s) \/ ServerCreates(s) \/ TourAnswered(s)
                             \/ SelectCreated(s) \/ TourFails(s) \/ TourUnreadable(s)

UploadsNext == PanelNext \/ PhotoNext \/ TourNext

UploadsSpec == UploadsInit /\ [][UploadsNext]_uploadsVars

(* Details settle, and a request is answered or fails: XHR and fetch settle. *)
UploadsFairness ==
  /\ \A v \in 1..Visits : WF_uploadsVars(PanelDetailArrives(v))
  /\ \A b \in 1..Batches : WF_uploadsVars(QueuePhotos(b))
  /\ \A f \in Files : /\ WF_uploadsVars(MayStart(f) /\ SendPhoto(f))
                      /\ WF_uploadsVars(PhotoAnswered(f) \/ PhotoFails(f))

-----------------------------------------------------------------------------
(* Properties.                                                               *)

(* The uploads are of their types, and each submit carries a file, also when  *)
(* an upload that fails late enables the button of an empty form again: the   *)
(* type invariant of this module (uploadModal.js, submitUpload).             *)
UploadsTypeOK ==
  /\ images \subseteq Files /\ grid \subseteq Files /\ {panelShown} \subseteq BOOLEAN
  /\ visit \in 0..Visits /\ pendingDetails \subseteq 1..visit
  /\ photoBatch \in [1..Batches -> [step : {"none", "waiting", "running", "done"}, visit : 0..Visits,
                               files : Seq(Files)]]
  /\ job \in [Files -> [batch : 1..Batches, tries : 0..Attempts, step : {"none", "refused",
       "queued", "sending", "stored", "done", "unreadable", "retryable"}]]
  /\ storedCopies \in [Files -> 0..Attempts] /\ lost \in [Files -> 0..Attempts]
  /\ form \in [open : BOOLEAN, choice : 0..Chosen, enabled : BOOLEAN]
  /\ submit \in [1..Submits -> [choice : 0..Chosen,
       step : {"none", "sending", "stored", "listing", "done", "failed", "lost", "unreadable"}]]
  /\ \A s \in 1..Submits : submit[s].step # "none" <=> submit[s].choice # 0
  /\ created \in [1..Chosen -> 0..Submits] /\ reoffered \in [1..Chosen -> 0..Submits]

(* A photo is stored twice only if the answer to the first time was lost: an *)
(* unreadable 201 is not offered again (imageUpload.js, uploadOne).          *)
PhotoStoredOnce == \A f \in Files : storedCopies[f] <= 1 + lost[f]

(* The detail a drop waited for does not wipe its tiles (state.js,           *)
(* detailLoading); that of another opening of the same tour still may.       *)
TilesKept ==
  [][\A v \in pendingDetails \ pendingDetails' : \A f \in grid \ grid' :
       photoBatch[job[f].batch].visit # v]_uploadsVars

(* A file is sent again only after a failure was shown while the dialog was   *)
(* open for it (uploadModal.js, showUploadFailure).  The failure of another   *)
(* upload counts, and so does a 201 that cannot be read, though "retrying     *)
(* would create a duplicate" (lib/upload.js, readUploadResponse).            *)
SubmitsOf(c) == {s \in 1..Submits : submit[s].choice = c}
SentAgainIfOffered == \A c \in 1..Chosen : Cardinality(SubmitsOf(c)) <= 1 + reoffered[c]

(* "The tour exists now: nothing below may offer the upload again"            *)
(* (uploadModal.js, submitUpload): once its 201 was read, no dialog is open   *)
(* for the file, whatever other uploads fail or end later.                   *)
NotOfferedAgain ==
  \A s \in 1..Submits : submit[s].step \in {"listing", "done"} /\ form.open =>
    form.choice # submit[s].choice

(* Every drop ends: it is taken up, or, when its panel was left, discarded    *)
(* without a word (imageUpload.js, uploadImages); and every photo taken up    *)
(* does, in the tour, refused, or with a tile that says why (concurrency.js). *)
DropEnds ==
  []<>(/\ \A b \in 1..Batches : photoBatch[b].step # "waiting"
       /\ \A f \in Files : job[f].step \notin {"queued", "sending", "stored"})

(* A photo is stored twice only if an answer was lost, a tour's file is sent  *)
(* twice only if the dialog offered it again, and never once its 201 was      *)
(* read, whatever is closed and opened meanwhile (imageUpload.js,             *)
(* uploadModal.js).                                                          *)
UploadsSound ==
  UploadsTypeOK /\ PhotoStoredOnce /\ SentAgainIfOffered /\ NotOfferedAgain

=============================================================================
