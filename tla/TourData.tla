------------------------------ MODULE TourData ------------------------------
(* What the page loads about a tour and shows of its photos: lib/mapData.js, *)
(* lib/tourDetail.js, lib/sasCache.js, ui/tourData.js, ui/photoRemoval.js,   *)
(* ui/lightbox.js.  A refetch of the list replaces the tour object; a load   *)
(* or a removal that began before goes on with the object it captured.       *)
EXTENDS Integers, Sequences, FiniteSets, SequencesExt, Filter

CONSTANTS
  Pinned, Plain,      \* the tour's photos with and without coordinates
  Objects, MapLoads, DetailLoads, Removed
                      \* bounds: tour objects, queued /map, details at once, photos removed

ASSUME TourDataAssumption ==
  /\ IsFiniteSet(Pinned) /\ IsFiniteSet(Plain) /\ Pinned \cap Plain = {}
  /\ Objects \in Nat \ {0} /\ {MapLoads, DetailLoads, Removed} \subseteq Nat

Photos == Pinned \cup Plain

VARIABLES
  server,     \* the tour's photos the server holds
  current,    \* which object state.tours holds
  object,     \* each object's images, and what is loaded and still fresh
  open,       \* the tour is selected
  queue,      \* queueMapDataLoads: loads of /map, the first one running
  detail,     \* ensureDetail calls in flight
  removal,    \* each photo's removal, with the object it restores to
  boxOpen, box, at, boxAsks
              \* the lightbox: its photos, its index (from 1), the photo its dialog is about

loadVars == <<object, queue, detail>>
boxVars == <<boxOpen, box, at, boxAsks>>
tourDataVars == <<server, current, open, loadVars, removal, boxVars>>

Blank == [images |-> <<>>, loaded |-> FALSE, detailLoaded |-> FALSE, fresh |-> FALSE]
Unread == [photos |-> <<>>, known |-> FALSE]
Read(photos) == [photos |-> photos, known |-> TRUE]
Idle == [step |-> "idle", of |-> 1, answer |-> Unread, retries |-> FALSE]
ServerList == Filtered(SetToSeq(Photos), server)

withoutImage(images, p) == Filtered(images, Photos \ {p})
\* Mutant: the photo is put back beside itself.
withImageRestoredTwice(images, p) == Append(images, p)
withImageRestored(images, p) == IF p \in Range(images) THEN images ELSE Append(images, p)
clampIndex(i, length) == IF length = 0 THEN 1 ELSE IF i > length THEN length ELSE i
wrapIndex(i, step, length) == ((i - 1 + step + length) % length) + 1

TourDataInit ==
  /\ server = Photos
  /\ current = 1 /\ object = [o \in 1..Objects |-> Blank] /\ open = FALSE
  /\ queue = <<>> /\ detail = [d \in 1..DetailLoads |-> Idle]
  /\ removal = [p \in Photos |-> [step |-> "none", of |-> 1]]
  /\ boxOpen = FALSE /\ box = <<>> /\ at = 1 /\ boxAsks = {}

-----------------------------------------------------------------------------
(* The map's data: renders queue, each asks only for what is missing.        *)

Missing(o) == ~object[o].loaded \/ ~object[o].fresh

(* loadMapData; with a response already on its way when loadTours started it. *)
RenderAll(early) ==
  /\ Len(queue) < MapLoads
  /\ queue' = Append(queue, [of |-> current, early |-> early, asked |-> FALSE, answer |-> Unread])
  /\ UNCHANGED <<server, current, open, object, detail, removal, boxVars>>

MapStarts ==
  /\ queue # <<>> /\ ~Head(queue).asked
  /\ queue' = IF Missing(Head(queue).of) THEN [queue EXCEPT ![1].asked = TRUE] ELSE Tail(queue)
  /\ UNCHANGED <<server, current, open, object, detail, removal, boxVars>>

(* /api/v1/map answers with the pinned photos only.                          *)
MapRead(i) ==
  /\ i \in DOMAIN queue /\ ~queue[i].answer.known /\ (queue[i].early \/ queue[i].asked)
  /\ queue' = [queue EXCEPT ![i].answer = Read(Filtered(ServerList, Pinned))]
  /\ UNCHANGED <<server, current, open, object, detail, removal, boxVars>>

(* refreshedImages: a loaded gallery keeps its photos, re-signed or not.     *)
refreshedImages(o, fresh) == IF object[o].detailLoaded THEN object[o].images ELSE fresh

MapApplies ==
  /\ queue # <<>> /\ Head(queue).asked /\ Head(queue).answer.known
  /\ LET o == Head(queue).of IN
       object' = [object EXCEPT ![o] =
         [images |-> refreshedImages(o, Head(queue).answer.photos), loaded |-> TRUE,
          detailLoaded |-> FALSE, fresh |-> TRUE]]
  /\ queue' = Tail(queue)
  /\ UNCHANGED <<server, current, open, detail, removal, boxVars>>

(* The lists are there, empty, but the tour stays unmarked for the next render. *)
MapFails ==
  /\ queue # <<>> /\ Head(queue).asked
  /\ object' = [object EXCEPT ![Head(queue).of].loaded = TRUE]
  /\ queue' = Tail(queue)
  /\ UNCHANGED <<server, current, open, detail, removal, boxVars>>

-----------------------------------------------------------------------------
(* One tour's detail.                                                        *)

(* ensureDetail of the current object: no request while it is fresh.         *)
StartsDetail(d, retries) ==
  /\ detail[d].step = "idle"
  /\ IF object'[current].detailLoaded /\ object'[current].fresh THEN UNCHANGED detail
     ELSE detail' = [detail EXCEPT ![d] =
            [step |-> "asked", of |-> current, answer |-> Unread, retries |-> retries]]

OpenTour(d) ==
  /\ open' = TRUE /\ UNCHANGED object /\ StartsDetail(d, FALSE)
  /\ UNCHANGED <<server, current, queue, removal, boxVars>>

CloseTour ==
  /\ open /\ ~boxOpen /\ open' = FALSE
  /\ UNCHANGED <<server, current, loadVars, removal, boxVars>>

(* refreshSelectedTourImages: a dead URL means they all are, so markStale.   *)
RetryImages(d) ==
  /\ open
  /\ object' = [object EXCEPT ![current].fresh = FALSE]
  /\ StartsDetail(d, boxOpen)
  /\ UNCHANGED <<server, current, open, queue, removal, boxVars>>

DetailRead(d) ==
  /\ detail[d].step = "asked" /\ ~detail[d].answer.known
  /\ detail' = [detail EXCEPT ![d].answer = Read(ServerList)]
  /\ UNCHANGED <<server, current, open, object, queue, removal, boxVars>>

(* retryLightboxImage goes on with the refreshed photos while the tour is selected, *)
(* or a newer object of it; while the box is closed openLightbox sets both again. *)
BoxShows(images) ==
  IF open /\ boxOpen THEN box' = images /\ at' = clampIndex(at, Len(images))
  ELSE UNCHANGED <<box, at>>

DetailApplies(d) ==
  LET o == detail[d].of
      images == detail[d].answer.photos IN
  /\ detail[d].step = "asked" /\ detail[d].answer.known
  /\ object' = [object EXCEPT ![o] =
       [images |-> images, loaded |-> TRUE, detailLoaded |-> TRUE, fresh |-> TRUE]]
  /\ detail' = [detail EXCEPT ![d] = Idle]
  /\ IF detail[d].retries THEN BoxShows(images) ELSE UNCHANGED <<box, at>>
  /\ UNCHANGED <<server, current, open, queue, removal, boxOpen, boxAsks>>

DetailFails(d) ==
  LET o == detail[d].of IN
  /\ detail[d].step = "asked"
  /\ object' = [object EXCEPT ![o].loaded = TRUE]
  /\ detail' = [detail EXCEPT ![d] = Idle]
  /\ IF detail[d].retries THEN BoxShows(object[o].images) ELSE UNCHANGED <<box, at>>
  /\ UNCHANGED <<server, current, open, queue, removal, boxOpen, boxAsks>>

(* SAS_CACHE_TTL_MS has passed since the object was marked.                  *)
Expire ==
  /\ object[current].fresh /\ object' = [object EXCEPT ![current].fresh = FALSE]
  /\ UNCHANGED <<server, current, open, queue, detail, removal, boxVars>>

(* fetchTours: the list holds a new object, without photos or a track.       *)
Refetch ==
  /\ current < Objects /\ current' = current + 1
  /\ UNCHANGED <<server, open, loadVars, removal, boxVars>>

-----------------------------------------------------------------------------
(* Removing a photo, from the gallery or the lightbox.                       *)

(* scheduleImageRemoval: out of the object's images now, restored into it.   *)
Removable(p) ==
  removal[p].step = "none" /\ Cardinality({q \in Photos : removal[q].step # "none"}) < Removed

Schedules(p) ==
  /\ Removable(p)
  /\ object' = [object EXCEPT ![current].images = withoutImage(@, p)]
  /\ removal' = [removal EXCEPT ![p] = [step |-> "pending", of |-> current]]

RemoveFromGallery(p) ==
  /\ open /\ ~boxOpen /\ p \in Range(object[current].images) /\ Schedules(p)
  /\ UNCHANGED <<server, current, open, queue, detail, boxVars>>

(* A tour object that was never loaded has no photos to put it among.        *)
Restored(p) ==
  LET o == removal[p].of IN
  object' = [object EXCEPT ![o].images =
    IF object[o].loaded THEN withImageRestored(@, p) ELSE @]

UndoRemoval(p) ==
  /\ removal[p].step = "pending" /\ Restored(p)
  /\ removal' = [removal EXCEPT ![p].step = "undone"]
  /\ UNCHANGED <<server, current, open, queue, detail, boxVars>>

CommitRemoval(p) ==
  /\ removal[p].step = "pending" /\ removal' = [removal EXCEPT ![p].step = "sent"]
  /\ UNCHANGED <<server, current, open, loadVars, boxVars>>

ServerRemoves(p) ==
  /\ removal[p].step = "sent" /\ removal' = [removal EXCEPT ![p].step = "handled"]
  /\ server' = server \ {p}
  /\ UNCHANGED <<current, open, loadVars, boxVars>>

RemovalAnswered(p) ==
  /\ removal[p].step = "handled" /\ removal' = [removal EXCEPT ![p].step = "gone"]
  /\ UNCHANGED <<server, current, open, loadVars, boxVars>>

RemovalFails(p) ==
  /\ removal[p].step \in {"sent", "handled"} /\ Restored(p)
  /\ removal' = [removal EXCEPT ![p].step = "failed"]
  /\ UNCHANGED <<server, current, open, queue, detail, boxVars>>

-----------------------------------------------------------------------------
(* The lightbox.                                                             *)

OpenLightbox ==
  /\ open /\ ~boxOpen /\ object[current].images # <<>>
  /\ boxOpen' = TRUE /\ box' = object[current].images /\ at' \in DOMAIN box'
  /\ UNCHANGED <<server, current, open, loadVars, removal, boxAsks>>

StepPhoto(step) ==
  /\ boxOpen /\ boxAsks = {} /\ box # <<>> /\ at' = wrapIndex(at, step, Len(box))
  /\ UNCHANGED <<server, current, open, loadVars, removal, boxOpen, box, boxAsks>>

CloseLightbox ==
  /\ boxOpen /\ boxAsks = {} /\ boxOpen' = FALSE /\ box' = <<>> /\ at' = 1
  /\ UNCHANGED <<server, current, open, loadVars, removal, boxAsks>>

(* deleteCurrentPhoto: the photo is taken before the dialog, the index after. *)
AskBoxRemoval ==
  /\ boxOpen /\ boxAsks = {} /\ at \in DOMAIN box
  /\ Removable(box[at]) /\ boxAsks' = {box[at]}
  /\ UNCHANGED <<server, current, open, loadVars, removal, boxOpen, box, at>>

CancelBoxRemoval ==
  /\ boxAsks # {} /\ boxAsks' = {}
  /\ UNCHANGED <<server, current, open, loadVars, removal, boxOpen, box, at>>

ConfirmBoxRemoval ==
  /\ boxAsks' = {} /\ \E p \in boxAsks : Schedules(p)
  /\ box' = IF at \in DOMAIN box THEN RemoveAt(box, at) ELSE box
  /\ boxOpen' = (box' # <<>>)
  /\ at' = clampIndex(at, Len(box'))
  /\ UNCHANGED <<server, current, open, queue, detail>>

-----------------------------------------------------------------------------
MapLoad == MapStarts \/ MapApplies \/ MapFails \/ \E i \in 1..MapLoads : MapRead(i)
DetailLoad == \E d \in 1..DetailLoads :
  OpenTour(d) \/ RetryImages(d) \/ DetailRead(d) \/ DetailApplies(d) \/ DetailFails(d)
Removal == \E p \in Photos :
  \/ RemoveFromGallery(p) \/ UndoRemoval(p) \/ CommitRemoval(p)
  \/ ServerRemoves(p) \/ RemovalAnswered(p) \/ RemovalFails(p)
Lightbox == OpenLightbox \/ CloseLightbox \/ AskBoxRemoval \/ CancelBoxRemoval
  \/ ConfirmBoxRemoval \/ \E step \in {-1, 1} : StepPhoto(step)

\* The photos beside the loads of the map, and beside the lightbox.
Photographs == DetailLoad \/ CloseTour \/ Expire \/ Refetch \/ Removal
MapDataNext == Photographs \/ MapLoad \/ \E early \in BOOLEAN : RenderAll(early)
LightboxNext == Photographs \/ Lightbox

TourDataNext == MapDataNext \/ LightboxNext

(* A request is answered or fails: fetch settles in the end.                 *)
TourDataFairness ==
  WF_tourDataVars(MapStarts) /\ WF_tourDataVars(MapApplies \/ MapFails)

TourDataSpec == TourDataInit /\ [][TourDataNext]_tourDataVars

-----------------------------------------------------------------------------
(* Properties.                                                               *)

(* The photos, the loads and the lightbox are of their types: the type       *)
(* invariant of this module.                                                 *)
TourDataTypeOK ==
  LET answers == [photos : Seq(Photos), known : BOOLEAN] IN
  /\ server \subseteq Photos /\ current \in 1..Objects /\ {open, boxOpen} \subseteq BOOLEAN
  /\ object \in [1..Objects -> [images : Seq(Photos), loaded : BOOLEAN,
                                detailLoaded : BOOLEAN, fresh : BOOLEAN]]
  /\ queue \in Seq([of : 1..Objects, early : BOOLEAN, asked : BOOLEAN, answer : answers])
  /\ detail \in [1..DetailLoads -> [step : {"idle", "asked"}, of : 1..Objects,
                                    answer : answers, retries : BOOLEAN]]
  /\ removal \in [Photos -> [of : 1..Objects, step :
       {"none", "pending", "undone", "sent", "handled", "gone", "failed"}]]
  /\ box \in Seq(Photos) /\ at \in Nat \ {0} /\ boxAsks \subseteq Photos

Images == {object[o].images : o \in 1..Objects}
Occurrences(p, images) == Cardinality({i \in DOMAIN images : images[i] = p})

(* A photo put back, by Undo or by a failed DELETE, is there once even when a *)
(* refetch brought it back first (images.js, withImageRestored).             *)
PutBackOnce == \A images \in Images : \A p \in Photos : Occurrences(p, images) <= 1

(* A tour marked fresh was filled by an answer, never by a failure: its pins *)
(* are there, unless a removal of them was ever begun, also one that was     *)
(* undone or failed: those are PutBackOnce's (mapData.js).                   *)
FreshHasPins ==
  \A o \in 1..Objects : object[o].fresh =>
    \A p \in Pinned : p \in Range(object[o].images) \/ removal[p].step # "none"

(* The map's answer, which lacks the photos without coordinates, takes none  *)
(* out of a loaded gallery (mapData.js, refreshedImages).                    *)
GalleryKept ==
  [][\A o \in 1..Objects : object[o].detailLoaded /\ ~object'[o].detailLoaded =>
       object'[o].images = object[o].images]_tourDataVars

(* The lightbox stands on one of its photos, whatever is removed or reloaded. *)
LightboxInRange == boxOpen /\ box # <<>> => at \in DOMAIN box

(* A load of the map that fails does not hold up the ones queued behind it   *)
(* (mapData.js, queueMapDataLoads).                                          *)
MapLoadsEnd ==
  []<>(queue = <<>>) \/ []<><<Len(queue') < Len(queue)>>_tourDataVars

(* The photos of a tour are right after overlapping loads of the map, of     *)
(* details and removals under way (mapData.js, tourData.js, photoRemoval.js). *)
PhotosSound == TourDataTypeOK /\ PutBackOnce /\ FreshHasPins /\ LightboxInRange

=============================================================================
