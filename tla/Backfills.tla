------------------------------ MODULE Backfills ------------------------------
(***************************************************************************)
(* The backfill scripts (functions/scripts/lib), run again and again beside *)
(* the handlers, on one tour from before the shape it is brought to: each   *)
(* holds the tour as its query returned it and writes some calls later.     *)
(* The handlers' own interleavings are those of TourStore; here each write  *)
(* of theirs to the tour is one step.                                       *)
(***************************************************************************)
EXTENDS Naturals

CONSTANTS
  OldPhoto,    \* the photos the tour may have from the start: no thumbnail, no size
  NewPhoto,    \* those that may be uploaded
  MaxFaults    \* bound: rejected calls and stopped scripts

Photo == OldPhoto \cup NewPhoto

ASSUME BackfillsAssumption == OldPhoto \cap NewPhoto = {} /\ MaxFaults \in Nat

VARIABLES
  tour,     \* the tour document
  track,    \* its track document
  gpx,      \* its GPX blob
  blobs,    \* the photos' blobs
  run,      \* what each script is at
  cleanup,  \* DeleteTour: whether the files are due to go, or gone
  photo,    \* whether the rider was told a photo is stored, and has deleted it since
  hadImages,  \* history: whether the tour had an images field from the start
  faults

history == <<photo, hadImages>>
vars == <<tour, track, gpx, blobs, run, cleanup, history, faults>>

-----------------------------------------------------------------------------
Script == {"stats", "thumbnails", "schemaVersion", "tracks", "storedBytes"}

Version == 0..3  \* schemaVersion, 0 where there is none

Stats == {"none", "outdated", "current"}

Tour == [there: BOOLEAN, etag: Nat, version: Version,
         stats: Stats,          \* none, from before #552, or what its GPX says
         inline: BOOLEAN,       \* heatmapData is defined
         hasImages: BOOLEAN,    \* images is defined
         images: SUBSET Photo,
         sized: SUBSET Photo,   \* the entries with bytes
         gpxSized: BOOLEAN]     \* gpxBytes is defined

Track == {"none", "line", "segments"}

Blank == [there |-> FALSE, etag |-> 0, version |-> 0, stats |-> "none", inline |-> FALSE,
          hasImages |-> FALSE, images |-> {}, sized |-> {}, gpxSized |-> FALSE]

\* read: it has queried; write: the track is due; patch: the tour is.
Pc == {"idle", "read", "write", "patch"}

TypeOK ==
  /\ tour \in Tour
  /\ track \in Track
  /\ gpx \in {"readable", "unreadable", "missing"}
  /\ blobs \in [full: SUBSET Photo, thumb: SUBSET Photo]
  /\ run \in [Script -> [pc: Pc, tour: Tour, track: Track, todo: SUBSET Photo]]
  /\ cleanup \in {"none", "due", "done"}
  /\ photo \in [Photo -> {"absent", "stored", "deleted"}]
  /\ hadImages \in BOOLEAN
  /\ faults \in 0..MaxFaults

\* Unversioned, or version 1; with its points inline.
Init ==
  /\ track = "none"
  /\ gpx \in {"readable", "unreadable", "missing"}
  /\ tour \in {t \in [there: {TRUE}, etag: {0}, version: {0, 1}, stats: Stats, inline: {TRUE},
                      hasImages: BOOLEAN, images: SUBSET OldPhoto, sized: {{}}, gpxSized: {FALSE}] :
                 /\ t.hasImages \/ t.images = {}
                 /\ t.version = 1 => t.stats # "none" /\ t.hasImages}
  /\ blobs = [full |-> tour.images, thumb |-> {}]
  /\ run = [s \in Script |-> [pc |-> "idle", tour |-> Blank, track |-> "none", todo |-> {}]]
  /\ cleanup = "none"
  /\ photo = [p \in Photo |-> IF p \in tour.images THEN "stored" ELSE "absent"]
  /\ hadImages = tour.hasImages
  /\ faults = 0

-----------------------------------------------------------------------------
Become(s, pc) == [run EXCEPT ![s].pc = pc]
Held(s) == run[s].tour
Rest(s) == [run EXCEPT ![s] = [pc |-> "idle", tour |-> Blank, track |-> "none", todo |-> {}]]
Patched(t) == tour' = [t EXCEPT !.etag = tour.etag + 1]

\* The patch of a tour: refused when its condition does not hold, or when the tour is gone.
Patch(s, condition, patched) ==
  /\ run[s].pc = "patch"
  /\ IF tour.there /\ condition THEN Patched(patched) ELSE UNCHANGED tour
  /\ run' = Rest(s)
  /\ UNCHANGED <<track, gpx, blobs, cleanup, history, faults>>

\* What the queries select. Mutant: a tour that was moved is not selected again.
UnmovedInline == tour.inline
Unmoved == tour.inline \/ tour.version = 1
Unmarked == tour.version = 0 /\ tour.stats # "none"

Pending(s) ==
  CASE s = "stats"         -> TRUE
    [] s = "thumbnails"    -> tour.images # {}
    [] s = "schemaVersion" -> Unmarked
    [] s = "tracks"        -> Unmoved
    [] s = "storedBytes"   -> tour.version = 2

\* The columns it selects.
Selected(s) ==
  CASE s = "stats"         -> [Blank EXCEPT !.stats = tour.stats]
    [] s = "thumbnails"    -> Blank
    [] s = "schemaVersion" -> [Blank EXCEPT !.hasImages = tour.hasImages]
    [] s = "tracks"        -> [Blank EXCEPT !.version = tour.version, !.inline = tour.inline]
    [] s = "storedBytes"   -> [Blank EXCEPT !.images = tour.images, !.etag = tour.etag]

\* A tour that only needs its version is patched as soon as its turn comes. The images of a tour do
\* not depend on each other: a run takes one of them.
Query(s) ==
  /\ run[s].pc = "idle" /\ tour.there /\ Pending(s)
  /\ LET marksOnly == s = "schemaVersion" \/ (s = "tracks" /\ ~tour.inline) IN
     \E todo \in IF s = "thumbnails" THEN {{p} : p \in tour.images} ELSE {{}} :
       run' = [run EXCEPT ![s] = [pc |-> IF marksOnly THEN "patch" ELSE "read",
                                  tour |-> Selected(s), track |-> "none", todo |-> todo]]
  /\ UNCHANGED <<tour, track, gpx, blobs, cleanup, history, faults>>

-----------------------------------------------------------------------------
\* tourStatsBackfill: from the GPX, and only if they differ; fails without a readable one.
ReadStats ==
  /\ run["stats"].pc = "read"
  /\ run' = IF gpx = "readable" /\ Held("stats").stats # "current"
            THEN Become("stats", "patch") ELSE Rest("stats")
  /\ UNCHANGED <<tour, track, gpx, blobs, cleanup, history, faults>>

PatchStats == Patch("stats", TRUE, [tour EXCEPT !.stats = "current"])

\* thumbnailBackfill: made from the photo, unless it is there; fails for a photo that is gone.
ReadImage ==
  /\ run["thumbnails"].pc = "read"
  /\ run' = IF run["thumbnails"].todo \subseteq blobs.full \ blobs.thumb
            THEN Become("thumbnails", "write") ELSE Rest("thumbnails")
  /\ UNCHANGED <<tour, track, gpx, blobs, cleanup, history, faults>>

WriteThumbnail ==
  /\ run["thumbnails"].pc = "write"
  /\ blobs' = [blobs EXCEPT !.thumb = @ \cup run["thumbnails"].todo]
  /\ run' = Rest("thumbnails")
  /\ UNCHANGED <<tour, track, gpx, cleanup, history, faults>>

\* schemaVersionBackfill: the images field too, where the query found none.
Marked(t) ==
  IF Held("schemaVersion").hasImages
  THEN [t EXCEPT !.version = 1]
  ELSE [t EXCEPT !.version = 1, !.hasImages = TRUE, !.images = {}, !.sized = {}]

PatchVersion == Patch("schemaVersion", TRUE, Marked(tour))


\* trackBackfill: rebuilt from the GPX, from the points held when there is no readable one.
RebuildTrack ==
  /\ run["tracks"].pc = "read"
  /\ run' = [run EXCEPT !["tracks"].pc = "write",
                        !["tracks"].track = IF gpx = "readable" THEN "segments" ELSE "line"]
  /\ UNCHANGED <<tour, track, gpx, blobs, cleanup, history, faults>>

WriteTrack ==
  /\ run["tracks"].pc = "write"
  /\ track' = run["tracks"].track
  /\ run' = Become("tracks", "patch")
  /\ UNCHANGED <<tour, gpx, blobs, cleanup, history, faults>>

\* Removing points that are not there any more fails the patch.
PatchTrack ==
  Patch("tracks", Held("tracks").inline => tour.inline,
        [tour EXCEPT !.inline = FALSE,
                     !.version = IF Held("tracks").version = 1 THEN 2 ELSE @])

\* storedBytesBackfill: the sizes of the photos the query found, if the tour is still that one.
ReadSizes ==
  /\ run["storedBytes"].pc = "read"
  /\ run' = Become("storedBytes", "patch")
  /\ UNCHANGED <<tour, track, gpx, blobs, cleanup, history, faults>>

\* Mutant: without a condition.
UnchangedSinceQueryNotAsked == TRUE
UnchangedSinceQuery == tour.etag = Held("storedBytes").etag

PatchSizes ==
  LET images == Held("storedBytes").images IN
  Patch("storedBytes", UnchangedSinceQuery,
        [tour EXCEPT !.images = images, !.sized = images, !.gpxSized = TRUE, !.version = 3])

\* A call rejects unapplied, its answer is lost, or the script is stopped: the tour counts as
\* failed.
RunFails(s) ==
  /\ run[s].pc # "idle" /\ faults < MaxFaults
  /\ faults' = faults + 1
  /\ run' = Rest(s)
  /\ UNCHANGED <<tour, track, gpx, blobs, cleanup, history>>

-----------------------------------------------------------------------------
(***************************************************************************)
(* The handlers, as far as a backfill meets them.                          *)
(***************************************************************************)

\* UploadImage: both blobs are stored, then the entry is appended under the ETag of its read.
UploadImage(p) ==
  /\ tour.there /\ p \in NewPhoto /\ photo[p] = "absent"
  /\ blobs' = [full |-> blobs.full \cup {p}, thumb |-> blobs.thumb \cup {p}]
  /\ Patched([tour EXCEPT !.hasImages = TRUE, !.images = @ \cup {p}, !.sized = @ \cup {p}])
  /\ photo' = [photo EXCEPT ![p] = "stored"]
  /\ UNCHANGED <<track, gpx, run, cleanup, hadImages, faults>>

\* DeleteImage: the entry, then the blobs.
DeleteImage(p) ==
  /\ tour.there /\ p \in tour.images
  /\ Patched([tour EXCEPT !.images = @ \ {p}, !.sized = @ \ {p}])
  /\ photo' = [photo EXCEPT ![p] = "deleted"]
  /\ UNCHANGED <<track, gpx, blobs, run, cleanup, hadImages, faults>>

DeleteImageBlobs(p) ==
  /\ p \in blobs.full /\ photo[p] = "deleted"
  /\ blobs' = [full |-> blobs.full \ {p}, thumb |-> blobs.thumb \ {p}]
  /\ UNCHANGED <<tour, track, gpx, run, cleanup, history, faults>>

\* DeleteTour: the document, then its files.
DeleteTour ==
  /\ tour.there
  /\ tour' = [tour EXCEPT !.there = FALSE]
  /\ cleanup' = "due"
  /\ UNCHANGED <<track, gpx, blobs, run, history, faults>>

DeleteFiles ==
  /\ cleanup = "due"
  /\ cleanup' = "done"
  /\ track' = "none" /\ gpx' = "missing"
  /\ blobs' = [full |-> blobs.full \ tour.images, thumb |-> blobs.thumb \ tour.images]
  /\ UNCHANGED <<tour, run, history, faults>>

-----------------------------------------------------------------------------
Backfill(s) ==
  \/ Query(s)
  \/ s = "stats" /\ (ReadStats \/ PatchStats)
  \/ s = "thumbnails" /\ (ReadImage \/ WriteThumbnail)
  \/ s = "schemaVersion" /\ PatchVersion
  \/ s = "tracks" /\ (RebuildTrack \/ WriteTrack \/ PatchTrack)
  \/ s = "storedBytes" /\ (ReadSizes \/ PatchSizes)

Next ==
  \/ \E s \in Script : Backfill(s) \/ RunFails(s)
  \/ \E p \in Photo : UploadImage(p) \/ DeleteImage(p) \/ DeleteImageBlobs(p)
  \/ DeleteTour \/ DeleteFiles

Spec == Init /\ [][Next]_vars

\* The operator runs a backfill again until its dry run finds nothing left.
FairSpec == Spec /\ \A s \in Script : WF_vars(Backfill(s))

-----------------------------------------------------------------------------
\* "a failure between the two writes leaves the points in both places, never none"
\* (trackBackfill.js:90), whatever the other backfills and the handlers do in between.
PointsKept == tour.there => tour.inline \/ track # "none"

\* A version means the shape schemaVersion.js:8-13 gives it, though the scripts that bring it about
\* write from different reads.
VersionMeansShape ==
  tour.there =>
    /\ tour.version >= 1 => tour.stats # "none" /\ tour.hasImages
    /\ tour.version >= 2 => ~tour.inline
    /\ tour.version >= 3 => tour.gpxSized /\ tour.images \subseteq tour.sized

\* "concurrent uploads each keep their entry" (design-decisions.md:128): the photos of a tour are
\* those the rider was told are stored and did not delete, also while its images are rewritten. A
\* tour from before the images field is left out: marking it empties what was uploaded since.
PhotosKept == tour.there /\ hadImages => tour.images = {p \in Photo : photo[p] = "stored"}

\* A version is never taken back by a script that read the tour earlier.
VersionsOnlyRise == [][tour'.version >= tour.version]_vars

\* Every tour ends in the current shape, if its stats are there or can be read from its GPX.
EndsCurrent ==
  []<>(tour.there /\ (tour.stats # "none" \/ gpx = "readable") =>
         tour.version = 3 /\ ~tour.inline)

-----------------------------------------------------------------------------
(***************************************************************************)
(* The inductive invariant behind PointsKept, VersionMeansShape and, on    *)
(* tours with an images field, PhotosKept: what a script still holds of    *)
(* its query, when it writes.                                              *)
(***************************************************************************)
UnderWay(s) == run[s].pc # "idle"

\* Nothing else gives a version to a tour that has none.
MarksUnversioned ==
  UnderWay("schemaVersion") =>
    /\ tour.version = 0 /\ tour.stats # "none"
    /\ Held("schemaVersion").hasImages => tour.hasImages

\* The track is there before the points go, and nothing else moves the tour on from version 1.
MovesPointsSafely ==
  /\ UnderWay("tracks") => /\ Held("tracks").version = 1 => tour.version = 1
                           /\ tour.inline => Held("tracks").inline
  /\ run["tracks"].pc = "write" => run["tracks"].track # "none"
  /\ run["tracks"].pc = "patch" /\ tour.there => track # "none"
  /\ cleanup = "due" => ~tour.there

SizesWhatItRead ==
  UnderWay("storedBytes") =>
    /\ tour.version = 2
    /\ Held("storedBytes").etag <= tour.etag
    /\ UnchangedSinceQuery => Held("storedBytes").images = tour.images

PhotosKnown ==
  hadImages =>
    /\ tour.hasImages
    /\ UnderWay("schemaVersion") => Held("schemaVersion").hasImages
    /\ PhotosKept

\* VersionMeansShape, of a deleted tour too.
ShapeOfVersion ==
  /\ tour.version >= 1 => tour.stats # "none" /\ tour.hasImages
  /\ tour.version >= 2 => ~tour.inline
  /\ tour.version >= 3 => tour.gpxSized /\ tour.images \subseteq tour.sized

BackfillInv ==
  /\ TypeOK
  /\ PointsKept
  /\ ShapeOfVersion
  /\ MarksUnversioned
  /\ MovesPointsSafely
  /\ SizesWhatItRead
  /\ PhotosKnown

\* What the rider has in a tour is there, in the shape its version says, at every moment of five
\* scripts beside the handlers that change the tour (trackBackfill.js:90, storedBytesBackfill.js:46).
DataKept == TypeOK /\ PointsKept /\ VersionMeansShape /\ PhotosKept

\* Running the scripts again and again, in any order, brings every tour forward and to the end
\* (schemaVersion.js:8).
RerunsConverge == VersionsOnlyRise /\ EndsCurrent

=============================================================================
