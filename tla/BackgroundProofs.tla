-------------------------- MODULE BackgroundProofs --------------------------
(***************************************************************************)
(* TLAPS proofs about what runs behind the requests.  Backfills: the       *)
(* points and the photos of a tour are kept, a version means its shape and *)
(* never goes back, for any photos, any failures and any order of the      *)
(* scripts.  ParseQueue: the threads serve every file in its turn, for any *)
(* number of files.                                                        *)
(***************************************************************************)
EXTENDS Backfills, ParseQueue, FiniteSetTheorems, SequenceTheorems, TLAPS

-----------------------------------------------------------------------------
(* Backfills. *)

Step == [pc: Pc, tour: Tour, track: Track, todo: SUBSET Photo]

-----------------------------------------------------------------------------
\* Typing of what the scripts hold.

\* A tour that holds nothing is a tour.
LEMMA BlankTyped == Blank \in Tour
BY DEF Blank, Tour, Version, Stats

\* What a script holds is of its type.
LEMMA RunTyped ==
  ASSUME TypeOK, NEW s \in Script
  PROVE  /\ run[s] \in Step
         /\ run[s].tour \in Tour /\ run[s].track \in Track /\ run[s].todo \in SUBSET Photo
BY DEF TypeOK, Step

\* A script that rests is idle, and no other moves.
LEMMA Resting ==
  ASSUME TypeOK, NEW s \in Script, run' = Rest(s)
  PROVE  /\ run' \in [Script -> Step]
         /\ run'[s].pc = "idle"
         /\ \A q \in Script : q # s => run'[q] = run[q]
BY BlankTyped DEF TypeOK, Rest, Step, Pc, Track

-----------------------------------------------------------------------------
\* What a script may hold of its query: the parts of BackfillInv that are about it.

HeldSafely(s, held) ==
  /\ s = "schemaVersion" =>
       /\ tour.version = 0 /\ tour.stats # "none"
       /\ held.tour.hasImages => tour.hasImages
       /\ hadImages => held.tour.hasImages
  /\ s = "tracks" =>
       /\ held.tour.version = 1 => tour.version = 1
       /\ tour.inline => held.tour.inline
       /\ held.pc = "write" => held.track # "none"
       /\ held.pc = "patch" /\ tour.there => track # "none"
  /\ s = "storedBytes" =>
       /\ tour.version = 2
       /\ held.tour.etag <= tour.etag
       /\ tour.etag = held.tour.etag => held.tour.images = tour.images

\* What a script that runs holds is safe to write.
LEMMA HoldsSafely ==
  ASSUME BackfillInv, NEW s \in Script, run[s].pc # "idle"
  PROVE  HeldSafely(s, run[s])
BY DEF BackfillInv, HeldSafely, MarksUnversioned, MovesPointsSafely, SizesWhatItRead, PhotosKnown,
       UnderWay, Held, UnchangedSinceQuery, Script

\* A step of one script that leaves the tour, its track and its photos alone keeps the invariant.
LEMMA ScriptMoves ==
  ASSUME BackfillInv, NEW s \in Script, NEW held \in Step,
         run' = [run EXCEPT ![s] = held], held.pc # "idle" => HeldSafely(s, held),
         UNCHANGED <<tour, track, cleanup, history>>,
         gpx' \in {"readable", "unreadable", "missing"},
         blobs' \in [full: SUBSET Photo, thumb: SUBSET Photo], faults' \in 0..MaxFaults
  PROVE  BackfillInv'
<1> USE DEF BackfillInv
<1>1. run'[s] = held /\ \A q \in Script : q # s => run'[q] = run[q]
  BY DEF TypeOK
<1>2. TypeOK'
  BY DEF TypeOK, Step, history
<1>3. PointsKept'
  BY DEF PointsKept
<1>4. ShapeOfVersion'
  BY DEF ShapeOfVersion
<1>5. MarksUnversioned'
  <2>1. CASE s = "schemaVersion"
    BY <1>1, <2>1 DEF MarksUnversioned, HeldSafely, UnderWay, Held
  <2>2. CASE s # "schemaVersion"
    BY <1>1, <2>2 DEF MarksUnversioned, UnderWay, Held, Script
  <2> QED BY <2>1, <2>2
<1>6. MovesPointsSafely'
  <2>1. CASE s = "tracks"
    BY <1>1, <2>1 DEF MovesPointsSafely, HeldSafely, UnderWay, Held
  <2>2. CASE s # "tracks"
    BY <1>1, <2>2 DEF MovesPointsSafely, UnderWay, Held, Script
  <2> QED BY <2>1, <2>2
<1>7. SizesWhatItRead'
  <2>1. CASE s = "storedBytes"
    BY <1>1, <2>1 DEF SizesWhatItRead, HeldSafely, UnderWay, Held, UnchangedSinceQuery
  <2>2. CASE s # "storedBytes"
    BY <1>1, <2>2 DEF SizesWhatItRead, UnderWay, Held, UnchangedSinceQuery, Script
  <2> QED BY <2>1, <2>2
<1>8. PhotosKnown'
  <2>1. PhotosKept'
    BY DEF PhotosKnown, PhotosKept, history
  <2>2. CASE s = "schemaVersion"
    BY <1>1, <2>1, <2>2 DEF PhotosKnown, HeldSafely, UnderWay, Held, history
  <2>3. CASE s # "schemaVersion"
    BY <1>1, <2>1, <2>3 DEF PhotosKnown, UnderWay, Held, Script, history
  <2> QED BY <2>2, <2>3
<1> QED BY <1>2, <1>3, <1>4, <1>5, <1>6, <1>7, <1>8

\* A script that rests keeps the invariant.
LEMMA ScriptRests ==
  ASSUME BackfillInv, NEW s \in Script, run' = Rest(s),
         UNCHANGED <<tour, track, cleanup, history>>,
         gpx' \in {"readable", "unreadable", "missing"},
         blobs' \in [full: SUBSET Photo, thumb: SUBSET Photo], faults' \in 0..MaxFaults
  PROVE  BackfillInv'
<1> DEFINE idle == [pc |-> "idle", tour |-> Blank, track |-> "none", todo |-> {}]
<1>1. idle \in Step
  BY BlankTyped DEF Step, Pc, Track
<1>2. run' = [run EXCEPT ![s] = idle] /\ idle.pc = "idle"
  BY DEF Rest
<1> HIDE DEF idle
<1> QED BY <1>1, <1>2, ScriptMoves

\* A script that goes on with what it holds keeps it.
LEMMA ScriptBecomes ==
  ASSUME BackfillInv, NEW s \in Script, NEW pc \in Pc, run' = Become(s, pc), run[s].pc # "idle",
         s = "tracks" => pc = "read",
         UNCHANGED <<tour, track, gpx, blobs, cleanup, history, faults>>
  PROVE  BackfillInv'
<1> DEFINE held == [run[s] EXCEPT !.pc = pc]
<1>1. TypeOK
  BY DEF BackfillInv
<1>2. held \in Step
  BY <1>1, RunTyped DEF Step
<1>3. run' = [run EXCEPT ![s] = held]
  BY <1>1 DEF Become, TypeOK
<1>4. held.tour = run[s].tour /\ held.track = run[s].track /\ held.pc = pc
  BY <1>1, RunTyped DEF Step
<1> HIDE DEF held
<1>5. HeldSafely(s, held)
  BY <1>4, HoldsSafely DEF HeldSafely
<1>6. /\ gpx' \in {"readable", "unreadable", "missing"}
      /\ blobs' \in [full: SUBSET Photo, thumb: SUBSET Photo] /\ faults' \in 0..MaxFaults
  BY <1>1 DEF TypeOK
<1> QED BY <1>2, <1>3, <1>5, <1>6, ScriptMoves

\* A step that writes the tour keeps the invariant if no script that goes on loses what it relies on.
LEMMA TourMoves ==
  ASSUME BackfillInv,
         run' \in [Script -> Step],
         \A q \in Script : run'[q].pc = "idle" \/ run'[q] = run[q],
         tour' \in Tour,
         tour'.etag > tour.etag \/ (tour'.etag = tour.etag /\ tour'.images = tour.images),
         tour'.there => tour.there,
         tour'.inline => tour.inline,
         tour'.there => tour'.inline \/ track # "none",
         tour.stats # "none" => tour'.stats # "none",
         tour.hasImages => tour'.hasImages,
         ShapeOfVersion',
         run'["schemaVersion"].pc # "idle" => tour'.version = tour.version,
         run'["tracks"].pc # "idle" /\ tour.version = 1 => tour'.version = 1,
         run'["storedBytes"].pc # "idle" => tour'.version = tour.version,
         UNCHANGED <<track, gpx, hadImages, faults>>,
         blobs' \in [full: SUBSET Photo, thumb: SUBSET Photo],
         photo' \in [Photo -> {"absent", "stored", "deleted"}],
         hadImages => PhotosKept',
         cleanup' \in {"none", "due", "done"},
         cleanup' = "due" => ~tour'.there
  PROVE  BackfillInv'
<1> USE DEF BackfillInv
<1>1. {"schemaVersion", "tracks", "storedBytes"} \subseteq Script
  BY DEF Script
<1>2. TypeOK'
  BY DEF TypeOK, Step
<1>3. PointsKept'
  BY DEF PointsKept
<1>4. MarksUnversioned'
  BY <1>1 DEF MarksUnversioned, UnderWay, Held
<1>5. MovesPointsSafely'
  BY <1>1 DEF MovesPointsSafely, UnderWay, Held, Pc
<1>6. SizesWhatItRead'
  <2>1. tour.etag \in Nat /\ tour'.etag \in Nat /\ Held("storedBytes").etag \in Nat
    BY <1>1, RunTyped DEF TypeOK, Tour, Held
  <2> QED BY <1>1, <2>1 DEF SizesWhatItRead, UnderWay, Held, UnchangedSinceQuery
<1>7. PhotosKnown'
  BY <1>1 DEF PhotosKnown, UnderWay, Held
<1> QED BY <1>2, <1>3, <1>4, <1>5, <1>6, <1>7

-----------------------------------------------------------------------------
\* The steps of a script.

\* The columns of each query.
LEMMA SelectedIs ==
  /\ Selected("stats") = [Blank EXCEPT !.stats = tour.stats]
  /\ Selected("thumbnails") = Blank
  /\ Selected("schemaVersion") = [Blank EXCEPT !.hasImages = tour.hasImages]
  /\ Selected("tracks") = [Blank EXCEPT !.version = tour.version, !.inline = tour.inline]
  /\ Selected("storedBytes") = [Blank EXCEPT !.images = tour.images, !.etag = tour.etag]
BY Zenon DEF Selected

\* What a script selects of a tour is a tour.
LEMMA SelectedTyped ==
  ASSUME tour \in Tour, NEW s \in Script
  PROVE  Selected(s) \in Tour
<1>1. CASE s = "stats"
  BY <1>1, SelectedIs, BlankTyped DEF Tour
<1>2. CASE s = "thumbnails"
  BY <1>2, SelectedIs, BlankTyped
<1>3. CASE s = "schemaVersion"
  BY <1>3, SelectedIs, BlankTyped DEF Tour
<1>4. CASE s = "tracks"
  BY <1>4, SelectedIs, BlankTyped DEF Tour
<1>5. CASE s = "storedBytes"
  BY <1>5, SelectedIs, BlankTyped DEF Tour
<1> QED BY <1>1, <1>2, <1>3, <1>4, <1>5 DEF Script

\* The fields that the scripts select are those of the tour.
LEMMA SelectedFields ==
  /\ Selected("schemaVersion").hasImages = tour.hasImages
  /\ Selected("tracks").version = tour.version
  /\ Selected("tracks").inline = tour.inline
  /\ Selected("storedBytes").images = tour.images
  /\ Selected("storedBytes").etag = tour.etag
<1>1. /\ Selected("schemaVersion").hasImages = tour.hasImages
      /\ Selected("tracks").inline = tour.inline
  BY SelectedIs DEF Blank
<1>2. /\ Selected("tracks").version = tour.version
      /\ Selected("storedBytes").images = tour.images
      /\ Selected("storedBytes").etag = tour.etag
  BY SelectedIs DEF Blank
<1> QED BY <1>1, <1>2

\* The tours a script selects.
LEMMA PendingIs ==
  /\ Pending("schemaVersion") = Unmarked
  /\ Pending("storedBytes") = (tour.version = 2)
BY Zenon DEF Pending

\* A query holds what is stored now.
LEMMA QueryKeeps ==
  ASSUME BackfillInv, NEW s \in Script, Query(s)
  PROVE  BackfillInv'
<1>1. TypeOK
  BY DEF BackfillInv
<1>2. PICK todo \in SUBSET Photo :
        run' = [run EXCEPT ![s] =
          [pc |-> IF s = "schemaVersion" \/ (s = "tracks" /\ ~tour.inline)
                  THEN "patch" ELSE "read",
           tour |-> Selected(s), track |-> "none", todo |-> todo]]
  <2>1. PICK todo \in IF s = "thumbnails" THEN {{p} : p \in tour.images} ELSE {{}} :
          run' = [run EXCEPT ![s] =
            [pc |-> IF s = "schemaVersion" \/ (s = "tracks" /\ ~tour.inline)
                    THEN "patch" ELSE "read",
             tour |-> Selected(s), track |-> "none", todo |-> todo]]
    BY Zenon DEF Query
  <2>2. tour.images \subseteq Photo
    BY <1>1 DEF TypeOK, Tour
  <2>3. todo \in SUBSET Photo
    BY <2>2
  <2> QED BY <2>1, <2>3
<1> DEFINE held == [pc |-> IF s = "schemaVersion" \/ (s = "tracks" /\ ~tour.inline)
                           THEN "patch" ELSE "read",
                    tour |-> Selected(s), track |-> "none", todo |-> todo]
<1>3. tour \in Tour /\ tour.there /\ Pending(s)
  BY <1>1 DEF Query, TypeOK
<1>4. Selected(s) \in Tour
  BY <1>3, SelectedTyped
<1>5. held \in Step
  BY <1>4 DEF Step, Pc, Track
<1>6. /\ held.tour = Selected(s) /\ held.track = "none"
      /\ held.pc = IF s = "schemaVersion" \/ (s = "tracks" /\ ~tour.inline) THEN "patch" ELSE "read"
  OBVIOUS
<1>7. run' = [run EXCEPT ![s] = held]
  BY <1>2
<1> HIDE DEF held
<1>8. HeldSafely(s, held)
  <2>1. CASE s = "schemaVersion"
    <3>1. held.tour.hasImages = tour.hasImages
      BY <1>6, <2>1, SelectedFields
    <3>2. hadImages => tour.hasImages
      BY DEF BackfillInv, PhotosKnown
    <3>3. tour.version = 0 /\ tour.stats # "none"
      BY <1>3, <2>1, PendingIs DEF Unmarked
    <3> QED BY <2>1, <3>1, <3>2, <3>3 DEF HeldSafely
  <2>2. CASE s = "tracks"
    <3>1. held.tour.version = tour.version /\ held.tour.inline = tour.inline
      BY <1>6, <2>2, SelectedFields
    <3>2. held.pc = "patch" => ~tour.inline
      BY <1>6, <2>2
    <3>3. tour.inline \/ track # "none"
      BY <1>3 DEF BackfillInv, PointsKept
    <3>4. held.pc # "write"
      BY <1>6
    <3> QED BY <2>2, <3>1, <3>2, <3>3, <3>4 DEF HeldSafely
  <2>3. CASE s = "storedBytes"
    <3>1. held.tour.images = tour.images /\ held.tour.etag = tour.etag
      BY <1>6, <2>3, SelectedFields
    <3>2. tour.etag \in Nat /\ tour.version = 2
      BY <1>3, <2>3, PendingIs DEF Tour
    <3> QED BY <2>3, <3>1, <3>2 DEF HeldSafely
  <2>4. CASE s \in {"stats", "thumbnails"}
    BY <2>4 DEF HeldSafely
  <2> QED BY <2>1, <2>2, <2>3, <2>4 DEF Script
<1>9. /\ UNCHANGED <<tour, track, cleanup, history>>
      /\ gpx' \in {"readable", "unreadable", "missing"}
      /\ blobs' \in [full: SUBSET Photo, thumb: SUBSET Photo] /\ faults' \in 0..MaxFaults
  BY <1>1 DEF Query, TypeOK
<1> QED BY <1>5, <1>7, <1>8, <1>9, ScriptMoves

\* A patch that is refused changes nothing but the script.
LEMMA PatchRefused ==
  ASSUME BackfillInv, NEW s \in Script, run' = Rest(s), UNCHANGED tour,
         UNCHANGED <<track, gpx, blobs, cleanup, history, faults>>
  PROVE  BackfillInv'
<1>1. /\ gpx' \in {"readable", "unreadable", "missing"}
      /\ blobs' \in [full: SUBSET Photo, thumb: SUBSET Photo] /\ faults' \in 0..MaxFaults
  BY DEF BackfillInv, TypeOK
<1> QED BY <1>1, ScriptRests

\* One that is applied is a step of TourMoves, given what it makes of the tour.
LEMMA PatchApplied ==
  ASSUME BackfillInv, NEW s \in Script, run' = Rest(s), tour' \in Tour, tour.there,
         UNCHANGED <<track, gpx, blobs, cleanup, history, faults>>,
         tour'.there = tour.there, tour'.etag = tour.etag + 1,
         tour'.inline => tour.inline, tour'.inline \/ track # "none",
         tour.stats # "none" => tour'.stats # "none",
         tour.hasImages => tour'.hasImages,
         hadImages => tour'.images = tour.images,
         ShapeOfVersion',
         tour'.version # tour.version =>
           /\ run["schemaVersion"].pc # "idle" => s = "schemaVersion"
           /\ run["tracks"].pc # "idle" /\ tour.version = 1 => s = "tracks"
           /\ run["storedBytes"].pc # "idle" => s = "storedBytes"
  PROVE  BackfillInv'
<1>1. TypeOK
  BY DEF BackfillInv
<1>2. /\ run' \in [Script -> Step]
      /\ \A q \in Script : run'[q].pc = "idle" \/ run'[q] = run[q]
      /\ run'[s].pc = "idle"
      /\ \A q \in Script : q # s => run'[q] = run[q]
  BY <1>1, Resting
<1>3. tour'.etag > tour.etag
  BY <1>1 DEF TypeOK, Tour
<1>4. /\ run'["schemaVersion"].pc # "idle" => tour'.version = tour.version
      /\ run'["tracks"].pc # "idle" /\ tour.version = 1 => tour'.version = 1
      /\ run'["storedBytes"].pc # "idle" => tour'.version = tour.version
  BY <1>2 DEF Script
<1>5. /\ blobs' \in [full: SUBSET Photo, thumb: SUBSET Photo]
      /\ photo' \in [Photo -> {"absent", "stored", "deleted"}]
      /\ cleanup' \in {"none", "due", "done"}
  BY <1>1 DEF TypeOK, history
<1>6. hadImages => PhotosKept'
  BY DEF BackfillInv, PhotosKnown, PhotosKept, history
<1>7. cleanup' = "due" => ~tour'.there
  BY DEF BackfillInv, MovesPointsSafely
<1>8. UNCHANGED <<track, gpx, hadImages, faults>>
  BY DEF history
<1> QED BY <1>2, <1>3, <1>4, <1>5, <1>6, <1>7, <1>8, TourMoves

\* The values that the scripts write are of their types.
LEMMA FieldsTyped ==
  ASSUME tour \in Tour
  PROVE  /\ tour.etag + 1 \in Nat /\ "current" \in Stats
         /\ 1 \in Version /\ 2 \in Version /\ 3 \in Version
BY DEF Tour, Stats, Version

\* Patching the stats keeps the invariant.
LEMMA PatchStatsKeeps ==
  ASSUME BackfillInv, PatchStats
  PROVE  BackfillInv'
<1> USE DEF PatchStats, Patch
<1>1. "stats" \in Script
  BY DEF Script
<1>2. tour \in Tour /\ ShapeOfVersion
  BY DEF BackfillInv, TypeOK
<1>3. CASE tour.there
  <2>1. tour' = [tour EXCEPT !.stats = "current", !.etag = tour.etag + 1]
    BY <1>2, <1>3 DEF Patched, Tour
  <2>2. /\ tour'.etag = tour.etag + 1 /\ tour'.stats = "current"
        /\ tour'.there = tour.there /\ tour'.version = tour.version /\ tour'.inline = tour.inline
        /\ tour'.hasImages = tour.hasImages /\ tour'.images = tour.images
        /\ tour'.sized = tour.sized /\ tour'.gpxSized = tour.gpxSized
    BY <1>2, <2>1 DEF Tour
  <2>5. tour' \in Tour
    BY <1>2, <2>1, FieldsTyped DEF Tour
  <2>3. ShapeOfVersion'
    BY <1>2, <2>2 DEF ShapeOfVersion
  <2>4. tour'.inline \/ track # "none"
    BY <1>3, <2>2 DEF BackfillInv, PointsKept
  <2> QED BY <1>1, <1>3, <2>2, <2>3, <2>4, <2>5, PatchApplied
<1>4. CASE ~tour.there
  BY <1>1, <1>4, PatchRefused
<1> QED BY <1>3, <1>4

\* Patching the version keeps it.
LEMMA PatchVersionKeeps ==
  ASSUME BackfillInv, PatchVersion
  PROVE  BackfillInv'
<1> USE DEF PatchVersion, Patch
<1>1. "schemaVersion" \in Script /\ run["schemaVersion"].pc # "idle"
  BY DEF Script
<1>2. tour \in Tour
  BY DEF BackfillInv, TypeOK
<1>3. /\ tour.version = 0 /\ tour.stats # "none"
      /\ Held("schemaVersion").hasImages => tour.hasImages
      /\ hadImages => Held("schemaVersion").hasImages
  BY <1>1, HoldsSafely DEF HeldSafely, Held
<1>4. CASE tour.there
  <2>1. tour' = IF Held("schemaVersion").hasImages
                THEN [tour EXCEPT !.version = 1, !.etag = tour.etag + 1]
                ELSE [tour EXCEPT !.version = 1, !.hasImages = TRUE, !.images = {}, !.sized = {},
                                  !.etag = tour.etag + 1]
    BY <1>2, <1>4 DEF Patched, Marked, Tour
  <2>2. /\ tour'.etag = tour.etag + 1 /\ tour'.version = 1
        /\ tour'.there = tour.there /\ tour'.stats = tour.stats /\ tour'.inline = tour.inline
        /\ tour'.hasImages /\ tour'.gpxSized = tour.gpxSized
        /\ Held("schemaVersion").hasImages => tour'.images = tour.images
    <3>1. CASE Held("schemaVersion").hasImages
      BY <1>2, <1>3, <2>1, <3>1 DEF Tour
    <3>2. CASE ~Held("schemaVersion").hasImages
      BY <1>2, <2>1, <3>2 DEF Tour
    <3> QED BY <3>1, <3>2
  <2>6. tour' \in Tour
    <3>1. CASE Held("schemaVersion").hasImages
      BY <1>2, <2>1, <3>1, FieldsTyped DEF Tour
    <3>2. CASE ~Held("schemaVersion").hasImages
      BY <1>2, <2>1, <3>2, FieldsTyped DEF Tour
    <3> QED BY <3>1, <3>2
  <2>3. ShapeOfVersion'
    BY <1>3, <2>2 DEF ShapeOfVersion
  <2>4. tour'.inline \/ track # "none"
    BY <1>4, <2>2 DEF BackfillInv, PointsKept
  <2>5. run["storedBytes"].pc = "idle"
    BY <1>3 DEF BackfillInv, SizesWhatItRead, UnderWay
  <2> QED BY <1>1, <1>3, <1>4, <2>2, <2>3, <2>4, <2>5, <2>6, PatchApplied
<1>5. CASE ~tour.there
  BY <1>1, <1>5, PatchRefused
<1> QED BY <1>4, <1>5

\* Patching the track away keeps it.
LEMMA PatchTrackKeeps ==
  ASSUME BackfillInv, PatchTrack
  PROVE  BackfillInv'
<1> USE DEF PatchTrack, Patch
<1>1. "tracks" \in Script /\ run["tracks"].pc = "patch"
  BY DEF Script
<1>2. tour \in Tour /\ ShapeOfVersion
  BY DEF BackfillInv, TypeOK
<1>3. /\ Held("tracks").version = 1 => tour.version = 1
      /\ tour.there => track # "none"
  BY <1>1, HoldsSafely DEF HeldSafely, Held
<1> DEFINE applied == tour.there /\ (Held("tracks").inline => tour.inline)
<1>4. CASE applied
  <2>1. tour' = [tour EXCEPT !.inline = FALSE,
                             !.version = IF Held("tracks").version = 1 THEN 2 ELSE @,
                             !.etag = tour.etag + 1]
    BY <1>2, <1>4 DEF Patched, Tour
  <2>2. /\ tour'.etag = tour.etag + 1 /\ tour'.inline = FALSE
        /\ tour'.version = IF Held("tracks").version = 1 THEN 2 ELSE tour.version
        /\ tour'.there = tour.there /\ tour'.stats = tour.stats
        /\ tour'.hasImages = tour.hasImages /\ tour'.images = tour.images
        /\ tour'.sized = tour.sized /\ tour'.gpxSized = tour.gpxSized
    BY <1>2, <2>1 DEF Tour
  <2>5. tour' \in Tour
    BY <1>2, <2>1, FieldsTyped DEF Tour
  <2>3. ShapeOfVersion'
    BY <1>2, <1>3, <2>2 DEF ShapeOfVersion
  <2>4. tour'.version # tour.version =>
          run["schemaVersion"].pc = "idle" /\ run["storedBytes"].pc = "idle"
    BY <1>3, <2>2 DEF BackfillInv, MarksUnversioned, SizesWhatItRead, UnderWay
  <2> QED BY <1>1, <1>3, <1>4, <2>2, <2>3, <2>4, <2>5, PatchApplied
<1>5. CASE ~applied
  BY <1>1, <1>5, PatchRefused
<1> QED BY <1>4, <1>5

\* Patching the sizes keeps it.
LEMMA PatchSizesKeeps ==
  ASSUME BackfillInv, PatchSizes
  PROVE  BackfillInv'
<1> USE DEF PatchSizes, Patch
<1>1. "storedBytes" \in Script /\ run["storedBytes"].pc = "patch"
  BY DEF Script
<1>2. tour \in Tour /\ ShapeOfVersion
  BY DEF BackfillInv, TypeOK
<1>3. tour.version = 2 /\ (UnchangedSinceQuery => Held("storedBytes").images = tour.images)
  BY <1>1, HoldsSafely DEF HeldSafely, Held, UnchangedSinceQuery
<1>4. CASE tour.there /\ UnchangedSinceQuery
  <2>1. tour' = [tour EXCEPT !.images = Held("storedBytes").images,
                             !.sized = Held("storedBytes").images,
                             !.gpxSized = TRUE, !.version = 3, !.etag = tour.etag + 1]
    BY <1>2, <1>4 DEF Patched, Tour
  <2>2. /\ tour'.etag = tour.etag + 1 /\ tour'.version = 3
        /\ tour'.there = tour.there /\ tour'.stats = tour.stats /\ tour'.inline = tour.inline
        /\ tour'.hasImages = tour.hasImages /\ tour'.images = tour.images
        /\ tour'.sized = tour'.images /\ tour'.gpxSized
    BY <1>2, <1>3, <1>4, <2>1 DEF Tour
  <2>6. tour' \in Tour
    BY <1>2, <1>3, <1>4, <2>1, FieldsTyped DEF Tour
  <2>3. ShapeOfVersion'
    BY <1>2, <1>3, <2>2 DEF ShapeOfVersion
  <2>4. tour'.inline \/ track # "none"
    BY <1>4, <2>2 DEF BackfillInv, PointsKept
  <2>5. run["schemaVersion"].pc = "idle"
    BY <1>3 DEF BackfillInv, MarksUnversioned, UnderWay
  <2> QED BY <1>1, <1>3, <1>4, <2>2, <2>3, <2>4, <2>5, <2>6, PatchApplied
<1>5. CASE ~(tour.there /\ UnchangedSinceQuery)
  BY <1>1, <1>5, PatchRefused
<1> QED BY <1>4, <1>5

\* Reading a tour for its stats keeps it.
LEMMA ReadStatsKeeps ==
  ASSUME BackfillInv, ReadStats
  PROVE  BackfillInv'
<1>1. "stats" \in Script /\ "stats" # "tracks" /\ "patch" \in Pc /\ run["stats"].pc # "idle"
  BY DEF Script, Pc, ReadStats
<1>2. run' = Become("stats", "patch") \/ run' = Rest("stats")
  BY Zenon DEF ReadStats
<1>3. UNCHANGED tour /\ UNCHANGED <<track, gpx, blobs, cleanup, history, faults>>
  BY DEF ReadStats
<1> QED BY <1>1, <1>2, <1>3, ScriptBecomes, PatchRefused

\* Reading a photo keeps it.
LEMMA ReadImageKeeps ==
  ASSUME BackfillInv, ReadImage
  PROVE  BackfillInv'
<1>1. /\ "thumbnails" \in Script /\ "thumbnails" # "tracks" /\ "write" \in Pc
      /\ run["thumbnails"].pc # "idle"
  BY DEF Script, Pc, ReadImage
<1>2. run' = Become("thumbnails", "write") \/ run' = Rest("thumbnails")
  BY Zenon DEF ReadImage
<1>3. UNCHANGED tour /\ UNCHANGED <<track, gpx, blobs, cleanup, history, faults>>
  BY DEF ReadImage
<1> QED BY <1>1, <1>2, <1>3, ScriptBecomes, PatchRefused

\* Writing a thumbnail keeps it.
LEMMA WriteThumbnailKeeps ==
  ASSUME BackfillInv, WriteThumbnail
  PROVE  BackfillInv'
<1>1. "thumbnails" \in Script
  BY DEF Script
<1>2. run["thumbnails"].todo \in SUBSET Photo
  BY <1>1, RunTyped DEF BackfillInv
<1>3. blobs' \in [full: SUBSET Photo, thumb: SUBSET Photo]
  BY <1>2 DEF BackfillInv, TypeOK, WriteThumbnail
<1>4. gpx' \in {"readable", "unreadable", "missing"} /\ faults' \in 0..MaxFaults
  BY DEF BackfillInv, TypeOK, WriteThumbnail
<1> QED BY <1>1, <1>3, <1>4, ScriptRests DEF WriteThumbnail

\* Rebuilding the track keeps it.
LEMMA RebuildTrackKeeps ==
  ASSUME BackfillInv, RebuildTrack
  PROVE  BackfillInv'
<1>1. TypeOK /\ "tracks" \in Script /\ run["tracks"].pc # "idle"
  BY DEF BackfillInv, Script, RebuildTrack
<1> DEFINE kept == IF gpx = "readable" THEN "segments" ELSE "line"
           held == [run["tracks"] EXCEPT !.pc = "write", !.track = kept]
<1>2. held \in Step
  BY <1>1, RunTyped DEF Step, Pc, Track
<1>3. run' = [run EXCEPT !["tracks"] = held]
  BY <1>1 DEF RebuildTrack, TypeOK
<1>4. held.tour = run["tracks"].tour /\ held.track = kept /\ held.pc = "write"
  BY <1>1, RunTyped DEF Step
<1> HIDE DEF held
<1>5. HeldSafely("tracks", held)
  BY <1>1, <1>4, HoldsSafely DEF HeldSafely
<1>6. /\ UNCHANGED <<tour, track, cleanup, history>>
      /\ gpx' \in {"readable", "unreadable", "missing"}
      /\ blobs' \in [full: SUBSET Photo, thumb: SUBSET Photo] /\ faults' \in 0..MaxFaults
  BY <1>1 DEF RebuildTrack, TypeOK
<1> QED BY <1>1, <1>2, <1>3, <1>5, <1>6, ScriptMoves

\* The track that is written is one, so the patch that is due may take the points away.
LEMMA WriteTrackKeeps ==
  ASSUME BackfillInv, WriteTrack
  PROVE  BackfillInv'
<1> USE DEF BackfillInv, WriteTrack
<1>1. "tracks" \in Script /\ run["tracks"].pc = "write"
  BY DEF Script
<1>2. HeldSafely("tracks", run["tracks"])
  BY <1>1, HoldsSafely
<1> DEFINE held == [run["tracks"] EXCEPT !.pc = "patch"]
<1>3. held \in Step /\ held.tour = run["tracks"].tour /\ held.pc = "patch"
  BY <1>1, RunTyped DEF Step, Pc
<1>4. run' = [run EXCEPT !["tracks"] = held]
  BY <1>1 DEF Become, TypeOK
<1> HIDE DEF held
<1>5. run'["tracks"] = held /\ \A q \in Script : q # "tracks" => run'[q] = run[q]
  BY <1>1, <1>4 DEF TypeOK
<1>6. track' \in Track /\ track' # "none"
  BY <1>1, <1>2, RunTyped DEF HeldSafely
<1>7. TypeOK'
  BY <1>3, <1>4, <1>6 DEF TypeOK, Step, history
<1>8. PointsKept' /\ ShapeOfVersion'
  BY <1>6 DEF PointsKept, ShapeOfVersion
<1>9. MarksUnversioned'
  BY <1>5 DEF MarksUnversioned, UnderWay, Held, Script
<1>10. MovesPointsSafely'
  BY <1>2, <1>3, <1>5, <1>6 DEF MovesPointsSafely, HeldSafely, UnderWay, Held
<1>11. SizesWhatItRead'
  BY <1>5 DEF SizesWhatItRead, UnderWay, Held, UnchangedSinceQuery, Script
<1>12. PhotosKnown'
  BY <1>5 DEF PhotosKnown, PhotosKept, UnderWay, Held, Script, history
<1> QED BY <1>7, <1>8, <1>9, <1>10, <1>11, <1>12

\* Reading the sizes keeps it.
LEMMA ReadSizesKeeps ==
  ASSUME BackfillInv, ReadSizes
  PROVE  BackfillInv'
<1>1. /\ "storedBytes" \in Script /\ "storedBytes" # "tracks" /\ "patch" \in Pc
      /\ run["storedBytes"].pc # "idle"
  BY DEF Script, Pc, ReadSizes
<1> QED BY <1>1, ScriptBecomes DEF ReadSizes

\* A run that fails keeps it.
LEMMA RunFailsKeeps ==
  ASSUME BackfillInv, NEW s \in Script, RunFails(s)
  PROVE  BackfillInv'
<1>1. /\ gpx' \in {"readable", "unreadable", "missing"}
      /\ blobs' \in [full: SUBSET Photo, thumb: SUBSET Photo] /\ faults' \in 0..MaxFaults
  BY BackfillsAssumption DEF BackfillInv, TypeOK, RunFails
<1> QED BY <1>1, ScriptRests DEF RunFails

-----------------------------------------------------------------------------
\* The steps of the handlers.

\* Those that leave the scripts and the version alone.
LEMMA HandlerMoves ==
  ASSUME BackfillInv, UNCHANGED <<track, gpx, run, hadImages, faults>>,
         tour' \in Tour, tour'.version = tour.version, tour'.inline = tour.inline,
         tour'.stats = tour.stats, tour'.there => tour.there, ShapeOfVersion',
         tour'.etag > tour.etag \/ (tour'.etag = tour.etag /\ tour'.images = tour.images),
         tour.hasImages => tour'.hasImages,
         blobs' \in [full: SUBSET Photo, thumb: SUBSET Photo],
         photo' \in [Photo -> {"absent", "stored", "deleted"}],
         hadImages => PhotosKept',
         cleanup' \in {"none", "due", "done"}, cleanup' = "due" => ~tour'.there
  PROVE  BackfillInv'
<1>1. run' \in [Script -> Step] /\ \A q \in Script : run'[q].pc = "idle" \/ run'[q] = run[q]
  BY DEF BackfillInv, TypeOK, Step
<1>2. tour'.there => tour'.inline \/ track # "none"
  BY DEF BackfillInv, PointsKept
<1> QED BY <1>1, <1>2, TourMoves

\* A photo that is uploaded keeps it.
LEMMA UploadImageKeeps ==
  ASSUME BackfillInv, NEW p \in Photo, UploadImage(p)
  PROVE  BackfillInv'
<1> USE DEF UploadImage
<1>1. TypeOK /\ tour \in Tour /\ tour.there /\ ShapeOfVersion
  BY DEF BackfillInv, TypeOK
<1>2. tour' = [tour EXCEPT !.hasImages = TRUE, !.images = @ \cup {p}, !.sized = @ \cup {p},
                           !.etag = tour.etag + 1]
  BY <1>1 DEF Patched, Tour
<1>3. /\ tour'.etag = tour.etag + 1 /\ tour'.version = tour.version
      /\ tour'.inline = tour.inline /\ tour'.stats = tour.stats /\ tour'.there = tour.there
      /\ tour'.hasImages /\ tour'.gpxSized = tour.gpxSized
      /\ tour'.images = tour.images \cup {p} /\ tour'.sized = tour.sized \cup {p}
  BY <1>1, <1>2 DEF Tour
<1>4. tour.images \cup {p} \in SUBSET Photo /\ tour.sized \cup {p} \in SUBSET Photo
  BY <1>1 DEF Tour
<1>5. tour' \in Tour
  BY <1>1, <1>2, <1>4, FieldsTyped DEF Tour
<1>6. ShapeOfVersion'
  BY <1>1, <1>3 DEF ShapeOfVersion
<1>7. hadImages => PhotosKept'
  <2>1. photo' = [photo EXCEPT ![p] = "stored"] /\ photo \in [Photo -> {"absent", "stored", "deleted"}]
    BY <1>1 DEF TypeOK
  <2>2. hadImages => tour.images = {q \in Photo : photo[q] = "stored"}
    BY <1>1 DEF BackfillInv, PhotosKnown, PhotosKept
  <2>3. {q \in Photo : photo'[q] = "stored"} = {q \in Photo : photo[q] = "stored"} \cup {p}
    BY <2>1
  <2> QED BY <1>3, <2>2, <2>3 DEF PhotosKept
<1>8. /\ blobs' \in [full: SUBSET Photo, thumb: SUBSET Photo]
      /\ photo' \in [Photo -> {"absent", "stored", "deleted"}]
      /\ cleanup' \in {"none", "due", "done"}
  BY <1>1 DEF TypeOK
<1>9. cleanup' = "due" => ~tour'.there
  BY <1>3 DEF BackfillInv, MovesPointsSafely
<1>10. tour'.etag > tour.etag
  BY <1>1, <1>3 DEF Tour
<1> QED BY <1>1, <1>3, <1>5, <1>6, <1>7, <1>8, <1>9, <1>10, HandlerMoves

\* A photo that is deleted keeps it.
LEMMA DeleteImageKeeps ==
  ASSUME BackfillInv, NEW p \in Photo, DeleteImage(p)
  PROVE  BackfillInv'
<1> USE DEF DeleteImage
<1>1. TypeOK /\ tour \in Tour /\ tour.there /\ ShapeOfVersion
  BY DEF BackfillInv, TypeOK
<1>2. tour' = [tour EXCEPT !.images = @ \ {p}, !.sized = @ \ {p}, !.etag = tour.etag + 1]
  BY <1>1 DEF Patched, Tour
<1>3. /\ tour'.etag = tour.etag + 1 /\ tour'.version = tour.version
      /\ tour'.inline = tour.inline /\ tour'.stats = tour.stats /\ tour'.there = tour.there
      /\ tour'.hasImages = tour.hasImages /\ tour'.gpxSized = tour.gpxSized
      /\ tour'.images = tour.images \ {p} /\ tour'.sized = tour.sized \ {p}
  BY <1>1, <1>2 DEF Tour
<1>4. tour.images \ {p} \in SUBSET Photo /\ tour.sized \ {p} \in SUBSET Photo
  BY <1>1 DEF Tour
<1>5. tour' \in Tour
  BY <1>1, <1>2, <1>4, FieldsTyped DEF Tour
<1>6. ShapeOfVersion'
  BY <1>1, <1>3 DEF ShapeOfVersion
<1>7. hadImages => PhotosKept'
  <2>1. photo' = [photo EXCEPT ![p] = "deleted"] /\ photo \in [Photo -> {"absent", "stored", "deleted"}]
    BY <1>1 DEF TypeOK
  <2>2. hadImages => tour.images = {q \in Photo : photo[q] = "stored"}
    BY <1>1 DEF BackfillInv, PhotosKnown, PhotosKept
  <2>3. {q \in Photo : photo'[q] = "stored"} = {q \in Photo : photo[q] = "stored"} \ {p}
    BY <2>1
  <2> QED BY <1>3, <2>2, <2>3 DEF PhotosKept
<1>8. /\ blobs' \in [full: SUBSET Photo, thumb: SUBSET Photo]
      /\ photo' \in [Photo -> {"absent", "stored", "deleted"}]
      /\ cleanup' \in {"none", "due", "done"}
  BY <1>1 DEF TypeOK
<1>9. cleanup' = "due" => ~tour'.there
  BY <1>3 DEF BackfillInv, MovesPointsSafely
<1>10. tour'.etag > tour.etag
  BY <1>1, <1>3 DEF Tour
<1> QED BY <1>1, <1>3, <1>5, <1>6, <1>7, <1>8, <1>9, <1>10, HandlerMoves

\* Deleting the blobs of a photo keeps it.
LEMMA DeleteImageBlobsKeeps ==
  ASSUME BackfillInv, NEW p \in Photo, DeleteImageBlobs(p)
  PROVE  BackfillInv'
<1>1. tour \in Tour /\ ShapeOfVersion' /\ (hadImages => PhotosKept')
  BY DEF BackfillInv, TypeOK, DeleteImageBlobs, ShapeOfVersion, PhotosKnown, PhotosKept, history
<1>2. /\ blobs' \in [full: SUBSET Photo, thumb: SUBSET Photo]
      /\ photo' \in [Photo -> {"absent", "stored", "deleted"}]
      /\ cleanup' \in {"none", "due", "done"}
  BY DEF BackfillInv, TypeOK, DeleteImageBlobs, history
<1>3. cleanup' = "due" => ~tour'.there
  BY DEF BackfillInv, MovesPointsSafely, DeleteImageBlobs
<1> QED BY <1>1, <1>2, <1>3, HandlerMoves DEF DeleteImageBlobs, history

\* Deleting the tour keeps it.
LEMMA DeleteTourKeeps ==
  ASSUME BackfillInv, DeleteTour
  PROVE  BackfillInv'
<1> USE DEF DeleteTour
<1>1. TypeOK /\ tour \in Tour /\ ShapeOfVersion
  BY DEF BackfillInv, TypeOK
<1>2. /\ tour' \in Tour /\ tour'.version = tour.version /\ tour'.inline = tour.inline
      /\ tour'.stats = tour.stats /\ ~tour'.there /\ tour'.hasImages = tour.hasImages
      /\ tour'.gpxSized = tour.gpxSized /\ tour'.images = tour.images
      /\ tour'.sized = tour.sized /\ tour'.etag = tour.etag
  BY <1>1 DEF Tour
<1>3. ShapeOfVersion' /\ PhotosKept'
  BY <1>1, <1>2 DEF ShapeOfVersion, PhotosKept
<1>4. /\ blobs' \in [full: SUBSET Photo, thumb: SUBSET Photo]
      /\ photo' \in [Photo -> {"absent", "stored", "deleted"}]
      /\ cleanup' \in {"none", "due", "done"}
  BY <1>1 DEF TypeOK, history
<1> QED BY <1>2, <1>3, <1>4, HandlerMoves DEF history

\* Deleting the files of the tour keeps it.
LEMMA DeleteFilesKeeps ==
  ASSUME BackfillInv, DeleteFiles
  PROVE  BackfillInv'
<1> USE DEF BackfillInv, DeleteFiles
<1>1. ~tour.there
  BY DEF MovesPointsSafely
<1>2. TypeOK'
  BY DEF TypeOK, Tour, Track, history
<1>3. PointsKept' /\ ShapeOfVersion' /\ MarksUnversioned'
  BY <1>1 DEF PointsKept, ShapeOfVersion, MarksUnversioned, UnderWay, Held
<1>4. MovesPointsSafely'
  BY <1>1 DEF MovesPointsSafely, UnderWay, Held
<1>5. SizesWhatItRead' /\ PhotosKnown'
  BY <1>1 DEF SizesWhatItRead, UnderWay, Held, UnchangedSinceQuery, PhotosKnown, PhotosKept, history
<1> QED BY <1>2, <1>3, <1>4, <1>5

-----------------------------------------------------------------------------
\* It holds at first.
LEMMA InitSafe == Init => BackfillInv
<1> SUFFICES ASSUME Init PROVE BackfillInv
  OBVIOUS
<1>1. /\ tour.there /\ tour.inline /\ tour.version \in {0, 1} /\ tour.etag = 0 /\ tour.sized = {}
      /\ tour.stats \in Stats /\ tour.hasImages \in BOOLEAN /\ tour.images \in SUBSET OldPhoto
      /\ tour.gpxSized = FALSE
      /\ tour.version = 1 => tour.stats # "none" /\ tour.hasImages
  BY DEF Init
<1>2. tour.images \in SUBSET Photo /\ tour.version \in Version
  BY <1>1 DEF Photo, Version
<1>3. tour \in Tour
  <2>1. tour \in [there: {TRUE}, etag: {0}, version: {0, 1}, stats: Stats, inline: {TRUE},
                  hasImages: BOOLEAN, images: SUBSET OldPhoto, sized: {{}}, gpxSized: {FALSE}]
    BY DEF Init
  <2>2. {0} \subseteq Nat /\ {0, 1} \subseteq Version /\ SUBSET OldPhoto \subseteq SUBSET Photo
        /\ {{}} \subseteq SUBSET Photo /\ {TRUE} \subseteq BOOLEAN /\ {FALSE} \subseteq BOOLEAN
    BY DEF Photo, Version
  <2> QED BY <2>1, <2>2 DEF Tour
<1>4. \A s \in Script : run[s].pc = "idle" /\ run[s] \in Step
  BY BlankTyped DEF Init, Step, Pc, Track
<1>5. run \in [Script -> [pc: Pc, tour: Tour, track: Track, todo: SUBSET Photo]]
  BY BlankTyped DEF Init, Pc, Track
<1>6. TypeOK
  BY <1>1, <1>2, <1>3, <1>5, BackfillsAssumption DEF Init, TypeOK, Track
<1>7. PointsKept /\ ShapeOfVersion
  BY <1>1 DEF PointsKept, ShapeOfVersion
<1>8. MarksUnversioned /\ MovesPointsSafely /\ SizesWhatItRead
  BY <1>4 DEF Init, MarksUnversioned, MovesPointsSafely, SizesWhatItRead, UnderWay, Script
<1>9. PhotosKept
  BY <1>1, <1>2 DEF Init, PhotosKept
<1>10. PhotosKnown
  BY <1>4, <1>9 DEF Init, PhotosKnown, UnderWay, Script
<1> QED BY <1>6, <1>7, <1>8, <1>10 DEF BackfillInv

\* Every step keeps it.
LEMMA NextKeeps == BackfillInv /\ [Next]_vars => BackfillInv'
<1> SUFFICES ASSUME BackfillInv, [Next]_vars PROVE BackfillInv'
  OBVIOUS
<1>1. ASSUME NEW s \in Script, Backfill(s) PROVE BackfillInv'
  <2>1. CASE Query(s)
    BY <2>1, QueryKeeps
  <2>2. CASE ReadStats \/ PatchStats
    BY <2>2, ReadStatsKeeps, PatchStatsKeeps
  <2>3. CASE ReadImage \/ WriteThumbnail
    BY <2>3, ReadImageKeeps, WriteThumbnailKeeps
  <2>4. CASE PatchVersion
    BY <2>4, PatchVersionKeeps
  <2>5. CASE RebuildTrack \/ WriteTrack \/ PatchTrack
    BY <2>5, RebuildTrackKeeps, WriteTrackKeeps, PatchTrackKeeps
  <2>6. CASE ReadSizes \/ PatchSizes
    BY <2>6, ReadSizesKeeps, PatchSizesKeeps
  <2> QED BY <1>1, <2>1, <2>2, <2>3, <2>4, <2>5, <2>6 DEF Backfill
<1>2. ASSUME NEW s \in Script, RunFails(s) PROVE BackfillInv'
  BY <1>2, RunFailsKeeps
<1>3. ASSUME NEW p \in Photo, UploadImage(p) \/ DeleteImage(p) \/ DeleteImageBlobs(p)
      PROVE  BackfillInv'
  BY <1>3, UploadImageKeeps, DeleteImageKeeps, DeleteImageBlobsKeeps
<1>4. CASE DeleteTour \/ DeleteFiles
  BY <1>4, DeleteTourKeeps, DeleteFilesKeeps
<1>5. CASE UNCHANGED vars
  BY <1>5 DEF vars, history, BackfillInv, TypeOK, PointsKept, ShapeOfVersion, MarksUnversioned,
              MovesPointsSafely, SizesWhatItRead, PhotosKnown, PhotosKept, UnderWay, Held,
              UnchangedSinceQuery
<1> QED BY <1>1, <1>2, <1>3, <1>4, <1>5 DEF Next

\* BackfillInv holds in every reachable state: what a script still holds of its query is true of
\* the tour when it writes.
THEOREM BackfillInvariant == Spec => []BackfillInv
BY InitSafe, NextKeeps, PTL DEF Spec

\* Every reachable state is well typed.
THEOREM TypeCorrect == Spec => []TypeOK
<1>1. BackfillInv => TypeOK
  BY DEF BackfillInv
<1> QED BY <1>1, BackfillInvariant, PTL

\* A tour always has its points, in the document or in its track (trackBackfill.js:90).
THEOREM PointsAlwaysKept == Spec => []PointsKept
<1>1. BackfillInv => PointsKept
  BY DEF BackfillInv
<1> QED BY <1>1, BackfillInvariant, PTL

\* A version means the shape schemaVersion.js gives it.
THEOREM VersionsMeanShapes == Spec => []VersionMeansShape
<1>1. BackfillInv => VersionMeansShape
  BY DEF BackfillInv, ShapeOfVersion, VersionMeansShape
<1> QED BY <1>1, BackfillInvariant, PTL

\* The photos of a tour that had an images field are those stored and not deleted since.
THEOREM PhotosAlwaysKept == Spec => []PhotosKept
<1>1. BackfillInv => PhotosKept
  BY DEF BackfillInv, PhotosKnown, PhotosKept
<1> QED BY <1>1, BackfillInvariant, PTL

\* DataKept for any photos and failures: what the rider has in a tour is there at every moment of
\* the scripts (trackBackfill.js:90, storedBytesBackfill.js:46).
THEOREM DataAlwaysKept == Spec => []DataKept
<1>1. TypeOK /\ PointsKept /\ VersionMeansShape /\ PhotosKept => DataKept
  BY DEF DataKept
<1> QED BY <1>1, TypeCorrect, PointsAlwaysKept, VersionsMeanShapes, PhotosAlwaysKept, PTL

-----------------------------------------------------------------------------
\* A patch of the version raises it by one: it was the one the script counted on.
LEMMA PatchesRaise ==
  ASSUME BackfillInv, PatchVersion \/ PatchTrack \/ PatchSizes
  PROVE  tour'.version >= tour.version
<1>1. tour \in Tour /\ tour.version \in Version
  BY DEF BackfillInv, TypeOK, Tour
<1>2. CASE PatchVersion
  <2>1. run["schemaVersion"].pc # "idle" /\ "schemaVersion" \in Script
    BY <1>2 DEF PatchVersion, Patch, Script
  <2>2. tour.version = 0
    BY <2>1, HoldsSafely DEF HeldSafely
  <2>3. tour' = tour \/ tour'.version = 1
    BY <1>1, <1>2 DEF PatchVersion, Patch, Patched, Marked, Tour
  <2> QED BY <2>2, <2>3
<1>3. CASE PatchTrack
  <2>1. run["tracks"].pc # "idle" /\ "tracks" \in Script
    BY <1>3 DEF PatchTrack, Patch, Script
  <2>2. Held("tracks").version = 1 => tour.version = 1
    BY <2>1, HoldsSafely DEF HeldSafely, Held
  <2>3. \/ tour' = tour
        \/ tour'.version = IF Held("tracks").version = 1 THEN 2 ELSE tour.version
    BY <1>1, <1>3 DEF PatchTrack, Patch, Patched, Tour
  <2> QED BY <1>1, <2>2, <2>3 DEF Version
<1>4. CASE PatchSizes
  <2>1. run["storedBytes"].pc # "idle" /\ "storedBytes" \in Script
    BY <1>4 DEF PatchSizes, Patch, Script
  <2>2. tour.version = 2
    BY <2>1, HoldsSafely DEF HeldSafely
  <2>3. tour' = tour \/ tour'.version = 3
    BY <1>1, <1>4 DEF PatchSizes, Patch, Patched, Tour
  <2> QED BY <2>2, <2>3
<1> QED BY <1>2, <1>3, <1>4

\* Nothing else touches the version.
LEMMA OthersKeepVersion ==
  ASSUME BackfillInv, Next
  PROVE  tour'.version = tour.version \/ PatchVersion \/ PatchTrack \/ PatchSizes
<1>1. tour \in Tour
  BY DEF BackfillInv, TypeOK
<1>2. ASSUME NEW s \in Script, Backfill(s)
      PROVE  tour'.version = tour.version \/ PatchVersion \/ PatchTrack \/ PatchSizes
  <2>1. CASE Query(s)
    BY <2>1 DEF Query
  <2>2. CASE PatchStats
    BY <1>1, <2>2 DEF PatchStats, Patch, Patched, Tour
  <2>3. CASE \/ ReadStats \/ ReadImage \/ WriteThumbnail \/ RebuildTrack \/ WriteTrack \/ ReadSizes
    BY <2>3 DEF ReadStats, ReadImage, WriteThumbnail, RebuildTrack, WriteTrack, ReadSizes
  <2> QED BY <1>2, <2>1, <2>2, <2>3 DEF Backfill
<1>3. ASSUME NEW p \in Photo, UploadImage(p) \/ DeleteImage(p) \/ DeleteImageBlobs(p)
      PROVE  tour'.version = tour.version
  BY <1>1, <1>3 DEF UploadImage, DeleteImage, DeleteImageBlobs, Patched, Tour
<1>4. CASE DeleteTour \/ DeleteFiles
  BY <1>1, <1>4 DEF DeleteTour, DeleteFiles, Tour
<1>5. ASSUME NEW s \in Script, RunFails(s) PROVE tour'.version = tour.version
  BY <1>5 DEF RunFails
<1> QED BY <1>2, <1>3, <1>4, <1>5 DEF Next

\* No step takes a version back, though scripts write from reads of an earlier moment.
THEOREM VersionsRise == Spec => VersionsOnlyRise
<1>1. ASSUME BackfillInv, [Next]_vars PROVE [tour'.version >= tour.version]_vars
  <2>1. CASE Next
    <3>1. tour.version \in Nat
      BY <1>1 DEF BackfillInv, TypeOK, Tour, Version
    <3> QED BY <1>1, <2>1, <3>1, PatchesRaise, OthersKeepVersion
  <2>2. CASE UNCHANGED vars
    BY <2>2
  <2> QED BY <1>1, <2>1, <2>2
<1> QED BY <1>1, BackfillInvariant, PTL DEF Spec, VersionsOnlyRise

-----------------------------------------------------------------------------
(* ParseQueue. *)

ParseSpec == ParseInit /\ [][ParseNext]_parseVars

Threads == {"none", "parsing", "posted", "ended"}
Outcomes == {"none", "track", "InvalidGpxError", "NoTrackPointsError", "Error"}

ParseTyped ==
  /\ content \in [Parses -> Contents] /\ thread \in [Parses -> Threads]
  /\ outcome \in [Parses -> Outcomes] /\ freed \subseteq Parses /\ running \in Nat
  /\ waiting \in Seq(Parses) /\ starts \in Seq(Parses) /\ arrivals \in Seq(Parses)

\* A file arrives once; what has started, then what waits, is what arrived.
Once(list) == \A i, j \in 1..Len(list) : list[i] = list[j] => i = j
InOrder(begun, queue, list) ==
  /\ Len(list) = Len(begun) + Len(queue)
  /\ \A i \in 1..Len(begun) : begun[i] = list[i]
  /\ \A i \in 1..Len(queue) : queue[i] = list[Len(begun) + i]

\* The started files are those with a thread, as many as the starts.
Started == {p \in Parses : thread[p] # "none"}
StartsCounted ==
  /\ IsFiniteSet(Started) /\ Cardinality(Started) = Len(starts)
  /\ \A p \in Parses : thread[p] # "none" <=> \E i \in 1..Len(starts) : starts[i] = p

\* A place is held from a start to the finally, and a file that is parsed has no outcome yet.
PlacesHeld ==
  /\ \A p \in Parses : outcome[p] # "none" => thread[p] # "none"
  /\ \A p \in freed : outcome[p] # "none"
  /\ \A p \in Parses : thread[p] = "parsing" => outcome[p] = "none"

RoomUsed ==
  /\ running = Len(starts) - Cardinality(freed) /\ running <= MaxParses
  /\ waiting # <<>> => running = MaxParses

ParseInv ==
  /\ ParseTyped /\ Once(arrivals) /\ InOrder(starts, waiting, arrivals) /\ StartsCounted
  /\ PlacesHeld /\ RoomUsed /\ RightBlame

\* What startNext does: the first in the queue gets a thread, if there is a place.
LEMMA NextStarts ==
  ASSUME ParseTyped, StartsCounted, NEW list \in Seq(Parses), Once(list), NEW queue \in Seq(Parses),
         NEW count \in Nat, InOrder(starts, queue, list), startNext(count, queue)
  PROVE  /\ running' \in Nat /\ waiting' \in Seq(Parses) /\ starts' \in Seq(Parses)
         /\ thread' \in [Parses -> Threads] /\ InOrder(starts', waiting', list) /\ StartsCounted'
         /\ \A p \in Parses : thread[p] # "none" => thread'[p] = thread[p]
         /\ \A p \in Parses : thread'[p] = thread[p] \/ thread'[p] = "parsing"
         /\ IF count < MaxParses /\ queue # <<>>
            THEN running' = count + 1 /\ waiting' = Tail(queue) /\ Len(starts') = Len(starts) + 1
            ELSE running' = count /\ waiting' = queue /\ starts' = starts
<1>1. CASE HasRoom(count, queue)
  <2>1. PICK head \in Parses, rest \in Seq(Parses) :
          /\ head = Head(queue) /\ rest = Tail(queue) /\ head = queue[1]
          /\ Len(queue) \in Nat \ {0} /\ Len(rest) = Len(queue) - 1
          /\ \A i \in 1..Len(rest) : rest[i] = queue[i + 1]
    <3>1. queue # <<>> /\ Len(queue) \in Nat /\ Len(queue) # 0
      BY <1>1, LenProperties, EmptySeq DEF HasRoom
    <3>2. /\ Head(queue) \in Parses /\ Tail(queue) \in Seq(Parses) /\ Head(queue) = queue[1]
          /\ Len(Tail(queue)) = Len(queue) - 1
          /\ \A i \in 1..Len(Tail(queue)) : Tail(queue)[i] = queue[i + 1]
      BY <3>1, HeadTailProperties
    <3> QED BY <3>1, <3>2
  <2>2. /\ running' = count + 1 /\ waiting' = rest /\ starts' = Append(starts, head)
        /\ thread' = [thread EXCEPT ![head] = "parsing"]
    BY <1>1, <2>1 DEF startNext
  <2>3. PICK n \in Nat :
          /\ n = Len(starts) /\ starts' \in Seq(Parses) /\ Len(starts') = n + 1
          /\ starts'[n + 1] = head /\ \A i \in 1..n : starts'[i] = starts[i]
    BY <2>2, AppendProperties, LenProperties, SMTT(30) DEF ParseTyped
  <2>4. PICK m \in Nat : Len(queue) = m + 1 /\ Len(rest) = m
    <3>1. PICK k \in Nat \ {0} : k = Len(queue) /\ Len(rest) = k - 1
      BY <2>1
    <3>2. k - 1 \in Nat /\ k = (k - 1) + 1
      OBVIOUS
    <3> QED BY <3>1, <3>2
  <2>5. /\ Len(list) = n + (m + 1) /\ \A i \in 1..n : starts[i] = list[i]
        /\ \A i \in 1..(m + 1) : queue[i] = list[n + i]
    BY <2>3, <2>4 DEF InOrder
  <2>6. InOrder(starts', rest, list) /\ thread[head] = "none"
    <3>1. head = list[n + 1] /\ n + 1 \in 1..Len(list)
      BY <2>1, <2>5
    <3>2. ASSUME NEW i \in 1..(n + 1) PROVE starts'[i] = list[i]
      <4>1. i = n + 1 \/ i \in 1..n
        OBVIOUS
      <4> QED BY <2>3, <2>5, <3>1, <4>1
    <3>3. ASSUME NEW i \in 1..m PROVE rest[i] = list[(n + 1) + i]
      <4>1. i + 1 \in 1..(m + 1) /\ (n + 1) + i = n + (i + 1)
        OBVIOUS
      <4> QED BY <2>1, <2>4, <2>5, <4>1
    <3>4. ASSUME NEW i \in 1..n PROVE starts[i] # head
      BY <2>5, <3>1 DEF Once
    <3>5. InOrder(starts', rest, list)
      BY <2>3, <2>4, <2>5, <3>2, <3>3 DEF InOrder
    <3>6. thread[head] = "none"
      BY <2>3, <3>4 DEF StartsCounted
    <3> QED BY <3>5, <3>6
  <2>7. thread' \in [Parses -> Threads]
    BY <2>2 DEF ParseTyped, Threads
  <2>8. \A p \in Parses : thread'[p] = IF p = head THEN "parsing" ELSE thread[p]
    BY <2>2 DEF ParseTyped
  <2>9. StartsCounted'
    <3>1. Started' = Started \cup {head} /\ head \notin Started
      BY <2>6, <2>8 DEF Started
    <3>2. IsFiniteSet(Started') /\ Cardinality(Started') = Len(starts')
      <4>1. PICK begun : begun = Started /\ IsFiniteSet(begun) /\ Cardinality(begun) = n
        BY <2>3 DEF StartsCounted
      <4>2. IsFiniteSet(begun \cup {head}) /\ Cardinality(begun \cup {head}) = n + 1
        BY <3>1, <4>1, FS_AddElement
      <4> QED BY <2>3, <3>1, <4>1, <4>2
    <3>3. ASSUME NEW p \in Parses
          PROVE  thread'[p] # "none" <=> \E i \in 1..Len(starts') : starts'[i] = p
      <4>1. CASE p = head
        <5>1. n + 1 \in 1..(n + 1)
          OBVIOUS
        <5> QED BY <2>3, <2>8, <4>1, <5>1
      <4>2. CASE p # head
        <5>1. thread'[p] # "none" <=> \E i \in 1..n : starts[i] = p
          BY <2>3, <2>8, <4>2 DEF StartsCounted
        <5>2. ASSUME NEW i \in 1..n PROVE i \in 1..(n + 1) /\ starts'[i] = starts[i]
          BY <2>3
        <5>3. ASSUME NEW i \in 1..(n + 1), starts'[i] = p PROVE i \in 1..n
          BY <2>3, <4>2, <5>3
        <5> QED BY <2>3, <5>1, <5>2, <5>3
      <4> QED BY <4>1, <4>2
    <3> QED BY <3>2, <3>3 DEF StartsCounted
  <2> QED BY <1>1, <2>1, <2>2, <2>3, <2>6, <2>7, <2>8, <2>9 DEF HasRoom
<1>2. CASE ~HasRoom(count, queue)
  <2>1. running' = count /\ waiting' = queue /\ UNCHANGED <<starts, thread>>
    BY <1>2 DEF startNext
  <2> QED BY <1>2, <2>1 DEF HasRoom, ParseTyped, StartsCounted, Started
<1> QED BY <1>1, <1>2

\* A place is given back for a place that is held.
LEMMA FreedHeld ==
  ASSUME ParseTyped, StartsCounted, PlacesHeld
  PROVE  /\ freed \subseteq Started /\ IsFiniteSet(freed) /\ Cardinality(freed) \in Nat
         /\ {p \in Parses : thread[p] = "parsing"} \subseteq Started \ freed
         /\ Cardinality(Started \ freed) = Len(starts) - Cardinality(freed)
<1>1. freed \subseteq Started
  BY DEF ParseTyped, PlacesHeld, Started
<1>2. IsFiniteSet(freed) /\ Cardinality(freed) \in Nat
  BY <1>1, FS_Subset, FS_CardinalityType DEF StartsCounted
<1>3. {p \in Parses : thread[p] = "parsing"} \subseteq Started \ freed
  BY DEF ParseTyped, PlacesHeld, Started
<1>4. Cardinality(Started \ freed) = Len(starts) - Cardinality(freed)
  <2>1. Started \cap freed = freed
    BY <1>1
  <2> QED BY <2>1, FS_Difference, ZenonT(90) DEF StartsCounted
<1> QED BY <1>1, <1>2, <1>3, <1>4

\* A file comes in, and starts if there is a place.
LEMMA ArrivalKeeps == ASSUME ParseInv, NEW p \in Parses, parseGpxOffThread(p) PROVE ParseInv'
<1> USE DEF ParseInv
<1>1. /\ p \notin Range(arrivals) /\ arrivals' = Append(arrivals, p)
      /\ startNext(running, enqueued(p)) /\ UNCHANGED <<content, outcome, freed>>
  BY DEF parseGpxOffThread
<1>2. PICK queue \in Seq(Parses), list \in Seq(Parses) :
        /\ queue = Append(waiting, p) /\ list = Append(arrivals, p)
        /\ Len(queue) = Len(waiting) + 1 /\ queue[Len(waiting) + 1] = p
        /\ \A i \in 1..Len(waiting) : queue[i] = waiting[i]
        /\ Len(list) = Len(arrivals) + 1 /\ list[Len(arrivals) + 1] = p
        /\ \A i \in 1..Len(arrivals) : list[i] = arrivals[i]
  <2>1. waiting \in Seq(Parses) /\ arrivals \in Seq(Parses)
    BY DEF ParseTyped
  <2>2. /\ Append(waiting, p) \in Seq(Parses) /\ Len(Append(waiting, p)) = Len(waiting) + 1
        /\ Append(waiting, p)[Len(waiting) + 1] = p
        /\ \A i \in 1..Len(waiting) : Append(waiting, p)[i] = waiting[i]
    BY <2>1, AppendProperties
  <2>3. /\ Append(arrivals, p) \in Seq(Parses) /\ Len(Append(arrivals, p)) = Len(arrivals) + 1
        /\ Append(arrivals, p)[Len(arrivals) + 1] = p
        /\ \A i \in 1..Len(arrivals) : Append(arrivals, p)[i] = arrivals[i]
    BY <2>1, AppendProperties
  <2> QED BY <2>2, <2>3
<1>3. Len(waiting) \in Nat /\ Len(starts) \in Nat /\ Len(arrivals) \in Nat
  BY LenProperties DEF ParseTyped
<1>4. Once(list)
  <2>1. \A i \in 1..Len(arrivals) : arrivals[i] # p
    BY <1>1 DEF Range, ParseTyped
  <2> QED BY <1>2, <1>3, <2>1 DEF Once
<1>5. InOrder(starts, queue, list)
  <2>1. PICK n \in Nat, m \in Nat : n = Len(starts) /\ m = Len(waiting)
    BY <1>3
  <2>2. /\ Len(arrivals) = n + m /\ \A i \in 1..n : starts[i] = arrivals[i]
        /\ \A i \in 1..m : waiting[i] = arrivals[n + i]
    BY <2>1 DEF InOrder
  <2>3. ASSUME NEW i \in 1..n PROVE starts[i] = list[i]
    BY <1>2, <2>2, SMTT(40)
  <2>4. ASSUME NEW i \in 1..(m + 1) PROVE queue[i] = list[n + i]
    <3>1. CASE i = m + 1
      <4>1. list[n + i] = p
        BY <1>2, <2>2, <3>1
      <4> QED BY <1>2, <2>1, <3>1, <4>1
    <3>2. CASE i # m + 1
      <4>1. i \in 1..m /\ n + i \in 1..(n + m)
        BY <3>2
      <4> QED BY <1>2, <2>1, <2>2, <4>1
    <3> QED BY <3>1, <3>2
  <2>5. Len(list) = n + (m + 1)
    BY <1>2, <2>2
  <2> QED BY <1>2, <2>1, <2>3, <2>4, <2>5 DEF InOrder
<1>6. startNext(running, queue) /\ arrivals' = list /\ queue # <<>>
  BY <1>1, <1>2, <1>3 DEF enqueued
<1>7. /\ running' \in Nat /\ waiting' \in Seq(Parses) /\ starts' \in Seq(Parses)
      /\ thread' \in [Parses -> Threads] /\ InOrder(starts', waiting', list) /\ StartsCounted'
      /\ \A q \in Parses : thread[q] # "none" => thread'[q] = thread[q]
      /\ \A q \in Parses : thread'[q] = thread[q] \/ thread'[q] = "parsing"
      /\ IF running < MaxParses
         THEN running' = running + 1 /\ waiting' = Tail(queue) /\ Len(starts') = Len(starts) + 1
         ELSE running' = running /\ waiting' = queue /\ starts' = starts
  BY <1>4, <1>5, <1>6, NextStarts DEF ParseTyped
<1>8. ParseTyped'
  BY <1>1, <1>6, <1>7 DEF ParseTyped
<1>9. PlacesHeld'
  BY <1>1, <1>7 DEF PlacesHeld, ParseTyped, Threads
<1>10. RoomUsed'
  <2>1. CASE running < MaxParses
    <3>1. waiting = <<>>
      BY <2>1 DEF RoomUsed, ParseTyped
    <3>2. waiting' = <<>>
      BY <1>2, <1>7, <2>1, <3>1, EmptySeq, HeadTailProperties
    <3>3. /\ running' = running + 1 /\ Len(starts') = Len(starts) + 1 /\ freed' = freed
          /\ running = Len(starts) - Cardinality(freed) /\ running \in Nat
      BY <1>1, <1>7, <2>1 DEF RoomUsed, ParseTyped
    <3>4. Cardinality(freed) \in Nat /\ MaxParses \in Nat
      BY FreedHeld, ParseQueueAssumption
    <3>5. running' = Len(starts') - Cardinality(freed') /\ running' <= MaxParses
      BY <1>3, <2>1, <3>3, <3>4, SMTT(40)
    <3> QED BY <3>2, <3>5 DEF RoomUsed
  <2>2. CASE ~(running < MaxParses)
    BY <1>1, <1>7, <2>2, ParseQueueAssumption DEF RoomUsed, ParseTyped
  <2> QED BY <2>1, <2>2
<1>11. RightBlame'
  BY <1>1 DEF RightBlame
<1> QED BY <1>4, <1>6, <1>7, <1>8, <1>9, <1>10, <1>11

\* A promise settles once, with what its file is to blame for.
LEMMA SettleKeeps ==
  ASSUME ParseTyped, PlacesHeld, StartsCounted, RightBlame, NEW p \in Parses, NEW to \in {"posted", "ended"},
         NEW result \in Outcomes \ {"none"}, thread[p] # "none",
         thread' = [thread EXCEPT ![p] = to], Settle(p, result),
         UNCHANGED <<content, waiting, running, arrivals, starts, freed>>,
         /\ result = "track" => content[p] = "ride"
         /\ result = "NoTrackPointsError" => content[p] = "noTrack"
         /\ result = "InvalidGpxError" => content[p] \in {"notGpx", "crafted"}
  PROVE  ParseTyped' /\ PlacesHeld' /\ StartsCounted' /\ RightBlame'
<1>1. /\ thread' \in [Parses -> Threads]
      /\ \A q \in Parses : thread'[q] = IF q = p THEN to ELSE thread[q]
  BY DEF ParseTyped, Threads
<1>2. /\ outcome' \in [Parses -> Outcomes]
      /\ \A q \in Parses : outcome'[q] = IF q = p /\ outcome[p] = "none" THEN result ELSE outcome[q]
  BY DEF Settle, ParseTyped, Outcomes
<1>3. ParseTyped'
  BY <1>1, <1>2 DEF ParseTyped
<1>4. PlacesHeld'
  BY <1>1, <1>2 DEF PlacesHeld, ParseTyped
<1>5. StartsCounted'
  <2>1. Started' = Started
    BY <1>1 DEF Started
  <2>2. \A q \in Parses : thread'[q] # "none" <=> thread[q] # "none"
    BY <1>1
  <2> QED BY <2>1, <2>2 DEF StartsCounted
<1>6. RightBlame'
  BY <1>2 DEF RightBlame
<1> QED BY <1>3, <1>4, <1>5, <1>6

\* What a thread does: its message, its failure, its exit.
LEMMA ThreadKeeps ==
  ASSUME ParseInv, NEW p \in Parses,
         \/ WorkerPosts(p) \/ WorkerExits(p)
         \/ \E cause \in {"outOfMemory", "failed"} : WorkerFails(p, cause)
  PROVE  ParseInv'
<1> USE DEF ParseInv
<1>1. UNCHANGED <<content, waiting, running, arrivals, starts, freed>>
  BY DEF WorkerPosts, WorkerExits, WorkerFails
<1>2. content[p] \in Contents
  BY DEF ParseTyped
<1>3. ParseTyped' /\ PlacesHeld' /\ StartsCounted' /\ RightBlame'
  <2>1. CASE WorkerPosts(p)
    <3>1. PICK result : result = Message(p)
      OBVIOUS
    <3>2. /\ result \in Outcomes \ {"none"}
          /\ result = "track" => content[p] = "ride"
          /\ result = "NoTrackPointsError" => content[p] = "noTrack"
          /\ result = "InvalidGpxError" => content[p] \in {"notGpx", "crafted"}
      BY <1>2, <3>1 DEF Message, Contents, Outcomes
    <3>3. thread[p] # "none" /\ thread' = [thread EXCEPT ![p] = "posted"] /\ Settle(p, result)
      BY <2>1, <3>1 DEF WorkerPosts
    <3> QED BY <1>1, <3>2, <3>3, SettleKeeps
  <2>2. CASE WorkerExits(p)
    <3>1. thread[p] # "none" /\ thread' = [thread EXCEPT ![p] = "ended"] /\ Settle(p, "Error")
      BY <2>2 DEF WorkerExits
    <3>2. "Error" \in Outcomes \ {"none"}
      BY DEF Outcomes
    <3> QED BY <1>1, <3>1, <3>2, SettleKeeps
  <2>3. ASSUME NEW cause \in {"outOfMemory", "failed"}, WorkerFails(p, cause)
        PROVE  ParseTyped' /\ PlacesHeld' /\ StartsCounted' /\ RightBlame'
    <3>1. PICK result : result = workerFailure(cause)
      OBVIOUS
    <3>2. /\ result \in Outcomes \ {"none"} /\ result \in {"InvalidGpxError", "Error"}
          /\ result = "InvalidGpxError" => content[p] \in {"notGpx", "crafted"}
      BY <2>3, <3>1 DEF workerFailure, WorkerFails, Outcomes
    <3>3. thread[p] # "none" /\ thread' = [thread EXCEPT ![p] = "posted"] /\ Settle(p, result)
      BY <2>3, <3>1 DEF WorkerFails
    <3> QED BY <1>1, <3>2, <3>3, SettleKeeps
  <2> QED BY <2>1, <2>2, <2>3
<1>4. Once(arrivals)' /\ InOrder(starts, waiting, arrivals)' /\ RoomUsed'
  BY <1>1 DEF RoomUsed
<1> QED BY <1>3, <1>4

\* A finally gives its place to the first that waits.
LEMMA FinallyKeeps == ASSUME ParseInv, NEW p \in Parses, Finally(p) PROVE ParseInv'
<1> USE DEF ParseInv
<1>1. /\ outcome[p] # "none" /\ p \notin freed /\ freed' = freed \cup {p}
      /\ startNext(running - 1, waiting) /\ UNCHANGED <<content, arrivals, outcome>>
  BY DEF Finally
<1>2. IsFiniteSet(freed) /\ Cardinality(freed) \in Nat /\ Cardinality(freed') = Cardinality(freed) + 1
  BY <1>1, FreedHeld, FS_AddElement
<1>3. Len(starts) \in Nat /\ MaxParses \in Nat \ {0}
  BY LenProperties, ParseQueueAssumption DEF ParseTyped
<1>4. running - 1 \in Nat
  <2>1. freed' \subseteq Started /\ IsFiniteSet(Started) /\ Cardinality(Started) = Len(starts)
    BY <1>1, FreedHeld DEF PlacesHeld, Started, StartsCounted
  <2>2. Cardinality(freed') <= Len(starts)
    BY <2>1, FS_Subset
  <2>3. running = Len(starts) - Cardinality(freed) /\ running \in Nat
    BY DEF RoomUsed, ParseTyped
  <2> QED BY <1>2, <1>3, <2>2, <2>3
<1>5. PICK count \in Nat : count = running - 1
  BY <1>4
<1>6. /\ running' \in Nat /\ waiting' \in Seq(Parses) /\ starts' \in Seq(Parses)
      /\ thread' \in [Parses -> Threads] /\ InOrder(starts', waiting', arrivals) /\ StartsCounted'
      /\ \A q \in Parses : thread[q] # "none" => thread'[q] = thread[q]
      /\ \A q \in Parses : thread'[q] = thread[q] \/ thread'[q] = "parsing"
      /\ IF count < MaxParses /\ waiting # <<>>
         THEN running' = count + 1 /\ waiting' = Tail(waiting) /\ Len(starts') = Len(starts) + 1
         ELSE running' = count /\ waiting' = waiting /\ starts' = starts
  <2>1. startNext(count, waiting) /\ waiting \in Seq(Parses) /\ arrivals \in Seq(Parses)
    BY <1>1, <1>5 DEF ParseTyped
  <2> QED BY <2>1, NextStarts
<1>7. ParseTyped'
  BY <1>1, <1>6 DEF ParseTyped
<1>8. PlacesHeld'
  BY <1>1, <1>6 DEF PlacesHeld, ParseTyped, Threads
<1>9. RoomUsed'
  <2>1. /\ running \in Nat /\ running <= MaxParses /\ count + 1 = running /\ count < MaxParses
        /\ running = Len(starts) - Cardinality(freed) /\ (waiting # <<>> => running = MaxParses)
    BY <1>3, <1>5 DEF RoomUsed, ParseTyped
  <2>2. CASE waiting # <<>>
    <3>1. running' = running /\ Len(starts') = Len(starts) + 1 /\ running = MaxParses
      BY <1>6, <2>1, <2>2
    <3>2. running' = Len(starts') - Cardinality(freed')
      BY <1>2, <1>3, <2>1, <3>1
    <3> QED BY <2>1, <3>1, <3>2 DEF RoomUsed
  <2>3. CASE waiting = <<>>
    <3>1. running' = count /\ waiting' = <<>> /\ starts' = starts
      BY <1>6, <2>3
    <3>2. running' = Len(starts') - Cardinality(freed') /\ running' <= MaxParses
      BY <1>2, <1>3, <2>1, <3>1
    <3> QED BY <3>1, <3>2 DEF RoomUsed
  <2> QED BY <2>2, <2>3
<1>10. RightBlame' /\ Once(arrivals)'
  BY <1>1 DEF RightBlame
<1> QED BY <1>1, <1>6, <1>7, <1>8, <1>9, <1>10

\* No more files are parsed at once than there are places, no place is idle while a file waits or
\* is lost with a thread that crashed; files start in the order they came; and a file is blamed
\* only for what it holds (parseGpxOffThread.js, gpxWorker.js).
THEOREM ParsesAlwaysServed == ParseSpec => []ParsesServed
<1>1. ParseInit => ParseInv
  <2> SUFFICES ASSUME ParseInit PROVE ParseInv
    OBVIOUS
  <2> USE DEF ParseInit
  <2>1. /\ waiting \in Seq(Parses) /\ starts \in Seq(Parses) /\ arrivals \in Seq(Parses)
        /\ Len(waiting) = 0 /\ Len(starts) = 0 /\ Len(arrivals) = 0
    BY EmptySeq
  <2>2. ParseTyped
    BY <2>1, ParseQueueAssumption DEF ParseTyped, Threads, Outcomes
  <2>3. StartsCounted
    <3>1. Started = {}
      BY DEF Started
    <3> QED BY <2>1, <3>1, FS_EmptySet DEF StartsCounted
  <2>4. Once(arrivals) /\ InOrder(starts, waiting, arrivals)
    BY <2>1 DEF Once, InOrder
  <2>5. PlacesHeld /\ RightBlame
    BY DEF PlacesHeld, RightBlame
  <2>6. RoomUsed
    BY <2>1, FS_EmptySet, ParseQueueAssumption DEF RoomUsed
  <2> QED BY <2>2, <2>3, <2>4, <2>5, <2>6 DEF ParseInv
<1>2. ParseInv /\ [ParseNext]_parseVars => ParseInv'
  <2> SUFFICES ASSUME ParseInv, [ParseNext]_parseVars PROVE ParseInv'
    OBVIOUS
  <2>1. CASE ParseNext
    BY <2>1, ArrivalKeeps, ThreadKeeps, FinallyKeeps DEF ParseNext
  <2>2. CASE UNCHANGED parseVars
    BY <2>2, ZenonT(90) DEF parseVars, ParseInv, ParseTyped, Once, InOrder, StartsCounted, Started, PlacesHeld,
                RoomUsed, RightBlame
  <2> QED BY <2>1, <2>2
<1>3. ParseInv => ParsesServed
  <2> SUFFICES ASSUME ParseInv PROVE PlacesKept /\ FirstComeFirstServed
    BY DEF ParseInv, ParsesServed
  <2> USE DEF ParseInv
  <2>1. Cardinality({p \in Parses : thread[p] = "parsing"}) <= MaxParses
    <3>1. PICK parsing : parsing = {p \in Parses : thread[p] = "parsing"}
      OBVIOUS
    <3>2. parsing \subseteq Started \ freed /\ IsFiniteSet(Started \ freed)
      BY <3>1, FreedHeld, FS_Difference DEF StartsCounted
    <3>3. Cardinality(parsing) <= Cardinality(Started \ freed) /\ Cardinality(parsing) \in Nat
      BY <3>2, FS_Subset, FS_CardinalityType
    <3>4. Cardinality(Started \ freed) = running /\ running <= MaxParses /\ running \in Nat
      BY FreedHeld DEF RoomUsed, ParseTyped
    <3> QED BY <3>1, <3>3, <3>4, ParseQueueAssumption
  <2>2. FirstComeFirstServed
    <3>1. PICK n \in Nat, m \in Nat : n = Len(starts) /\ m = Len(waiting)
      BY LenProperties DEF ParseTyped
    <3>2. PICK both \in Seq(Parses) :
            /\ both = starts \o waiting /\ Len(both) = n + m
            /\ \A i \in 1..(n + m) : both[i] = IF i <= n THEN starts[i] ELSE waiting[i - n]
      <4>1. starts \in Seq(Parses) /\ waiting \in Seq(Parses)
        BY DEF ParseTyped
      <4>2. /\ starts \o waiting \in Seq(Parses) /\ Len(starts \o waiting) = Len(starts) + Len(waiting)
            /\ \A i \in 1..(Len(starts) + Len(waiting)) :
                 (starts \o waiting)[i] = IF i <= Len(starts) THEN starts[i] ELSE waiting[i - Len(starts)]
        BY <4>1, ConcatProperties, Zenon
      <4> QED BY <3>1, <4>2
    <3>3. /\ arrivals \in Seq(Parses) /\ Len(arrivals) = n + m
          /\ \A i \in 1..n : starts[i] = arrivals[i]
          /\ \A i \in 1..m : waiting[i] = arrivals[n + i]
      BY <3>1 DEF InOrder, ParseTyped
    <3>4. ASSUME NEW i \in 1..(n + m) PROVE both[i] = arrivals[i]
      <4>1. CASE i <= n
        BY <3>2, <3>3, <4>1
      <4>2. CASE ~(i <= n)
        <5>1. i - n \in 1..m /\ n + (i - n) = i
          BY <4>2
        <5> QED BY <3>2, <3>3, <4>2, <5>1
      <4> QED BY <4>1, <4>2
    <3>5. both = arrivals
      BY <3>2, <3>3, <3>4, SeqEqual
    <3> QED BY <3>2, <3>5 DEF FirstComeFirstServed
  <2> QED BY <2>1, <2>2 DEF PlacesKept, RoomUsed
<1> QED BY <1>1, <1>2, <1>3, PTL DEF ParseSpec

=============================================================================
