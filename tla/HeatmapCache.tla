---------------------------- MODULE HeatmapCache ----------------------------
(***************************************************************************)
(* The map of GetMapData and the memo one instance keeps of it per rider   *)
(* (heatmapCache.js), beside what changes tours and tracks meanwhile: an    *)
(* upload, a delete, the track backfill. Every query is one step; which     *)
(* points a track is thinned to does not matter here, only which track.     *)
(***************************************************************************)
EXTENDS Integers, SequencesExt

CONSTANTS
  Rider, Tour, MapRequest,
  Owner,      \* the rider of each tour
  Points,     \* the points of each tour's track
  MaxPoints   \* maxPoints of the cache

ASSUME HeatmapCacheAssumption ==
  /\ IsFiniteSet(Tour) /\ Owner \in [Tour -> Rider] /\ Points \in [Tour -> Nat]
  /\ MaxPoints \in Nat

VARIABLES
  doc,           \* each tour's document
  track,         \* the tours with a track document
  entries,       \* the cache's entries, in the Map's insertion order
  cachedPoints,
  mapRequest,
  answered,      \* history: the tours listed for the map answered in this step, and that map
  usage          \* history: a rider, and one who has used the cache since its last use

storage == <<doc, track>>
cache == <<entries, cachedPoints, usage>>
heatmapVars == <<storage, cache, mapRequest, answered>>

-----------------------------------------------------------------------------
\* A listed tour counts its points, or holds them inline from before the tracks.
Kept == {"inline", "moved"}
Listed == UNION {[tours -> Kept] : tours \in SUBSET Tour}

\* What a map shows of a tour: nothing, its inline points as one line, or its track.
Maps == UNION {[tours -> {"nothing", "line", "segments"}] : tours \in SUBSET Tour}

\* The number that is none; comparing with it is false.
NaN == -1
Plus(a, b) == IF NaN \in {a, b} THEN NaN ELSE a + b
Minus(a, b) == IF NaN \in {a, b} THEN NaN ELSE a - b
Exceeds(a) == a # NaN /\ a > MaxPoints

\* What pointCountOf makes of a map: see PointCountOf.
Counts == {0, NaN}
Entry == [rider: Rider, signature: Listed, result: Maps, points: Counts]

HeatmapTypeOK ==
  /\ doc \in [Tour -> Kept \cup {"none", "deleted"}]
  /\ track \in SUBSET Tour
  /\ \A i \in DOMAIN entries : entries[i] \in Entry
  /\ \A i, j \in DOMAIN entries : entries[i].rider = entries[j].rider => i = j
  /\ cachedPoints \in Counts
  /\ mapRequest \in [MapRequest -> [pc: {"idle", "list", "compute"}, rider: Rider \cup {"none"}, list: Listed,
                              tracks: SUBSET Tour, inline: SUBSET Tour,
                              unread: SUBSET {"tracks", "inline"}]]
  /\ answered \in [list: Listed, map: Maps]
  /\ usage \subseteq Rider \X Rider

NoTours == [t \in {} |-> "moved"]
Idle ==
  [pc |-> "idle", rider |-> "none", list |-> NoTours, tracks |-> {}, inline |-> {}, unread |-> {}]
Unanswered == [list |-> NoTours, map |-> NoTours]

HeatmapInit ==
  /\ doc \in [Tour -> {"none", "inline", "moved"}]
  /\ track = {t \in Tour : doc[t] = "moved"}
  /\ entries = <<>> /\ cachedPoints = 0 /\ usage = {}
  /\ mapRequest = [r \in MapRequest |-> Idle]
  /\ answered = Unanswered

-----------------------------------------------------------------------------
\* UploadTour, DeleteTour and trackBackfill: the track before the tour, and after it.
StoreTrack(t) ==
  /\ doc[t] \in {"none", "inline"} /\ t \notin track
  /\ track' = track \cup {t}
  /\ answered' = Unanswered
  /\ UNCHANGED <<doc, cache, mapRequest>>

CreateOrMoveTour(t) ==
  /\ doc[t] \in {"none", "inline"} /\ t \in track
  /\ doc' = [doc EXCEPT ![t] = "moved"]
  /\ answered' = Unanswered
  /\ UNCHANGED <<track, cache, mapRequest>>

DeleteTour(t) ==
  /\ doc[t] \in Kept
  /\ doc' = [doc EXCEPT ![t] = "deleted"]
  /\ answered' = Unanswered
  /\ UNCHANGED <<track, cache, mapRequest>>

DeleteTrack(t) ==
  /\ doc[t] = "deleted" /\ t \in track
  /\ track' = track \ {t}
  /\ answered' = Unanswered
  /\ UNCHANGED <<doc, cache, mapRequest>>

-----------------------------------------------------------------------------
ToursOf(rider) == {t \in Tour : Owner[t] = rider /\ doc[t] \in Kept}

\* Mutant: the count alone, wherever the points are.
SignatureOfCounts(list) == [t \in DOMAIN list |-> "moved"]
SignatureFor(list) == list

\* The sum of the numbers of a function: what they count, by the places they are at.
SumOf(counts) == Cardinality(UNION {{x} \X (1..counts[x]) : x \in DOMAIN counts})

\* The points a map really holds.
PointsHeld(result) == SumOf([t \in {s \in DOMAIN result : result[s] # "nothing"} |-> Points[t]])

\* pointCountOf adds up the length of each track, but a track of budgetSegmentedTracks is an object
\* of points and segment starts, and has none.
PointCountOf(result) == IF DOMAIN result = {} THEN 0 ELSE NaN

EntriesOf(rider) == {i \in DOMAIN entries : entries[i].rider = rider}
Without(rider) == IF EntriesOf(rider) = {} THEN entries
                  ELSE RemoveAt(entries, CHOOSE i \in EntriesOf(rider) : TRUE)
PointsOf(rider) == IF EntriesOf(rider) = {} THEN 0
                   ELSE entries[CHOOSE i \in EntriesOf(rider) : TRUE].points

Use(rider) == usage' = (usage \ ({rider} \X Rider)) \cup ((Rider \ {rider}) \X {rider})

BeginGetMapData(r, rider) ==
  /\ mapRequest[r].pc = "idle"
  /\ mapRequest' = [mapRequest EXCEPT ![r] = [Idle EXCEPT !.pc = "list", !.rider = rider]]
  /\ answered' = Unanswered
  /\ UNCHANGED <<storage, cache>>

\* Mutant: a hit is left at its place in the Map.
ReinsertedInPlace(rider, entry) == entries
\* A hit is inserted anew, at the end of the Map.
Reinserted(rider, entry) == Append(Without(rider), entry)

\* The tours, and what is memoised for exactly these; otherwise their tracks are read.
ListTours(r) ==
  LET rider == mapRequest[r].rider
      list == [t \in ToursOf(rider) |-> doc[t]]
      hits == {i \in EntriesOf(rider) : entries[i].signature = SignatureFor(list)} IN
  /\ mapRequest[r].pc = "list"
  /\ \/ \E i \in hits :
          /\ entries' = Reinserted(rider, entries[i])
          /\ Use(rider)
          /\ mapRequest' = [mapRequest EXCEPT ![r] = Idle]
          /\ answered' = [list |-> list, map |-> entries[i].result]
          /\ UNCHANGED cachedPoints
     \/ /\ hits = {}
        /\ mapRequest' = [mapRequest EXCEPT ![r].pc = "compute", ![r].list = list,
                                      ![r].unread = {"tracks", "inline"}]
        /\ answered' = Unanswered
        /\ UNCHANGED cache
  /\ UNCHANGED storage

\* readTracksByTour: two queries under way together.
ReadTracks(r) ==
  /\ "tracks" \in mapRequest[r].unread
  /\ mapRequest' = [mapRequest EXCEPT ![r].unread = @ \ {"tracks"},
                                ![r].tracks = {t \in track : Owner[t] = mapRequest[r].rider}]
  /\ answered' = Unanswered
  /\ UNCHANGED <<storage, cache>>

ReadInline(r) ==
  /\ "inline" \in mapRequest[r].unread
  /\ mapRequest' = [mapRequest EXCEPT ![r].unread = @ \ {"inline"},
                                ![r].inline = {t \in ToursOf(mapRequest[r].rider) : doc[t] = "inline"}]
  /\ answered' = Unanswered
  /\ UNCHANGED <<storage, cache>>

Computed(r) ==
  [t \in DOMAIN mapRequest[r].list |->
     IF t \in mapRequest[r].inline THEN "line"
     ELSE IF t \in mapRequest[r].tracks THEN "segments" ELSE "nothing"]

PointsOfEntries(list) ==
  IF \E i \in DOMAIN list : list[i].points = NaN THEN NaN
  ELSE SumOf([i \in DOMAIN list |-> list[i].points])

Total(rider, points) == Plus(Minus(cachedPoints, PointsOf(rider)), points)

Evicted(total, list) ==
  CHOOSE n \in 0..Len(list) :
    /\ n = Len(list) \/ ~Exceeds(Minus(total, PointsOfEntries(SubSeq(list, 1, n))))
    /\ \A m \in 0..(n - 1) : Exceeds(Minus(total, PointsOfEntries(SubSeq(list, 1, m))))

\* The computed map replaces the rider's entry; the oldest entries go until the rest fits.
StoreMap(r) ==
  LET rider == mapRequest[r].rider
      points == PointCountOf(Computed(r))
      list == Append(Without(rider), [rider |-> rider, result |-> Computed(r), points |-> points,
                                      signature |-> SignatureFor(mapRequest[r].list)])
      total == Total(rider, points)
      n == Evicted(total, list) IN
  /\ mapRequest[r].pc = "compute" /\ mapRequest[r].unread = {}
  /\ entries' = SubSeq(list, n + 1, Len(list))
  /\ cachedPoints' = Minus(total, PointsOfEntries(SubSeq(list, 1, n)))
  /\ Use(rider)
  /\ mapRequest' = [mapRequest EXCEPT ![r] = Idle]
  /\ answered' = [list |-> mapRequest[r].list, map |-> Computed(r)]
  /\ UNCHANGED storage

\* A query rejects; nothing is memoised.
QueryRejects(r) ==
  /\ mapRequest[r].pc # "idle"
  /\ mapRequest' = [mapRequest EXCEPT ![r] = Idle]
  /\ answered' = Unanswered
  /\ UNCHANGED <<storage, cache>>

HeatmapNext ==
  \/ \E t \in Tour : StoreTrack(t) \/ CreateOrMoveTour(t) \/ DeleteTour(t) \/ DeleteTrack(t)
  \/ \E r \in MapRequest :
       \/ \E rider \in Rider : BeginGetMapData(r, rider)
       \/ ListTours(r) \/ ReadTracks(r) \/ ReadInline(r) \/ StoreMap(r) \/ QueryRejects(r)

HeatmapSpec == HeatmapInit /\ [][HeatmapNext]_heatmapVars

-----------------------------------------------------------------------------
ShownAs(t) == IF doc[t] = "inline" THEN "line" ELSE "segments"

\* A tour that is now as it was listed is shown with its own track, computed or memoised: no warm
\* map hides the breaks a moved track has (GetMapData/index.js:23), or a tour whose track was read
\* too early.
MapsComplete ==
  [][\A t \in DOMAIN answered'.list :
       doc[t] = answered'.list[t] => answered'.map[t] = ShownAs(t)]_heatmapVars

\* "past maxPoints in total the least recently used entries are evicted" (heatmapCache.js:15), by
\* the points the maps really hold.
CacheBounded == SumOf([i \in DOMAIN entries |-> PointsHeld(entries[i].result)]) <= MaxPoints

\* The entries are in the order in which their riders last used the cache.
LeastRecentFirst ==
  \A i, j \in DOMAIN entries : i < j => <<entries[i].rider, entries[j].rider>> \in usage

\* A memoised map is of the tours of its rider it was keyed by, and, served for them now, would show
\* each with its own track, whoever else of the rider's requests stored a map meanwhile.
MemoOfRider ==
  \A e \in Range(entries) :
    /\ DOMAIN e.result = DOMAIN e.signature
    /\ \A t \in DOMAIN e.signature :
         Owner[t] = e.rider /\ (doc[t] = e.signature[t] => e.result[t] = ShownAs(t))

(* What the memo holds is each rider's own map, at most one, whole for the   *)
(* tours it is keyed by, in the order of last use (heatmapCache.js:26-44).   *)
(* How much it holds is another matter: see CacheBounded.                    *)
MemoSound == HeatmapTypeOK /\ MemoOfRider /\ LeastRecentFirst

=============================================================================
