------------------------------ MODULE GpxTrack ------------------------------
(* The line of a ride, from the GPX file through the stored track to the map  *)
(* (lib/parseGpx.js, segments.js, simplify.js, mapBudget.js).  Every point    *)
(* lies on one meridian: a position is a number, a distance a difference, and *)
(* the distance to a chord that to its nearest end, or nothing inside it.     *)
EXTENDS Integers, Sequences, FiniteSets, SequencesExt

CONSTANTS
  Recordings, MoreRecordings,   \* files the first and the later uploads bring
  Unknown,       \* a point without elevation or time; a stat that is null
  LastPosition,  \* positions beyond it are invalid
  Grain,         \* the rounding of COORDINATE_DECIMALS
  MaxTrackPoints, MaxSegments, Noise, SpeedFloor, PointBudget, MinPointsPerTour,
  TracksPerRider \* bound

ASSUME GpxTrackAssumption ==
  /\ Grain \in Nat \ {0} /\ MaxSegments \in Nat \ {0} /\ MaxTrackPoints > 2 * MaxSegments
  /\ Noise \in Nat \ {0} /\ PointBudget \in Nat /\ MinPointsPerTour \in Nat

VARIABLES
  uploads,   \* the file of each stored track
  tracks,    \* the stored tracks
  drawn      \* what GetMapData answered last, with the tracks it was for

gpxVars == <<uploads, tracks, drawn>>

Gap(a, b) == IF a < b THEN b - a ELSE a - b
SumOf(numbers) == FoldLeft(LAMBDA a, b : a + b, 0, numbers)
Rounded(position) == (2 * position + Grain) \div (2 * Grain)

-----------------------------------------------------------------------------
(* Segments.                                                                 *)

joinSegments(lines) ==
  [heatmapData |-> FlattenSeq(lines),
   segmentStarts |-> [k \in 1..(Len(lines) - 1) |-> SumOf([i \in 1..k |-> Len(lines[i])])]]

splitSegments(track) ==
  LET bound == <<0>> \o track.segmentStarts \o <<Len(track.heatmapData)>> IN
  [k \in 1..(Len(bound) - 1) |-> SubSeq(track.heatmapData, bound[k] + 1, bound[k + 1])]

nonEmpty(lines) == SelectSeq(lines, LAMBDA line : line # <<>>)
validPoints(line) == SelectSeq(line, LAMBDA point : point.at <= LastPosition)

(* What was ridden; a planner's routes only without it.                      *)
pointSegments(file) ==
  LET ridden == nonEmpty([k \in DOMAIN file.trk |-> validPoints(file.trk[k])]) IN
  IF ridden # <<>> THEN ridden ELSE nonEmpty([k \in DOMAIN file.rte |-> validPoints(file.rte[k])])

-----------------------------------------------------------------------------
(* The stored line.                                                          *)

\* Mutant: the last point is kept only where the step falls on it.
thinnedOpen(line, step) == [k \in 1..((Len(line) - 1) \div step + 1) |-> line[(k - 1) * step + 1]]
thinned(line, step) ==
  LET kept == [k \in 1..((Len(line) - 1) \div step + 1) |-> line[(k - 1) * step + 1]] IN
  IF (Len(line) - 1) % step = 0 THEN kept ELSE Append(kept, Last(line))

stepFor(total, lines) ==
  LET share == MaxTrackPoints - 2 * lines IN
  IF total <= MaxTrackPoints THEN 1 ELSE (total + share - 1) \div share

downsampleTrack(segments) ==
  LET lines == IF Len(segments) > MaxSegments THEN <<FlattenSeq(segments)>> ELSE segments
      step == stepFor(SumOf([k \in DOMAIN lines |-> Len(lines[k])]), Len(lines))
      KeptPoints(line) == [i \in DOMAIN thinned(line, step) |-> Rounded(thinned(line, step)[i].at)] IN
  joinSegments([k \in DOMAIN lines |-> KeptPoints(lines[k])])

-----------------------------------------------------------------------------
(* The stats.                                                                *)

Timed(line) == SelectSeq(line, LAMBDA point : point.time # Unknown)
Measured(line) == SelectSeq(line, LAMBDA point : point.ele # Unknown)

pathLength(line) == SumOf([i \in 1..(Len(line) - 1) |-> Gap(line[i].at, line[i + 1].at)])

\* Mutant: every elevation is the next one's baseline, counted or not.
gainAndLossDrifting(line) ==
  FoldLeft(LAMBDA sum, point :
             LET difference == point.ele - sum.baseline IN
             IF Gap(difference, 0) < Noise THEN [sum EXCEPT !.baseline = point.ele]
             ELSE [gain |-> sum.gain + Max({difference, 0}), loss |-> sum.loss + Max({-difference, 0}),
                   baseline |-> point.ele],
           [gain |-> 0, loss |-> 0,
             baseline |-> IF Measured(line) = <<>> THEN 0 ELSE Measured(line)[1].ele],
           Measured(line))
(* A difference counts once it is past the noise from the last counted one.  *)
gainAndLoss(line) ==
  FoldLeft(LAMBDA sum, point :
             LET difference == point.ele - sum.baseline IN
             IF Gap(difference, 0) < Noise THEN sum
             ELSE [gain |-> sum.gain + Max({difference, 0}), loss |-> sum.loss + Max({-difference, 0}),
                   baseline |-> point.ele],
           [gain |-> 0, loss |-> 0,
             baseline |-> IF Measured(line) = <<>> THEN 0 ELSE Measured(line)[1].ele],
           Measured(line))

elevationStats(segments) ==
  LET measured == Measured(FlattenSeq(segments))
      heights == {p.ele : p \in Range(measured)}
      each == [k \in DOMAIN segments |-> gainAndLoss(segments[k])] IN
  [minElevation |-> IF measured = <<>> THEN Unknown ELSE Min(heights),
   maxElevation |-> IF measured = <<>> THEN Unknown ELSE Max(heights),
   gain |-> IF Len(measured) < 2 THEN Unknown ELSE SumOf([k \in DOMAIN each |-> each[k].gain]),
   loss |-> IF Len(measured) < 2 THEN Unknown ELSE SumOf([k \in DOMAIN each |-> each[k].loss])]

(* A leg joins two timed points in a row; too slow is a stop.                *)
Moving(from, to) ==
  /\ to.time > from.time
  /\ Gap(from.at, to.at) >= SpeedFloor * (to.time - from.time)

legs(line) ==
  LET timed == Timed(line) IN
  {l \in [from : 1..(Len(timed) - 1), to : 2..Len(timed)] :
     l.to = l.from + 1 /\ Moving(timed[l.from], timed[l.to])}

Sum(f(_), S) == FoldSet(LAMBDA l, sum : sum + f(l), 0, S)
movingTotals(line) ==
  [seconds |-> Sum(LAMBDA l : Timed(line)[l.to].time - Timed(line)[l.from].time, legs(line)),
   kilometres |-> Sum(LAMBDA l : Gap(Timed(line)[l.to].at, Timed(line)[l.from].at), legs(line))]

durationStats(segments) ==
  LET times == {p.time : p \in Range(Timed(FlattenSeq(segments)))}
      known == Len(Timed(FlattenSeq(segments))) >= 2
      each == [k \in DOMAIN segments |-> movingTotals(segments[k])] IN
  [duration |-> IF known THEN Max(times) - Min(times) ELSE Unknown,
   moving |-> IF known THEN SumOf([k \in DOMAIN each |-> each[k].seconds]) ELSE Unknown,
   movingDistance |-> SumOf([k \in DOMAIN each |-> each[k].kilometres])]

tourDate(file, segments) ==
  LET times == {p.time : p \in Range(Timed(FlattenSeq(segments)))} IN
  IF file.date # Unknown THEN file.date ELSE IF times = {} THEN Unknown ELSE Min(times)

parseGpx(file) ==
  LET segments == pointSegments(file) IN
  [line |-> downsampleTrack(segments), climb |-> elevationStats(segments),
   ride |-> durationStats(segments), date |-> tourDate(file, segments),
   distance |-> SumOf([k \in DOMAIN segments |-> pathLength(segments[k])])]

-----------------------------------------------------------------------------
(* Simplification.                                                           *)

perpendicularDistance(at, start, end) ==
  IF at \in Min({start, end})..Max({start, end}) THEN 0 ELSE Min({Gap(at, start), Gap(at, end)})

farthestFromChord(line, start, end) ==
  LET distance(i) == perpendicularDistance(line[i], line[start], line[end])
      most == Max({distance(i) : i \in (start + 1)..(end - 1)}) IN
  [index |-> Min({i \in (start + 1)..(end - 1) : distance(i) = most}), distance |-> most]

splitRank(distance, cap) == Min({distance, cap})

Endless == 2 * LastPosition + 2
RECURSIVE RanksWithin(_, _, _, _)
RanksWithin(line, start, end, cap) ==
  IF end - start < 2 THEN <<>>
  ELSE LET farthest == farthestFromChord(line, start, end)
           rank == splitRank(farthest.distance, cap) IN
       farthest.index :> rank @@ RanksWithin(line, start, farthest.index, rank)
                              @@ RanksWithin(line, farthest.index, end, rank)
douglasPeuckerRanks(line) ==
  1 :> Endless @@ Len(line) :> Endless @@ RanksWithin(line, 1, Len(line), Endless)

(* The highest ranks; of equal ones the earliest.                            *)
keptIndices(line, target) ==
  LET rank == douglasPeuckerRanks(line)
      order == SetToSortSeq(DOMAIN line,
                  LAMBDA i, j : rank[i] > rank[j] \/ (rank[i] = rank[j] /\ i < j)) IN
  Range(SubSeq(order, 1, target))

simplifyToTarget(line, target) ==
  IF target < 2 \/ Len(line) <= target THEN line
  ELSE LET kept == SetToSortSeq(keptIndices(line, target), <) IN
        [k \in DOMAIN kept |-> line[kept[k]]]

-----------------------------------------------------------------------------
(* The map.                                                                  *)

sharedBudget(floor, lines) == Max({0, PointBudget - floor * lines})

budgetTracks(lines) ==
  LET total == SumOf([k \in DOMAIN lines |-> Len(lines[k])])
      drawable == Len(nonEmpty(lines))
      floor == Max({2, Min({MinPointsPerTour, PointBudget \div drawable})})
      Target(line) == floor + (sharedBudget(floor, drawable) * Len(line)) \div total IN
  IF total <= PointBudget THEN lines
  ELSE [k \in DOMAIN lines |-> simplifyToTarget(lines[k], Target(lines[k]))]

(* Over every segment of every track, so that a break stays a break.         *)
budgetSegmentedTracks(some) ==
  LET each == [k \in DOMAIN some |-> splitSegments(some[k])]
      budgeted == budgetTracks(FlattenSeq(each))
      before == [k \in DOMAIN each |-> SumOf([i \in 1..(k - 1) |-> Len(each[i])])] IN
  [k \in DOMAIN each |-> joinSegments(SubSeq(budgeted, before[k] + 1, before[k] + Len(each[k])))]

-----------------------------------------------------------------------------

GpxInit == uploads = <<>> /\ tracks = <<>> /\ drawn = [tracks |-> <<>>, lines |-> <<>>]

(* A file without a valid point is refused.                                  *)
UploadGpx(file) ==
  /\ Len(tracks) < TracksPerRider /\ pointSegments(file) # <<>>
  /\ file \in IF tracks = <<>> THEN Recordings ELSE MoreRecordings
  /\ uploads' = Append(uploads, file) /\ tracks' = Append(tracks, parseGpx(file))
  /\ UNCHANGED drawn

(* The whole map, or one page of it: each is budgeted on its own.            *)
GetMap(offset, limit) ==
  LET page == SubSeq(tracks, offset + 1, Min({offset + limit, Len(tracks)})) IN
  /\ offset < Len(tracks)
  /\ drawn' = [tracks |-> page,
               lines |-> budgetSegmentedTracks([k \in DOMAIN page |-> page[k].line])]
  /\ UNCHANGED <<uploads, tracks>>

GpxNext ==
  \/ \E file \in Recordings \cup MoreRecordings : UploadGpx(file)
  \/ \E offset \in 0..(TracksPerRider - 1), limit \in 1..TracksPerRider : GetMap(offset, limit)

-----------------------------------------------------------------------------

Ends(line) == <<line[1], Last(line)>>
SegmentEnds(track) == [k \in DOMAIN splitSegments(track) |-> Ends(splitSegments(track)[k])]

(* A track never stores more points than the cap, and up to the segment cap  *)
(* it breaks where the ride did, each segment from its first point to its    *)
(* last, whatever the step falls on (parseGpx.js, segments.js).              *)
TrackIsWhole ==
  \A k \in DOMAIN tracks :
    LET ridden == pointSegments(uploads[k])
        line == tracks[k].line
        Spots(i) == <<Rounded(ridden[i][1].at), Rounded(Last(ridden[i]).at)>> IN
    /\ Len(line.heatmapData) <= MaxTrackPoints
    /\ Len(ridden) <= MaxSegments => SegmentEnds(line) = [i \in DOMAIN ridden |-> Spots(i)]

(* The map draws every segment of every track from end to end, and within    *)
(* its budget as long as that leaves each segment two points: beyond, line 7  *)
(* calls it a hard cap and line 14 excepts it (mapBudget.js).                *)
MapWithinBudget ==
  LET segments == FlattenSeq([k \in DOMAIN drawn.tracks |-> splitSegments(drawn.tracks[k].line)]) IN
  /\ \A k \in DOMAIN drawn.lines : SegmentEnds(drawn.lines[k]) = SegmentEnds(drawn.tracks[k].line)
  /\ 2 * Len(segments) <= PointBudget =>
       SumOf([k \in DOMAIN drawn.lines |-> Len(drawn.lines[k].heatmapData)]) <= PointBudget

(* Douglas and Peucker's algorithm, for one tolerance.                       *)
RECURSIVE KeptPoints(_, _, _, _)
KeptPoints(line, start, end, tolerance) ==
  IF end - start < 2 THEN {start, end}
  ELSE LET farthest == farthestFromChord(line, start, end) IN
       IF farthest.distance <= tolerance THEN {start, end}
       ELSE KeptPoints(line, start, farthest.index, tolerance) \cup KeptPoints(line, farthest.index, end, tolerance)

(* The one pass over ranks is that algorithm at every tolerance at once: a   *)
(* line cut to any number of points lies between two of its results          *)
(* (simplify.js).                                                            *)
OnePassKeepsTheSame ==
  \A k \in DOMAIN tracks : LET line == tracks[k].line.heatmapData IN
    \A target \in 2..(Len(line) - 1), tolerance \in 0..LastPosition :
      LET kept == keptIndices(line, target)
          peers == KeptPoints(line, 1, Len(line), tolerance) IN
      kept \subseteq peers \/ peers \subseteq kept

(* Gain and loss never drift: in each segment they add up to the height      *)
(* between its ends to within the noise, however slowly the road climbs      *)
(* (parseGpx.js).                                                            *)
ClimbAddsUp ==
  \A k \in DOMAIN uploads :
    LET segments == pointSegments(uploads[k])
        Rise(line) == LET m == Measured(line) IN IF m = <<>> THEN 0 ELSE Last(m).ele - m[1].ele
        net == SumOf([i \in DOMAIN segments |-> Rise(segments[i])])
        climbing == {i \in DOMAIN segments : Len(Measured(segments[i])) >= 2} IN
    tracks[k].climb.gain # Unknown =>
      Gap(tracks[k].climb.gain - tracks[k].climb.loss, net) <= (Noise - 1) * Cardinality(climbing)

(* In a ride recorded in order no more time is spent moving than passed, no  *)
(* more distance is covered moving than was ridden, and the average is never *)
(* below the speed of a stop; in any order nothing is negative (parseGpx.js). *)
MovingIsPartOfTheRide ==
  \A k \in DOMAIN uploads :
    LET ride == tracks[k].ride
        timed == Timed(FlattenSeq(pointSegments(uploads[k])))
        inOrder == \A i, j \in DOMAIN timed : i < j => timed[i].time <= timed[j].time IN
    ride.duration # Unknown =>
      /\ ride.duration >= 0 /\ ride.moving >= 0
      /\ inOrder => ride.moving <= ride.duration
      /\ ride.movingDistance <= tracks[k].distance
      /\ ride.movingDistance >= SpeedFloor * ride.moving

(* From the file to the map a ride stays the ride that was recorded: its     *)
(* line, its climb and its time (parseGpx.js, simplify.js, mapBudget.js).    *)
RideKept ==
  TrackIsWhole /\ MapWithinBudget /\ OnePassKeepsTheSame /\ ClimbAddsUp /\ MovingIsPartOfTheRide

=============================================================================
