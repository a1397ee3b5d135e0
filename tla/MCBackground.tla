----------------------------- MODULE MCBackground -----------------------------
(* Instances for TLC of what goes on behind the handlers and must come to an  *)
(* end: the deletion job, the backfills, the threads that parse.  `part` is   *)
(* the one a behaviour is of, the others stay as they start, where no fair    *)
(* step of theirs is enabled.                                                 *)
EXTENDS AccountDeletion, Backfills, ParseQueue, GpxTrack

VARIABLE part

TwoRequests == {"first", "second"}
OneOldPhoto == {"old"}
OneNewPhoto == {"new"}
FourParses == {"p1", "p2", "p3", "p4"}
OneOfEach == {[p1 |-> "ride", p2 |-> "crafted", p3 |-> "noTrack", p4 |-> "bug"]}

-----------------------------------------------------------------------------
(* Recordings: a line with corners, lines that break, files with one point    *)
(* or an invalid one, climbs and rides with points that know neither.         *)
Point(km, ele, time) == [at |-> km, ele |-> ele, time |-> time]
Plain(km) == Point(km, Unknown, Unknown)
Lines(n, P) == UNION {[1..k -> P] : k \in 1..n}
Straight(n) == [i \in 1..n |-> Plain(2 * i - 2)]
File(trk, rte) == [trk |-> trk, rte |-> rte, date |-> Unknown]

Shapes == {File(<<<<Plain(0)>> \o line>>, <<>>) : line \in [1..4 -> {Plain(0), Plain(3), Plain(8)}]}
Broken == {File(<<Straight(m), Straight(n)>>, <<>>) : m, n \in 1..5}
Crumbs == {File(<<a, <<Plain(8)>>, b>>, <<b>>) : a, b \in Lines(2, {Plain(4), Plain(99)})}
Climbs ==
  {File(<<a, <<Point(0, 1, Unknown)>>>>, <<>>) :
     a \in Lines(3, {Point(0, h, Unknown) : h \in {Unknown, 0, 2, 4}})}
Rides ==
  {File(<<a, <<Point(0, Unknown, 5)>>>>, <<>>) :
     a \in Lines(3, {Point(p, Unknown, h) : p \in {0, 4}, h \in {Unknown, 0, 1}})}
AllFiles == Shapes \cup Broken \cup Crumbs \cup Climbs \cup Rides
OneFile == {File(<<<<Plain(0), Plain(8)>>, <<Plain(4), Plain(3), Plain(2)>>>>, <<>>)}

-----------------------------------------------------------------------------
(* One tour stands for all while its backfills do not run.                    *)
NoBackfill ==
  /\ gpx = "missing"
  /\ tour = [Blank EXCEPT !.there = TRUE, !.inline = TRUE]

(* No script tells a GPX that is missing from one it cannot read; a tour of   *)
(* version 1 or with current stats is one that a script has been at.          *)
SomeBackfill == gpx # "missing" /\ tour.version = 0 /\ tour.stats # "current"

BackgroundInit ==
  /\ part \in {"deletion", "backfills", "parses", "gpx"}
  /\ IF part = "backfills" THEN TRUE ELSE NoBackfill
  /\ DeletionInit /\ Init /\ ParseInit /\ GpxInit
  /\ part = "backfills" => SomeBackfill

BackgroundNext ==
  \/ part = "deletion" /\ DeletionNext /\ UNCHANGED <<part, vars, parseVars, gpxVars>>
  \/ part = "backfills" /\ Next /\ UNCHANGED <<part, deletionVars, parseVars, gpxVars>>
  \/ part = "parses" /\ ParseNext /\ UNCHANGED <<part, deletionVars, vars, gpxVars>>
  \/ part = "gpx" /\ GpxNext /\ UNCHANGED <<part, deletionVars, vars, parseVars>>

BackgroundVars == <<part, deletionVars, vars, parseVars, gpxVars>>

BackgroundFairness ==
  /\ WF_deletionVars(part = "deletion" /\ JobStart)
  /\ WF_deletionVars(part = "deletion" /\ JobStep)
  /\ \A r \in Request : WF_deletionVars(part = "deletion" /\ Step(r))
  /\ \A s \in Script : WF_vars(part = "backfills" /\ Backfill(s))
  /\ \A p \in Parses :
       /\ WF_parseVars(part = "parses" /\ WorkerExits(p))
       /\ WF_parseVars(part = "parses" /\ Finally(p))

BackgroundSpec == BackgroundInit /\ [][BackgroundNext]_BackgroundVars /\ BackgroundFairness

===============================================================================
