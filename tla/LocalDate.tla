------------------------------ MODULE LocalDate ------------------------------
(* Moving a ride to another date (lib/tours.js): the rider picks a local      *)
(* date, the tour keeps the local time of day it was recorded at, and what is *)
(* stored is an instant.  A zone changes its offset once; edits follow each   *)
(* other.  The date shown is the one the editor reads (toDateInputValue).     *)
EXTENDS Integers, Sequences, FiniteSets

CONSTANTS
  Zones,       \* [change |-> instant, before |-> offset, after |-> offset]
  DayLength,   \* hours of a day
  Days         \* bound: the dates a rider picks

ASSUME LocalDateAssumption ==
  /\ DayLength \in Nat \ {0} /\ Days \in Nat
  /\ Zones \subseteq [change : Int, before : Int, after : Int]

VARIABLES
  zone,        \* of the rider
  createdAt,   \* the stored instant
  askedDate,       \* the local date and time of the last edit, as one number of hours
  edits

dateVars == <<zone, createdAt, askedDate, edits>>

offsetAt(instant) == IF instant < zone.change THEN zone.before ELSE zone.after
(* The calendar date and time of day an instant shows.                       *)
wallClock(instant) == instant + offsetAt(instant)
toDateInputValue(instant) == wallClock(instant) \div DayLength

withUpdatedDate(target) ==
  LET guess == target - offsetAt(target)
      settled == target - offsetAt(guess)
      inGap == offsetAt(settled) # offsetAt(guess) IN
  IF inGap THEN guess ELSE settled

DateInit ==
  /\ zone \in Zones /\ createdAt \in 0..(DayLength * Days)
  /\ askedDate = wallClock(createdAt) /\ edits = 0

(* buildTourPatch: an edit that leaves the date writes it again.             *)
EditDate(day) ==
  /\ edits < 2 /\ edits' = edits + 1
  /\ askedDate' = day * DayLength + (wallClock(createdAt) % DayLength)
  /\ createdAt' = withUpdatedDate(askedDate') /\ UNCHANGED zone

DateNext == \E day \in 0..Days : EditDate(day)

DateSpec == DateInit /\ [][DateNext]_dateVars

-----------------------------------------------------------------------------

Shown(local) == \E offset \in {zone.before, zone.after} : wallClock(local - offset) = local

(* A local time that exists is the one that is shown, on whatever side of a  *)
(* change of the clock the ride, the date and UTC lie; one that the clock    *)
(* skips is off by what was skipped: forward behind UTC, as "the guess moves *)
(* it forward" has it, but back ahead of UTC, where the guess already has    *)
(* the later offset (tours.js, withUpdatedDate).                             *)
LocalTimeKept ==
  edits > 0 =>
    IF Shown(askedDate) THEN wallClock(createdAt) = askedDate
    ELSE LET off == wallClock(createdAt) - askedDate
             skipped == zone.after - zone.before IN
         /\ off \in {skipped, -skipped}
         /\ zone.after <= 0 => off = skipped
         /\ zone.before >= 0 => off = -skipped

(* An edit that leaves the date as the editor shows it leaves the time shown *)
(* (tours.js, toDateInputValue).                                             *)
SameDateSameTime ==
  [][askedDate' \div DayLength = toDateInputValue(createdAt) =>
       wallClock(createdAt') = wallClock(createdAt)]_dateVars

=============================================================================
