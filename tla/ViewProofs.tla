----------------------------- MODULE ViewProofs -----------------------------
(***************************************************************************)
(* TLAPS proofs about the screen, for any number of touches, tours and     *)
(* renders: what a touch does (Gestures), what the map shows (MapView), and *)
(* what time a ride keeps on another date (LocalDate).                     *)
(***************************************************************************)
EXTENDS Gestures, MapView, LocalDate, FiniteSetTheorems, SequenceTheorems, TLAPS

-----------------------------------------------------------------------------
(* Gestures. *)

GesturesSpec == GesturesInit /\ [][GesturesNext]_gesturesVars

Press == [start : BOOLEAN, ready : BOOLEAN]
Swipe == {"none", "started", "dragging"}
Deeds == {"select", "delete", "step"}

\* GesturesTypeOK, one fact per variable.
TouchTyped ==
  /\ touch \in 0..Touches /\ surface \in Surfaces /\ moved \in Places
  /\ press \in Press /\ down \in BOOLEAN /\ selecting \in BOOLEAN
  /\ swipe \in [Surfaces -> Swipe] /\ ghost \in 0..Touches
  /\ disarmTimers \in [Surfaces -> SUBSET (1..Touches)] /\ armed \in [Surfaces -> 0..Touches]
  /\ acted \in [1..Touches -> SUBSET Deeds] /\ swallowed \in SUBSET ((1..Touches) \X (1..Touches))

\* No row swipes in select mode or by itself, nothing is pressed on the photo or after a move past
\* the tolerance.
OneAtATime ==
  /\ selecting \/ ~down \/ surface = "photo" => swipe["row"] = "none"
  /\ surface = "photo" \/ moved \notin {0, Near} => press.start = FALSE /\ press.ready = FALSE

\* The click still to come is of the last touch, and the guard of what it did is armed for it alone.
GhostKnown ==
  /\ down => touch # 0 /\ touch \notin tapped /\ ghost = 0
  /\ ghost # 0 => ghost = touch
  /\ tapped \subseteq 1..touch
  /\ ghost # 0 /\ acted[ghost] # {} => armed[surface] = ghost /\ disarmTimers[surface] = {ghost}

\* A guard is armed for a touch that did something, of which no click has been swallowed yet.
GuardKnown ==
  /\ \A s \in Surfaces : armed[s] # 0 =>
       /\ armed[s] \in disarmTimers[s] /\ armed[s] <= touch /\ acted[armed[s]] # {}
       /\ \A pair \in swallowed : pair[2] # armed[s]
  /\ \A s, z \in Surfaces : armed[s] = armed[z] /\ armed[s] # 0 => s = z
  /\ \A n \in 1..Touches : n > touch \/ (down /\ n = touch) => acted[n] = {}

\* What was swallowed, and for whom.
SwallowedOnce ==
  /\ \A pair \in swallowed : acted[pair[2]] # {} /\ pair[2] <= pair[1]
  /\ \A one, other \in swallowed : one[2] = other[2] => one = other

GesturesInv ==
  TouchTyped /\ OneAtATime /\ GhostKnown /\ GuardKnown /\ SwallowedOnce /\ GhostSwallowed /\ OneGesture

\* A pointer that comes down keeps the invariant.
LEMMA DownKeeps ==
  ASSUME GesturesInv, NEW s \in Surfaces, NEW finger \in BOOLEAN, NEW at \in Places,
         PointerDown(s, finger, at)
  PROVE  GesturesInv'
<1> USE DEF GesturesInv
<1>1. /\ ~down /\ down' = TRUE /\ ghost = 0 /\ touch < Touches /\ touch' = touch + 1
      /\ surface' = s /\ moved' = at
      /\ UNCHANGED <<selecting, ghost, acted, tapped, armed, disarmTimers, swallowed>>
  BY DEF PointerDown, guardVars
<1>2. /\ press' \in Press /\ swipe' \in [Surfaces -> Swipe]
      /\ s = "photo" => press' = NoPress
      /\ s # "photo" => moved' = 0
      /\ selecting \/ s = "photo" => swipe'["row"] = "none"
  <2>1. swipe \in [Surfaces -> Swipe] /\ swipe["row"] = "none"
    BY <1>1 DEF TouchTyped, OneAtATime
  <2>2. swipe' \in [Surfaces -> Swipe]
    BY <2>1 DEF PointerDown, Swipe
  <2>3. selecting \/ s = "photo" => swipe'["row"] = "none"
    BY <2>1 DEF PointerDown, Swipes, Surfaces
  <2>4. press' \in Press /\ (s = "photo" => press' = NoPress) /\ (s # "photo" => moved' = 0)
    BY DEF PointerDown, NoPress, Press, Surfaces
  <2> QED BY <2>2, <2>3, <2>4
<1>3. TouchTyped'
  <2>1. touch' \in 0..Touches /\ moved' \in Places
    BY <1>1, GesturesAssumption DEF TouchTyped
  <2>2. down' \in BOOLEAN
    BY <1>1
  <2> QED BY <1>1, <1>2, <2>1, <2>2 DEF TouchTyped
<1>4. OneAtATime'
  BY <1>1, <1>2 DEF OneAtATime, NoPress, Near
<1>5. GhostKnown'
  BY <1>1, GesturesAssumption DEF GhostKnown, TouchTyped
<1>6. GuardKnown'
  <2>1. \A t \in Surfaces : armed[t] \in 0..Touches
    BY DEF TouchTyped
  <2> QED BY <1>1, <2>1, GesturesAssumption DEF GuardKnown, TouchTyped
<1>7. SwallowedOnce' /\ GhostSwallowed' /\ OneGesture'
  BY <1>1 DEF SwallowedOnce, GhostSwallowed, OneGesture
<1> QED BY <1>3, <1>4, <1>5, <1>6, <1>7

\* While no touch ends otherwise: a press is held, the pointer moves or hovers, or the browser takes
\* the touch.
LEMMA HoldKeeps ==
  ASSUME GesturesInv,
         \/ PressHeld \/ PointerCancel \/ \E vertical \in BOOLEAN : Hover(vertical)
         \/ \E to \in Places, vertical, away \in BOOLEAN : PointerMove(to, vertical, away)
  PROVE  GesturesInv'
<1> USE DEF GesturesInv
<1>1. /\ UNCHANGED <<touch, surface, selecting, acted, tapped, ghost, armed, disarmTimers, swallowed>>
      /\ down' \in {FALSE, down} /\ (down' = TRUE => down = TRUE)
  BY DEF PressHeld, PointerCancel, PointerMove, Hover, TouchTyped, guardVars
<1>2. /\ press' \in Press /\ swipe' \in [Surfaces -> Swipe] /\ moved' \in Places /\ OneAtATime'
  <2>1. /\ press \in Press /\ swipe \in [Surfaces -> Swipe] /\ moved \in Places /\ NoPress \in Press
        /\ surface \in Surfaces /\ down \in BOOLEAN /\ selecting \in BOOLEAN
    BY DEF TouchTyped, NoPress, Press
  <2>2. CASE PressHeld
    <3>1. press' \in Press /\ press.start = TRUE
      BY <2>1, <2>2 DEF PressHeld, Press
    <3> QED BY <1>1, <2>1, <2>2, <3>1 DEF PressHeld, OneAtATime
  <2>3. CASE PointerCancel
    <3>1. /\ press' = NoPress /\ swipe' = [swipe EXCEPT !["row"] = "none"] /\ moved' = moved
      BY <2>3 DEF PointerCancel
    <3>2. swipe' \in [Surfaces -> Swipe] /\ swipe'["row"] = "none"
      BY <2>1, <3>1 DEF Surfaces, Swipe
    <3> QED BY <1>1, <2>1, <3>1, <3>2 DEF OneAtATime, NoPress
  <2>4. ASSUME NEW drag \in Swipe, NEW vertical \in BOOLEAN
        PROVE  Dragged(vertical, drag) \in Swipe /\ (drag = "none" => Dragged(vertical, drag) = "none")
    BY <2>4 DEF Dragged, Swipe
  <2>5. ASSUME NEW vertical \in BOOLEAN, Hover(vertical)
        PROVE  press' \in Press /\ swipe' \in [Surfaces -> Swipe] /\ moved' \in Places /\ OneAtATime'
    <3>1. /\ swipe' = [swipe EXCEPT !["photo"] = Dragged(vertical, @)] /\ press' = press /\ moved' = moved
          /\ down' = down
      BY <2>5 DEF Hover
    <3>2. swipe' \in [Surfaces -> Swipe] /\ swipe'["row"] = swipe["row"]
      BY <2>1, <2>4, <3>1 DEF Surfaces
    <3> QED BY <1>1, <2>1, <3>1, <3>2 DEF OneAtATime
  <2>6. ASSUME NEW to \in Places, NEW vertical \in BOOLEAN, NEW away \in BOOLEAN,
               PointerMove(to, vertical, away)
        PROVE  press' \in Press /\ swipe' \in [Surfaces -> Swipe] /\ moved' \in Places /\ OneAtATime'
    <3>1. /\ swipe' = [swipe EXCEPT ![surface] = Dragged(vertical, @)]
          /\ press' = PressAfter(away) /\ moved' = to /\ down' = down /\ down
          /\ (to \notin {0, Near} => away)
      BY <2>6 DEF PointerMove
    <3>2. swipe' \in [Surfaces -> Swipe] /\ (swipe["row"] = "none" => swipe'["row"] = "none")
      BY <2>1, <2>4, <3>1 DEF Surfaces
    <3>3. press' \in Press
      BY <2>1, <3>1 DEF PressAfter
    <3>4. surface = "photo" \/ to \notin {0, Near} => press'.start = FALSE /\ press'.ready = FALSE
      BY <3>1 DEF PressAfter, OneAtATime, NoPress
    <3>5. selecting \/ ~down \/ surface = "photo" => swipe'["row"] = "none"
      BY <3>2 DEF OneAtATime
    <3> QED BY <1>1, <2>1, <3>1, <3>2, <3>3, <3>4, <3>5 DEF OneAtATime
  <2> QED BY <2>2, <2>3, <2>5, <2>6
<1>3. TouchTyped'
  <2>1. down' \in BOOLEAN
    BY <1>1 DEF TouchTyped
  <2> QED BY <1>1, <1>2, <2>1 DEF TouchTyped
<1>4. GhostKnown'
  BY <1>1 DEF GhostKnown
<1>5. GuardKnown'
  BY <1>1 DEF GuardKnown
<1>6. SwallowedOnce' /\ GhostSwallowed' /\ OneGesture'
  BY <1>1 DEF SwallowedOnce, GhostSwallowed, OneGesture
<1> QED BY <1>2, <1>3, <1>4, <1>5, <1>6

\* The release: a swipe of a row is past where its press still counts, so one thing is done.
LEMMA UpKeeps == ASSUME GesturesInv, PointerUp PROVE GesturesInv'
<1> USE DEF GesturesInv
<1> DEFINE did == (IF press.ready /\ ~selecting THEN {"select"} ELSE {}) \cup
                  (IF Swiped THEN {IF surface = "row" THEN "delete" ELSE "step"} ELSE {})
<1>1. /\ down /\ down' = FALSE /\ press' = NoPress /\ swipe' = [swipe EXCEPT ![surface] = "none"]
      /\ ghost' = touch
      /\ acted' = [acted EXCEPT ![touch] = did]
      /\ selecting' = (selecting \/ "select" \in did)
      /\ IF did = {} THEN UNCHANGED <<armed, disarmTimers>>
         ELSE armed' = [armed EXCEPT ![surface] = touch] /\ disarmTimers' = ArmAlone(surface)
      /\ UNCHANGED <<touch, surface, moved, tapped, swallowed>>
  BY DEF PointerUp
<1>2. did \in SUBSET Deeds /\ \E deed \in Deeds : did \subseteq {deed}
  <2>1. press.ready = TRUE => ~Swiped
    BY DEF Swiped, OneAtATime, TouchTyped, Surfaces, Near, Far, Places
  <2>2. did = {} \/ did = {"select"} \/ did = {"delete"} \/ did = {"step"}
    BY <2>1 DEF TouchTyped, Press
  <2> QED BY <2>2 DEF Deeds
<1> HIDE DEF did
<1>3. touch \in 1..Touches /\ surface \in Surfaces
  BY <1>1 DEF GhostKnown, TouchTyped
<1>4. /\ acted' \in [1..Touches -> SUBSET Deeds] /\ acted'[touch] = did /\ acted[touch] = {}
      /\ \A n \in 1..Touches : n # touch => acted'[n] = acted[n]
      /\ \A n \in 1..Touches : n > touch => acted[n] = {}
  BY <1>1, <1>2, <1>3 DEF TouchTyped, GuardKnown
<1>5. /\ armed' \in [Surfaces -> 0..Touches]
      /\ disarmTimers' \in [Surfaces -> SUBSET (1..Touches)]
      /\ IF did = {} THEN armed' = armed /\ disarmTimers' = disarmTimers
         ELSE /\ armed'[surface] = touch /\ disarmTimers'[surface] = {touch}
              /\ \A s \in Surfaces : s # surface => armed'[s] = armed[s] /\ disarmTimers'[s] = disarmTimers[s]
  <2>1. CASE did = {}
    BY <1>1, <2>1 DEF TouchTyped
  <2>2. CASE did # {}
    <3>1. armed' = [armed EXCEPT ![surface] = touch]
          /\ disarmTimers' = [disarmTimers EXCEPT ![surface] = {touch}]
      BY <1>1, <2>2 DEF ArmAlone
    <3>2. /\ armed \in [Surfaces -> 0..Touches]
          /\ disarmTimers \in [Surfaces -> SUBSET (1..Touches)] /\ {touch} \in SUBSET (1..Touches)
      BY <1>3 DEF TouchTyped
    <3>3. armed' \in [Surfaces -> 0..Touches] /\ disarmTimers' \in [Surfaces -> SUBSET (1..Touches)]
      BY <1>3, <3>1, <3>2
    <3>4. armed'[surface] = touch /\ disarmTimers'[surface] = {touch}
      BY <1>3, <3>1, <3>2
    <3>5. ASSUME NEW s \in Surfaces, s # surface
          PROVE  armed'[s] = armed[s] /\ disarmTimers'[s] = disarmTimers[s]
      BY <1>3, <3>1, <3>2, <3>5
    <3> QED BY <2>2, <3>3, <3>4, <3>5
  <2> QED BY <2>1, <2>2
<1>6. TouchTyped'
  <2>1. down' \in BOOLEAN /\ selecting' \in BOOLEAN
    BY <1>1 DEF TouchTyped
  <2>2. press' \in Press /\ swipe' \in [Surfaces -> Swipe]
    BY <1>1 DEF NoPress, Press, Swipe, TouchTyped
  <2> QED BY <1>1, <1>4, <1>5, <2>1, <2>2 DEF TouchTyped
<1>7. OneAtATime'
  <2>1. swipe'["row"] = "none"
    <3>1. CASE surface = "row"
      BY <1>1, <1>3, <3>1 DEF TouchTyped, Surfaces
    <3>2. CASE surface = "photo"
      <4>1. swipe["row"] = "none" /\ swipe'["row"] = swipe["row"]
        BY <1>1, <3>2 DEF OneAtATime, TouchTyped, Surfaces
      <4> QED BY <4>1
    <3> QED BY <1>3, <3>1, <3>2 DEF Surfaces
  <2> QED BY <1>1, <2>1 DEF OneAtATime, NoPress
<1>8. GhostKnown'
  BY <1>1, <1>3, <1>4, <1>5 DEF GhostKnown, TouchTyped
<1>9. GuardKnown'
  <2>1. ASSUME NEW s \in Surfaces, armed'[s] # 0
        PROVE  /\ armed'[s] \in disarmTimers'[s] /\ armed'[s] <= touch /\ acted'[armed'[s]] # {}
               /\ \A pair \in swallowed : pair[2] # armed'[s]
    <3>1. CASE did # {} /\ s = surface
      <4>1. \A pair \in swallowed : pair[2] # touch
        BY <1>4 DEF SwallowedOnce
      <4> QED BY <1>3, <1>4, <1>5, <3>1, <4>1
    <3>2. CASE did = {} \/ s # surface
      <4>1. armed'[s] = armed[s] /\ disarmTimers'[s] = disarmTimers[s]
        BY <1>5, <3>2
      <4>2. armed[s] # 0 /\ armed[s] \in 0..Touches
        BY <2>1, <4>1 DEF TouchTyped
      <4>3. /\ armed[s] \in disarmTimers[s] /\ armed[s] <= touch /\ acted[armed[s]] # {}
            /\ \A pair \in swallowed : pair[2] # armed[s]
        BY <4>2 DEF GuardKnown
      <4>4. armed[s] \in 1..Touches /\ armed[s] # touch
        BY <1>4, <4>2, <4>3, GesturesAssumption
      <4> QED BY <1>4, <4>1, <4>3, <4>4
    <3> QED BY <3>1, <3>2
  <2>2. \A s, z \in Surfaces : armed'[s] = armed'[z] /\ armed'[s] # 0 => s = z
    <3>1. \A s \in Surfaces : armed[s] # touch
      BY <1>3, <1>4 DEF GuardKnown
    <3> QED BY <1>5, <3>1 DEF GuardKnown
  <2>3. \A n \in 1..Touches : n > touch => acted'[n] = {}
    BY <1>3, <1>4
  <2> QED BY <1>1, <2>1, <2>2, <2>3 DEF GuardKnown
<1>10. SwallowedOnce'
  <2>1. ASSUME NEW pair \in swallowed PROVE acted'[pair[2]] # {} /\ pair[2] <= pair[1]
    <3>1. pair[2] \in 1..Touches /\ acted[pair[2]] # {} /\ pair[2] <= pair[1]
      BY DEF TouchTyped, SwallowedOnce
    <3> QED BY <1>4, <3>1
  <2> QED BY <1>1, <2>1 DEF SwallowedOnce
<1>11. GhostSwallowed'
  <2>1. touch \notin tapped /\ tapped \subseteq 1..touch /\ tapped' = tapped
    BY <1>1 DEF GhostKnown
  <2>2. ASSUME NEW n \in tapped PROVE acted'[n] = acted[n]
    <3>1. n \in 1..Touches /\ n # touch
      BY <1>3, <2>1, <2>2, GesturesAssumption DEF TouchTyped
    <3> QED BY <1>4, <3>1
  <2> QED BY <2>1, <2>2 DEF GhostSwallowed
<1>12. OneGesture'
  <2>1. Cardinality(did) <= 1
    <3>1. PICK deed \in Deeds : did \subseteq {deed}
      BY <1>2
    <3>2. did = {} \/ did = {deed}
      BY <3>1
    <3> QED BY <3>2, FS_EmptySet, FS_Singleton
  <2> QED BY <1>4, <2>1 DEF OneGesture
<1> QED BY <1>6, <1>7, <1>8, <1>9, <1>10, <1>11, <1>12

\* A touch's click, taken by a guard or not.
LEMMA ClickKeeps == ASSUME GesturesInv, Click PROVE GesturesInv'
<1> USE DEF GesturesInv
<1>1. /\ UNCHANGED <<touch, surface, down, press, swipe, moved, selecting, acted>>
      /\ ghost # 0 /\ ghost' = 0
  BY DEF Click
<1>2. ghost = touch /\ touch \in 1..Touches /\ surface \in Surfaces /\ down = FALSE
  BY <1>1 DEF GhostKnown, TouchTyped
<1>3. OneAtATime' /\ OneGesture'
  BY <1>1 DEF OneAtATime, OneGesture
<1>4. CASE armed[surface] # 0
  <2>1. PICK n : n = armed[surface]
    OBVIOUS
  <2>2. /\ armed' = [armed EXCEPT ![surface] = 0]
        /\ disarmTimers' = [disarmTimers EXCEPT ![surface] = {}]
        /\ swallowed' = swallowed \cup {<<touch, n>>} /\ tapped' = tapped
    BY <1>2, <1>4, <2>1 DEF Click
  <2>3. /\ n \in 1..Touches /\ n <= touch /\ acted[n] # {}
        /\ \A pair \in swallowed : pair[2] # n
        /\ \A s \in Surfaces : s # surface => armed[s] # n
    <3>1. n \in 1..Touches
      BY <1>2, <1>4, <2>1, GesturesAssumption DEF TouchTyped
    <3> QED BY <1>2, <1>4, <2>1, <3>1 DEF GuardKnown
  <2>4. /\ armed' \in [Surfaces -> 0..Touches] /\ disarmTimers' \in [Surfaces -> SUBSET (1..Touches)]
        /\ swallowed' \in SUBSET ((1..Touches) \X (1..Touches))
    BY <1>2, <2>2, <2>3, GesturesAssumption DEF TouchTyped
  <2>5. TouchTyped'
    BY <1>1, <2>4, GesturesAssumption DEF TouchTyped
  <2>6. GhostKnown' /\ GhostSwallowed'
    BY <1>1, <1>2, <2>2 DEF GhostKnown, GhostSwallowed
  <2>7. GuardKnown'
    <3>1. \A s \in Surfaces : IF s = surface THEN armed'[s] = 0
                               ELSE armed'[s] = armed[s] /\ disarmTimers'[s] = disarmTimers[s]
      BY <1>2, <2>2 DEF TouchTyped
    <3>2. ASSUME NEW s \in Surfaces, armed'[s] # 0
          PROVE  /\ armed'[s] \in disarmTimers'[s] /\ armed'[s] <= touch /\ acted[armed'[s]] # {}
                 /\ \A pair \in swallowed' : pair[2] # armed'[s]
      <4>1. s # surface /\ armed'[s] = armed[s] /\ disarmTimers'[s] = disarmTimers[s] /\ armed[s] # 0
        BY <3>1, <3>2
      <4> QED BY <2>2, <2>3, <4>1 DEF GuardKnown
    <3>3. \A s, z \in Surfaces : armed'[s] = armed'[z] /\ armed'[s] # 0 => s = z
      BY <3>1 DEF GuardKnown
    <3> QED BY <1>1, <3>2, <3>3 DEF GuardKnown
  <2>8. SwallowedOnce'
    <3>1. \A pair \in swallowed' : pair \in swallowed \/ pair = <<touch, n>>
      BY <2>2
    <3> QED BY <1>1, <2>3, <3>1 DEF SwallowedOnce
  <2> QED BY <1>3, <2>5, <2>6, <2>7, <2>8
<1>5. CASE armed[surface] = 0
  <2>1. tapped' = tapped \cup {touch} /\ UNCHANGED <<armed, disarmTimers, swallowed>>
    BY <1>2, <1>5 DEF Click, guardVars
  <2>2. acted[touch] = {}
    BY <1>1, <1>2, <1>5 DEF GhostKnown
  <2>3. TouchTyped'
    BY <1>1, <2>1, GesturesAssumption DEF TouchTyped
  <2>4. GhostKnown' /\ GhostSwallowed'
    BY <1>1, <1>2, <2>1, <2>2 DEF GhostKnown, GhostSwallowed, TouchTyped
  <2>5. GuardKnown' /\ SwallowedOnce'
    BY <1>1, <2>1 DEF GuardKnown, SwallowedOnce
  <2> QED BY <1>3, <2>3, <2>4, <2>5
<1> QED BY <1>4, <1>5

\* A guard's timer runs out.
LEMMA DisarmKeeps ==
  ASSUME GesturesInv, NEW s \in Surfaces, NEW n \in 1..Touches, Disarm(s, n)
  PROVE  GesturesInv'
<1> USE DEF GesturesInv
<1>1. /\ n \in disarmTimers[s] /\ n # ghost
      /\ armed' = [armed EXCEPT ![s] = 0] /\ disarmTimers' = [disarmTimers EXCEPT ![s] = @ \ {n}]
      /\ UNCHANGED <<touch, surface, down, press, swipe, moved, selecting, ghost, acted, tapped, swallowed>>
  BY DEF Disarm
<1>2. /\ armed' \in [Surfaces -> 0..Touches] /\ disarmTimers' \in [Surfaces -> SUBSET (1..Touches)]
      /\ armed'[s] = 0
      /\ \A z \in Surfaces : z # s => armed'[z] = armed[z] /\ disarmTimers'[z] = disarmTimers[z]
  BY <1>1, GesturesAssumption DEF TouchTyped
<1>3. TouchTyped'
  BY <1>1, <1>2 DEF TouchTyped
<1>4. OneAtATime' /\ OneGesture' /\ GhostSwallowed' /\ SwallowedOnce'
  BY <1>1 DEF OneAtATime, OneGesture, GhostSwallowed, SwallowedOnce
<1>5. GhostKnown'
  <2>1. ASSUME ghost # 0, acted[ghost] # {} PROVE armed'[surface] = ghost /\ disarmTimers'[surface] = {ghost}
    <3>1. armed[surface] = ghost /\ disarmTimers[surface] = {ghost} /\ surface \in Surfaces
      BY <2>1 DEF GhostKnown, TouchTyped
    <3>2. s # surface
      BY <1>1, <3>1
    <3> QED BY <1>2, <3>1, <3>2
  <2> QED BY <1>1, <2>1 DEF GhostKnown
<1>6. GuardKnown'
  <2>1. ASSUME NEW z \in Surfaces, armed'[z] # 0
        PROVE  z # s /\ armed'[z] = armed[z] /\ disarmTimers'[z] = disarmTimers[z]
    BY <1>2, <2>1
  <2> QED BY <1>1, <2>1 DEF GuardKnown
<1> QED BY <1>3, <1>4, <1>5, <1>6

\* No click comes, or select mode is left.
LEMMA RestKeeps == ASSUME GesturesInv, NoClick \/ LeaveSelectMode PROVE GesturesInv'
<1> USE DEF GesturesInv
<1>1. /\ UNCHANGED <<touch, surface, down, press, swipe, moved, acted, tapped, armed, disarmTimers, swallowed>>
      /\ selecting' \in {FALSE, selecting} /\ (selecting' => selecting) /\ ghost' \in {0, ghost}
  <2>1. CASE NoClick
    BY <2>1 DEF NoClick, guardVars
  <2>2. CASE LeaveSelectMode
    BY <2>2 DEF LeaveSelectMode, guardVars
  <2> QED BY <2>1, <2>2
<1>2. TouchTyped'
  <2>1. selecting' \in BOOLEAN
    BY <1>1 DEF TouchTyped
  <2>2. ghost' \in 0..Touches
    BY <1>1, GesturesAssumption DEF TouchTyped
  <2> QED BY <1>1, <2>1, <2>2 DEF TouchTyped
<1>3. OneAtATime' /\ OneGesture' /\ GhostSwallowed' /\ SwallowedOnce' /\ GuardKnown'
  BY <1>1 DEF OneAtATime, OneGesture, GhostSwallowed, SwallowedOnce, GuardKnown
<1>4. GhostKnown'
  BY <1>1 DEF GhostKnown
<1> QED BY <1>2, <1>3, <1>4

\* A touch does one thing: it selects a tour, deletes it or steps to the next photo, and a touch
\* that did one leaves no tap behind, on the row or the photo that has moved under it; a guard
\* takes one click for it at most, its own or a later one (tourGestures.js, lightbox.js,
\* clickGuard.js).
THEOREM OneThingPerTouch == GesturesSpec => []TouchesSound
<1>1. GesturesInit => GesturesInv
  <2> SUFFICES ASSUME GesturesInit PROVE GesturesInv
    OBVIOUS
  <2> USE DEF GesturesInit
  <2>1. TouchTyped
    <3>1. /\ acted \in [1..Touches -> SUBSET Deeds] /\ armed \in [Surfaces -> 0..Touches]
          /\ disarmTimers \in [Surfaces -> SUBSET (1..Touches)] /\ swipe \in [Surfaces -> Swipe]
      BY GesturesAssumption DEF Swipe
    <3>2. touch \in 0..Touches /\ ghost \in 0..Touches
      BY GesturesAssumption
    <3> QED BY <3>1, <3>2 DEF TouchTyped, Surfaces, Press, Places, NoPress
  <2>2. OneAtATime /\ GhostKnown
    BY DEF OneAtATime, GhostKnown, NoPress, Surfaces
  <2>3. GuardKnown /\ GhostSwallowed /\ SwallowedOnce
    BY DEF GuardKnown, GhostSwallowed, SwallowedOnce
  <2>4. OneGesture
    BY FS_EmptySet DEF OneGesture
  <2> QED BY <2>1, <2>2, <2>3, <2>4 DEF GesturesInv
<1>2. GesturesInv /\ [GesturesNext]_gesturesVars => GesturesInv'
  <2> SUFFICES ASSUME GesturesInv, [GesturesNext]_gesturesVars PROVE GesturesInv'
    OBVIOUS
  <2>1. CASE UNCHANGED gesturesVars
    BY <2>1 DEF gesturesVars, guardVars, GesturesInv, TouchTyped, OneAtATime, GhostKnown, GuardKnown,
                SwallowedOnce, GhostSwallowed, OneGesture
  <2>2. CASE GesturesNext
    BY <2>2, DownKeeps, HoldKeeps, UpKeeps, ClickKeeps, DisarmKeeps, RestKeeps DEF GesturesNext
  <2> QED BY <2>1, <2>2
<1>3. GesturesInv => TouchesSound
  <2> SUFFICES ASSUME GesturesInv PROVE TouchesSound
    OBVIOUS
  <2>1. tapped \subseteq 1..Touches
    BY GesturesAssumption DEF GesturesInv, GhostKnown, TouchTyped
  <2>2. GesturesTypeOK
    BY <2>1 DEF GesturesInv, GesturesTypeOK, TouchTyped, OneAtATime, Press, Swipe, Deeds
  <2>3. GuardTakesOne
    BY DEF GesturesInv, GuardTakesOne, GuardKnown, SwallowedOnce
  <2> QED BY <2>2, <2>3 DEF GesturesInv, TouchesSound
<1> QED BY <1>1, <1>2, <1>3, PTL DEF GesturesSpec

-----------------------------------------------------------------------------
(* MapView. *)

MapViewSpec == MapViewInit /\ [][MapViewNext]_mapViewVars

Lines == MapTours \X (1..Fetches)
Render == [kind : {"all", "in-place", "checked", "all-or-checked"}, of : SUBSET MapTours]
Asked == [what : {"nothing", "all", "checked", "tour"}, of : SUBSET MapTours]
\* The point sets the map has of some tours.
SetsOf(tours) == {<<t, generation>> : t \in tours \cap points}

\* MapViewTypeOK without what is drawn; a render of checked tours was asked for some.
MapTyped ==
  /\ riderIn \in BOOLEAN /\ panelLayer \in BOOLEAN /\ overtaken \in BOOLEAN
  /\ listed \in {{}, MapTours} /\ points \subseteq listed
  /\ generation \in 1..Fetches /\ fetching \in 0..Fetches /\ generation + fetching <= Fetches
  /\ checkedTours \subseteq MapTours
  /\ opened \subseteq MapTours /\ \A s, t \in opened : s = t
  /\ renders \in Seq(Render) /\ \A i \in 1..Len(renders) : renders[i].kind = "checked" => renders[i].of # {}
  /\ focusing \subseteq Lines /\ raced \in BOOLEAN /\ askedMap \in Asked

\* What is drawn is of the rider's tours, and is what is on the map.
Drawn == drawnLines \subseteq Lines /\ pinMarkers \subseteq MapTours /\ KeptIsDrawn

\* Nothing is left, or comes, of a session that no list load has overtaken.
NothingLeft ==
  ~riderIn /\ ~overtaken =>
    listed = {} /\ fetching = 0 /\ opened = {} /\ drawnLines = {} /\ pinMarkers = {}

\* A move that waits is the last one asked for; nothing waits when no zoom is animated.
CameraKnows ==
  /\ camera \subseteq Lines /\ wish \subseteq Lines /\ zooming \in BOOLEAN
  /\ waitingMove \in {{}, {wish}} /\ (waitingMove = {} => camera = wish)
  /\ zooming = FALSE => waitingMove = {}

\* What was asked for last is still what is open, or checked.
AskedStands ==
  /\ askedMap.what = "tour" => askedMap.of = opened /\ opened \subseteq listed
  /\ askedMap.what = "checked" => askedMap.of = checkedTours /\ checkedTours # {} /\ listed = MapTours

\* A tour that was opened beside no render, and no earlier opening of it before a fetch, is shown
\* from its answer on.
TourShown ==
  askedMap.what = "tour" /\ raced = FALSE =>
    /\ renders = <<>>
    /\ \A t \in opened, g \in 1..Fetches : <<t, g>> \in focusing => g = generation
    /\ (\A t \in opened : <<t, generation>> \notin focusing) => drawnLines = SetsOf(opened)

\* Renders asked for beside no opening: the last in line draws what was asked for, or the checked
\* tours for all of them; what it drew stays.
Draws(render) ==
  \/ render.kind = "checked" /\ render.of = checkedTours /\ checkedTours # {}
  \/ askedMap.what = "all" /\ render.kind # "checked"
ShowsAsked ==
  \/ checkedTours # {} /\ drawnLines = SetsOf(checkedTours \cap listed)
  \/ askedMap.what = "all" /\ drawnLines = SetsOf(listed)
RendersShown ==
  askedMap.what \in {"all", "checked"} /\ raced = FALSE =>
    /\ focusing = {}
    /\ renders = <<>> => ShowsAsked
    /\ renders # <<>> => Draws(renders[Len(renders)])

MapInv ==
  MapTyped /\ Drawn /\ NothingLeft /\ CameraKnows /\ AskedStands /\ TourShown /\ RendersShown

\* What is put in line is the last of it, the others stay.
LEMMA Lined ==
  ASSUME renders \in Seq(Render), NEW some \in Seq(Render), some # <<>>, InLine(some)
  PROVE  /\ renders' \in Seq(Render) /\ renders' # <<>>
         /\ renders'[Len(renders')] = some[Len(some)] /\ Len(some) \in 1..Len(some)
         /\ \A i \in 1..Len(renders') : \/ i \in 1..Len(renders) /\ renders'[i] = renders[i]
                                        \/ \E k \in 1..Len(some) : renders'[i] = some[k]
<1>1. PICK m \in Nat : m = Len(renders)
  BY LenProperties
<1>2. PICK n \in Nat \ {0} : n = Len(some)
  BY LenProperties, EmptySeq
<1>3. /\ renders' \in Seq(Render) /\ Len(renders') = m + n
      /\ \A i \in 1..m + n : renders'[i] = IF i <= m THEN renders[i] ELSE some[i - m]
  BY <1>1, <1>2, ConcatProperties DEF InLine
<1>4. renders' # <<>>
  BY <1>2, <1>3
<1>5. renders'[m + n] = some[n]
  BY <1>2, <1>3
<1>6. ASSUME NEW i \in 1..m + n
      PROVE  (i \in 1..m /\ renders'[i] = renders[i]) \/ \E k \in 1..n : renders'[i] = some[k]
  <2>1. CASE i <= m
    BY <1>3, <2>1
  <2>2. CASE i > m
    <3>1. i - m \in 1..n /\ renders'[i] = some[i - m]
      BY <1>2, <1>3, <2>2
    <3> QED BY <3>1
  <2> QED BY <2>1, <2>2
<1> QED BY <1>1, <1>2, <1>3, <1>4, <1>5, <1>6

\* One render, or two, put in line.
LEMMA OneLined ==
  ASSUME NEW kind \in {"all", "in-place", "checked", "all-or-checked"}, NEW of \in SUBSET MapTours
  PROVE  /\ <<Asking(kind, of)>> \in Seq(Render) /\ Len(<<Asking(kind, of)>>) = 1
         /\ <<Asking(kind, of)>>[1].kind = kind /\ <<Asking(kind, of)>>[1].of = of
<1>1. Asking(kind, of) \in Render /\ Asking(kind, of).kind = kind /\ Asking(kind, of).of = of
  BY DEF Asking, Render
<1> QED BY <1>1
LEMMA TwoLined ==
  LET some == <<Asking("in-place", {}), Asking("all", {})>> IN
  some \in Seq(Render) /\ Len(some) = 2 /\ some[1].kind = "in-place" /\ some[2].kind = "all"
<1>1. /\ Asking("in-place", {}) \in Render /\ Asking("in-place", {}).kind = "in-place"
      /\ Asking("all", {}) \in Render /\ Asking("all", {}).kind = "all"
  BY DEF Asking, Render
<1> QED BY <1>1

\* Asking draws nothing.
LEMMA AskedDrawn ==
  ASSUME Drawn, CameraKnows, UNCHANGED drawnVars
  PROVE  Drawn' /\ CameraKnows'
<1>1. Drawn'
  BY DEF Drawn, KeptIsDrawn, drawnVars, Lines
<1>2. CameraKnows'
  BY DEF CameraKnows, drawnVars, cameraVars, Lines
<1> QED BY <1>1, <1>2

\* Renders that are asked for keep the invariant.
LEMMA AskKeeps ==
  ASSUME MapInv, NEW some \in Seq(Render), some # <<>>,
         \A i \in 1..Len(some) : some[i].kind = "checked" => some[i].of # {},
         NEW what \in {"all", "checked"}, NEW of \in SUBSET MapTours, InLine(some), Asks(what, of),
         UNCHANGED <<focusing, drawnVars, riderIn, overtaken>>,
         panelLayer' \in BOOLEAN, listed' \in {{}, MapTours}, points' \subseteq listed',
         opened' \in {opened, {}}, checkedTours' \subseteq MapTours,
         generation' \in 1..Fetches, fetching' \in 0..Fetches, generation' + fetching' <= Fetches,
         ~riderIn /\ ~overtaken => listed' = {} /\ fetching' = 0,
         IF what = "all" THEN some[Len(some)].kind # "checked"
         ELSE /\ some[Len(some)].kind = "checked" /\ some[Len(some)].of = of
              /\ of = checkedTours' /\ of # {} /\ listed' = MapTours
  PROVE  MapInv'
<1> USE DEF MapInv
<1>1. /\ renders' \in Seq(Render) /\ renders' # <<>>
      /\ renders'[Len(renders')] = some[Len(some)]
      /\ \A i \in 1..Len(renders') : \/ i \in 1..Len(renders) /\ renders'[i] = renders[i]
                                     \/ \E k \in 1..Len(some) : renders'[i] = some[k]
  BY Lined DEF MapTyped
<1>2. askedMap' = [what |-> what, of |-> of] /\ raced' = (focusing # {})
  BY DEF Asks
<1>3. MapTyped'
  <2>1. \A i \in 1..Len(renders') : renders'[i].kind = "checked" => renders'[i].of # {}
    BY <1>1 DEF MapTyped
  <2>2. /\ opened' \subseteq MapTours /\ \A s, t \in opened' : s = t
        /\ focusing' \subseteq Lines' /\ riderIn' \in BOOLEAN /\ overtaken' \in BOOLEAN
    BY DEF MapTyped, Lines
  <2>3. raced' \in BOOLEAN /\ askedMap' \in Asked
    BY <1>2 DEF Asked
  <2> QED BY <1>1, <2>1, <2>2, <2>3 DEF MapTyped, Render, Asked
<1>4. Drawn' /\ CameraKnows'
  BY AskedDrawn
<1>5. NothingLeft'
  BY DEF NothingLeft, drawnVars
<1>6. AskedStands' /\ TourShown'
  BY <1>2 DEF AskedStands, TourShown
<1>7. RendersShown'
  <2>1. PICK render : render = some[Len(some)]
    OBVIOUS
  <2>2. Draws(render)'
    BY <1>2, <2>1 DEF Draws
  <2>3. renders'[Len(renders')] = render
    BY <1>1, <2>1
  <2> QED BY <1>1, <1>2, <2>2, <2>3 DEF RendersShown, Draws
<1> QED BY <1>3, <1>4, <1>5, <1>6, <1>7

\* What is asked of the map: every tour, the checked ones, every tour behind the closed panel, or
\* when the list has arrived.
LEMMA AsksKeep ==
  ASSUME MapInv,
         \/ ShowAllRoutes \/ EndSelecting \/ CloseFocused \/ \E found \in BOOLEAN : ListArrives(found)
         \/ \E t \in MapTours : ToggleRoute(t)
  PROVE  MapInv'
<1> USE DEF MapInv
<1>1. /\ generation \in 1..Fetches /\ fetching \in 0..Fetches /\ generation + fetching <= Fetches
      /\ checkedTours \subseteq MapTours /\ {} \in SUBSET MapTours /\ listed \in {{}, MapTours}
      /\ points \subseteq listed /\ panelLayer \in BOOLEAN
      /\ ~riderIn /\ ~overtaken => listed = {} /\ fetching = 0
  BY DEF MapTyped, NothingLeft
<1>2. CASE ShowAllRoutes
  <2>1. PICK some : some = <<Asking("in-place", {}), Asking("all", {})>>
    OBVIOUS
  <2>2. /\ some \in Seq(Render) /\ some # <<>> /\ \A i \in 1..Len(some) : some[i].kind # "checked"
        /\ some[Len(some)].kind # "checked"
    BY <2>1, TwoLined
  <2>3. /\ InLine(some) /\ Asks("all", {}) /\ opened' = {} /\ panelLayer' = FALSE
        /\ UNCHANGED <<riderIn, fetching, overtaken, listed, generation, checkedTours, points, focusing, drawnVars>>
    BY <1>2, <2>1 DEF ShowAllRoutes
  <2> QED BY <1>1, <2>2, <2>3, AskKeeps
<1>3. CASE EndSelecting
  <2>1. PICK some : some = <<Asking("all", {})>>
    OBVIOUS
  <2>2. /\ some \in Seq(Render) /\ some # <<>> /\ \A i \in 1..Len(some) : some[i].kind # "checked"
        /\ some[Len(some)].kind # "checked"
    BY <1>1, <2>1, OneLined
  <2>3. /\ InLine(some) /\ Asks("all", {}) /\ checkedTours' = {}
        /\ UNCHANGED <<pageOfVars, listed, generation, opened, points, focusing, drawnVars>>
    BY <1>3, <2>1 DEF EndSelecting
  <2> QED BY <1>1, <2>2, <2>3, AskKeeps DEF pageOfVars
<1>4. CASE CloseFocused
  <2>1. PICK some : some = <<Asking("in-place", {})>>
    OBVIOUS
  <2>2. /\ some \in Seq(Render) /\ some # <<>> /\ \A i \in 1..Len(some) : some[i].kind # "checked"
        /\ some[Len(some)].kind # "checked"
    BY <1>1, <2>1, OneLined
  <2>3. /\ InLine(some) /\ Asks("all", {}) /\ opened' = {} /\ panelLayer' = FALSE
        /\ UNCHANGED <<riderIn, fetching, overtaken, listed, generation, checkedTours, points, focusing, drawnVars>>
    BY <1>4, <2>1 DEF CloseFocused
  <2> QED BY <1>1, <2>2, <2>3, AskKeeps
<1>5. ASSUME NEW found \in BOOLEAN, ListArrives(found) PROVE MapInv'
  <2>1. PICK some : some = <<Asking("all", {})>>
    OBVIOUS
  <2>2. /\ some \in Seq(Render) /\ some # <<>> /\ \A i \in 1..Len(some) : some[i].kind # "checked"
        /\ some[Len(some)].kind # "checked"
    BY <1>1, <2>1, OneLined
  <2>3. /\ InLine(some) /\ Asks("all", {}) /\ fetching > 0 /\ fetching' = fetching - 1
        /\ points' = {} /\ listed' \in {{}, MapTours} /\ generation' \in {generation, generation + 1}
        /\ UNCHANGED <<riderIn, panelLayer, overtaken, checkedTours, opened, focusing, drawnVars>>
    BY <1>5, <2>1 DEF ListArrives
  <2>4. generation' \in 1..Fetches /\ fetching' \in 0..Fetches /\ generation' + fetching' <= Fetches
    <3>1. generation \in Nat /\ fetching \in Nat /\ Fetches \in Nat
      BY <1>1, MapViewAssumption
    <3>2. CASE generation' = generation
      BY <1>1, <2>3, <3>1, <3>2
    <3>3. CASE generation' = generation + 1
      BY <1>1, <2>3, <3>1, <3>3
    <3> QED BY <2>3, <3>2, <3>3
  <2>5. ~riderIn /\ ~overtaken => listed' = {} /\ fetching' = 0
    <3>1. fetching # 0
      BY <1>1, <2>3
    <3> QED BY <1>1, <3>1
  <2> QED BY <1>1, <2>2, <2>3, <2>4, <2>5, AskKeeps
<1>6. ASSUME NEW t \in MapTours, ToggleRoute(t) PROVE MapInv'
  <2>1. checkedTours' \in SUBSET MapTours /\ listed = MapTours
    BY <1>1, <1>6 DEF ToggleRoute
  <2>2. UNCHANGED <<pageOfVars, listed, generation, opened, points, focusing, drawnVars>>
    BY <1>6 DEF ToggleRoute
  <2>3. CASE checkedTours' = {}
    <3>1. PICK some : some = <<Asking("all-or-checked", {})>>
      OBVIOUS
    <3>2. /\ some \in Seq(Render) /\ some # <<>> /\ \A i \in 1..Len(some) : some[i].kind # "checked"
          /\ some[Len(some)].kind # "checked"
      BY <1>1, <3>1, OneLined
    <3>3. InLine(some) /\ Asks("all", {})
      BY <1>6, <2>3, <3>1 DEF ToggleRoute
    <3> QED BY <1>1, <2>1, <2>2, <3>2, <3>3, AskKeeps DEF pageOfVars
  <2>4. CASE checkedTours' # {}
    <3>1. PICK of \in SUBSET MapTours : of = checkedTours'
      BY <2>1
    <3>2. PICK some : some = <<Asking("checked", of)>>
      OBVIOUS
    <3>3. /\ some \in Seq(Render) /\ some # <<>> /\ \A i \in 1..Len(some) : some[i].of = of
          /\ some[Len(some)].kind = "checked" /\ some[Len(some)].of = of
      BY <1>1, <3>2, OneLined
    <3>4. InLine(some) /\ Asks("checked", of)
      BY <1>6, <2>4, <3>1, <3>2 DEF ToggleRoute
    <3> QED BY <1>1, <2>1, <2>2, <2>4, <3>1, <3>3, <3>4, AskKeeps DEF pageOfVars
  <2> QED BY <2>3, <2>4
<1> QED BY <1>2, <1>3, <1>4, <1>5, <1>6

\* The list is asked for while nothing else changes.
LEMMA FetchKeeps == ASSUME MapInv, FetchList PROVE MapInv'
<1> USE DEF MapInv
<1>1. /\ fetching' = fetching + 1 /\ generation + fetching < Fetches /\ (riderIn \/ overtaken)
      /\ UNCHANGED <<riderIn, panelLayer, overtaken, mapListVars, points, renders, focusing, drawnVars, askedVars>>
  BY DEF FetchList
<1>2. MapTyped'
  <2>1. fetching' \in 0..Fetches /\ generation + fetching' <= Fetches
    BY <1>1, MapViewAssumption DEF MapTyped
  <2> QED BY <1>1, <2>1 DEF MapTyped, mapListVars, askedVars, Render, Asked, Lines
<1>3. Drawn' /\ CameraKnows'
  BY <1>1, AskedDrawn
<1>4. NothingLeft'
  BY <1>1 DEF NothingLeft
<1>5. AskedStands' /\ TourShown' /\ RendersShown'
  BY <1>1 DEF AskedStands, TourShown, RendersShown, Draws, ShowsAsked, SetsOf, mapListVars, askedVars,
              drawnVars
<1> QED BY <1>2, <1>3, <1>4, <1>5

\* Opening a tour: nothing is shown of it before its answer.
LEMMA OpeningKeeps == ASSUME MapInv, NEW t \in MapTours, FocusTour(t) PROVE MapInv'
<1> USE DEF MapInv
<1>1. /\ riderIn \/ overtaken
      /\ t \in listed /\ opened' = {t} /\ panelLayer' = TRUE
      /\ focusing' = focusing \cup {<<t, generation>>}
      /\ askedMap' = [what |-> "tour", of |-> {t}]
      /\ raced' = (renders # <<>> \/ \E g \in 1..Fetches : g # generation /\ <<t, g>> \in focusing)
      /\ UNCHANGED <<riderIn, fetching, overtaken, listed, generation, checkedTours, points, renders, drawnVars>>
  BY DEF FocusTour, Set
<1>2. MapTyped'
  <2>1. askedMap' \in Asked /\ raced' \in BOOLEAN
    BY <1>1 DEF Asked
  <2>2. opened' \subseteq MapTours /\ \A s, u \in opened' : s = u
    BY <1>1
  <2>3. focusing' \subseteq Lines
    BY <1>1 DEF MapTyped, Lines
  <2> QED BY <1>1, <2>1, <2>2, <2>3 DEF MapTyped, Render, Asked, Lines
<1>3. Drawn' /\ CameraKnows'
  BY <1>1, AskedDrawn
<1>4. NothingLeft'
  BY <1>1 DEF NothingLeft
<1>5. AskedStands' /\ RendersShown'
  BY <1>1 DEF AskedStands, RendersShown
<1>6. TourShown'
  <2> SUFFICES ASSUME raced' = FALSE
               PROVE  /\ renders = <<>>
                      /\ \A g \in 1..Fetches : <<t, g>> \in focusing' => g = generation
                      /\ <<t, generation>> \in focusing'
    BY <1>1 DEF TourShown
  <2> QED BY <1>1
<1> QED BY <1>2, <1>3, <1>4, <1>5, <1>6

\* The end of the session: nothing is asked of the map.
LEMMA EndKeeps == ASSUME MapInv, EndOfSession PROVE MapInv'
<1> USE DEF MapInv
<1>1. /\ riderIn' = FALSE /\ overtaken' \in {TRUE, fetching # 0}
      /\ listed' = {} /\ points' = {} /\ opened' = {} /\ drawnLines' = {} /\ routeLayer' = {}
      /\ pinLayer' = {} /\ pinMarkers' = {}
      /\ askedMap' = [what |-> "nothing", of |-> {}] /\ raced' = FALSE
      /\ UNCHANGED <<fetching, panelLayer, generation, checkedTours, renders, focusing, cameraVars>>
  BY DEF EndOfSession, ClearedPins, ClearPins
<1>2. MapTyped'
  <2>1. askedMap' \in Asked
    BY <1>1 DEF Asked
  <2>2. overtaken' \in BOOLEAN
    BY <1>1
  <2> QED BY <1>1, <2>1, <2>2 DEF MapTyped, Render, Asked, Lines
<1>3. Drawn'
  BY <1>1 DEF Drawn, KeptIsDrawn
<1>4. CameraKnows'
  BY <1>1 DEF CameraKnows, cameraVars, Lines
<1>5. NothingLeft'
  BY <1>1 DEF NothingLeft
<1>6. AskedStands' /\ TourShown' /\ RendersShown'
  BY <1>1 DEF AskedStands, TourShown, RendersShown
<1> QED BY <1>2, <1>3, <1>4, <1>5, <1>6

-----------------------------------------------------------------------------
(* What answers draw. *)

\* The point sets there are then.
LEMMA PointsAre ==
  ASSUME NEW tours \in SUBSET MapTours, generation \in 1..Fetches, generation' = generation
  PROVE  PointSets(tours) = SetsOf(tours)' /\ PointSets(tours) \subseteq Lines
BY DEF PointSets, Set, SetsOf, Lines

\* The pins are of listed tours.
LEMMA PinsDrawn ==
  ASSUME Drawn, listed' = listed, points' \subseteq listed, RenderPins
  PROVE  pinLayer' = pinMarkers' /\ pinMarkers' \subseteq listed
<1>1. PICK inView \in SUBSET ShownPhotos :
        IF inView = {} THEN ClearPins
        ELSE /\ pinMarkers' = inView
             /\ pinLayer' = (pinLayer \ (pinMarkers \ inView)) \cup (inView \ pinMarkers)
  BY DEF RenderPins
<1>2. inView \subseteq listed
  BY <1>1 DEF ShownPhotos
<1> QED BY <1>1, <1>2 DEF ClearPins, Drawn, KeptIsDrawn

\* A move is made, or is the one that waits.
LEMMA CameraMoves ==
  ASSUME CameraKnows, NEW wanted \in SUBSET Lines, FitTo(wanted) \/ UNCHANGED cameraVars
  PROVE  CameraKnows'
<1>1. CASE UNCHANGED cameraVars
  BY <1>1 DEF CameraKnows, cameraVars, Lines
<1>2. CASE FitTo(wanted) /\ wanted # {} /\ zooming = TRUE
  <2>1. wish' = wanted /\ waitingMove' = {wanted} /\ UNCHANGED <<camera, zooming>>
    BY <1>2 DEF FitTo, WaitingLatest
  <2> QED BY <1>2, <2>1 DEF CameraKnows, Lines
<1>3. CASE FitTo(wanted) /\ wanted # {} /\ zooming = FALSE
  <2>1. wish' = wanted /\ camera' = wanted /\ zooming' \in BOOLEAN /\ waitingMove' = waitingMove
    BY <1>3 DEF FitTo
  <2> QED BY <1>3, <2>1 DEF CameraKnows, Lines
<1> QED BY <1>1, <1>2, <1>3 DEF FitTo, CameraKnows

\* A map drawn anew: lines, pins and camera.
LEMMA DrawnAnew ==
  ASSUME MapInv, NEW wanted \in SUBSET Lines, DrawRoutes(wanted), RenderPins,
         FitTo(wanted) \/ UNCHANGED cameraVars, UNCHANGED mapListVars, points' \subseteq listed
  PROVE  Drawn' /\ CameraKnows' /\ drawnLines' = wanted /\ pinMarkers' \subseteq listed
<1> USE DEF MapInv
<1>1. drawnLines' = wanted /\ routeLayer' = wanted
  BY DEF DrawRoutes, LinesAfter, Drawn, KeptIsDrawn
<1>2. listed' = listed /\ listed \subseteq MapTours
  BY DEF MapTyped, mapListVars
<1>3. pinLayer' = pinMarkers' /\ pinMarkers' \subseteq listed
  BY <1>2, PinsDrawn
<1>4. Drawn'
  BY <1>1, <1>2, <1>3 DEF Drawn, KeptIsDrawn, Lines
<1>5. CameraKnows'
  BY CameraMoves
<1> QED BY <1>1, <1>3, <1>4, <1>5

\* The line once the first has had its turn: the others move up, and where tours were checked the
\* render of them is put last.
LEMMA LineMoves ==
  ASSUME MapInv, RenderEnds
  PROVE  /\ renders' \in Seq(Render)
         /\ \A i \in 1..Len(renders') : renders'[i].kind = "checked" => renders'[i].of # {}
         /\ renders' = <<>> => Head(renders) = renders[Len(renders)]
         /\ renders' # <<>> =>
              \/ renders'[Len(renders')] = renders[Len(renders)]
              \/ renders'[Len(renders')] = [kind |-> "checked", of |-> checkedTours] /\ checkedTours # {}
<1> USE DEF MapInv
<1>1. /\ renders \in Seq(Render) /\ renders # <<>> /\ checkedTours \in SUBSET MapTours
      /\ \A i \in 1..Len(renders) : renders[i].kind = "checked" => renders[i].of # {}
  BY DEF RenderEnds, MapTyped
<1>2. PICK rest : rest = Tail(renders)
  OBVIOUS
<1>3. /\ rest \in Seq(Render) /\ Len(renders) \in Nat \ {0} /\ Len(rest) = Len(renders) - 1
      /\ Head(renders) = renders[1] /\ \A i \in 1..Len(rest) : rest[i] = renders[i + 1]
  BY <1>1, <1>2, HeadTailProperties, LenProperties, EmptySeq
<1>4. \A i \in 1..Len(rest) : rest[i].kind = "checked" => rest[i].of # {}
  BY <1>1, <1>3, SMTT(30)
<1>5. PICK later : later = [kind |-> "checked", of |-> checkedTours]
  OBVIOUS
<1>5a. later = Asking("checked", checkedTours)
  BY <1>5 DEF Asking
<1>6. later \in Render
  BY <1>1, <1>5 DEF Render
<1>7. CASE renders' = rest
  <2>1. rest = <<>> => Len(rest) = 0
    OBVIOUS
  <2>2. rest # <<>> => Len(rest) \in 1..Len(rest) /\ rest[Len(rest)] = renders[Len(renders)]
    <3>1. rest # <<>> => Len(rest) # 0
      BY <1>3, EmptySeq
    <3> QED BY <1>3, <3>1, LenProperties
  <2> QED BY <1>3, <1>4, <1>7, <2>1, <2>2
<1>8. CASE renders' = Append(rest, later) /\ checkedTours # {}
  <2>1. /\ renders' \in Seq(Render) /\ Len(renders') = Len(rest) + 1 /\ Len(rest) \in Nat
        /\ renders'[Len(rest) + 1] = later /\ \A i \in 1..Len(rest) : renders'[i] = rest[i]
    BY <1>3, <1>6, <1>8, AppendProperties, LenProperties
  <2>2. renders' # <<>>
    BY <2>1
  <2>3. ASSUME NEW i \in 1..Len(renders'), renders'[i].kind = "checked" PROVE renders'[i].of # {}
    <3>1. i \in 1..Len(rest) \/ i = Len(rest) + 1
      BY <2>1
    <3>2. later.of # {}
      BY <1>5, <1>8
    <3> QED BY <1>4, <2>1, <2>3, <3>1, <3>2
  <2> QED BY <1>5, <1>8, <2>1, <2>2, <2>3
<1> QED BY <1>2, <1>5a, <1>7, <1>8 DEF RenderEnds

\* A render's answer draws the tours it is of, unless others are checked by now.
LEMMA RenderDraws ==
  ASSUME MapInv, RenderEnds
  PROVE  /\ Drawn' /\ CameraKnows' /\ NothingLeft'
         /\ Head(renders).kind # "checked" => drawnLines' = SetsOf(listed)'
         /\ Head(renders).kind = "checked" /\ Head(renders).of = checkedTours =>
              drawnLines' = SetsOf(checkedTours \cap listed)'
<1> USE DEF MapInv
<1>1. PICK render : render = Head(renders)
  OBVIOUS
<1>2. /\ points' \subseteq listed /\ UNCHANGED <<mapListVars, pageOfVars>> /\ listed \subseteq MapTours
      /\ checkedTours \cap listed \in SUBSET MapTours /\ generation \in 1..Fetches
  BY DEF RenderEnds, MapTyped
<1>3. ASSUME NEW tours \in SUBSET listed, DrawRoutes(PointSets(tours)), RenderPins,
             FitTo(PointSets(tours)) \/ UNCHANGED cameraVars
      PROVE  Drawn' /\ CameraKnows' /\ NothingLeft' /\ drawnLines' = SetsOf(tours)'
  <2>1. PICK wanted \in SUBSET Lines : wanted = PointSets(tours) /\ wanted = SetsOf(tours)'
    BY <1>2, PointsAre DEF mapListVars
  <2>2. Drawn' /\ CameraKnows' /\ drawnLines' = wanted /\ pinMarkers' \subseteq listed
    BY <1>2, <1>3, <2>1, DrawnAnew
  <2>3. tours = {} => SetsOf(tours)' = {}
    BY DEF SetsOf
  <2>4. NothingLeft'
    BY <1>2, <2>1, <2>2, <2>3 DEF NothingLeft, mapListVars, pageOfVars
  <2> QED BY <2>1, <2>2, <2>4
<1>4. CASE render.kind = "checked" /\ render.of = checkedTours
  <2>1. PICK tours \in SUBSET listed : tours = checkedTours \cap listed
    OBVIOUS
  <2>2. /\ DrawRoutes(PointSets(tours)) /\ RenderPins
        /\ FitTo(PointSets(tours)) \/ UNCHANGED cameraVars
    BY <1>1, <1>4, <2>1 DEF RenderEnds, Result
  <2>3. Drawn' /\ CameraKnows' /\ NothingLeft' /\ drawnLines' = SetsOf(tours)'
    BY <1>3, <2>2
  <2> QED BY <1>1, <1>2, <1>4, <2>1, <2>3 DEF SetsOf, mapListVars
<1>5. CASE render.kind # "checked"
  <2>1. PICK tours \in SUBSET listed : tours = listed
    OBVIOUS
  <2>2. /\ DrawRoutes(PointSets(tours)) /\ RenderPins
        /\ FitTo(PointSets(tours)) \/ UNCHANGED cameraVars
    BY <1>1, <1>5, <2>1 DEF RenderEnds, Result
  <2>3. Drawn' /\ CameraKnows' /\ NothingLeft' /\ drawnLines' = SetsOf(tours)'
    BY <1>3, <2>2
  <2> QED BY <1>1, <1>2, <1>5, <2>1, <2>3 DEF SetsOf, mapListVars
<1>6. CASE render.kind = "checked" /\ render.of # checkedTours
  <2>1. UNCHANGED drawnVars /\ listed' = listed
    BY <1>1, <1>2, <1>6 DEF RenderEnds, Result, mapListVars
  <2>2. Drawn' /\ CameraKnows'
    BY <2>1, AskedDrawn
  <2>3. NothingLeft'
    BY <1>2, <2>1 DEF NothingLeft, drawnVars, mapListVars, pageOfVars
  <2> QED BY <1>1, <1>6, <2>2, <2>3
<1> QED BY <1>4, <1>5, <1>6

\* A rendering that ends keeps it.
LEMMA RenderKeeps == ASSUME MapInv, RenderEnds PROVE MapInv'
<1> USE DEF MapInv
<1>1. /\ renders # <<>> /\ points' \subseteq listed
      /\ UNCHANGED <<pageOfVars, listed, generation, checkedTours, opened, focusing, askedMap, raced>>
  BY DEF RenderEnds, MapTyped, mapListVars, askedVars
<1>2. MapTyped'
  BY <1>1, LineMoves DEF MapTyped, pageOfVars, Render, Asked, Lines
<1>3. Drawn' /\ CameraKnows' /\ NothingLeft'
  BY RenderDraws
<1>4. AskedStands' /\ TourShown'
  BY <1>1 DEF AskedStands, TourShown
<1>5. RendersShown'
  <2> SUFFICES ASSUME askedMap.what \in {"all", "checked"}, raced = FALSE
               PROVE  /\ renders' = <<>> => ShowsAsked'
                      /\ renders' # <<>> => Draws(renders[Len(renders)])'
    BY <1>1 DEF RendersShown
  <2>1. PICK last : last = renders[Len(renders)]
    OBVIOUS
  <2>2. Draws(last)
    BY <1>1, <2>1 DEF RendersShown
  <2>3. CASE renders' = <<>>
    <3>1. last = Head(renders)
      BY <2>1, <2>3, LineMoves
    <3> QED BY <1>1, <2>2, <2>3, <3>1, RenderDraws DEF Draws, ShowsAsked, SetsOf
  <2>4. ASSUME renders' # <<>> PROVE Draws(renders'[Len(renders')])
    BY <2>1, <2>2, <2>4, LineMoves DEF Draws
  <2> QED BY <1>1, <2>3, <2>4 DEF Draws
<1> QED BY <1>2, <1>3, <1>4, <1>5

\* An opened tour's answer draws it if it is the one that is open, and nothing otherwise.
LEMMA FocusKeeps ==
  ASSUME MapInv, NEW t \in MapTours, NEW g \in 1..Fetches, FocusEnds(t, g) PROVE MapInv'
<1> USE DEF MapInv
<1>1. /\ <<t, g>> \in focusing /\ focusing' = focusing \ {<<t, g>>}
      /\ points' = points \/ (t \in listed /\ g = generation /\ points' = points \cup {t})
      /\ points \subseteq listed /\ points' \subseteq listed /\ generation \in 1..Fetches
      /\ UNCHANGED <<pageOfVars, listed, generation, checkedTours, opened, renders, askedMap, raced>>
  BY DEF FocusEnds, MapTyped, mapListVars, askedVars
<1>2. MapTyped'
  <2>1. focusing' \subseteq Lines
    BY <1>1 DEF MapTyped
  <2> QED BY <1>1, <2>1 DEF MapTyped, pageOfVars, Render, Asked, Lines
<1>3. AskedStands' /\ RendersShown'
  BY <1>1 DEF AskedStands, RendersShown
<1>4. CASE t \in opened
  <2>1. PICK found \in FoundPoints(t, g) :
          DrawRoutes(found) /\ FitTo(found) /\ RenderPins /\ UNCHANGED mapListVars
    BY <1>4 DEF FocusEnds, StillFocused
  <2>2. opened = {t}
    BY <1>4 DEF MapTyped
  <2>3. PICK tours \in SUBSET MapTours : tours = {t}
    OBVIOUS
  <2>4. PointSets(tours) = SetsOf(tours)' /\ PointSets(tours) \subseteq Lines
    BY <1>1, PointsAre
  <2>5. found \in SUBSET Lines
    <3>1. CASE t \in listed /\ g = generation
      <4>1. found = PointSets(tours)
        BY <2>1, <2>3, <3>1 DEF FoundPoints
      <4> QED BY <2>4, <4>1
    <3>2. CASE ~(t \in listed /\ g = generation)
      <4>1. found \in {{}, {<<t, g>>}}
        BY <2>1, <3>2 DEF FoundPoints
      <4> QED BY <4>1 DEF Lines
    <3> QED BY <3>1, <3>2
  <2>6. Drawn' /\ CameraKnows' /\ drawnLines' = found
    BY <1>1, <2>1, <2>5, DrawnAnew
  <2>7. NothingLeft'
    BY <1>1, <2>2 DEF NothingLeft, pageOfVars
  <2>8. TourShown'
    <3> SUFFICES ASSUME askedMap.what = "tour", raced = FALSE
                 PROVE  /\ renders = <<>>
                        /\ \A u \in opened, h \in 1..Fetches : <<u, h>> \in focusing' => h = generation
                        /\ drawnLines' = SetsOf(opened)'
      BY <1>1 DEF TourShown
    <3>1. /\ renders = <<>> /\ opened \subseteq listed
          /\ \A u \in opened, h \in 1..Fetches : <<u, h>> \in focusing => h = generation
      BY DEF TourShown, AskedStands
    <3>2. t \in listed /\ g = generation
      BY <1>1, <1>4, <3>1
    <3>3. found = PointSets({t})
      BY <2>1, <3>2 DEF FoundPoints
    <3>4. SetsOf(opened)' = SetsOf(tours)'
      BY <1>1, <2>2, <2>3 DEF SetsOf
    <3> QED BY <1>1, <2>3, <2>4, <2>6, <3>1, <3>3, <3>4
  <2> QED BY <1>2, <1>3, <2>6, <2>7, <2>8
<1>5. CASE t \notin opened
  <2>1. UNCHANGED drawnVars
    BY <1>5 DEF FocusEnds, StillFocused
  <2>2. Drawn' /\ CameraKnows'
    BY <1>1, <2>1, AskedDrawn
  <2>3. SetsOf(opened)' = SetsOf(opened) /\ drawnLines' = drawnLines
    <3>1. opened \cap points' = opened \cap points
      BY <1>1, <1>5
    <3> QED BY <1>1, <2>1, <3>1 DEF SetsOf, drawnVars
  <2>4. NothingLeft'
    BY <1>1, <2>1 DEF NothingLeft, drawnVars, pageOfVars
  <2>5. TourShown'
    <3>1. \A u \in opened, h \in 1..Fetches : <<u, h>> \in focusing' <=> <<u, h>> \in focusing
      BY <1>1, <1>5
    <3> QED BY <1>1, <2>3, <3>1 DEF TourShown
  <2> QED BY <1>2, <1>3, <2>2, <2>4, <2>5
<1> QED BY <1>4, <1>5

\* The rider's moves and zooms: pins and camera only.
LEMMA ViewKeeps == ASSUME MapInv, ViewMoves \/ RiderZooms \/ ZoomEnds PROVE MapInv'
<1> USE DEF MapInv
<1>1. UNCHANGED <<pageOfVars, mapListVars, points, renders, focusing, drawnLines, routeLayer, askedVars>>
  BY DEF ViewMoves, RiderZooms, ZoomEnds
<1>2. MapTyped'
  BY <1>1 DEF MapTyped, pageOfVars, mapListVars, askedVars, Render, Asked, Lines
<1>3. AskedStands' /\ TourShown' /\ RendersShown'
  BY <1>1 DEF AskedStands, TourShown, RendersShown, Draws, ShowsAsked, SetsOf, mapListVars, askedVars
<1>4. CASE ViewMoves
  <2>1. UNCHANGED cameraVars /\ RenderPins
    BY <1>4 DEF ViewMoves
  <2>2. pinLayer' = pinMarkers' /\ pinMarkers' \subseteq listed /\ NothingLeft'
    <3>1. pinLayer' = pinMarkers' /\ pinMarkers' \subseteq listed
      BY <1>1, <2>1, PinsDrawn DEF MapTyped, mapListVars
    <3> QED BY <1>1, <3>1 DEF NothingLeft, pageOfVars, mapListVars
  <2>3. Drawn'
    BY <1>1, <2>2 DEF Drawn, KeptIsDrawn, MapTyped, mapListVars, Lines
  <2>4. CameraKnows'
    BY <2>1 DEF CameraKnows, cameraVars, Lines
  <2> QED BY <1>2, <1>3, <2>2, <2>3, <2>4
<1>5. CASE RiderZooms \/ ZoomEnds
  <2>1. Drawn'
    BY <1>1, <1>5 DEF RiderZooms, ZoomEnds, Drawn, KeptIsDrawn, mapListVars, Lines
  <2>2. CameraKnows'
    BY <1>5 DEF RiderZooms, ZoomEnds, CameraKnows, Lines
  <2>3. NothingLeft'
    BY <1>1, <1>5 DEF RiderZooms, ZoomEnds, NothingLeft, pageOfVars, mapListVars
  <2> QED BY <1>2, <1>3, <2>1, <2>2, <2>3
<1> QED BY <1>4, <1>5

\* It always holds.
LEMMA MapInvariant == MapViewSpec => []MapInv
<1>1. MapViewInit => MapInv
  <2> SUFFICES ASSUME MapViewInit PROVE MapInv
    OBVIOUS
  <2> USE DEF MapViewInit
  <2>1. MapTyped
    <3>1. renders \in Seq(Render) /\ Len(renders) = 0
      BY EmptySeq
    <3>2. askedMap \in Asked /\ raced \in BOOLEAN
      BY DEF Asked
    <3>3. generation \in 1..Fetches /\ fetching \in 0..Fetches /\ generation + fetching <= Fetches
      BY MapViewAssumption
    <3>4. \A i \in 1..Len(renders) : renders[i].kind = "checked" => renders[i].of # {}
      BY <3>1
    <3>5. /\ riderIn \in BOOLEAN /\ panelLayer \in BOOLEAN /\ overtaken \in BOOLEAN
          /\ listed \in {{}, MapTours} /\ points \subseteq listed /\ checkedTours \subseteq MapTours
          /\ opened \subseteq MapTours /\ (\A s, t \in opened : s = t) /\ focusing \subseteq Lines
      OBVIOUS
    <3> QED BY <3>1, <3>2, <3>3, <3>4, <3>5 DEF MapTyped
  <2>2. Drawn /\ NothingLeft /\ CameraKnows
    BY DEF Drawn, NothingLeft, KeptIsDrawn, CameraKnows
  <2>3. AskedStands /\ TourShown /\ RendersShown
    BY DEF AskedStands, TourShown, RendersShown
  <2> QED BY <2>1, <2>2, <2>3 DEF MapInv
<1>2. MapInv /\ [MapViewNext]_mapViewVars => MapInv'
  <2> SUFFICES ASSUME MapInv, [MapViewNext]_mapViewVars PROVE MapInv'
    OBVIOUS
  <2>1. CASE MapViewNext
    BY <2>1, AsksKeep, FetchKeeps, OpeningKeeps, EndKeeps, RenderKeeps, FocusKeeps, ViewKeeps DEF MapViewNext
  <2>2. CASE UNCHANGED mapViewVars
    <3>1. UNCHANGED <<pageOfVars, mapListVars, points, renders, focusing, drawnVars, askedVars>>
      BY <2>2 DEF mapViewVars
    <3>2. MapTyped'
      BY <3>1 DEF MapInv, MapTyped, pageOfVars, mapListVars, askedVars, Render, Asked, Lines
    <3>3. Drawn' /\ CameraKnows' /\ NothingLeft'
      BY <3>1, AskedDrawn DEF MapInv, NothingLeft, pageOfVars, mapListVars, drawnVars
    <3>4. AskedStands' /\ TourShown' /\ RendersShown'
      BY <3>1 DEF MapInv, AskedStands, TourShown, RendersShown, Draws, ShowsAsked, SetsOf,
                  mapListVars, askedVars, drawnVars
    <3> QED BY <3>2, <3>3, <3>4 DEF MapInv
  <2> QED BY <2>1, <2>2
<1> QED BY <1>1, <1>2, PTL DEF MapViewSpec

\* Once all has loaded the map shows what was asked for last, or the checked tours where a fallback
\* ends after "Show all" or the panel's close; unless a tour's opening and a render overlapped, or
\* two openings of it a fetch.  What the code keeps of lines and pins is what is on the map, nothing
\* of a signed-out rider is, unless a list load overtook the end of the session, and the camera is
\* where it was sent last (routes.js, pins.js, map.js).
THEOREM MapAlwaysSound == MapViewSpec => []MapSound
<1>1. MapInv => MapSound
  <2> SUFFICES ASSUME MapInv PROVE MapSound
    OBVIOUS
  <2> USE DEF MapInv
  <2>1. Cardinality(opened) <= 1
    <3>1. CASE opened = {}
      BY <3>1, FS_EmptySet
    <3>2. CASE opened # {}
      <4>1. PICK t \in opened : opened = {t}
        BY <3>2 DEF MapTyped
      <4>2. Cardinality({t}) = 1
        BY FS_Singleton
      <4> QED BY <4>1, <4>2
    <3> QED BY <3>1, <3>2
  <2>2. waitingMove \subseteq SUBSET Lines
    BY DEF CameraKnows
  <2>3. routeLayer = drawnLines /\ pinLayer = pinMarkers
    BY DEF Drawn, KeptIsDrawn
  <2>4. MapViewTypeOK
    <3>1. {drawnLines, routeLayer, camera, wish} \cup waitingMove \subseteq SUBSET (MapTours \X (1..Fetches))
      BY <2>2, <2>3 DEF Drawn, CameraKnows, Lines
    <3>2. pinMarkers \cup pinLayer \subseteq MapTours
      BY <2>3 DEF Drawn
    <3>3. {zooming, raced} \subseteq BOOLEAN /\ {riderIn, panelLayer, overtaken} \subseteq BOOLEAN
      BY DEF CameraKnows, MapTyped
    <3> QED BY <2>1, <3>1, <3>2, <3>3 DEF MapTyped, MapViewTypeOK, Render, Asked, Lines
  <2>5. KeptIsDrawn /\ SignedOutMapEmpty
    BY <2>3 DEF Drawn, NothingLeft, SignedOutMapEmpty
  <2>6. CameraSettles
    BY DEF CameraKnows, CameraSettles
  <2>7. LastAskedShown
    <3> SUFFICES ASSUME renders = <<>>, focusing = {}, ~raced, points = listed, askedMap.what # "nothing"
                 PROVE  \/ drawnLines = {Set(t) : t \in IF askedMap.what = "all" THEN listed ELSE askedMap.of}
                        \/ /\ askedMap.what = "all" /\ checkedTours # {}
                           /\ drawnLines = {Set(t) : t \in checkedTours \cap listed}
      BY DEF LastAskedShown
    <3>1. askedMap.what \in {"all", "checked", "tour"}
      BY DEF MapTyped, Asked
    <3>2. ASSUME NEW tours \in SUBSET listed PROVE SetsOf(tours) = {Set(t) : t \in tours}
      BY DEF SetsOf, Set
    <3>3. CASE askedMap.what = "tour"
      <4>1. drawnLines = SetsOf(opened) /\ askedMap.of = opened /\ opened \subseteq listed
        BY <3>3 DEF TourShown, AskedStands, MapTyped
      <4> QED BY <3>2, <3>3, <4>1
    <3>4. CASE askedMap.what = "checked"
      <4>1. /\ drawnLines = SetsOf(checkedTours \cap listed) /\ askedMap.of = checkedTours
            /\ checkedTours \cap listed = checkedTours
        BY <3>4 DEF RendersShown, ShowsAsked, AskedStands, MapTyped
      <4> QED BY <3>2, <3>4, <4>1
    <3>5. CASE askedMap.what = "all"
      <4>1. \/ checkedTours # {} /\ drawnLines = SetsOf(checkedTours \cap listed)
            \/ drawnLines = SetsOf(listed)
        BY <3>5 DEF RendersShown, ShowsAsked
      <4>2. SetsOf(listed) = {Set(t) : t \in listed}
        BY <3>2
      <4>3. SetsOf(checkedTours \cap listed) = {Set(t) : t \in checkedTours \cap listed}
        BY <3>2
      <4> QED BY <3>5, <4>1, <4>2, <4>3
    <3> QED BY <3>1, <3>3, <3>4, <3>5
  <2> QED BY <2>4, <2>5, <2>6, <2>7 DEF MapSound
<1> QED BY <1>1, MapInvariant, PTL

\* Lines that are on the map do not all go while tours are checked and unchecked: what is drawn in
\* their place is of checked tours, of an open one, or of every tour there is (routes.js:115).
THEOREM MapNeverBlanks == MapViewSpec => NeverBlank
<1> DEFINE Step == drawnLines # {} /\ drawnLines' = {} /\ askedMap' = askedMap =>
                     points' = {} \/ (opened' \cup checkedTours') # {}
<1>1. MapInv /\ [MapViewNext]_mapViewVars => [Step]_mapViewVars
  <2> SUFFICES ASSUME MapInv, MapViewNext, drawnLines # {}, drawnLines' = {}
               PROVE  points' = {} \/ (opened' \cup checkedTours') # {}
    OBVIOUS
  <2>1. CASE EndOfSession
    BY <2>1 DEF EndOfSession
  <2>2. CASE RenderEnds
    <3>1. points' \subseteq listed /\ checkedTours' = checkedTours /\ listed' = listed
      BY <2>2 DEF RenderEnds, mapListVars, MapInv, MapTyped
    <3>2. CASE Head(renders).kind # "checked"
      BY <2>2, <3>1, <3>2, RenderDraws DEF SetsOf
    <3>3. CASE Head(renders).kind = "checked" /\ Head(renders).of = checkedTours
      <4>1. Head(renders) = renders[1] /\ 1 \in 1..Len(renders)
        BY <2>2, HeadTailProperties, LenProperties, EmptySeq DEF RenderEnds, MapInv, MapTyped
      <4> QED BY <3>1, <3>3, <4>1 DEF MapInv, MapTyped
    <3>4. CASE Head(renders).kind = "checked" /\ Head(renders).of # checkedTours
      BY <2>2, <3>4 DEF RenderEnds, Result, drawnVars
    <3> QED BY <3>2, <3>3, <3>4
  <2>3. ASSUME NEW t \in MapTours, NEW g \in 1..Fetches, FocusEnds(t, g) PROVE opened' # {}
    BY <2>3 DEF FocusEnds, StillFocused, drawnVars, mapListVars
  <2>4. \/ UNCHANGED drawnLines \/ EndOfSession \/ RenderEnds
        \/ \E t \in MapTours, g \in 1..Fetches : FocusEnds(t, g)
    BY DEF MapViewNext, ShowAllRoutes, EndSelecting, CloseFocused, FetchList, ListArrives, ToggleRoute,
           FocusTour, ViewMoves, RiderZooms, ZoomEnds, drawnVars
  <2> QED BY <2>1, <2>2, <2>3, <2>4
<1> QED BY <1>1, MapInvariant, PTL DEF MapViewSpec, NeverBlank

-----------------------------------------------------------------------------
(* LocalDate. *)

DateTyped == zone \in [change : Int, before : Int, after : Int] /\ createdAt \in Int /\ askedDate \in Int

\* The offset of an instant is one of the two of the zone.
LEMMA OffsetIs ==
  ASSUME DateTyped, NEW i \in Int
  PROVE  offsetAt(i) \in {zone.before, zone.after} /\ offsetAt(i) \in Int
BY DEF DateTyped, offsetAt

\* A target the clock shows is met; one it skips is off by what is skipped.
LEMMA TargetMet ==
  ASSUME DateTyped, NEW target \in Int
  PROVE  /\ withUpdatedDate(target) \in Int
         /\ Shown(target) => wallClock(withUpdatedDate(target)) = target
         /\ ~Shown(target) => LET off == wallClock(withUpdatedDate(target)) - target
                               skipped == zone.after - zone.before IN
                           /\ off \in {skipped, -skipped}
                           /\ zone.after <= 0 => off = skipped
                           /\ zone.before >= 0 => off = -skipped
<1>1. PICK c \in Int, b \in Int, a \in Int : c = zone.change /\ b = zone.before /\ a = zone.after
  BY DEF DateTyped
<1> DEFINE At(i) == IF i < c THEN b ELSE a
<1>2. \A i : offsetAt(i) = At(i)
  BY <1>1 DEF offsetAt
<1>3. PICK g \in Int : g = target - At(target)
  OBVIOUS
<1>4. PICK s \in Int : s = target - At(g)
  <2>1. At(g) \in Int
    OBVIOUS
  <2> HIDE DEF At
  <2> QED BY <2>1
<1>5. withUpdatedDate(target) = IF At(s) # At(g) THEN g ELSE s
  BY <1>2, <1>3, <1>4 DEF withUpdatedDate
<1>6. Shown(target) <=> At(target - b) = b \/ At(target - a) = a
  BY <1>1, <1>2 DEF Shown, wallClock
<1>7. CASE At(s) = At(g)
  <2>1. wallClock(withUpdatedDate(target)) = s + At(s)
    BY <1>2, <1>5, <1>7 DEF wallClock
  <2>2. s + At(s) = target
    BY <1>4, <1>7
  <2>3. Shown(target)
    BY <1>4, <1>6, <1>7
  <2> QED BY <1>5, <1>7, <2>1, <2>2, <2>3
<1>8. CASE At(s) # At(g)
  <2>1. wallClock(withUpdatedDate(target)) = g + At(g)
    BY <1>2, <1>5, <1>8 DEF wallClock
  <2>2. ~Shown(target)
    BY <1>3, <1>4, <1>6, <1>8
  <2>3. /\ (g + At(g)) - target \in {a - b, -(a - b)}
        /\ a <= 0 => (g + At(g)) - target = a - b
        /\ b >= 0 => (g + At(g)) - target = -(a - b)
    BY <1>3, <1>4, <1>8
  <2> QED BY <1>1, <1>5, <1>8, <2>1, <2>2, <2>3
<1> QED BY <1>7, <1>8

\* Days and hours make up a time, in one way.
LEMMA DayAndTime ==
  ASSUME NEW n \in Nat \ {0}, NEW w \in Int, NEW day \in Int
  PROVE  /\ w % n \in 0..(n - 1) /\ w \div n \in Int
         /\ (day * n + (w % n)) \div n = w \div n => day * n + (w % n) = w
<1>1. PICK q \in Int, m \in 0..(n - 1) : q = w \div n /\ m = w % n /\ w = n * q + m
  OBVIOUS
<1>2. PICK t \in Int : t = day * n + m
  OBVIOUS
<1>3. PICK p \in Int, k \in 0..(n - 1) : p = t \div n /\ t = n * p + k
  BY <1>2
<1>4. ASSUME p = q PROVE t = w
  <2>1. n * (day - p) = k - m
    BY <1>2, <1>3
  <2>2. PICK d \in Int : d = day - p
    OBVIOUS
  <2>3. n * d = k - m /\ k - m < n /\ k - m > -n
    BY <2>1, <2>2
  <2>4. d = 0
    <3>1. CASE d >= 1
      <4>1. n * d >= n
        BY <3>1
      <4> QED BY <4>1, <2>3
    <3>2. CASE d <= -1
      <4>1. n * d <= -n
        BY <3>2
      <4> QED BY <4>1, <2>3
    <3> QED BY <3>1, <3>2
  <2>5. k = m
    BY <2>3, <2>4
  <2> QED BY <1>1, <1>3, <1>4, <2>5
<1> QED BY <1>1, <1>2, <1>3, <1>4

\* The types and the local time hold at first.
LEMMA DateStart == DateInit => DateTyped /\ LocalTimeKept
<1> SUFFICES ASSUME DateInit PROVE DateTyped /\ LocalTimeKept
  OBVIOUS
<1>1. zone \in [change : Int, before : Int, after : Int] /\ createdAt \in Int
  BY LocalDateAssumption DEF DateInit
<1> QED BY <1>1 DEF DateInit, DateTyped, LocalTimeKept, wallClock, offsetAt

\* An edit of the date keeps both, and the time of a date that is not changed.
LEMMA DateEdited ==
  ASSUME DateTyped, NEW day \in 0..Days, EditDate(day)
  PROVE  /\ DateTyped' /\ LocalTimeKept'
         /\ askedDate' \div DayLength = toDateInputValue(createdAt) =>
              wallClock(createdAt') = wallClock(createdAt)
<1>1. PICK w \in Int : w = wallClock(createdAt)
  BY OffsetIs DEF wallClock, DateTyped
<1>2. day \in Int /\ DayLength \in Nat \ {0}
  BY LocalDateAssumption
<1>3. w % DayLength \in Int
  BY <1>2, DayAndTime
<1>4. PICK t \in Int : t = day * DayLength + (w % DayLength)
  BY <1>2, <1>3
<1>5. askedDate' = t /\ createdAt' = withUpdatedDate(t) /\ zone' = zone
  BY <1>1, <1>4 DEF EditDate
<1>6. /\ withUpdatedDate(t) \in Int
      /\ Shown(t) => wallClock(withUpdatedDate(t)) = t
      /\ ~Shown(t) => LET off == wallClock(withUpdatedDate(t)) - t
                          skipped == zone.after - zone.before IN
                      /\ off \in {skipped, -skipped}
                      /\ zone.after <= 0 => off = skipped
                      /\ zone.before >= 0 => off = -skipped
  BY TargetMet
<1>7. DateTyped'
  BY <1>5, <1>6 DEF DateTyped
<1>8. \A i : wallClock(i)' = wallClock(i)
  BY <1>5 DEF wallClock, offsetAt
<1>9. wallClock(createdAt)' = wallClock(createdAt') /\ Shown(askedDate)' = Shown(t)
  BY <1>5 DEF wallClock, offsetAt, Shown
<1>10. LocalTimeKept'
  BY <1>5, <1>6, <1>9 DEF LocalTimeKept
<1>11. ASSUME askedDate' \div DayLength = toDateInputValue(createdAt)
       PROVE  wallClock(createdAt') = wallClock(createdAt)
  <2>1. t = w
    BY <1>1, <1>2, <1>4, <1>5, <1>11, DayAndTime DEF toDateInputValue
  <2>2. PICK o \in Int : o = offsetAt(createdAt) /\ o \in {zone.before, zone.after}
    BY OffsetIs DEF DateTyped
  <2>3. createdAt \in Int /\ w = createdAt + o
    BY <1>1, <2>2 DEF wallClock, DateTyped
  <2>4. t - o = createdAt
    BY <2>1, <2>3
  <2>5. wallClock(t - o) = t
    BY <1>1, <2>1, <2>4
  <2>6. Shown(t)
    BY <2>2, <2>5 DEF Shown
  <2> QED BY <1>1, <1>5, <1>6, <2>1, <2>6
<1> QED BY <1>7, <1>10, <1>11

(* Moved to another date a ride keeps its local time, or is off by what the clock skips, forward
   behind UTC and back ahead of it, in any zone and whatever the length of a day (tours.js, withUpdatedDate). *)
THEOREM TimesAlwaysKept == DateSpec => []LocalTimeKept
<1>1. (DateTyped /\ LocalTimeKept) /\ [DateNext]_dateVars => (DateTyped /\ LocalTimeKept)'
  <2>1. ASSUME DateTyped, LocalTimeKept, UNCHANGED dateVars PROVE DateTyped' /\ LocalTimeKept'
    BY <2>1 DEF dateVars, DateTyped, LocalTimeKept, Shown, wallClock, offsetAt
  <2> QED BY <2>1, DateEdited DEF DateNext
<1> QED BY <1>1, DateStart, PTL DEF DateSpec

(* An edit that leaves the date the editor shows leaves the time of day, in any zone. *)
THEOREM SameDatesSameTimes == DateSpec => SameDateSameTime
<1>1. DateTyped /\ [DateNext]_dateVars => DateTyped'
  <2>1. ASSUME DateTyped, UNCHANGED dateVars PROVE DateTyped'
    BY <2>1 DEF dateVars, DateTyped
  <2> QED BY <2>1, DateEdited DEF DateNext
<1>2. DateTyped /\ [DateNext]_dateVars =>
        [askedDate' \div DayLength = toDateInputValue(createdAt) =>
           wallClock(createdAt') = wallClock(createdAt)]_dateVars
  BY DateEdited DEF DateNext
<1> QED BY <1>1, <1>2, DateStart, PTL DEF DateSpec, SameDateSameTime

=============================================================================
