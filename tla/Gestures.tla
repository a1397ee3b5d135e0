------------------------------ MODULE Gestures ------------------------------
(* Touches on a row of the list (ui/tourGestures.js) and on the lightbox's    *)
(* photo (ui/lightbox.js): a long press or a swipe acts on release, and the   *)
(* click the browser sends after it is swallowed (ui/clickGuard.js).  One     *)
(* pointer is down at a time.                                                 *)
EXTENDS Integers, FiniteSets

CONSTANT Touches     \* bound: the touches of a run, numbered

ASSUME GesturesAssumption == Touches \in Nat \ {0}

VARIABLES
  touch,      \* the touches so far, and the presses of a mouse
  surface, down,    \* what the touch is on, and whether it lasts
  press,      \* bindLongPress: the press has started, its timer has gone off
  swipe,      \* bindTourSwipe, bindSwipe: where the drag of each surface stands
  moved,      \* how far to the right of the drag's start the pointer is
  selecting,
  armed, disarmTimers,    \* per surface: the touch the guard is armed for, the disarmings to come
  ghost,      \* external: the touch whose click the browser has yet to send
  acted, tapped,    \* history: what each touch did, whether its click got through
  swallowed   \* history: a touch whose click a guard took, and the touch it was armed for

guardVars == <<armed, disarmTimers, swallowed>>
gesturesVars == <<touch, surface, down, press, swipe, moved, selecting, ghost, acted, tapped, guardVars>>

Surfaces == {"row", "photo"}
\* Within the tolerance of a press, past it, and past the swipe's threshold either way.
Near == 1
Far == 3
Places == {-Far, 0, Near, 2, Far}
NoPress == [start |-> FALSE, ready |-> FALSE]

GesturesInit ==
  /\ touch = 0 /\ surface = "row" /\ down = FALSE /\ press = NoPress /\ moved = 0
  /\ swipe = [s \in Surfaces |-> "none"] /\ selecting = FALSE
  /\ armed = [s \in Surfaces |-> 0] /\ disarmTimers = [s \in Surfaces |-> {}]
  /\ ghost = 0 /\ acted = [n \in 1..Touches |-> {}] /\ tapped = {} /\ swallowed = {}

Swipes(s, finger) == finger /\ ~(s = "row" /\ selecting)

(* pointerdown: only a touch starts a swipe.  A mouse's press on a row counts *)
(* as a press; on the photo it is somewhere beside what a cancelled touch     *)
(* left there.                                                                *)
PointerDown(s, finger, at) ==
  /\ ~down /\ down' = TRUE /\ ghost = 0 /\ touch < Touches /\ touch' = touch + 1
  /\ (finger \/ s = "row" => at = 0)
  /\ surface' = s /\ moved' = at
  /\ press' = IF s = "row" THEN [start |-> TRUE, ready |-> FALSE] ELSE NoPress
  /\ swipe' = IF Swipes(s, finger) THEN [swipe EXCEPT ![s] = "started"] ELSE swipe
  /\ UNCHANGED <<selecting, ghost, acted, tapped, guardVars>>

PressHeld ==
  /\ press.start /\ press' = [press EXCEPT !.ready = TRUE]
  /\ UNCHANGED <<touch, surface, down, swipe, moved, selecting, ghost, acted, tapped, guardVars>>

PressAfter(away) == IF away THEN NoPress ELSE press

\* A drag that starts as a scroll belongs to the browser.
Dragged(vertical, drag) ==
  CASE drag = "started" /\ vertical -> "none"
    [] drag = "started" /\ ~vertical -> "dragging"
    [] OTHER -> drag

(* pointermove while the pointer is down.                                    *)
PointerMove(to, vertical, away) ==
  /\ down /\ (to \notin {0, Near} => away) /\ moved' = to /\ press' = PressAfter(away)
  /\ swipe' = [swipe EXCEPT ![surface] = Dragged(vertical, @)]
  /\ UNCHANGED <<touch, surface, down, selecting, ghost, acted, tapped, guardVars>>

(* pointermove of a mouse over the photo, pressed or not: what a cancelled   *)
(* touch started goes on.                                                    *)
Hover(vertical) ==
  /\ ~down /\ swipe["photo"] = "started"
  /\ swipe' = [swipe EXCEPT !["photo"] = Dragged(vertical, @)]
  /\ UNCHANGED <<touch, surface, down, press, moved, selecting, ghost, acted, tapped, guardVars>>

\* Mutant: an earlier timer is not cleared.
ArmBeside(s) == [disarmTimers EXCEPT ![s] = @ \cup {touch}]
ArmAlone(s) == [disarmTimers EXCEPT ![s] = {touch}]

Swiped == swipe[surface] = "dragging" /\ IF surface = "row" THEN moved = Far ELSE moved \in {-Far, Far}

(* pointerup: the swipe's handler and the press's, both of one row; neither  *)
(* is left behind.  The photo's asks for no kind of pointer.                 *)
PointerUp ==
  LET did == (IF press.ready /\ ~selecting THEN {"select"} ELSE {}) \cup
             (IF Swiped THEN {IF surface = "row" THEN "delete" ELSE "step"} ELSE {}) IN
  /\ down /\ down' = FALSE
  /\ press' = NoPress /\ swipe' = [swipe EXCEPT ![surface] = "none"] /\ ghost' = touch
  /\ acted' = [acted EXCEPT ![touch] = did]
  /\ selecting' = (selecting \/ "select" \in did)
  /\ IF did = {} THEN UNCHANGED <<armed, disarmTimers>>
     ELSE armed' = [armed EXCEPT ![surface] = touch] /\ disarmTimers' = ArmAlone(surface)
  /\ UNCHANGED <<touch, surface, moved, tapped, swallowed>>

(* pointercancel, or the pointer leaves the row: nothing happens, no click.  *)
(* The photo listens for neither, and keeps the drag that was started.       *)
PointerCancel ==
  /\ down /\ down' = FALSE /\ press' = NoPress /\ swipe' = [swipe EXCEPT !["row"] = "none"]
  /\ UNCHANGED <<touch, surface, moved, selecting, ghost, acted, tapped, guardVars>>

(* The click a touch leaves, if the browser sends one at all: a guard that   *)
(* is armed takes it.                                                        *)
Click ==
  /\ ghost # 0 /\ ghost' = 0
  /\ IF armed[surface] # 0
       THEN /\ armed' = [armed EXCEPT ![surface] = 0]
            /\ disarmTimers' = [disarmTimers EXCEPT ![surface] = {}]
            /\ swallowed' = swallowed \cup {<<ghost, armed[surface]>>} /\ UNCHANGED tapped
       ELSE tapped' = tapped \cup {ghost} /\ UNCHANGED guardVars
  /\ UNCHANGED <<touch, surface, down, press, swipe, moved, selecting, acted>>
NoClick ==
  /\ ghost # 0 /\ ghost' = 0
  /\ UNCHANGED <<touch, surface, down, press, swipe, moved, selecting, acted, tapped, guardVars>>

(* GHOST_CLICK_WINDOW_MS outlasts the click of the touch it was armed for.   *)
Disarm(s, n) ==
  /\ n \in disarmTimers[s] /\ n # ghost
  /\ armed' = [armed EXCEPT ![s] = 0] /\ disarmTimers' = [disarmTimers EXCEPT ![s] = @ \ {n}]
  /\ UNCHANGED <<touch, surface, down, press, swipe, moved, selecting, ghost, acted, tapped, swallowed>>

LeaveSelectMode ==
  /\ selecting /\ ~down /\ ghost = 0 /\ selecting' = FALSE
  /\ UNCHANGED <<touch, surface, down, press, swipe, moved, ghost, acted, tapped, guardVars>>

GesturesNext ==
  \/ \E s \in Surfaces, finger \in BOOLEAN, at \in Places : PointerDown(s, finger, at)
  \/ \E to \in Places, vertical, away \in BOOLEAN : PointerMove(to, vertical, away)
  \/ \E vertical \in BOOLEAN : Hover(vertical)
  \/ PressHeld \/ PointerUp \/ PointerCancel \/ Click \/ NoClick \/ LeaveSelectMode
  \/ \E s \in Surfaces, n \in 1..Touches : Disarm(s, n)

-----------------------------------------------------------------------------
(* Properties.                                                               *)

(* The touch and the guards are of their types, and no row swipes in select  *)
(* mode: the type invariant of this module.                                  *)
GesturesTypeOK ==
  /\ touch \in 0..Touches /\ surface \in Surfaces /\ moved \in Places
  /\ press \in [start : BOOLEAN, ready : BOOLEAN] /\ {down, selecting} \subseteq BOOLEAN
  /\ swipe \in [Surfaces -> {"none", "started", "dragging"}]
  /\ selecting \/ ~down => swipe["row"] = "none"
  /\ disarmTimers \in [Surfaces -> SUBSET (1..Touches)] /\ ghost \in 0..Touches
  /\ armed \in [Surfaces -> 0..Touches] /\ swallowed \in SUBSET ((1..Touches) \X (1..Touches))
  /\ acted \in [1..Touches -> SUBSET {"select", "delete", "step"}] /\ tapped \subseteq 1..Touches

(* A guard that is armed has its timer running, and takes one click for each *)
(* touch it is armed for, of that touch or, should that one leave none, of a *)
(* later one: whose tap is lost, by design, if it comes within the window    *)
(* (clickGuard.js:1).                                                        *)
GuardTakesOne ==
  /\ \A s \in Surfaces : armed[s] # 0 => armed[s] \in disarmTimers[s]
  /\ \A pair \in swallowed : acted[pair[2]] # {} /\ pair[2] <= pair[1]
  /\ \A one, other \in swallowed : one[2] = other[2] => one = other

(* A touch that did something does not tap, too: its click would land on the *)
(* row that moved up, or close the lightbox (tourGestures.js:11,             *)
(* lightbox.js:90).                                                          *)
GhostSwallowed == \A n \in tapped : acted[n] = {}

(* One touch never both selects its tour and deletes it (tourGestures.js).   *)
OneGesture == \A n \in 1..Touches : Cardinality(acted[n]) <= 1

(* A touch does one thing, whatever it became while it lasted, whatever an   *)
(* earlier one that was cancelled left on the photo, and whatever its click  *)
(* lands on (tourGestures.js, lightbox.js, clickGuard.js).                   *)
TouchesSound == GesturesTypeOK /\ GuardTakesOne /\ GhostSwallowed /\ OneGesture

=============================================================================
