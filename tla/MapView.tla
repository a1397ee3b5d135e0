------------------------------ MODULE MapView ------------------------------
(* What the page's map shows: the routes that renders draw after waiting in   *)
(* line for /map (ui/routes.js), a tour opened beside them (ui/tourPanel.js), *)
(* the pins (ui/pins.js), and the camera, which waits for a zoom to end       *)
(* (ui/map.js).  The list is loaded beside them, and may arrive after the     *)
(* session has ended.  TourData has what the loads of /map do to the tours.   *)
(* The layout is a desktop's.                                                 *)
EXTENDS Naturals, Sequences, FiniteSets

CONSTANTS
  MapTours,       \* the rider's tours, each with one photo on the map
  Renders, Fetches    \* bounds: renders in line, fetches of the list

ASSUME MapViewAssumption == Renders \in Nat /\ Fetches \in Nat \ {0}

VARIABLES
  riderIn, fetching,   \* state.user is there; the list loads in flight
  listed, generation,   \* state.tours; how often it was fetched, as each fetch has new arrays
  points,         \* the listed tours whose heatmapData is there
  checkedTours, opened,    \* state.selectedIds, state.selectedTourId
  panelLayer,     \* a layer is there for Back to close the panel, open or hidden
  renders,        \* the renders in line for ensureMapData
  focusing,       \* focusTourOnMap calls in flight: of a tour, as a fetch listed it
  drawnLines, routeLayer,   \* the point sets with a line, and the lines on the map
  pinMarkers, pinLayer,
  camera, zooming, waitingMove,
  wish, askedMap, raced,    \* history: where the camera was sent last, what was asked of the map
                      \* last, and whether what may draw otherwise was in flight by then
  overtaken       \* history: the session ended beside a list load, or an upload that loads it again

cameraVars == <<camera, zooming, waitingMove, wish>>
drawnVars == <<drawnLines, routeLayer, pinMarkers, pinLayer, cameraVars>>
pageOfVars == <<riderIn, fetching, panelLayer, overtaken>>
mapListVars == <<listed, generation, checkedTours, opened>>
askedVars == <<askedMap, raced>>
mapViewVars == <<pageOfVars, mapListVars, points, renders, focusing, drawnVars, askedVars>>

MapViewInit ==
  /\ riderIn = TRUE /\ fetching = 0 /\ panelLayer = FALSE /\ overtaken = FALSE
  /\ listed = MapTours /\ generation = 1 /\ points = {} /\ checkedTours = {} /\ opened = {}
  /\ renders = <<>> /\ focusing = {}
  /\ drawnLines = {} /\ routeLayer = {} /\ pinMarkers = {} /\ pinLayer = {}
  /\ camera = {} /\ zooming = FALSE /\ waitingMove = {} /\ wish = {}
  /\ askedMap = [what |-> "nothing", of |-> {}] /\ raced = FALSE

-----------------------------------------------------------------------------
(* Drawing.                                                                  *)

Set(t) == <<t, generation>>
PointSets(tours) == {Set(t) : t \in tours \cap points'}

LinesAfter(wanted) == wanted

(* drawRoutes: only what changed is removed and added.                       *)
DrawRoutes(wanted) ==
  /\ drawnLines' = LinesAfter(wanted)
  /\ routeLayer' = (routeLayer \ (drawnLines \ wanted)) \cup (wanted \ drawnLines)

WaitingLatest(view) == {view}

(* fitToPoints by whenCameraFree; a move may animate a zoom.                 *)
FitTo(wanted) ==
  IF wanted = {} THEN UNCHANGED cameraVars
  ELSE /\ wish' = wanted
       /\ IF zooming THEN waitingMove' = WaitingLatest(wanted) /\ UNCHANGED <<camera, zooming>>
          ELSE camera' = wanted /\ zooming' \in BOOLEAN /\ UNCHANGED waitingMove

ShownPhotos == IF opened' = {} THEN listed' \cap points' ELSE opened' \cap points'

ClearPins == pinLayer' = {} /\ pinMarkers' = {}
ClearedPins == ClearPins

(* renderPins, with the photos that are in view.                             *)
RenderPins ==
  \E inView \in SUBSET ShownPhotos :
    IF inView = {} THEN ClearPins
    ELSE /\ pinMarkers' = inView
         /\ pinLayer' = (pinLayer \ (pinMarkers \ inView)) \cup (inView \ pinMarkers)

-----------------------------------------------------------------------------
(* Asking.                                                                   *)

Asks(what, of) == askedMap' = [what |-> what, of |-> of] /\ raced' = (focusing # {})

Asking(kind, of) == [kind |-> kind, of |-> of]
InLine(some) == Len(renders) + Len(some) <= Renders /\ renders' = renders \o some

(* "Show all tours": the panel is closed, what is checked stays.             *)
ShowAllRoutes ==
  /\ riderIn /\ listed # {} /\ opened' = {} /\ panelLayer' = FALSE
  /\ InLine(<<Asking("in-place", {}), Asking("all", {})>>) /\ Asks("all", {})
  /\ UNCHANGED <<riderIn, fetching, overtaken, listed, generation, checkedTours, points, focusing, drawnVars>>

(* exitSelectMode: nothing is checked, the panel stays.                      *)
EndSelecting ==
  /\ riderIn /\ listed # {} /\ checkedTours' = {}
  /\ InLine(<<Asking("all", {})>>) /\ Asks("all", {})
  /\ UNCHANGED <<pageOfVars, listed, generation, opened, points, focusing, drawnVars>>

(* toggleTourSelection, then renderSelectedToursRoutes: all when none is.    *)
ToggleRoute(t) ==
  /\ riderIn /\ t \in listed
  /\ checkedTours' = IF t \in checkedTours THEN checkedTours \ {t} ELSE checkedTours \cup {t}
  /\ IF checkedTours' = {} THEN InLine(<<Asking("all-or-checked", {})>>) /\ Asks("all", {})
     ELSE InLine(<<Asking("checked", checkedTours')>>) /\ Asks("checked", checkedTours')
  /\ UNCHANGED <<pageOfVars, listed, generation, opened, points, focusing, drawnVars>>

(* selectTour, of a row or of the link a late list opens.                    *)
FocusTour(t) ==
  /\ riderIn \/ overtaken
  /\ t \in listed /\ opened' = {t} /\ panelLayer' = TRUE /\ focusing' = focusing \cup {Set(t)}
  /\ askedMap' = [what |-> "tour", of |-> {t}]
  /\ raced' = (renders # <<>> \/ \E g \in 1..Fetches : g # generation /\ <<t, g>> \in focusing)
  /\ UNCHANGED <<riderIn, fetching, overtaken, listed, generation, checkedTours, points, renders, drawnVars>>

(* closeDetailPanel: redrawAllRoutesInPlace.  Back finds a layer that the    *)
(* end of the session left.                                                  *)
CloseFocused ==
  /\ panelLayer /\ panelLayer' = FALSE /\ opened' = {}
  /\ InLine(<<Asking("in-place", {})>>) /\ Asks("all", {})
  /\ UNCHANGED <<riderIn, fetching, overtaken, listed, generation, checkedTours, points, focusing, drawnVars>>

(* loadTours: the first load, a retry, or an upload that has been answered.  *)
FetchList ==
  /\ riderIn \/ overtaken
  /\ generation + fetching < Fetches /\ fetching' = fetching + 1
  /\ UNCHANGED <<riderIn, panelLayer, overtaken, mapListVars, points, renders, focusing, drawnVars, askedVars>>

(* fetchTours is answered: other tour objects, without points, or none where *)
(* it has failed; the panel stays, and nobody asks for the user.             *)
ListArrives(found) ==
  /\ fetching > 0 /\ fetching' = fetching - 1 /\ points' = {}
  /\ listed' = IF found THEN MapTours ELSE {}
  /\ generation' = IF found THEN generation + 1 ELSE generation
  /\ InLine(<<Asking("all", {})>>) /\ Asks("all", {})
  /\ UNCHANGED <<riderIn, panelLayer, overtaken, checkedTours, opened, focusing, drawnVars>>

(* clearSignedInState; select mode is not left, nor the panel's layer.       *)
EndOfSession ==
  /\ riderIn /\ riderIn' = FALSE /\ overtaken' \in {TRUE, fetching # 0}
  /\ listed' = {} /\ points' = {} /\ opened' = {} /\ drawnLines' = {} /\ routeLayer' = {}
  /\ ClearedPins /\ askedMap' = [what |-> "nothing", of |-> {}] /\ raced' = FALSE
  /\ UNCHANGED <<fetching, panelLayer, generation, checkedTours, renders, focusing, cameraVars>>

-----------------------------------------------------------------------------
(* Answering.                                                                *)

\* Mutant: the checked tours are drawn whatever is checked by now.
ResultAnyway(render) ==
  [draws |-> TRUE, tours |-> IF render.kind = "checked" THEN checkedTours \cap listed ELSE listed]
\* Whether the render still draws after the load, and which tours.
Result(render) ==
  IF render.kind = "checked" THEN [draws |-> checkedTours = render.of, tours |-> checkedTours \cap listed]
  ELSE [draws |-> TRUE, tours |-> listed]

(* Its turn: the tours there are have their points, or the load has failed.  *)
RenderEnds ==
  LET render == Head(renders)
      result == Result(render) IN
  /\ renders # <<>> /\ points' \in {points, listed}
  /\ IF render.kind = "all-or-checked" /\ checkedTours # {}
       THEN renders' = Append(Tail(renders), Asking("checked", checkedTours))
       ELSE renders' = Tail(renders)
  /\ UNCHANGED <<pageOfVars, mapListVars, focusing, askedVars>>
  /\ IF result.draws
       THEN /\ DrawRoutes(PointSets(result.tours)) /\ RenderPins
            /\ IF render.kind = "in-place" THEN UNCHANGED cameraVars
               ELSE FitTo(PointSets(result.tours))
       ELSE UNCHANGED drawnVars

\* Mutant: the tour is drawn although another one is open by now.
StillFocusedAnyway(t) == opened # {}
StillFocused(t) == t \in opened

\* The points of an opened tour: of one that is listed no more they are there, or not.
FoundPoints(t, g) == IF t \in listed /\ g = generation THEN {PointSets({t})} ELSE {{}, {<<t, g>>}}

FocusEnds(t, g) ==
  /\ <<t, g>> \in focusing /\ focusing' = focusing \ {<<t, g>>}
  /\ points' = points \/ (t \in listed /\ g = generation /\ points' = points \cup {t})
  /\ UNCHANGED <<pageOfVars, mapListVars, renders, askedVars>>
  /\ IF StillFocused(t)
       THEN \E found \in FoundPoints(t, g) : DrawRoutes(found) /\ FitTo(found) /\ RenderPins
       ELSE UNCHANGED drawnVars

(* moveend, the pin toggle, and zooms of the rider and their end.            *)
ViewMoves ==
  /\ UNCHANGED <<pageOfVars, mapListVars, points, renders, focusing, drawnLines, routeLayer, cameraVars, askedVars>>
  /\ RenderPins
RiderZooms ==
  /\ ~zooming /\ zooming' = TRUE /\ camera' = {} /\ wish' = {}
  /\ UNCHANGED <<pageOfVars, mapListVars, points, renders, focusing, drawnLines, routeLayer, pinMarkers, pinLayer,
                 waitingMove, askedVars>>
ZoomEnds ==
  /\ zooming /\ zooming' = FALSE /\ waitingMove' = {}
  /\ IF waitingMove = {} THEN UNCHANGED camera ELSE camera' \in waitingMove
  /\ UNCHANGED <<pageOfVars, mapListVars, points, renders, focusing, drawnLines, routeLayer, pinMarkers, pinLayer,
                 wish, askedVars>>

MapViewNext ==
  \/ ShowAllRoutes \/ EndSelecting \/ CloseFocused \/ FetchList \/ EndOfSession
  \/ \E found \in BOOLEAN : ListArrives(found)
  \/ RenderEnds \/ ViewMoves \/ RiderZooms \/ ZoomEnds
  \/ \E t \in MapTours : ToggleRoute(t) \/ FocusTour(t) \/ \E g \in 1..Fetches : FocusEnds(t, g)

-----------------------------------------------------------------------------
(* Properties.                                                               *)

(* The map is of its type and shows only the rider's tours: the type         *)
(* invariant of this module.                                                 *)
MapViewTypeOK ==
  LET sets == MapTours \X (1..Fetches) IN
  /\ listed \in {{}, MapTours} /\ points \subseteq listed /\ generation \in 1..Fetches
  /\ fetching \in 0..Fetches /\ {riderIn, panelLayer, overtaken} \subseteq BOOLEAN
  /\ checkedTours \subseteq MapTours /\ opened \subseteq MapTours /\ Cardinality(opened) <= 1
  /\ renders \in Seq([kind : {"all", "in-place", "checked", "all-or-checked"}, of : SUBSET MapTours])
  /\ focusing \subseteq sets /\ {zooming, raced} \subseteq BOOLEAN
  /\ {drawnLines, routeLayer, camera, wish} \cup waitingMove \subseteq SUBSET sets
  /\ pinMarkers \cup pinLayer \subseteq MapTours
  /\ askedMap \in [what : {"nothing", "all", "checked", "tour"}, of : SUBSET MapTours]

(* What is kept for drawn is what is on the map, lines and pins alike, or a  *)
(* later render would not draw it again (routes.js:23, pins.js:40).          *)
KeptIsDrawn == routeLayer = drawnLines /\ pinLayer = pinMarkers

(* A signed-out rider's tours are not drawn by a render, an opening or a     *)
(* closing that was in flight (auth.js, clearSignedInState).  A list load    *)
(* that was lists and draws them again: fetchTours asks for no user          *)
(* (sidebar.js:41), nor does an upload that loads the list once it is stored *)
(* (uploadModal.js:110).                                                     *)
SignedOutMapEmpty == ~riderIn /\ ~overtaken => routeLayer = {} /\ pinLayer = {}

(* Checking and unchecking tours while the routes load does not blank a map  *)
(* that has routes: "so the map never goes blank" (routes.js:115).           *)
NeverBlank ==
  [][drawnLines # {} /\ drawnLines' = {} /\ askedMap' = askedMap =>
       points' = {} \/ (opened' \cup checkedTours') # {}]_mapViewVars

(* Once all has loaded the map shows what was asked for last.  Not claimed   *)
(* where a tour's opening and a render were in flight at once, or two        *)
(* openings of a tour with a fetch between them: whichever is answered last  *)
(* draws.  And where a fallback to every tour ends after "Show all" or the   *)
(* panel's close, while tours are checked, it draws those (routes.js:120).   *)
LastAskedShown ==
  LET Shown(wanted) == drawnLines = {Set(t) : t \in wanted} IN
  renders = <<>> /\ focusing = {} /\ ~raced /\ points = listed /\ askedMap.what # "nothing" =>
    \/ Shown(IF askedMap.what = "all" THEN listed ELSE askedMap.of)
    \/ askedMap.what = "all" /\ checkedTours # {} /\ Shown(checkedTours \cap listed)

(* When no zoom is animated the camera is where it was sent last (map.js:22). *)
CameraSettles == ~zooming => camera = wish /\ waitingMove = {}

(* The map shows what was asked for last, through overlapping renders, tours *)
(* opened beside them, refetches and the end of the session (routes.js,      *)
(* pins.js, map.js).                                                         *)
MapSound == MapViewTypeOK /\ KeptIsDrawn /\ SignedOutMapEmpty /\ LastAskedShown /\ CameraSettles

=============================================================================
