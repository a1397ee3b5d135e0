-------------------------------- MODULE MCView --------------------------------
(* Instances for TLC of what the page shows and keeps, each part in a         *)
(* behaviour of its own: `part` is the one a behaviour is of, the others stay *)
(* as they start.  What must happen in the end is for MCPage.                 *)
EXTENDS Layers, Gestures, MapView, ListView, LocalDate, TourList, TourData, TLC

VARIABLE part

TwoTours == {"t1", "t2"}
AnyTourAlike == Permutations(MapTours)
PinnedPhotos == {"p"}
PlainPhotos == {"q"}

CatalogueTour(name, description, date, rank, distance, coordinates) ==
  [name |-> name, description |-> description, date |-> date, rank |-> rank,
   distance |-> distance, points |-> coordinates]
SomeTours ==
  {CatalogueTour(<<"a", "b">>, <<>>, 1, 2, 1, <<<<0, 0>>, <<1, 2>>>>),
   CatalogueTour(<<"b", " ", "b">>, <<"a", "b">>, 2, 1, 0, <<<<2, 2>>>>),
   CatalogueTour(<<"a", "c", "c", "c", "b">>, <<"a">>, 0, 0, 2, <<<<0, 2>>, <<2, 0>>>>)}
Letters == {"a", "b", "c", " "}
SomeQueries == {<<"b">>, <<"a", "b">>, <<"b", "b", " ">>}
SomeKeys == {"date-desc", "length-asc"}
SomeViews ==
  {[south |-> 0, north |-> 1, west |-> 0, east |-> 1],
   [south |-> 1, north |-> 2, west |-> 1, east |-> 2]}

(* Up to three units from UTC, one unit back or forth, before, at, or after   *)
(* midnight.                                                                 *)
Zone(changed, was, is) == [change |-> changed, before |-> was, after |-> is]
SomeZones == {Zone(c, b, b + d) : c \in 6..14, b \in {-3, -1, 0, 1, 3}, d \in {-1, 1}}

(* Bound of the list: once layers have been opened there is one tour, the map *)
(* rests and is no filter, and the query is short, or the sort is chosen.    *)
FewFilters ==
  Len(pageEntries) > 1 =>
    /\ Len(rows) = 1 /\ rows[1].rank = 2 /\ ~panning /\ ~inViewOnly /\ bounds.south = 0
    /\ (search = <<>> \/ (Len(search) = 1 /\ sortKey = DefaultSort))

-----------------------------------------------------------------------------
ViewInit ==
  /\ part \in {"layers", "gestures", "mapView", "listView", "date", "list", "mapData", "lightbox"}
  /\ IF part = "listView" THEN TRUE ELSE rows = <<>> /\ bounds = CHOOSE view \in Views : TRUE
  /\ IF part = "date" THEN TRUE ELSE createdAt = 0 /\ zone = CHOOSE z \in Zones : TRUE
  /\ link \in IF part = "list" THEN {"t1", NoTour} ELSE {NoTour}    \* to t2 is the same
  /\ LayersInit /\ GesturesInit /\ MapViewInit /\ ListViewInit /\ DateInit
  /\ TourListInit /\ TourDataInit

pageVars == <<tourListVars, tourDataVars>>
screenVars == <<mapViewVars, listViewVars, dateVars>>
inputVars == <<layersVars, gesturesVars>>

Inputs ==
  \/ part = "layers" /\ LayersNext /\ UNCHANGED gesturesVars
  \/ part = "gestures" /\ GesturesNext /\ UNCHANGED layersVars
Screen ==
  \/ part = "mapView" /\ MapViewNext /\ UNCHANGED <<listViewVars, dateVars>>
  \/ part = "listView" /\ ListViewNext /\ FewFilters' /\ UNCHANGED <<mapViewVars, dateVars>>
  \/ part = "date" /\ DateNext /\ UNCHANGED <<mapViewVars, listViewVars>>
Data ==
  \/ part = "list" /\ TourListNext /\ UNCHANGED tourDataVars
  \/ part = "mapData" /\ MapDataNext /\ UNCHANGED tourListVars
  \/ part = "lightbox" /\ LightboxNext /\ UNCHANGED tourListVars

ViewNext ==
  \/ Inputs /\ UNCHANGED <<part, screenVars, pageVars>>
  \/ Screen /\ UNCHANGED <<part, inputVars, pageVars>>
  \/ Data /\ UNCHANGED <<part, inputVars, screenVars>>

(* Bound of the loads: a second one overlaps no detail that is still awaited. *)
FewReloads == load[2].step = "none" \/ details = {}
(* Bound of the map: once a tour's opening has raced a render, one render is  *)
(* in line and the list is not fetched again.                                *)
FewRaces == raced => generation = 1 /\ Len(renders) < 2

ViewVars == <<part, inputVars, screenVars, pageVars>>
ViewSpec == ViewInit /\ [][ViewNext]_ViewVars

(* Nothing the rider has on the screen goes by itself: not the map while     *)
(* tours are checked (routes.js:115); not a tour, unless a load was told to  *)
(* skip it before it came back (sidebar.js:40), and one whose DELETE failed  *)
(* is back at once (tourRemoval.js); not a photo when the map is read again  *)
(* (mapData.js); not the time of a ride when its date or another field is    *)
(* edited (tours.js:212).                                                    *)
NothingVanishes ==
  NeverBlank /\ SettledIsGoneOrBack /\ LeavesForAReason /\ GalleryKept /\ []LocalTimeKept /\ SameDateSameTime

===============================================================================
