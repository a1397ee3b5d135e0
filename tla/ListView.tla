------------------------------ MODULE ListView ------------------------------
(* The list of tours as the rider searches, sorts, narrows to the map's view  *)
(* and pages it (lib/tours.js, ui/tourList.js, app.js), and the URL that      *)
(* keeps it in each entry of the browser's history (lib/url.js,               *)
(* ui/router.js).  Text is a sequence of characters, in lower case; a tour's  *)
(* rank is its name's place in the collator's order.                          *)
EXTENDS Integers, Sequences, FiniteSets, SequencesExt, Filter

CONSTANTS
  Characters,   \* of names, descriptions and queries
  Catalogue,    \* the tours there can be
  Queries,      \* what the rider may type
  SortKeys,     \* the sort controls, DefaultSort among them
  Views,        \* what the map may show
  ListLength,   \* bound: tours in the list
  RowsPerPage,  \* PAGE_SIZE
  UrlEntries,   \* bound: entries of the history, and Backs of the page under way
  Exact, Prefix, WordStart, Substring, Ceiling, Penalty   \* the scores

DefaultSort == "date-desc"

ASSUME ListViewAssumption ==
  /\ \A tour \in Catalogue :
       /\ {tour.name, tour.description} \subseteq Seq(Characters) /\ tour.points \in Seq(Int \X Int)
       /\ {tour.date, tour.rank, tour.distance} \subseteq Int
  /\ Queries \subseteq Seq(Characters)
  /\ DefaultSort \in SortKeys /\ "" \notin SortKeys
  /\ Views \subseteq [south : Int, north : Int, west : Int, east : Int]
  /\ ListLength \in Nat /\ RowsPerPage \in Nat \ {0} /\ UrlEntries \in Nat \ {0}
  /\ {Exact, Prefix, WordStart, Substring, Ceiling, Penalty} \subseteq Nat \ {0}
  /\ Exact > Prefix /\ Prefix > WordStart /\ WordStart > Substring /\ Substring >= Ceiling
  /\ Penalty >= Exact

VARIABLES
  rows,                                       \* state.tours
  search, sortKey, pageNumber, inViewOnly,    \* of state
  bounds,           \* what the map shows
  typing, panning,  \* a debounced render is to come
  shownRows, shownPage, pageCount,   \* the rendered rows, the page and the pages the pager was told of
  pageEntries, atEntry,   \* external: URL and depth of each entry, the entry the page is at
  openLayers,       \* the open layers: the tour's panel and dialogs
  backsAsked,       \* external: Backs of the page that the browser has yet to do
  backsOwn,         \* ownBacks: popstates that close nothing
  travelled         \* history: the URL was last left as an entry had it, by the rider's Back or Forward

renderedVars == <<shownRows, shownPage, pageCount>>
layerVars == <<atEntry, openLayers, backsAsked, backsOwn>>
urlVars == <<pageEntries, layerVars, travelled>>
chosenVars == <<search, sortKey, inViewOnly>>
listViewVars == <<rows, chosenVars, pageNumber, bounds, typing, panning, renderedVars, urlVars>>

-----------------------------------------------------------------------------
(* Matching.                                                                 *)

Trimmed(text) ==
  LET inked == {i \in DOMAIN text : text[i] # " "} IN
  IF inked = {} THEN <<>> ELSE SubSeq(text, Min(inked), Max(inked))

charIndices(needle, haystack) ==
  LET found[n \in Nat] ==
        IF n = 0 THEN <<>>
        ELSE LET sofar == found[n - 1] IN
             IF Len(sofar) < Len(needle) /\ haystack[n] = needle[Len(sofar) + 1]
             THEN Append(sofar, n) ELSE sofar
  IN found[Len(haystack)]

spelling(needle, found) ==
  [matched |-> Len(found) = Len(needle), indices |-> IF Len(found) = Len(needle) THEN found ELSE <<>>]
fuzzyMatchIndices(query, text) == spelling(Trimmed(query), charIndices(Trimmed(query), text))

\* Where needle starts in haystack.
StartsIn(needle, haystack) ==
  {i \in DOMAIN haystack : i + Len(needle) - 1 <= Len(haystack) /\
                           SubSeq(haystack, i, i + Len(needle) - 1) = needle}

contiguousScore(haystack, needle, start) ==
  IF haystack = needle THEN Exact
  ELSE IF start = 1 THEN Prefix
  ELSE IF haystack[start - 1] \in {" ", "-"} THEN WordStart ELSE Substring

scatterScore(span) == IF Ceiling - span > 1 THEN Ceiling - span ELSE 1

NoMatch == [matched |-> FALSE, score |-> 0]
scored(text, needle, starts, fuzzy) ==
  IF needle = <<>> THEN [matched |-> TRUE, score |-> 0]
  ELSE IF starts # {} THEN [matched |-> TRUE, score |-> contiguousScore(text, needle, Min(starts))]
  ELSE IF ~fuzzy.matched THEN NoMatch
  ELSE [matched |-> TRUE, score |-> scatterScore(Last(fuzzy.indices) - fuzzy.indices[1] + 1)]
matchScore(query, text) ==
  scored(text, Trimmed(query), StartsIn(Trimmed(query), text), fuzzyMatchIndices(query, text))

(* A name, else a description below every name.                              *)
namesAbove(byName, byDescription) ==
  IF byName.matched THEN byName
  ELSE IF byDescription.matched THEN [byDescription EXCEPT !.score = @ - Penalty] ELSE NoMatch
relevance(tour, query) ==
  namesAbove(matchScore(query, tour.name), matchScore(query, tour.description))

(* The text as runs that are highlighted or not.                             *)
matchRuns(text, marked) ==
  LET runs[n \in Nat] ==
        IF n = 0 THEN <<>>
        ELSE LET sofar == runs[n - 1] IN
             IF sofar # <<>> /\ Last(sofar).matched = (n \in Range(marked))
             THEN [sofar EXCEPT ![Len(sofar)].text = Append(@, text[n])]
             ELSE Append(sofar, [text |-> <<text[n]>>, matched |-> n \in Range(marked)])
  IN runs[Len(text)]

-----------------------------------------------------------------------------
(* Order.                                                                    *)

sorters(key, a, b) ==
  CASE key = "date-asc" -> a.date < b.date
    [] key = "name-asc" -> a.rank < b.rank
    [] key = "name-desc" -> a.rank > b.rank
    [] key = "length-desc" -> a.distance > b.distance
    [] key = "length-asc" -> a.distance < b.distance
    [] OTHER -> a.date > b.date

(* By relevance, then by the sort, then as they came: the sort is stable.    *)
before(tours, key, found, i, j) ==
  \/ found[i].score > found[j].score
  \/ /\ found[i].score = found[j].score
     /\ \/ sorters(key, tours[i], tours[j])
        \/ ~sorters(key, tours[j], tours[i]) /\ i < j

(* A tour comes after as many as come before it.                             *)
inOrder(tours, key, found) ==
  LET hits == {i \in DOMAIN tours : found[i].matched}
      place(i) == Cardinality({j \in hits : before(tours, key, found, j, i)}) + 1 IN
  [k \in 1..Cardinality(hits) |-> tours[CHOOSE i \in hits : place(i) = k]]
visibleTours(tours, key, query) ==
  inOrder(tours, key, [i \in DOMAIN tours |-> relevance(tours[i], query)])

-----------------------------------------------------------------------------
(* The map's view.                                                           *)

extentOf(points) ==
  [south |-> Min({p[1] : p \in Range(points)}), north |-> Max({p[1] : p \in Range(points)}),
   west |-> Min({p[2] : p \in Range(points)}), east |-> Max({p[2] : p \in Range(points)})]

extentOutside(b, extent) ==
  \/ extent.north < b.south \/ extent.south > b.north
  \/ extent.east < b.west \/ extent.west > b.east

isInside(b, p) == p[1] >= b.south /\ p[1] <= b.north /\ p[2] >= b.west /\ p[2] <= b.east

toursInView(tours, b) ==
  Filtered(tours, {tour \in Range(tours) : /\ tour.points # <<>>
                                           /\ ~extentOutside(b, extentOf(tour.points))
                                           /\ \E p \in Range(tour.points) : isInside(b, p)})

-----------------------------------------------------------------------------
(* Paging.                                                                   *)

totalPages(length) == IF length = 0 THEN 1 ELSE (length + RowsPerPage - 1) \div RowsPerPage

clamped(p, length) ==
  IF p < 1 THEN 1 ELSE IF p > totalPages(length) THEN totalPages(length) ELSE p

paginate(items, p) ==
  LET start == (clamped(p, Len(items)) - 1) * RowsPerPage IN
  SubSeq(items, start + 1, Min({start + RowsPerPage, Len(items)}))

tourListView(tours, key, query, narrowed, b) ==
  visibleTours(IF narrowed THEN toursInView(tours, b) ELSE tours, key, query)

(* renderTourList; without a match the pager is hidden, the page number kept. *)
showPage(visible, p) ==
  /\ shownRows' = paginate(visible, p)
  /\ pageCount' = IF visible = <<>> THEN 0 ELSE totalPages(Len(visible))
  /\ pageNumber' = IF visible = <<>> THEN p ELSE clamped(p, Len(visible))
  /\ shownPage' = IF visible = <<>> THEN shownPage ELSE clamped(p, Len(visible))
Render(tours, key, query, narrowed, b, p) ==
  showPage(tourListView(tours, key, query, narrowed, b), p)

-----------------------------------------------------------------------------
(* The URL.                                                                  *)

(* What is the default is left out.                                          *)
buildAppUrl(key, query, narrowed) ==
  [sort |-> IF key = DefaultSort THEN "" ELSE key, q |-> query, inView |-> narrowed]

(* readInitialUrl over a fresh state.                                        *)
parseAppUrl(u) ==
  [sort |-> IF u.sort = "" THEN DefaultSort ELSE u.sort, search |-> u.q, inView |-> u.inView]

(* location.search, of the entry that the page is at.                        *)
listUrl == pageEntries[atEntry].url

(* syncUrl: an entry is given the URL of the view.                           *)
Synced(entry, key, query, narrowed) ==
  /\ pageEntries' = [pageEntries EXCEPT ![entry].url = buildAppUrl(key, query, narrowed)]
  /\ travelled' = FALSE

-----------------------------------------------------------------------------
(* The list.                                                                 *)

(* The tours have loaded, under a URL that was opened.                       *)
ListViewInit ==
  /\ rows \in UNION {[1..n -> Catalogue] : n \in 0..ListLength} /\ IsInjective(rows)
  /\ search = <<>> /\ sortKey = DefaultSort /\ inViewOnly = FALSE /\ bounds \in Views
  /\ typing = FALSE /\ panning = FALSE /\ travelled = FALSE
  /\ pageNumber = 1 /\ shownPage = 1 /\ shownRows = paginate(visibleTours(rows, DefaultSort, <<>>), 1)
  /\ pageCount = IF rows = <<>> THEN 0 ELSE totalPages(Len(rows))
  /\ pageEntries = <<[url |-> buildAppUrl(DefaultSort, <<>>, FALSE), depth |-> 0]>> /\ atEntry = 1
  /\ openLayers = <<>> /\ backsAsked = 0 /\ backsOwn = 0

(* The list and the URL follow once typing pauses, over whatever is open by  *)
(* then.                                                                     *)
TypeSearch(query) ==
  /\ search' = query /\ pageNumber' = 1 /\ typing' = TRUE
  /\ UNCHANGED <<rows, sortKey, inViewOnly, bounds, panning, renderedVars, urlVars>>

renderSearchResults ==
  /\ typing /\ typing' = FALSE /\ Synced(atEntry, sortKey, search, inViewOnly)
  /\ Render(rows, sortKey, search, inViewOnly, bounds, pageNumber)
  /\ UNCHANGED <<rows, chosenVars, bounds, panning, layerVars>>

applyListFilter(query, key, narrowed) ==
  /\ search' = query /\ sortKey' = key /\ inViewOnly' = narrowed
  /\ Synced(atEntry, key, query, narrowed)
  /\ Render(rows, key, query, narrowed, bounds, 1)
  /\ UNCHANGED <<rows, bounds, typing, panning, layerVars>>

ClearSearch == search # <<>> /\ applyListFilter(<<>>, sortKey, inViewOnly)
ChooseSort(key) == key # sortKey /\ applyListFilter(search, key, inViewOnly)
NarrowToView == applyListFilter(search, sortKey, ~inViewOnly)

(* The pager's buttons are as the last render left them; the page they count *)
(* from is the one of now.                                                   *)
TurnPage(step) ==
  /\ shownPage + step \in 1..pageCount
  /\ Render(rows, sortKey, search, inViewOnly, bounds, pageNumber + step)
  /\ UNCHANGED <<rows, chosenVars, bounds, typing, panning, urlVars>>

(* Panning and zooming; the list follows once the map rests.                 *)
MoveMap(b) ==
  /\ b # bounds /\ bounds' = b /\ panning' = TRUE
  /\ UNCHANGED <<rows, chosenVars, pageNumber, typing, renderedVars, urlVars>>

renderInViewList ==
  /\ panning /\ panning' = FALSE
  /\ IF inViewOnly THEN Render(rows, sortKey, search, inViewOnly, bounds, pageNumber)
     ELSE UNCHANGED <<pageNumber, renderedVars>>
  /\ UNCHANGED <<rows, chosenVars, bounds, typing, urlVars>>

(* TOURS_CHANGED: a tour is gone.                                            *)
DropTour(i) ==
  /\ i \in DOMAIN rows /\ rows' = RemoveAt(rows, i)
  /\ Render(rows', sortKey, search, inViewOnly, bounds, pageNumber)
  /\ UNCHANGED <<chosenVars, bounds, typing, panning, urlVars>>

-----------------------------------------------------------------------------
(* The history.                                                              *)

(* pushLayer: the new entry has the view as it is, typed or not.             *)
OpenLayer(layer) ==
  /\ atEntry < UrlEntries /\ (layer = "panel" => ~Contains(openLayers, "panel"))
  /\ openLayers' = Append(openLayers, layer) /\ atEntry' = atEntry + 1 /\ travelled' = FALSE
  /\ pageEntries' = Append(SubSeq(pageEntries, 1, atEntry),
                           [url |-> buildAppUrl(sortKey, search, inViewOnly), depth |-> Len(openLayers')])
  /\ UNCHANGED <<rows, chosenVars, pageNumber, bounds, typing, panning, renderedVars, backsAsked, backsOwn>>

(* releaseLayer, of the layer on top.                                        *)
Release ==
  /\ backsAsked < UrlEntries /\ openLayers' = Front(openLayers)
  /\ backsAsked' = backsAsked + 1 /\ backsOwn' = backsOwn + 1
OnTopIs(layer) == openLayers # <<>> /\ Last(openLayers) = layer

CloseDialog ==
  /\ OnTopIs("dialog") /\ Release
  /\ UNCHANGED <<rows, chosenVars, pageNumber, bounds, typing, panning, renderedVars, pageEntries, atEntry, travelled>>

(* closeDetailPanel, of the panel or of "Show all tours" without one.        *)
PanelCloses ==
  /\ IF OnTopIs("panel") THEN Release ELSE UNCHANGED <<openLayers, backsAsked, backsOwn>>
  /\ Synced(atEntry, sortKey, search, inViewOnly)
  /\ UNCHANGED <<rows, chosenVars, pageNumber, bounds, typing, panning, renderedVars, atEntry>>

(* popstate: the page's own Back gives the entry it lands on the view;       *)
(* another closes the layers above the entry, of which the panel does.       *)
Kept(depth) == SubSeq(openLayers, 1, IF depth < Len(openLayers) THEN depth ELSE Len(openLayers))
UrlLeft == travelled' = TRUE /\ UNCHANGED pageEntries
\* Mutant: the entry that Back lands on keeps the URL from before the layer closed.
OwnBackLandsStale(entry) == UNCHANGED <<pageEntries, travelled>>
OwnBackLands(entry) == Synced(entry, sortKey, search, inViewOnly)
Lands(entry) ==
  LET kept == Kept(pageEntries[entry].depth) IN
  /\ atEntry' = entry
  /\ IF backsOwn > 0
       THEN backsOwn' = backsOwn - 1 /\ UNCHANGED openLayers /\ OwnBackLands(entry)
       ELSE /\ openLayers' = kept /\ UNCHANGED backsOwn
            /\ IF Contains(openLayers, "panel") /\ ~Contains(kept, "panel")
                 THEN Synced(entry, sortKey, search, inViewOnly) ELSE UrlLeft
  /\ UNCHANGED <<rows, chosenVars, pageNumber, bounds, typing, panning, renderedVars>>

BackComes ==
  /\ backsAsked > 0 /\ backsAsked' = backsAsked - 1 /\ atEntry > 1 /\ Lands(atEntry - 1)
(* The rider goes back or forward by one entry, beside the page's Backs.     *)
RiderTravels(step) ==
  /\ atEntry + step \in DOMAIN pageEntries /\ Lands(atEntry + step) /\ UNCHANGED backsAsked

(* The page is opened anew at its URL: a reload, or the rider left it and is *)
(* back.                                                                     *)
ReopenPage ==
  LET from == parseAppUrl(listUrl) IN
  /\ search' = from.search /\ sortKey' = from.sort /\ inViewOnly' = from.inView
  /\ typing' = FALSE /\ panning' = FALSE /\ travelled' = FALSE
  /\ Render(rows, from.sort, from.search, from.inView, bounds, 1)
  /\ pageEntries' = [pageEntries EXCEPT ![atEntry].depth = 0]
  /\ openLayers' = <<>> /\ backsOwn' = 0 /\ backsAsked' \in {0, backsAsked}
  /\ UNCHANGED <<rows, bounds, atEntry>>

ListViewNext ==
  \/ \E query \in Queries : TypeSearch(query)
  \/ \E key \in SortKeys : ChooseSort(key)
  \/ \E step \in {-1, 1} : TurnPage(step) \/ RiderTravels(step)
  \/ \E b \in Views : MoveMap(b)
  \/ \E i \in DOMAIN rows : DropTour(i)
  \/ \E layer \in {"panel", "dialog"} : OpenLayer(layer)
  \/ renderSearchResults \/ ClearSearch \/ NarrowToView \/ renderInViewList \/ ReopenPage
  \/ CloseDialog \/ PanelCloses \/ BackComes

-----------------------------------------------------------------------------

(* The list's state is of its type: the type invariant of this module.        *)
ListViewTypeOK ==
  /\ Range(rows) \subseteq Catalogue /\ search \in Queries \cup {<<>>}
  /\ sortKey \in SortKeys /\ bounds \in Views /\ \A i \in DOMAIN pageEntries : pageEntries[i].url.sort # DefaultSort
  /\ pageCount <= ListLength /\ pageNumber \in 0..Max({1, ListLength})
  /\ atEntry \in DOMAIN pageEntries /\ Range(openLayers) \subseteq {"panel", "dialog"}
  /\ {backsAsked, backsOwn} \subseteq 0..UrlEntries

(* The lists of a list, one after another.                                    *)
Joined(lists) ==
  LET joined[n \in 0..Len(lists)] == IF n = 0 THEN <<>> ELSE joined[n - 1] \o lists[n]
  IN joined[Len(lists)]

(* What matches is what a reader would find: the query's characters occur in *)
(* the name in that order, what is highlighted spells the query, and no      *)
(* character of the name is lost between highlighted and plain runs (tours.js, *)
(* fuzzyMatchIndices, matchRuns).                                            *)
HighlightSpells ==
  \A i \in DOMAIN rows :
    LET needle == Trimmed(search)
        name == rows[i].name
        found == fuzzyMatchIndices(search, name)
        runs == matchRuns(name, found.indices) IN
    /\ found.matched <=> \E f \in [DOMAIN needle -> DOMAIN name] :
                            \A m, n \in DOMAIN needle : /\ name[f[n]] = needle[n]
                                                        /\ m < n => f[m] < f[n]
    /\ Joined([k \in DOMAIN runs |-> runs[k].text]) = name
    /\ found.matched => Joined([k \in DOMAIN runs |-> IF runs[k].matched THEN runs[k].text ELSE <<>>]) = needle

(* A hit in a name, however weak, stands above every hit in a description    *)
(* (tours.js, visibleTours).                                                 *)
NamesFirst ==
  LET visible == visibleTours(rows, sortKey, search)
      ByName(i) == matchScore(search, visible[i].name).matched IN
  \A i, j \in DOMAIN visible : i < j /\ ByName(j) => ByName(i)

(* The extent is only a shortcut: a tour with a point in view is never       *)
(* dropped by it (tours.js, toursInView).                                    *)
ExtentExact ==
  \A i \in DOMAIN rows :
    (\E p \in Range(rows[i].points) : isInside(bounds, p)) <=> rows[i] \in Range(toursInView(rows, bounds))

(* Unless a render is to come, the rows on screen are a page of what the     *)
(* search, the sort and the map's view now select, and not an empty page     *)
(* while there is something to show: not after a tour is gone, the map has   *)
(* moved or the result has shrunk under a stale page number (tourList.js).   *)
ShowsTheView ==
  ~typing /\ ~panning =>
    LET visible == tourListView(rows, sortKey, search, inViewOnly, bounds) IN
    /\ shownRows = paginate(visible, pageNumber) /\ (visible # <<>> => shownRows # <<>>)

(* The URL holds the view, so that the page opened anew shows the same       *)
(* search, sort and filter: after layers opened and closed by buttons, when  *)
(* the page's own Backs arrive late, between the rider's or in other         *)
(* entries ("The entry Back lands on still shows the URL from before the     *)
(* layer closed", router.js:62).  Not claimed while the rider is typing,     *)
(* nor after a Back or Forward of the rider that closes no panel: nothing    *)
(* gives the entry it lands on the view (router.js:66) before the next sync. *)
UrlKeepsView ==
  ~typing /\ ~travelled =>
    parseAppUrl(listUrl) = [sort |-> sortKey, search |-> search, inView |-> inViewOnly]

(* The list is what the search, the sort, the filter and the map select, in  *)
(* that order, and the URL brings it back (tours.js, tourList.js, url.js).   *)
ListSound ==
  ListViewTypeOK /\ HighlightSpells /\ NamesFirst /\ ExtentExact /\ ShowsTheView /\ UrlKeepsView

=============================================================================
