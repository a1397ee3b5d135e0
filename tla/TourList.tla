------------------------------ MODULE TourList ------------------------------
(* The rider's list of tours in the page: ui/sidebar.js, ui/tourRemoval.js,  *)
(* ui/undoableAction.js, ui/tourPanel.js, ui/selectMode.js, with the pending *)
(* actions and the bounded concurrency of lib/.  Several loads of the list   *)
(* may overlap, each an answer read earlier than it is applied; a removal    *)
(* leaves the list at once and the server only after its Undo window.        *)
EXTENDS Naturals, FiniteSets, Sequences, SequencesExt, Filter

CONSTANTS
  Tours,              \* the tours the rider has when the page opens
  Loads, Removals,    \* bounds: how often the list is loaded, how many removals
  NoTour,             \* null
  DeleteConcurrency   \* DELETE_CONCURRENCY

ASSUME TourListAssumption ==
  /\ NoTour \notin Tours /\ IsFiniteSet(Tours)
  /\ Loads \in Nat \ {0} /\ Removals \in Nat /\ DeleteConcurrency \in Nat \ {0}

VARIABLES
  stored,       \* the tours the server holds
  tours,        \* state.tours, by id; a tour twice in the list is there twice
  load,         \* each fetchTours: its step, what the server read, what it skips
  loading, loadFailed,    \* state.loadingTours, state.toursLoadFailed
  link,         \* the deep-linked tour, until a load consumes it
  selected, panel, gallery, details,  \* the panel, what its gallery shows, details asked for
  selectMode, checked,    \* state.selectMode, state.selectedIds
  asked,        \* the tours a confirm dialog is open for, <<>> when none is
  batch,        \* what each removal took out of the list
  pending, timers, undone, commits,   \* pendingActions: entries, their timers, how they ended
  request,      \* the DELETE of each tour of each removal
  page          \* "shown", "hidden", or "closed"

listVars == <<tours, load, loading, loadFailed, link>>
panelVars == <<selected, panel, gallery, details>>
selectVars == <<selectMode, checked>>
undoVars == <<batch, pending, timers, undone, commits, request>>
tourListVars == <<stored, listVars, panelVars, selectVars, asked, undoVars, page>>

Ids(seq) == ToSet(seq)
Without(seq, ids) == Filtered(seq, Tours \ ids)
ListOrder == SetToSeq(Tours)

(* pendingKeys(): what a refetch hides.                                      *)
PendingTours == UNION {Ids(batch[r]) : r \in pending}

(* sidebarViewState: the rows are there only once a load has settled.        *)
HasTours == ~loading /\ ~loadFailed /\ tours # <<>>
CanClick == page = "shown" /\ asked = <<>>

InFlight(r) == {i \in DOMAIN request[r] : request[r][i] \in {"sent", "handled"}}
Settled(r) == \A i \in DOMAIN request[r] : request[r][i] \in {"gone", "failed"}

TourListInit ==
  /\ stored = Tours /\ tours = <<>>
  /\ load = [l \in 1..Loads |->
       [step |-> IF l = 1 THEN "asked" ELSE "none", read |-> {}, skip |-> {}]]
  /\ loading = TRUE /\ loadFailed = FALSE /\ link \in Tours \cup {NoTour}
  /\ selected = NoTour /\ panel = FALSE /\ gallery = NoTour /\ details = {}
  /\ selectMode = FALSE /\ checked = {} /\ asked = <<>>
  /\ batch = [r \in 1..Removals |-> <<>>] /\ request = [r \in 1..Removals |-> <<>>]
  /\ pending = {} /\ timers = {} /\ undone = {} /\ commits = [r \in 1..Removals |-> 0]
  /\ page = "shown"

-----------------------------------------------------------------------------
(* Loading the list.                                                         *)

(* The retry buttons, and uploadModal.js once an upload is stored.           *)
LoadTours(l) ==
  /\ page = "shown" /\ load[l].step = "none"
  /\ \A k \in 1..(l - 1) : load[k].step # "none"    \* the slots are taken in turn
  /\ load' = [load EXCEPT ![l].step = "asked"]
  /\ loadFailed' = FALSE
  /\ UNCHANGED <<stored, tours, loading, link, panelVars, selectVars, asked, undoVars, page>>

ServerReads(l) ==
  /\ load[l].step = "asked"
  /\ load' = [load EXCEPT ![l] = [@ EXCEPT !.step = "answered", !.read = stored]]
  /\ UNCHANGED <<stored, tours, loading, loadFailed, link, panelVars, selectVars, asked,
                 undoVars, page>>

(* The pending keys are read once the headers are in, before the body is.    *)
HeadersArrive(l) ==
  /\ page # "closed" /\ load[l].step = "answered"
  /\ load' = [load EXCEPT ![l] = [@ EXCEPT !.step = "body", !.skip = PendingTours]]
  /\ UNCHANGED <<stored, tours, loading, loadFailed, link, panelVars, selectVars, asked,
                 undoVars, page>>

BodyArrives(l) ==
  /\ page # "closed" /\ load[l].step = "body"
  /\ tours' = Filtered(ListOrder, load[l].read \ load[l].skip)
  /\ load' = [load EXCEPT ![l] = [@ EXCEPT !.step = "listed", !.read = {}, !.skip = {}]]
  /\ loading' = FALSE
  /\ UNCHANGED <<stored, loadFailed, link, panelVars, selectVars, asked, undoVars, page>>

(* The catch of fetchTours: no network, a failure answer, an unreadable body. *)
LoadFails(l) ==
  /\ page # "closed" /\ load[l].step \in {"asked", "answered", "body"}
  /\ tours' = <<>> /\ loadFailed' = TRUE /\ loading' = FALSE
  /\ load' = [load EXCEPT ![l] = [@ EXCEPT !.step = "listed", !.read = {}, !.skip = {}]]
  /\ UNCHANGED <<stored, link, panelVars, selectVars, asked, undoVars, page>>

(* selectTour up to its await: the panel opens on an empty gallery.          *)
Select(t) ==
  /\ selected' = t /\ panel' = TRUE /\ gallery' = NoTour
  /\ details' = details \cup {t}


(* openDeepLinkedTour: the link is consumed even when its tour is unknown.   *)
OpenDeepLink(l) ==
  /\ page # "closed" /\ load[l].step = "listed"
  /\ load' = [load EXCEPT ![l].step = "done"]
  /\ link' = NoTour
  /\ IF link \in Ids(tours) THEN Select(link) ELSE UNCHANGED panelVars
  /\ UNCHANGED <<stored, tours, loading, loadFailed, selectVars, asked, undoVars, page>>

-----------------------------------------------------------------------------
(* The rows, the panel and the selection.                                    *)

ClosePanel == selected' = NoTour /\ panel' = FALSE /\ UNCHANGED <<gallery, details>>

Toggled(t) == IF t \in checked THEN checked \ {t} ELSE checked \cup {t}

(* activateRow: toggles in select mode, else opens the tour or closes it.    *)
ActivateRow(t) ==
  /\ CanClick /\ HasTours /\ t \in Ids(tours)
  /\ \/ /\ selectMode
        /\ checked' = Toggled(t)
        /\ UNCHANGED <<selectMode, panelVars>>
     \/ ~selectMode /\ selected = t /\ ClosePanel /\ UNCHANGED selectVars
     \/ ~selectMode /\ selected # t /\ Select(t) /\ UNCHANGED selectVars
  /\ UNCHANGED <<stored, listVars, asked, undoVars, page>>

(* The close button and "Show all tours".                                    *)
CloseDetailPanel ==
  /\ CanClick /\ panel /\ ClosePanel
  /\ UNCHANGED <<stored, listVars, selectVars, asked, undoVars, page>>


(* focusTourOnMap and its continuation: a late detail is checked against the *)
(* selection before the gallery and the map show it.                         *)
DetailArrives(t) ==
  /\ page # "closed" /\ t \in details
  /\ details' = details \ {t}
  /\ gallery' = IF selected = t THEN t ELSE gallery
  /\ UNCHANGED <<stored, listVars, selected, panel, selectVars, asked, undoVars, page>>

(* The button, or a long press, which checks its row at once.                *)
EnterSelectMode ==
  /\ CanClick /\ HasTours /\ ~selectMode /\ selectMode' = TRUE
  /\ \/ UNCHANGED checked
     \/ \E t \in Ids(tours) : checked' = Toggled(t)
  /\ UNCHANGED <<stored, listVars, panelVars, asked, undoVars, page>>

ExitSelectMode ==
  /\ CanClick /\ selectMode
  /\ selectMode' = FALSE /\ checked' = {}
  /\ UNCHANGED <<stored, listVars, panelVars, asked, undoVars, page>>

-----------------------------------------------------------------------------
(* Removals.                                                                 *)

(* deleteTourById, deleteSelectedTour (swipe, panel button) and              *)
(* deleteSelectedTours: the tours are taken before the dialog is answered.   *)
AskRemoval ==
  /\ CanClick /\ \E r \in 1..Removals : batch[r] = <<>>
  /\ \/ \E t \in Ids(tours) : ((HasTours /\ ~selectMode) \/ t = selected) /\ asked' = <<t>>
     \/ /\ HasTours /\ selectMode /\ checked # {}
        /\ asked' = Filtered(tours, checked)
  /\ UNCHANGED <<stored, listVars, panelVars, selectVars, undoVars, page>>

CancelRemoval ==
  /\ page = "shown" /\ asked # <<>> /\ asked' = <<>>
  /\ UNCHANGED <<stored, listVars, panelVars, selectVars, undoVars, page>>

(* scheduleTourRemoval and schedule: out of the list now, committed later.   *)
ConfirmRemoval(r) ==
  LET ids == Ids(asked) IN
  /\ page = "shown" /\ asked # <<>>
  /\ batch[r] = <<>> /\ \A q \in 1..(r - 1) : batch[q] # <<>>
  /\ tours' = Without(tours, ids)
  /\ checked' = checked \ ids /\ selectMode' = FALSE
  /\ IF selected \in ids THEN ClosePanel ELSE UNCHANGED panelVars
  /\ batch' = [batch EXCEPT ![r] = asked] /\ asked' = <<>>
  /\ pending' = pending \cup {r} /\ timers' = timers \cup {r}
  /\ UNCHANGED <<stored, load, loading, loadFailed, link, undone, commits, request, page>>

(* commitNow of each entry: out of the set, timer cleared, DELETEs queued.   *)
Commit(entries) ==
  /\ pending' = pending \ entries /\ timers' = timers \ entries
  /\ commits' = [r \in DOMAIN commits |-> commits[r] + (IF r \in entries THEN 1 ELSE 0)]
  /\ request' = [r \in DOMAIN request |->
       IF r \in entries THEN [i \in DOMAIN batch[r] |-> "queued"] ELSE request[r]]
  /\ UNCHANGED <<batch, undone>>

TimerFires(r) ==
  /\ page # "closed" /\ r \in timers /\ Commit({r})
  /\ UNCHANGED <<stored, listVars, panelVars, selectVars, asked, page>>

\* Mutant: the timer of what is undone runs on.
UndoKeepsTimer(r) ==
  /\ CanClick /\ r \in pending
  /\ pending' = pending \ {r} /\ undone' = undone \cup {r}
  /\ tours' = tours \o batch[r]
  /\ UNCHANGED <<stored, load, loading, loadFailed, link, panelVars, selectVars, asked, batch,
                 timers, commits, request, page>>

(* The toast's Undo, which stops a commit only while the entry is pending.   *)
Undo(r) ==
  /\ CanClick /\ r \in pending
  /\ pending' = pending \ {r} /\ timers' = timers \ {r} /\ undone' = undone \cup {r}
  /\ tours' = tours \o batch[r]
  /\ UNCHANGED <<stored, load, loading, loadFailed, link, panelVars, selectVars, asked, batch,
                 commits, request, page>>


(* visibilitychange and pagehide flush; a tab that is closed runs no more    *)
(* code: requests already sent go on (keepalive), those that wait for a      *)
(* token, or for their turn, are lost with it.                               *)
Hide ==
  /\ page = "shown" /\ page' = "hidden" /\ Commit(pending)
  /\ UNCHANGED <<stored, listVars, panelVars, selectVars, asked>>

Show ==
  /\ page = "hidden" /\ page' = "shown"
  /\ UNCHANGED <<stored, listVars, panelVars, selectVars, asked, undoVars>>

CloseTab ==
  /\ page = "hidden" /\ page' = "closed"
  /\ UNCHANGED <<stored, listVars, panelVars, selectVars, asked, undoVars>>

\* Mutant: the workers stop at the first failure, as Promise.all would.
SendDeleteUnlessFailed(r) ==
  /\ page # "closed" /\ Cardinality(InFlight(r)) < DeleteConcurrency
  /\ "failed" \notin Range(request[r])
  /\ \E i \in DOMAIN request[r] :
       /\ request[r][i] = "queued" /\ \A j \in 1..(i - 1) : request[r][j] # "queued"
       /\ request' = [request EXCEPT ![r][i] = "sent"]
  /\ UNCHANGED <<stored, listVars, panelVars, selectVars, asked, batch, pending, timers, undone,
                 commits, page>>

(* runWithConcurrency starts the next item as soon as fewer than the limit run. *)
SendDelete(r) ==
  /\ page # "closed" /\ Cardinality(InFlight(r)) < DeleteConcurrency
  /\ \E i \in DOMAIN request[r] :
       /\ request[r][i] = "queued" /\ \A j \in 1..(i - 1) : request[r][j] # "queued"
       /\ request' = [request EXCEPT ![r][i] = "sent"]
  /\ UNCHANGED <<stored, listVars, panelVars, selectVars, asked, batch, pending, timers, undone,
                 commits, page>>

ServerDeletes(r) ==
  /\ \E i \in DOMAIN request[r] :
       /\ request[r][i] = "sent"
       /\ request' = [request EXCEPT ![r][i] = "handled"]
       /\ stored' = stored \ {batch[r][i]}
  /\ UNCHANGED <<listVars, panelVars, selectVars, asked, batch, pending, timers, undone,
                 commits, page>>

(* isDeleted: 204 and 404 both count; a lost answer is a failure either way. *)
DeleteAnswered(r) ==
  /\ page # "closed"
  /\ \E i \in InFlight(r) :
       \/ request[r][i] = "handled" /\ request' = [request EXCEPT ![r][i] = "gone"]
       \/ request' = [request EXCEPT ![r][i] = "failed"]
  /\ UNCHANGED <<stored, listVars, panelVars, selectVars, asked, batch, pending, timers, undone,
                 commits, page>>

Failures(r) == {batch[r][i] : i \in {k \in DOMAIN request[r] : request[r][k] = "failed"}}

(* deleteOnServer once every DELETE has settled: the failures come back.     *)
BatchSettles(r) ==
  /\ page # "closed" /\ request[r] # <<>> /\ Settled(r)
  /\ tours' = tours \o Filtered(batch[r], Failures(r))
  /\ request' = [request EXCEPT ![r] = <<>>]
  /\ UNCHANGED <<stored, load, loading, loadFailed, link, panelVars, selectVars, asked, batch,
                 pending, timers, undone, commits, page>>

OtherTabDeletes(t) ==
  /\ t \in stored /\ stored' = stored \ {t}
  /\ UNCHANGED <<listVars, panelVars, selectVars, asked, undoVars, page>>

Loading == \E l \in 1..Loads :
  LoadTours(l) \/ ServerReads(l) \/ HeadersArrive(l) \/ BodyArrives(l) \/ LoadFails(l)
    \/ OpenDeepLink(l)
Removing == \E r \in 1..Removals :
  ConfirmRemoval(r) \/ TimerFires(r) \/ Undo(r) \/ SendDelete(r) \/ ServerDeletes(r)
    \/ DeleteAnswered(r) \/ BatchSettles(r)
Browsing == \E t \in Tours : ActivateRow(t) \/ DetailArrives(t) \/ OtherTabDeletes(t)

TourListNext ==
  \/ Loading \/ Removing \/ Browsing
  \/ CloseDetailPanel \/ EnterSelectMode \/ ExitSelectMode \/ AskRemoval \/ CancelRemoval
  \/ Hide \/ Show \/ CloseTab

(* A timer runs out and an answer, or its failure, comes while the tab is     *)
(* open.                                                                     *)
TourListFairness == \A r \in 1..Removals :
  /\ WF_tourListVars(TimerFires(r)) /\ WF_tourListVars(SendDelete(r))
  /\ WF_tourListVars(ServerDeletes(r)) /\ WF_tourListVars(DeleteAnswered(r))
  /\ WF_tourListVars(BatchSettles(r))

TourListSpec == TourListInit /\ [][TourListNext]_tourListVars
TourListFairSpec == TourListSpec /\ TourListFairness

-----------------------------------------------------------------------------
(* Properties.                                                               *)

(* The page's state is of its type: the type invariant of this module.       *)
TourListTypeOK ==
  /\ stored \subseteq Tours /\ tours \in Seq(Tours) /\ asked \in Seq(Tours)
  /\ load \in [1..Loads -> [step : {"none", "asked", "answered", "body", "listed", "done"},
                            read : SUBSET Tours, skip : SUBSET Tours]]
  /\ {loading, loadFailed, panel, selectMode} \subseteq BOOLEAN
  /\ {link, selected, gallery} \subseteq Tours \cup {NoTour}
  /\ details \subseteq Tours /\ checked \subseteq Tours
  /\ {pending, timers, undone} \subseteq SUBSET (1..Removals)
  /\ commits \in [1..Removals -> Nat] /\ page \in {"shown", "hidden", "closed"}
  /\ batch \in [1..Removals -> Seq(Tours)]
  /\ request \in [1..Removals -> Seq({"queued", "sent", "handled", "gone", "failed"})]

(* An entry ends once (pendingActions.js): its DELETEs are sent, by its timer *)
(* or by a flush, or it is undone, whichever comes first, and never twice.   *)
EndsOnce ==
  \A r \in 1..Removals : commits[r] + (IF r \in undone THEN 1 ELSE 0) <= 1

(* "A tour deleted within the Undo window is gone for the rider, whatever the  *)
(* server still says" (sidebar.js:39): no refetch brings it back meanwhile.  *)
PendingStaysHidden == Ids(tours) \cap PendingTours = {}

(* A page in the background holds no removal back in a timer that dies with  *)
(* it (undoableAction.js).  Its DELETEs may still wait for a token or their  *)
(* turn, and are lost if the tab closes then.                                *)
HiddenHoldsNothing == page # "shown" => pending = {} /\ timers = {}

(* However late a detail arrives, the open panel shows the photos of the     *)
(* selected tour or none yet (tourPanel.js, focusTourOnMap).                 *)
GalleryIsSelected == panel => gallery \in {NoTour, selected}

(* When the DELETEs of a removal have settled, each of its tours is gone from *)
(* the server or in the list again (tourRemoval.js, deleteOnServer).         *)
SettledIsGoneOrBack ==
  [][\A r \in 1..Removals : request[r] # <<>> /\ request'[r] = <<>> =>
       Ids(batch[r]) \cap stored \subseteq Ids(tours')]_tourListVars

(* A tour the server holds leaves the list only by a removal the rider       *)
(* confirmed, with a load that failed, or by a load told to skip it: that    *)
(* one takes the tour away also when Undo or a failed DELETE has put it back *)
(* since its headers came (sidebar.js, fetchTours; tourRemoval.js).          *)
SkippedBy(l, t) == load[l].step = "body" /\ load'[l].step = "listed" /\ t \in load[l].skip
LeavesForAReason ==
  [][\A t \in (Ids(tours) \ Ids(tours')) \cap stored :
       t \in Ids(asked) \/ loadFailed' \/ \E l \in 1..Loads : SkippedBy(l, t)]_tourListVars

(* Every confirmed removal ends while the tab is open: undone, or each DELETE *)
(* answered and the failures back in the list (tourRemoval.js, undoableAction.js). *)
RemovalEnds ==
  []<>(page = "closed" \/ \A r \in 1..Removals :
         batch[r] = <<>> \/ r \in undone \/ (commits[r] = 1 /\ request[r] = <<>>))

(* A removal ends once and takes nothing with it, whatever the panel, other  *)
(* removals, refetches and the tab do meanwhile (pendingActions.js,          *)
(* tourRemoval.js).                                                          *)
RemovalsSound == TourListTypeOK /\ EndsOnce /\ HiddenHoldsNothing /\ GalleryIsSelected

=============================================================================
