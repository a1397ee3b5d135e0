------------------------------- MODULE Layers -------------------------------
(* What Back, Escape and the buttons close: ui/router.js pairs each layer, a  *)
(* dialog of ui/modal.js, the tour's panel or the phone's map, with an entry  *)
(* of the browser's history, and goes back itself when a layer is closed      *)
(* otherwise.  The browser goes back later, in the order it was asked to.     *)
EXTENDS Naturals, Sequences, SequencesExt, Filter

CONSTANTS MaxEntries, MaxPresses   \* bounds: entries of the history, traversals under way

ASSUME LayersAssumption == {MaxEntries, MaxPresses} \subseteq Nat \ {0}

VARIABLES
  layerStack,   \* the layers, by what closes them
  entries, here,      \* external: the depth in each history entry, the entry the page is at
  traversals,   \* external: Backs and Forwards the browser has yet to do
  ownBacks,     \* Backs of the page whose popstate closes nothing
  openModals, shown,  \* the open dialogs, topmost last; what is visible of dialogs, panel, map
  asker,        \* who awaits the confirm dialog
  signedIn      \* state.user is there

historyVars == <<entries, here, traversals>>
layersVars == <<layerStack, historyVars, ownBacks, openModals, shown, asker, signedIn>>

Modals == {"stats", "profile", "delete", "edit", "lightbox", "confirm"}

LayersInit ==
  /\ layerStack = <<>> /\ entries = <<0>> /\ here = 1 /\ traversals = <<>> /\ ownBacks = 0
  /\ openModals = <<>> /\ shown = {} /\ asker = "none" /\ signedIn = TRUE

-----------------------------------------------------------------------------
(* The router.  r is the state of a handler under way, from its first call.  *)

Router == [stack |-> layerStack, own |-> ownBacks, asked |-> traversals]
Routes(r) ==
  /\ layerStack' = r.stack /\ ownBacks' = r.own /\ traversals' = r.asked
  /\ UNCHANGED <<entries, here>>

\* Mutant: a layer that is not on top takes an entry, too.
ReleasedAnyway(r, layer) ==
  IF Contains(r.stack, layer)
    THEN [stack |-> IF Last(r.stack) = layer THEN Front(r.stack) ELSE r.stack,
          own |-> r.own + 1, asked |-> Append(r.asked, "back")]
    ELSE r

(* releaseLayer: a layer that is not on top keeps its entry.                 *)
Released(r, layer) ==
  IF r.stack # <<>> /\ Last(r.stack) = layer
    THEN [stack |-> Front(r.stack), own |-> r.own + 1, asked |-> Append(r.asked, "back")]
    ELSE r

(* pushLayer: entries the rider could go forward to are gone.                *)
Pushes(r, layer) ==
  /\ here < MaxEntries
  /\ layerStack' = Append(r.stack, layer) /\ ownBacks' = r.own /\ traversals' = r.asked
  /\ entries' = Append(SubSeq(entries, 1, here), Len(layerStack')) /\ here' = here + 1

-----------------------------------------------------------------------------
(* Opening.  A dialog covers the page: what is below it cannot be used.      *)

Top == IF openModals = <<>> THEN "page" ELSE Last(openModals)
Below(modal) ==
  CASE modal = "delete" -> Top = "profile"
    [] modal = "lightbox" -> Top = "page" /\ "panel" \in shown
    [] modal = "edit" -> Top = "page" /\ "panel" \in shown
    [] modal = "confirm" -> Top = "lightbox" \/ Top = "page"
    [] OTHER -> Top = "page"

OnTop(modal) == Append(openModals, modal)

OpenModal(modal) ==
  /\ signedIn /\ Below(modal) /\ ~Contains(openModals, modal)
  /\ openModals' = OnTop(modal) /\ shown' = shown \cup {modal}
  /\ Pushes(Router, modal)
  /\ asker' = IF modal = "confirm" THEN Top ELSE asker
  /\ UNCHANGED signedIn

(* selectTour: a click, a deep link, an upload's end or the longest tour of  *)
(* the stats dialog, which closes first; only a panel that was hidden is a   *)
(* new layer.  The map expanded on a phone covers the list.                  *)
SelectLayer(r, hidden) ==
  /\ signedIn /\ shown' = (shown \ hidden) \cup {"panel"}
  /\ IF "panel" \in shown THEN Routes(r) ELSE Pushes(r, "panel")
  /\ UNCHANGED <<asker, signedIn>>

ShowTour == SelectLayer(Router, {}) /\ UNCHANGED openModals
ShowLongestTour ==
  /\ Top = "stats" /\ SelectLayer(Released(Router, "stats"), {"stats"})
  /\ openModals' = Front(openModals)

OpenMap ==
  /\ Top = "page" /\ shown = {} /\ Pushes(Router, "map") /\ shown' = {"map"}
  /\ UNCHANGED <<openModals, asker, signedIn>>

(* The map's own button leaves the layer and its entry behind.               *)
CollapseMap ==
  /\ "map" \in shown /\ shown' = shown \ {"map"}
  /\ UNCHANGED <<layerStack, historyVars, ownBacks, openModals, asker, signedIn>>

-----------------------------------------------------------------------------
(* Closing by a button or Escape.                                            *)

ModalsWithout(closed) == Filtered(openModals, Modals \ closed)

(* The top dialog; closing the confirm dialog answers no.                    *)
CloseTop ==
  /\ openModals # <<>>
  /\ openModals' = Front(openModals) /\ shown' = shown \ {Top}
  /\ asker' = IF Top = "confirm" THEN "none" ELSE asker
  /\ Routes(Released(Router, Top)) /\ UNCHANGED signedIn

(* finish(true), then what awaited it: a deleted tour takes the panel with   *)
(* it, the last photo the lightbox.                                          *)
Confirm(closes) ==
  LET goes == IF asker = "lightbox" THEN "lightbox" ELSE "panel"
      answered == Released(Router, "confirm") IN
  /\ Top = "confirm" /\ asker' = "none"
  /\ openModals' = ModalsWithout(IF closes THEN {"confirm", goes} ELSE {"confirm"})
  /\ shown' = shown \ ({"confirm"} \cup IF closes THEN {goes} ELSE {})
  /\ Routes(IF closes /\ goes \in shown THEN Released(answered, goes) ELSE answered)
  /\ UNCHANGED signedIn

ClosePanelLayer ==
  /\ Top = "page" /\ "panel" \in shown /\ shown' = shown \ {"panel"}
  /\ Routes(Released(Router, "panel"))
  /\ UNCHANGED <<openModals, asker, signedIn>>

(* deleteMyAccount's answer closes both dialogs, whichever is open by then,  *)
(* and the session ends; clearSignedInState hides the dialogs but those of   *)
(* the photos, and the layers of what it hides stay.                         *)
EndSession(r, modals) ==
  /\ signedIn /\ signedIn' = FALSE
  /\ openModals' = modals /\ shown' = shown \cap {"lightbox", "confirm", "map"}
  /\ Routes(r) /\ UNCHANGED asker
AccountDeleted ==
  LET both == {"delete", "profile"} \cap ToSet(openModals)
      first == IF "delete" \in both THEN Released(Router, "delete") ELSE Router IN
  EndSession(IF "profile" \in both THEN Released(first, "profile") ELSE first,
             ModalsWithout(both))
SessionExpires == EndSession(Router, openModals)

-----------------------------------------------------------------------------
(* The browser.                                                              *)

Press(way) ==
  /\ way = "forward" => here < Len(entries)
  /\ Len(traversals) < MaxPresses /\ traversals' = Append(traversals, way)
  /\ UNCHANGED <<layerStack, entries, here, ownBacks, openModals, shown, asker, signedIn>>

AskerAfter(closed) == IF "confirm" \in closed THEN "none" ELSE asker

(* popstate: the page's own Back closes nothing; another closes what is      *)
(* above the depth of the entry it lands on.                                 *)
ClosesAbove(depth) ==
  LET kept == SubSeq(layerStack, 1, IF depth < Len(layerStack) THEN depth ELSE Len(layerStack))
      closed == ToSet(SubSeq(layerStack, Len(kept) + 1, Len(layerStack))) IN
  /\ layerStack' = kept
  /\ openModals' = ModalsWithout(closed)
  /\ shown' = shown \ closed /\ asker' = AskerAfter(closed)
Popstate(depth) ==
  IF ownBacks > 0
    THEN ownBacks' = ownBacks - 1 /\ UNCHANGED <<layerStack, openModals, shown, asker>>
    ELSE ClosesAbove(depth) /\ UNCHANGED ownBacks

GoBack ==
  /\ traversals # <<>> /\ Head(traversals) = "back" /\ here > 1
  /\ traversals' = Tail(traversals) /\ here' = here - 1 /\ Popstate(entries[here'])
  /\ UNCHANGED <<entries, signedIn>>
GoForward ==
  /\ traversals # <<>> /\ Head(traversals) = "forward" /\ traversals' = Tail(traversals)
  /\ IF here < Len(entries)
       THEN here' = here + 1 /\ Popstate(entries[here'])
       ELSE UNCHANGED <<layerStack, here, ownBacks, openModals, shown, asker>>
  /\ UNCHANGED <<entries, signedIn>>

(* A new page, readInitialUrl: only the entry it is at starts over.          *)
LoadPage ==
  /\ layerStack' = <<>> /\ ownBacks' = 0 /\ openModals' = <<>> /\ shown' = {}
  /\ asker' = "none" /\ signedIn' = TRUE
  /\ entries' = [entries EXCEPT ![here] = 0] /\ UNCHANGED here
ReloadPage == LoadPage /\ UNCHANGED traversals
(* A Back at the first entry leaves the page, and the rider comes back to it. *)
LeavePage ==
  /\ traversals # <<>> /\ Head(traversals) = "back" /\ here = 1
  /\ LoadPage /\ traversals' = <<>>

-----------------------------------------------------------------------------
Opens == ShowTour \/ ShowLongestTour \/ OpenMap \/ \E m \in Modals : OpenModal(m)
Closes ==
  \/ CollapseMap \/ CloseTop \/ ClosePanelLayer \/ AccountDeleted \/ SessionExpires
  \/ \E closes \in BOOLEAN : Confirm(closes)
LayersNext ==
  \/ Opens \/ Closes \/ GoBack \/ GoForward \/ ReloadPage \/ LeavePage
  \/ \E way \in {"back", "forward"} : Press(way)

-----------------------------------------------------------------------------
(* Properties.                                                               *)

(* The layers, the history and the dialogs are of their types: the type      *)
(* invariant of this module.                                                 *)
LayersTypeOK ==
  /\ layerStack \in Seq(Modals \cup {"panel", "map"})
  /\ entries \in Seq(0..MaxEntries) /\ here \in DOMAIN entries
  /\ traversals \in Seq({"back", "forward"}) /\ ownBacks \in Nat
  /\ openModals \in Seq(Modals) /\ shown \subseteq Modals \cup {"panel", "map"}
  /\ asker \in {"none", "page", "lightbox"} /\ signedIn \in BOOLEAN

(* The page never waits for more popstates of its own than are to come, so   *)
(* no later Back of the rider is swallowed (router.js, ownBacks).            *)
OwnBacksCome == ownBacks <= Len(Filtered(traversals, {"back"}))

(* While a layer is open, once the browser has gone where it was sent, a     *)
(* Back stays on the page, whatever was closed out of order, gone forward    *)
(* to or reloaded (router.js).                                               *)
BackStaysOnPage == traversals = <<>> => Len(layerStack) < here

(* Back and Escape agree on which dialog is on top (modal.js, router.js).    *)
SameTop ==
  LET stacked == Filtered(layerStack, ToSet(openModals)) IN
  openModals # <<>> => stacked # <<>> /\ Last(stacked) = Last(openModals)

(* Who asked the rider is answered as soon as the question is gone, and only *)
(* then, by button, Escape or Back: "the pending promise always settles"     *)
(* (confirm.js:21).                                                          *)
QuestionSettles == asker # "none" <=> Contains(openModals, "confirm")

(* The layers, the dialogs, the question and the browser's history agree,    *)
(* in whatever order layers are closed and traversals arrive (router.js,     *)
(* modal.js, confirm.js).                                                    *)
LayersAgree == LayersTypeOK /\ OwnBacksCome /\ BackStaysOnPage /\ SameTop /\ QuestionSettles

=============================================================================
