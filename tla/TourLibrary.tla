----------------------------- MODULE TourLibrary -----------------------------
(***************************************************************************)
(* What the tour API promises its caller: a rider's tours are whole, each  *)
(* request changes them at most once and in one step, a success answer     *)
(* means the change was made, a refusal that it was not.  TourStore        *)
(* implements this over two stores without transactions.                   *)
(***************************************************************************)
EXTENDS Naturals, FiniteSets

CONSTANTS Request, MaxImages

VARIABLES
  library,  \* the ids of the tours a rider can open, track, GPX and all
  photos,   \* the photos of each tour that can be shown
  details,  \* the request each tour's name, description and date come from
  applied,  \* the requests whose change was made
  answer    \* what each request was answered

libVars == <<library, photos, details, applied, answer>>

LibInit ==
  /\ library = {}
  /\ photos = [t \in Request |-> {}]
  /\ details = [t \in Request |-> t]
  /\ applied = {}
  /\ answer = [r \in Request |-> "none"]

AddTour(r) ==
  /\ library' = library \cup {r}
  /\ photos' = [photos EXCEPT ![r] = {}]
  /\ details' = [details EXCEPT ![r] = r]

AddPhoto(r, t) ==
  /\ Cardinality(photos[t]) < MaxImages
  /\ photos' = [photos EXCEPT ![t] = @ \cup {r}]
  /\ UNCHANGED <<library, details>>

RemovePhoto(t, i) ==
  /\ photos' = [photos EXCEPT ![t] = @ \ {i}]
  /\ UNCHANGED <<library, details>>

EditDetails(r, t) ==
  /\ details' = [details EXCEPT ![t] = r]
  /\ UNCHANGED <<library, photos>>

RemoveTour(t) ==
  /\ library' = library \ {t}
  /\ photos' = [photos EXCEPT ![t] = {}]
  /\ details' = [details EXCEPT ![t] = t]

\* The one step in which a request changes the library.
Apply(r) ==
  /\ r \notin applied
  /\ applied' = applied \cup {r}
  /\ \/ r \notin library /\ AddTour(r)
     \/ \E t \in library :
          \/ AddPhoto(r, t) \/ EditDetails(r, t) \/ RemoveTour(t)
          \/ \E i \in applied : RemovePhoto(t, i)

Keep == UNCHANGED <<library, photos, details, applied>>

\* A request is answered once; "none" leaves the answer open, "failed" and "crashed" promise
\* nothing about the change, which still was made whole or not at all.
Reply(r) ==
  \E a \in {"none", "ok", "refused", "failed", "crashed"} :
    /\ a = "ok" => r \in applied'
    /\ a = "refused" => r \notin applied'
    /\ answer[r] = "none" \/ answer[r] = a
    /\ answer' = [answer EXCEPT ![r] = a]

LibNext == \E r \in Request : (Apply(r) \/ Keep) /\ Reply(r)

LibSpec == LibInit /\ [][LibNext]_libVars

=============================================================================
