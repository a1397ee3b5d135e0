-------------------------------- MODULE MCPage --------------------------------
(* Instances for TLC of what the page asks of the server, each part in a      *)
(* behaviour of its own: `part` is the one a behaviour is of, the others stay *)
(* as they start, where no fair step of theirs is enabled.                    *)
EXTENDS TourList, TourData, Uploads, Session, ServiceWorker

VARIABLE part

TwoTours == {"t1", "t2"}
PinnedPhotos == {"p"}
PlainPhotos == {"q"}
TwoPhotos == {"a", "b"}
TwoFiles == {"index.html", "app.js"}
AllRequests == {"tours", "me", "name", "delete"}

-----------------------------------------------------------------------------
(* A page that has loaded, of nobody: no step of Session is owed.            *)
LoadedSignedOut ==
  /\ storage = FALSE /\ signedInFlag = FALSE /\ triedFlag = FALSE /\ tried = FALSE
  /\ account = FALSE /\ refresh = FALSE /\ cookie = FALSE /\ sessionLoad = "ready"
  /\ answer = "none" /\ user = FALSE /\ acquiring = FALSE /\ sessionRequest = Silent
  /\ asks = 0 /\ silentRow = 0 /\ out = FALSE

PageInit ==
  /\ part \in {"list", "mapData", "photos", "uploadForm", "session", "worker"}
  /\ IF part = "list" THEN TRUE ELSE link = NoTour
  /\ IF part = "session" THEN SessionInit ELSE LoadedSignedOut
  /\ TourListInit /\ TourDataInit /\ UploadsInit /\ ServiceWorkerInit

PageNext ==
  \/ /\ part = "list" /\ TourListNext
     /\ UNCHANGED <<part, tourDataVars, uploadsVars, sessionVars, serviceWorkerVars>>
  \/ /\ part = "mapData" /\ MapDataNext
     /\ UNCHANGED <<part, tourListVars, uploadsVars, sessionVars, serviceWorkerVars>>
  \/ /\ part = "photos" /\ (PanelNext \/ PhotoNext)
     /\ UNCHANGED <<part, tourListVars, tourDataVars, sessionVars, serviceWorkerVars>>
  \/ /\ part = "uploadForm" /\ TourNext
     /\ UNCHANGED <<part, tourListVars, tourDataVars, sessionVars, serviceWorkerVars>>
  \/ /\ part = "session" /\ SessionNext
     /\ UNCHANGED <<part, tourListVars, tourDataVars, uploadsVars, serviceWorkerVars>>
  \/ /\ part = "worker" /\ ServiceWorkerNext
     /\ UNCHANGED <<part, tourListVars, tourDataVars, uploadsVars, sessionVars>>

PageVars == <<part, tourListVars, tourDataVars, uploadsVars, sessionVars, serviceWorkerVars>>

PageFairness ==
  /\ \A r \in 1..Removals :
       /\ WF_tourListVars(part = "list" /\ TimerFires(r))
       /\ WF_tourListVars(part = "list" /\ SendDelete(r))
       /\ WF_tourListVars(part = "list" /\ ServerDeletes(r))
       /\ WF_tourListVars(part = "list" /\ DeleteAnswered(r))
       /\ WF_tourListVars(part = "list" /\ BatchSettles(r))
  /\ WF_tourDataVars(part = "mapData" /\ MapStarts)
  /\ WF_tourDataVars(part = "mapData" /\ (MapApplies \/ MapFails))
  /\ \A v \in 1..Visits : WF_uploadsVars(part = "photos" /\ PanelDetailArrives(v))
  /\ \A b \in 1..Batches : WF_uploadsVars(part = "photos" /\ QueuePhotos(b))
  /\ \A f \in Files :
       /\ WF_uploadsVars(part = "photos" /\ MayStart(f) /\ SendPhoto(f))
       /\ WF_uploadsVars(part = "photos" /\ (PhotoAnswered(f) \/ PhotoFails(f)))
  /\ WF_sessionVars(part = "session" /\ HandleRedirect)
  /\ WF_sessionVars(part = "session" /\ RestoreSession)
  /\ WF_sessionVars(part = "session" /\ SilentAnswered)
  /\ WF_sessionVars(part = "session" /\ Acquired)
  /\ \A r \in Requests : WF_sessionVars(part = "session" /\ RequestSettles(r))

PageSpec == PageInit /\ [][PageNext]_PageVars /\ PageFairness

(* What a page started, it ends: every confirmed removal (tourRemoval.js),   *)
(* every load of the map (mapData.js), every dropped photo (imageUpload.js)  *)
(* and every request (session.js).                                           *)
PageSettles == RemovalEnds /\ MapLoadsEnd /\ DropEnds /\ RequestsEnd

===============================================================================
