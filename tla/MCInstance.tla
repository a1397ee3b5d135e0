------------------------------ MODULE MCInstance ------------------------------
(* Instances for TLC of the parts of a function instance, each in a behaviour *)
(* of its own: `part` is the one a behaviour is of, the others stay as they   *)
(* start. They share no state that their modules do not already hold.         *)
EXTENDS Profile, MCHeatmapCache, UploadLimits, ListApi, Multipart, TLC

CONSTANTS r3, ann, ben, i1, i2

VARIABLE part

ThreeRequests == {r1, r2, r3}
TwoUploaders == {ann, ben}
TwoInstances == {i1, i2}
InstanceSymmetry ==
  Permutations(TwoRequests) \cup Permutations(TwoUploaders) \cup Permutations(TwoInstances)

-----------------------------------------------------------------------------
ThreeTours == {"t1", "t2", "t3"}
SomeCodings ==
  {<<>>, <<<<"gzip", 10>>, <<"br", 0>>>>, <<<<"br", 8>>, <<"gzip", 10>>>>}

-----------------------------------------------------------------------------
\* Where the parts start that a behaviour is not of.
InstanceInit ==
  /\ part \in {"profile", "map", "limits", "lists", "multipart"}
  /\ IF part = "map" THEN TRUE ELSE doc = [t \in Tour |-> "none"]
  /\ IF part = "lists" THEN TRUE ELSE listing = <<>>
  /\ IF part = "multipart" THEN TRUE ELSE parts = <<>> /\ last = "end" /\ settled = "errors.noFile"
  /\ Init /\ HeatmapInit /\ LimitsInit /\ ListApiInit /\ MultipartInit

InstanceNext ==
  \/ /\ part = "profile" /\ Next
     /\ UNCHANGED <<part, heatmapVars, limitsVars, listApiVars, multipartVars>>
  \/ /\ part = "map" /\ HeatmapNext
     /\ UNCHANGED <<part, vars, limitsVars, listApiVars, multipartVars>>
  \/ /\ part = "limits" /\ LimitsNext
     /\ UNCHANGED <<part, vars, heatmapVars, listApiVars, multipartVars>>
  \/ /\ part = "lists" /\ ListApiNext
     /\ UNCHANGED <<part, vars, heatmapVars, limitsVars, multipartVars>>
  \/ /\ part = "multipart" /\ MultipartNext
     /\ UNCHANGED <<part, vars, heatmapVars, limitsVars, listApiVars>>

InstanceVars == <<part, vars, heatmapVars, limitsVars, listApiVars, multipartVars>>
InstanceSpec == InstanceInit /\ [][InstanceNext]_InstanceVars

===============================================================================
