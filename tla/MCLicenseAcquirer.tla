------------------------- MODULE MCLicenseAcquirer --------------------------
(* One cluster, two features.  "a1" is succeeded by "a2" of the same plan    *)
(* while it is still valid.  For "g" the server has at first "c", which has  *)
(* the plan name of a1 and a2 and takes their place, "n", an old certificate *)
(* without plan name, and "b" of a plan of its own, in the end only "b".  No *)
(* license covers the empty feature.                                         *)
EXTENDS LicenseAcquirer, TLC

MCLicense == {"a1", "a2", "b", "c", "n"}
MCFeature == {"", "f", "g"}
MCPlace == "" :> 0 @@ "f" :> 1 @@ "g" :> 2
MCFeaturesOf == [l \in MCLicense |-> IF l \in {"a1", "a2"} THEN {"f"} ELSE {"g"}]
MCTierName == [l \in MCLicense |-> IF l \in {"a1", "a2"} THEN "enterprise" ELSE ""]
MCNotBefore == [l \in MCLicense |-> IF l = "a2" THEN 1 ELSE 0]
MCNotAfter == "a1" :> 2 @@ "a2" :> 6 @@ "b" :> 5 @@ "c" :> 2 @@ "n" :> 1
MCPlan == {"A", "B", ""}
MCPlanName == "a1" :> "A" @@ "a2" :> "A" @@ "b" :> "B" @@ "c" :> "A" @@ "n" :> ""
=============================================================================
