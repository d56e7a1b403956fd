---------------------------- MODULE MCFederation ----------------------------
(* One client, one feature; the license that is there at first expires, and  *)
(* a successor of the same plan takes its place.                             *)
EXTENDS Federation, TLC

MCLicense == {"a1", "a2"}
MCFeature == {"f", ""}
MCFeaturesOf == "a1" :> {"f"} @@ "a2" :> {"f"}
MCTierName == "a1" :> "enterprise" @@ "a2" :> "enterprise"
MCNotBefore == "a1" :> 0 @@ "a2" :> 2
MCNotAfter == "a1" :> 1 @@ "a2" :> 4
MCPlace == "" :> 0 @@ "f" :> 1
MCPlan == {"A"}
MCPlanName == "a1" :> "A" @@ "a2" :> "A"
MCCall == {"c"}
MCAsked == "c" :> <<"f">>
MCFlags == {"cluster-name", "hub-kubeconfig", "license-dir", "cache-dir"}
=============================================================================
