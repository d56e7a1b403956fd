-------------------------- MODULE MCLicenseSyncer ---------------------------
(* A spoke whose hub holds licenses of two plans: "a" expires within the run *)
(* and from then on fails the rounds that come to it; "b" lasts.             *)
EXTENDS LicenseSyncer, TLC

MCLicense == {"a", "b"}
MCFeature == {"f"}
MCFeaturesOf == "a" :> {"f"} @@ "b" :> {"f"}
MCTierName == "a" :> "enterprise" @@ "b" :> ""
MCNotBefore == "a" :> 0 @@ "b" :> 0
MCNotAfter == "a" :> 1 @@ "b" :> 3
MCPlan == {"A", "B"}
MCPlanName == "a" :> "A" @@ "b" :> "B"
MCCall == {}
MCAsked == <<>>
MCFlags == {"cluster-name", "hub-kubeconfig", "license-dir", "cache-dir"}
=============================================================================
