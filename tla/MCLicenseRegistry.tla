------------------------- MODULE MCLicenseRegistry --------------------------
(* Three licenses over two features.  With a ttl of 2, "ent" is the foremost *)
(* and dies first, "std" outlives it, "free" has the last rank and the       *)
(* longest life: the order of the queues and the order of expiry differ.     *)
EXTENDS LicenseRegistry, TLC

MCLicense == {"ent", "std", "free"}
MCFeature == {"f", "g"}
MCFeaturesOf == "ent" :> {"f", "g"} @@ "std" :> {"f", "g"} @@ "free" :> {"f"}
MCTierName == "ent" :> "enterprise" @@ "std" :> "standard" @@ "free" :> ""
MCNotBefore == "ent" :> 0 @@ "std" :> 0 @@ "free" :> 1
MCNotAfter == "ent" :> 2 @@ "std" :> 3 @@ "free" :> 5
=============================================================================
