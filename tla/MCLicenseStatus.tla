-------------------------- MODULE MCLicenseStatus ---------------------------
(* Two licenses of one feature; the foremost expires within the run, also    *)
(* while a status is being read.                                             *)
EXTENDS LicenseStatus, TLC

MCLicense == {"ent", "free"}
MCFeature == {"f"}
MCFeaturesOf == "ent" :> {"f"} @@ "free" :> {"f"}
MCTierName == "ent" :> "enterprise" @@ "free" :> ""
MCNotBefore == "ent" :> 0 @@ "free" :> 0
MCNotAfter == "ent" :> 3 @@ "free" :> 5
=============================================================================
