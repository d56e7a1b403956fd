--------------------------- MODULE MCProxyOnline ----------------------------
(* Two clients of a stand-alone proxy server with a license server behind    *)
(* it.  "ent" covers both features and dies before "std"; "old" is mounted.  *)
EXTENDS ProxyServer, TLC

MCLicense == {"ent", "std", "old"}
MCFeature == {"f", "g"}
MCFeaturesOf == "ent" :> {"f", "g"} @@ "std" :> {"g"} @@ "old" :> {"f"}
MCTierName == "ent" :> "enterprise" @@ "std" :> "standard" @@ "old" :> ""
MCNotBefore == "ent" :> 0 @@ "std" :> 1 @@ "old" :> 0
MCNotAfter == "ent" :> 2 @@ "std" :> 4 @@ "old" :> 1
MCCall == {"c1", "c2"}
MCAsked == "c1" :> <<"f", "g">> @@ "c2" :> <<"g">>
MCIssued == {"ent", "std"}
MCMounted == {"old"}
MCFlags == {"baseURL", "token", "license-dir", "cache-dir"}
=============================================================================
