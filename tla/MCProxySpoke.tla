---------------------------- MODULE MCProxySpoke ----------------------------
(* Two clients of a spoke's proxy server, whose features overlap; the hub    *)
(* may deliver one license, for one of the features.                         *)
EXTENDS ProxyServer, TLC

MCLicense == {"hub"}
MCFeature == {"f", "g"}
MCFeaturesOf == "hub" :> {"f"}
MCTierName == "hub" :> "enterprise"
MCNotBefore == "hub" :> 0
MCNotAfter == "hub" :> 1
MCCall == {"c1", "c2"}
MCAsked == "c1" :> <<"f", "g">> @@ "c2" :> <<"g">>
MCFlags == {"cluster-name", "hub-kubeconfig", "license-dir", "cache-dir"}
=============================================================================
