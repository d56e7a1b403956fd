--------------------------- MODULE MCHeapRegistry ---------------------------
(* Five licenses of three ranks; "std1" and "std2" are equal under Less, and *)
(* the front of the order dies first.                                        *)
EXTENDS HeapRegistry, TLC

MCLicense == {"ent", "std1", "std2", "std3", "free"}
MCFeature == {"f", "g"}
MCFeaturesOf == [l \in MCLicense |-> IF l \in {"ent", "std3"} THEN {"f", "g"} ELSE {"f"}]
MCTierName == [l \in MCLicense |-> CASE l = "ent" -> "enterprise"
                                     [] l = "free" -> ""
                                     [] OTHER -> "standard"]
MCNotBefore == [l \in MCLicense |-> 0]
MCNotAfter == "ent" :> 1 @@ "std1" :> 2 @@ "std2" :> 2 @@ "std3" :> 3 @@ "free" :> 2
=============================================================================
