------------------------------ MODULE Licenses ------------------------------
(* A license as this program uses it: a signed certificate identified by its *)
(* serial number.  Its attributes never change once it is issued, so they    *)
(* are constant functions of the license.                                    *)
EXTENDS Integers

CONSTANTS
    License,      \* serial numbers
    Feature,      \* features a license can cover
    FeaturesOf,   \* License.Features
    TierName,     \* License.TierName
    NotBefore,    \* License.NotBefore
    NotAfter,     \* License.NotAfter
    TTL,          \* LicenseRegistry.ttl: remaining life below which it is dead
    NoLicense     \* the nil *License

ASSUME LicenseAssumption ==
    /\ FeaturesOf \in [License -> SUBSET Feature]
    /\ TierName   \in [License -> STRING]
    /\ NotBefore  \in [License -> Int]
    /\ NotAfter   \in [License -> Int]
    /\ TTL \in Nat
    /\ NoLicense \notin License

(* rankTier: enterprise first, unnamed tier last. *)
rankTier(t) == IF t = "enterprise" THEN 0 ELSE IF t = "" THEN 2 ELSE 1

(* License.Less.  Both dates are set on every license ParseLicense returns,  *)
(* so the branches for nil dates are never taken.                            *)
Less(i, j) ==
    LET iRank == rankTier(TierName[i])
        jRank == rankTier(TierName[j])
    IN  \/ iRank < jRank
        \/ /\ iRank = jRank
           /\ \/ NotBefore[i] < NotBefore[j]
              \/ /\ NotBefore[i] = NotBefore[j]
                 /\ NotAfter[i] < NotAfter[j]

(* LicenseForFeature keeps a license unless time.Until(NotAfter) < ttl. *)
Live(l, t) == NotAfter[l] - t >= TTL

(* The dates cert.Verify checks for ParseLicense, at time t; its other       *)
(* checks come out the same at any time.                                     *)
Valid(l, t) == NotBefore[l] <= t /\ t <= NotAfter[l]

(* The members of S that no member of S precedes. *)
Foremost(S) == {l \in S : \A m \in S : ~Less(m, l)}
=============================================================================
