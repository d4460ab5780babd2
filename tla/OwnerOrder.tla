----------------------------- MODULE OwnerOrder -----------------------------
(***************************************************************************)
(* The arbitration rule of the R2C hub: which of two claims on one drone   *)
(* wins (R2CCoordinationHub._pick_owner, main.py).  A claim is a record    *)
(* with the fields the rule reads:                                         *)
(*   ts      the drone's own timestamp in the claim (drone_ts)             *)
(*   dist    the distance of the drone from the claiming zone (distance_m) *)
(*   mapped  whether the zone sent a non-empty mappedId                    *)
(*   zone    the claiming zone's guid, as its rank in lexical order        *)
(***************************************************************************)
EXTENDS Integers

\* What two claims are compared by; ClaimKey is the set of such records.
ClaimKey == [ts : Int, dist : Int, mapped : BOOLEAN, zone : Int]

\* candidate_key < existing_key, the Python tuples compared component by
\* component: earlier, then nearer, then mapped, then the lower guid.
Precedes(a, b) ==
    \/ a.ts < b.ts
    \/ a.ts = b.ts /\ a.dist < b.dist
    \/ a.ts = b.ts /\ a.dist = b.dist /\ a.mapped /\ ~b.mapped
    \/ a.ts = b.ts /\ a.dist = b.dist /\ a.mapped = b.mapped /\ a.zone < b.zone

\* The existing owner stays unless the candidate is strictly better.
PickOwner(existing, candidate) ==
    IF Precedes(candidate, existing) THEN candidate ELSE existing

=============================================================================
