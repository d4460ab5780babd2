------------------------------ MODULE MC_R2CHub ------------------------------
(* Small instances of R2CHub for TLC; the cfg files choose among them. *)
EXTENDS R2CHub, TLC

CONSTANTS s1, s2, s3, ta, tb, o1, o2, here, there

\* Sockets s1 and s2 are successive ones of tablet ta, s3 belongs to tb.
ReconnectTabletOf == s1 :> ta @@ s2 :> ta @@ s3 :> tb
OneSocketEach == s1 :> ta @@ s3 :> tb
\* Sockets of one tablet are interchangeable.
SameTablet == Permutations({s1, s2})
TwoZones == ta :> 1 @@ tb :> 2
OneOrgOf == ta :> o1 @@ tb :> o1
TwoOwnKeys == 1 :> 11 @@ 2 :> 12
OnePlace == here :> (here :> 0)
NoDistance == [p \in {} |-> p]
EarlyAndLate == {[ts |-> 0, dist |-> 0, mapped |-> TRUE],
                 [ts |-> 1, dist |-> 0, mapped |-> FALSE]}
\* Two organizations whose tablets have the same zone id.
TwoOrgs == ta :> o1 @@ tb :> o2
SameZone == ta :> 1 @@ tb :> 1
OneOwnKey == 1 :> 11
OneClaim == {[ts |-> 1, dist |-> 0, mapped |-> FALSE]}

=============================================================================
