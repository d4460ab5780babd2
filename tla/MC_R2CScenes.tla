---------------------------- MODULE MC_R2CScenes ----------------------------
(* An instance bounded to two scenes.  In the first the sockets of a tablet *)
(* overlap and are refused, and nobody claims a drone or is under a map; in *)
(* the second tablets do, and each has one connection.                      *)
EXTENDS MC_R2CHub

Used(s) == task[s] # "none" \/ conn[s] # Blank

Overlapping ==
    /\ \A r \in Claimable : owners[r] = Nil
    /\ \A s \in Socket : conn[s].key \notin Map /\ conn[s].reported \notin Map
Claiming ==
    /\ \A s \in Socket : task[s] # "refused"
    /\ \A s, r \in Socket :
        TabletOf[s] = TabletOf[r] /\ Used(s) /\ Used(r) => s = r

\* Bound: other states are reached and checked, and not left.
InScene == Overlapping \/ Claiming
=============================================================================
