---------------------------- MODULE MC_Background ----------------------------
(***************************************************************************)
(* Two parts of the hub that come to rest, in one run: the grouping of     *)
(* tablets without a map, and the mirror of one owner.  Their variables    *)
(* are disjoint; a behaviour has one of them running, chosen at the start, *)
(* so the run checks each specification alone.                             *)
(***************************************************************************)
EXTENDS R2CMirror, TLC

CONSTANTS s1, s2, s3, ta, tb, tc, o1, west, mid, east, far, NoFix, Nil

VARIABLES conn, task, byDev, zones, owners, confs

\* Tablets on a line; the two at its ends come from beyond the radius.
Line == west :> (west :> 0 @@ mid :> 1 @@ east :> 3 @@ far :> 9)
     @@ mid :> (west :> 1 @@ mid :> 0 @@ east :> 2 @@ far :> 8)
     @@ east :> (west :> 3 @@ mid :> 2 @@ east :> 0 @@ far :> 6)
     @@ far :> (west :> 9 @@ mid :> 8 @@ east :> 6 @@ far :> 0)

Grouping == INSTANCE R2CGrouping WITH
    Socket <- {s1, s2, s3}, Org <- {o1}, Tablet <- {ta, tb, tc},
    Zone <- {1, 2, 3}, Map <- {1}, Standalone <- {11, 12, 13}, Drone <- {},
    Place <- {west, mid, east, far},
    TabletOf <- s1 :> ta @@ s2 :> tb @@ s3 :> tc,
    OrgOf <- ta :> o1 @@ tb :> o1 @@ tc :> o1,
    ZoneOf <- ta :> 1 @@ tb :> 2 @@ tc :> 3,
    OwnKey <- 1 :> 11 @@ 2 :> 12 @@ 3 :> 13,
    Distance <- Line, Radius <- 3,
    Sites <- ta :> {west, far} @@ tb :> {mid} @@ tc :> {east, far},
    Lease <- 0, Silence <- 1, Retention <- 0, Reports <- {0, 1},
    Claims <- {}, Labels <- {}, EarlyMaps <- {}, Overlap <- FALSE,
    GateReleases <- FALSE

VARIABLE part    \* the part that runs

hubVars == <<conn, task, byDev, zones, owners, confs>>
MCVars == <<part, mirrorVars, hubVars>>

\* Bound: a load at start-up overlaps the handlers of one tablet.
LoadMeetsOne == load.step # "over" => Idle(tb)

MCInit ==
    /\ part \in {"grouping", "mirror"}
    /\ Grouping!Init /\ MirrorInit

MCNext ==
    /\ UNCHANGED part
    /\ \/ part = "grouping" /\ Grouping!GroupingNext /\ UNCHANGED mirrorVars
       \/ part = "mirror" /\ MirrorNext /\ LoadMeetsOne' /\ UNCHANGED hubVars

\* Each part's fairness is about its own variables.
MCSpec ==
    /\ MCInit /\ [][MCNext]_MCVars
    /\ \/ part = "grouping" /\ Grouping!GroupingFairness
       \/ part = "mirror" /\ MirrorFairness

\* Three tablets within the radius of one another that stay connected, in place
\* and without a map come to one key and keep it: following the nearest one's
\* key at each heartbeat, they do not chase one another's for ever.
GroupsConverge == Grouping!GroupsConverge
=============================================================================
