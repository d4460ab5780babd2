----------------------------- MODULE R2CGrouping -----------------------------
(***************************************************************************)
(* How standalone tablets find one another: the grouping of R2CHub on its  *)
(* own.  Only the handlers that read or write keys, locations and the      *)
(* registry take steps; ages, leases and parking do not enter the          *)
(* resolution of a key, so time may stand still.                           *)
(***************************************************************************)
EXTENDS R2CHub

CONSTANT Sites     \* [Tablet -> SUBSET Place]: where each tablet may be

Fixes(s) == {NoFix} \cup Sites[TabletOf[s]]
Beats(s) == \E p \in Fixes(s) : Heartbeat(s, p) \/ HeartbeatRehomed(s, p)

GroupingNext ==
    \E s \in Socket :
        \/ Connect(s) \/ Beats(s)
        \/ \E m \in Reports, p \in Fixes(s) : Hello(s, m, p)

\* No tablet is moved under a map.
NoMapAnswers ==
    \A s \in Socket : conn'[s].key \in {conn[s].key} \cup Standalone

\* A heartbeat from where the last one came from, answered without a map.
BeatsInPlace(s) ==
    LET p == conn[s].place
    IN (Heartbeat(s, p) \/ HeartbeatRehomed(s, p)) /\ NoMapAnswers

\* Connected tablets heartbeat as hello_ack tells them to, one that does not
\* move included.  (Fairness of Beats would make every tablet move: a heartbeat
\* that changes nothing is a stuttering step.  Fairness of heartbeats that a
\* stored row may answer would bring every tablet under a map again.)
GroupingFairness == \A s \in Socket : WF_vars(BeatsInPlace(s))

GroupingSpec == Init /\ [][GroupingNext]_vars /\ GroupingFairness

\* Everyone is connected, without a map, and within the radius of everyone.
Settled ==
    \A r, s \in Socket :
        /\ Serving(s) /\ Registered(s) /\ conn[s].mode = "standalone"
        /\ conn[r].place # NoFix /\ conn[s].place # NoFix
        /\ Distance[conn[r].place][conn[s].place] <= Radius
OneGroup == \A r, s \in Socket : conn[r].key = conn[s].key

\* Three tablets within two miles of one another that stay connected, stop
\* moving and fly without a map end up under one key, whatever maps and groups
\* they were in and in whatever order their heartbeats arrive: once nobody
\* reports a map, the stored rows that could answer are soon too old to.
GroupsConverge ==
    <>[]Settled /\ <>[][NoMapAnswers]_vars => <>[]OneGroup
=============================================================================
