----------------------------- MODULE MC_Deadlines -----------------------------
(***************************************************************************)
(* Two parts with deadlines that nobody needs to keep, in one run: two     *)
(* organizations' tablets at the hub, of which any may fall silent, and a  *)
(* video request whose handlers overlap.  Their variables are disjoint; a  *)
(* behaviour has one of them running, chosen at the start, so the run      *)
(* checks each specification alone.                                        *)
(***************************************************************************)
EXTENDS MC_R2CHub

CONSTANTS w1, w2, d1, v1, r1

VARIABLES streams, requests, work

\* The handlers whose stale writes bring a request back.
Video == INSTANCE VideoRequests WITH
    Worker <- {w1, w2}, Device <- {d1}, Stream <- {v1}, Recording <- {},
    Request <- {r1}, RemoteControl <- {FALSE},
    Handlers <- {"offer", "result", "approve", "started"}

VARIABLE part    \* the part that runs

videoVars == <<streams, requests, work>>
MCVars == <<part, vars, videoVars>>

MCInit == part \in {"hub", "video"} /\ Init /\ Video!Init

MCNext ==
    /\ UNCHANGED part
    /\ \/ part = "hub" /\ Next /\ UNCHANGED videoVars
       \/ part = "video" /\ Video!Next /\ UNCHANGED vars

\* Each part's fairness is about its own variables.
MCSpec ==
    /\ MCInit /\ [][MCNext]_MCVars
    /\ \/ part = "hub" /\ Fairness
       \/ part = "video" /\ Video!Fairness

\* A request does not stay open: whatever a late write of another transaction
\* brings back is ended again, by somebody or by its deadline.
RequestsEnd == Video!RequestsEnd

\* A request that ended comes back only by a handler that had read it before
\* it ended, in time, and writes after: none takes an ended request up.
EndedStaysEnded == Video!EndedStaysEnded

\* The preflight's SDP and ICE credentials go when the request has ended.
ProbesDiscarded == Video!ProbesDiscarded
=============================================================================
