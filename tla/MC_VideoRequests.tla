--------------------------- MODULE MC_VideoRequests ---------------------------
(* One device with one stream, and one or two requests to view it. *)
EXTENDS VideoRequests, TLC

CONSTANTS r1, r2, w1, w2
Symmetric == Permutations(Request) \cup Permutations(Worker)
EveryHandler == Op \cup Decision
=============================================================================
