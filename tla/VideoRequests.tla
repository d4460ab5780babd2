---------------------------- MODULE VideoRequests ----------------------------
(***************************************************************************)
(* Managed video: the streams tablets advertise, and the requests of       *)
(* organization members to view them, as the control plane's handlers      *)
(* change their rows.                                                      *)
(*                                                                         *)
(* A handler is one database transaction in two steps: it reads rows, and  *)
(* later writes what it makes of them.  PostgreSQL's default isolation     *)
(* lets other transactions commit in between; only a SELECT ... FOR UPDATE *)
(* keeps its rows.  A write changes the columns the handler assigned and   *)
(* leaves the others as they now are.  The instances of the service share  *)
(* nothing but the database, so any two handlers may overlap.              *)
(***************************************************************************)
EXTENDS Integers, FiniteSets

CONSTANTS
    Worker,      \* transactions that can be open at once
    Device,      \* device credentials of one organization
    Stream,      \* stream session ids
    Recording,   \* those of captured recordings
    Request,     \* request ids; none is used twice
    RemoteControl,   \* whether tablets allow it, as far as the instance goes
    Handlers,        \* those of one request, as far as the instance goes
    Nil

ASSUME VideoAssumption == Recording \subseteq Stream /\ RemoteControl \subseteq BOOLEAN

VARIABLES
    streams,     \* ActiveVideoStream rows
    requests,    \* VideoStreamRequest rows, each with its two exchanges
    work         \* what each open transaction has read

vars == <<streams, requests, work>>

Waiting == {"pending", "probing", "awaiting_approval"}
Active == {"approved", "streaming"}
Live == Waiting \cup Active
Terminal == {"stopped", "declined", "expired", "redirected", "cancelled",
             "e_nosuch_stream"}
Exchange == {"none", "offer", "answer"}   \* none: the row does not exist

StreamRow ==
    [device : Device, on : BOOLEAN, fresh : BOOLEAN, remote : BOOLEAN]

\* due: which deadline expires_at is, the answer's (1) or the session's (2).
\* late: the deadlines that have passed.  by: who approved.
Row ==
    [stream : Stream, state : Live \cup Terminal, due : 1 .. 2, late : 0 .. 2,
     remote : BOOLEAN, by : {"nobody", "device", "requester"},
     probe : Exchange, media : Exchange]

\* What a handler remembers of the row it read.
Glance ==
    [state : Live \cup Terminal, overdue : BOOLEAN, remote : BOOLEAN,
     probe : BOOLEAN, media : BOOLEAN]

\* The states in which a handler of one request goes on with it.
GoesOn ==
    [cancel |-> Waiting, poll |-> {}, offer |-> {"pending", "probing"},
     answer |-> {"probing"}, result |-> Waiting, unavailable |-> Live,
     media_offer |-> Active, media_answer |-> Active, started |-> Active,
     stop |-> Active, terminate |-> Active,
     approve |-> {"awaiting_approval"}, decline |-> {"awaiting_approval"},
     approve_remotely |-> {"awaiting_approval"}]
Decision == {"approve", "approve_remotely", "decline"}
Op == DOMAIN GoesOn \ Decision

Transaction ==
    [op : Op \cup Decision \cup {"create", "reconcile", "expire", "list"},
     req : Request \cup {Nil}, was : Glance \cup {Nil},
     others : SUBSET Request, of : SUBSET Stream]

ASSUME NilAssumption == Nil \notin StreamRow \cup Row

TypeOK ==
    /\ streams \in [Stream -> StreamRow \cup {Nil}]
    /\ requests \in [Request -> Row \cup {Nil}]
    /\ work \in [Worker -> Transaction \cup {Nil}]

In(states) == {r \in Request : requests[r] # Nil /\ requests[r].state \in states}

\* Fault: a deadline that never passes.
OverdueAfter(row) == row.late > row.due

Overdue(row) == row.late >= row.due

Seen(row) ==
    [state |-> row.state, overdue |-> Overdue(row), remote |-> row.remote,
     probe |-> row.probe # "none", media |-> row.media # "none"]
DeviceOf(r) == streams[requests[r].stream].device
On(d, rs) == {r \in rs : DeviceOf(r) = d}

-----------------------------------------------------------------------------
(* Transactions *)

Idle(w) == work[w] = Nil
Doing(w, op) == ~Idle(w) /\ work[w].op = op

\* The rows another transaction holds.
HeldRequests(w) ==
    UNION {IF Idle(v) \/ work[v].op \notin Decision THEN {} ELSE work[v].others :
           v \in Worker \ {w}}
HeldStreams(w) ==
    UNION {IF Idle(v) \/ work[v].op \notin Decision \cup {"create", "reconcile"}
           THEN {} ELSE work[v].of : v \in Worker \ {w}}

Opened(op, r, row, rs, ss) ==
    [op |-> op, req |-> r, was |-> row, others |-> rs, of |-> ss]
Open(w, t) ==
    /\ Idle(w) /\ work' = [work EXCEPT ![w] = t]
    /\ UNCHANGED <<streams, requests>>
Close(w) == work' = [work EXCEPT ![w] = Nil]

\* The request as it now is, with the state the handler gives it; a state
\* that equals the one it read is not written.
Assigned(w, state) ==
    [requests[work[w].req] EXCEPT
        !.state = IF state = work[w].was.state THEN @ ELSE state]

\* row without the exchanges xs, those of them that the handler found.
Without(w, row, xs) ==
    [row EXCEPT
        !.probe = IF "probe" \in xs /\ work[w].was.probe THEN "none" ELSE @,
        !.media = IF "media" \in xs /\ work[w].was.media THEN "none" ELSE @]

\* Exchange x can be written: no other transaction has since added or deleted
\* it.  (The insert would collide, the update would find no row.)
SameRow(w, x) ==
    work[w].was[x] = (requests[work[w].req][x] # "none")

Save(w, row) ==
    /\ work[w].req \notin HeldRequests(w)
    /\ requests' = [requests EXCEPT ![work[w].req] = row]
    /\ Close(w) /\ UNCHANGED streams

\* Faults: a handler goes on with any state, or with any that has not ended.
FitsAny(op, row) == TRUE
FitsLive(op, row) == row.state \in Live

\* The state is one the handler goes on with.
Fits(op, row) == row.state \in GoesOn[op]
InTime(w) == ~work[w].was.overdue /\ Fits(work[w].op, work[w].was)

\* Most handlers first close a request whose deadline has passed, whatever
\* its state, and delete the exchange they deal with.
TimedOut(w, xs) ==
    work[w].was.overdue /\ Save(w, Without(w, Assigned(w, "expired"), xs))

\* Rows rs in the given state, their exchanges deleted.
Closed(rs, state) ==
    [r \in Request |->
        IF r \in rs THEN [requests[r] EXCEPT !.state = state, !.probe = "none",
                                             !.media = "none"]
        ELSE requests[r]]
-----------------------------------------------------------------------------
Init ==
    /\ streams = [v \in Stream |-> Nil]
    /\ requests = [r \in Request |-> Nil]
    /\ work = [w \in Worker |-> Nil]

(* The tablet's inventory *)

\* advertise_video_stream, for one entry of the inventory.  A recording whose
\* presence is over may be taken over by another credential.
Advertise(d, v, remote) ==
    /\ \A w \in Worker : v \notin HeldStreams(w)
    /\ streams[v] # Nil =>
            \/ streams[v].device = d
            \/ v \in Recording /\ ~(streams[v].on /\ streams[v].fresh)
    /\ streams' = [streams EXCEPT ![v] =
            [device |-> d, on |-> TRUE, fresh |-> TRUE, remote |-> remote]]
    /\ UNCHANGED <<requests, work>>

\* 45 seconds without an advertisement.
Lapse(v) ==
    /\ streams[v] # Nil /\ streams[v].fresh
    /\ streams' = [streams EXCEPT ![v].fresh = FALSE]
    /\ UNCHANGED <<requests, work>>

\* reconcile_device_video_streams: the inventory of d lacks the streams ss.
\* Their rows are written, and so kept, before the requests are read.
ReadInventory(w, d, ss) ==
    /\ ss # {}
    /\ \A v \in ss : streams[v] # Nil /\ streams[v].on /\ streams[v].device = d
    /\ ss \cap HeldStreams(w) = {}
    /\ Open(w, Opened("reconcile", Nil, Nil,
                      {r \in In(Live) : requests[r].stream \in ss}, ss))

\* Fault: the requests get the state of their stream.
ReconcileInactive(w) ==
    /\ Doing(w, "reconcile")
    /\ work[w].others \cap HeldRequests(w) = {}
    /\ requests' = Closed(work[w].others, "inactive")
    /\ Close(w) /\ UNCHANGED streams

Reconcile(w) ==
    /\ Doing(w, "reconcile")
    /\ work[w].others \cap HeldRequests(w) = {}
    /\ streams' = [v \in Stream |->
            IF v \in work[w].of
            THEN [streams[v] EXCEPT !.on = FALSE, !.fresh = FALSE]
            ELSE streams[v]]
    /\ requests' = Closed(work[w].others, "e_nosuch_stream")
    /\ Close(w)

(* The requester's side *)

\* The request on the device that has not been answered.
InReview(d) == {q \in On(d, In(Waiting)) : ~Overdue(requests[q])}

\* create_video_stream_request keeps the stream's row, but a request on
\* another stream of the device may be created meanwhile.
ReadStream(w, v, r) ==
    /\ requests[r] = Nil
    /\ \A x \in Worker : Doing(x, "create") => work[x].req # r
    /\ v \notin HeldStreams(w)
    /\ streams[v] # Nil /\ streams[v].on /\ streams[v].fresh
    /\ InReview(streams[v].device) = {}
    /\ streams[v].remote => On(streams[v].device, In(Active)) = {}
    /\ Open(w, Opened("create", r, Nil, {}, {v}))

Create(w) ==
    /\ Doing(w, "create")
    /\ \E v \in work[w].of :
        requests' = [requests EXCEPT ![work[w].req] =
            [stream |-> v, state |-> "pending", due |-> 1, late |-> 0,
             remote |-> streams[v].remote, by |-> "nobody",
             probe |-> "none", media |-> "none"]]
    /\ Close(w) /\ UNCHANGED streams

\* The first query of a handler that deals with one request and will not
\* refuse it as it is.
ReadRequest(w, r, op) ==
    /\ requests[r] # Nil /\ (Overdue(requests[r]) \/ Fits(op, requests[r]))
    /\ Open(w, Opened(op, r, Seen(requests[r]), {}, {}))

Cancel(w) ==
    /\ Doing(w, "cancel")
    /\ \/ TimedOut(w, {"probe"})
       \/ /\ InTime(w)
          /\ Save(w, Without(w, Assigned(w, "cancelled"), {"probe"}))

\* get_video_preflight_exchange_for_requester: polling closes what is late.
Poll(w) == Doing(w, "poll") /\ TimedOut(w, {"probe"})

\* start_video_preflight
StartPreflight(w) ==
    /\ Doing(w, "offer")
    /\ \/ TimedOut(w, {})
       \/ /\ InTime(w) /\ SameRow(w, "probe")
          /\ Save(w, [Assigned(w, "probing") EXCEPT !.probe = "offer"])

\* start_video_media
StartMedia(w) ==
    /\ Doing(w, "media_offer")
    /\ \/ TimedOut(w, {})
       \/ /\ InTime(w) /\ SameRow(w, "media")
          /\ Save(w, [requests[work[w].req] EXCEPT !.media = "offer"])

MarkStreaming(w) ==
    /\ Doing(w, "started")
    /\ \/ TimedOut(w, {"media"})
       \/ InTime(w) /\ Save(w, Assigned(w, "streaming"))

\* stop_video_stream and stop_video_stream_from_device look at no deadline.
Stop(w) ==
    /\ Doing(w, "stop") /\ Fits("stop", work[w].was)
    /\ Save(w, Without(w, Assigned(w, "stopped"), {"media"}))

(* The tablet's side *)

\* record_video_preflight_answer
PreflightAnswer(w) ==
    /\ Doing(w, "answer") /\ work[w].was.probe
    /\ InTime(w) /\ SameRow(w, "probe")
    /\ Save(w, [requests[work[w].req] EXCEPT !.probe = "answer"])

\* record_video_preflight_result deletes the exchange by a statement of its own.
PreflightResult(w) ==
    /\ Doing(w, "result")
    /\ \/ TimedOut(w, {})
       \/ /\ InTime(w)
          /\ Save(w, [Assigned(w, "awaiting_approval") EXCEPT !.probe = "none"])

\* record_video_stream_unavailable
Unavailable(w) ==
    /\ Doing(w, "unavailable") /\ Fits("unavailable", work[w].was)
    /\ Save(w, [Assigned(w, "e_nosuch_stream") EXCEPT !.probe = "none",
                                                      !.media = "none"])

\* record_video_media_answer
MediaAnswer(w) ==
    /\ Doing(w, "media_answer") /\ work[w].was.media
    /\ \/ TimedOut(w, {"media"})
       \/ /\ InTime(w) /\ SameRow(w, "media")
          /\ Save(w, [requests[work[w].req] EXCEPT !.media = "answer"])

\* stop_video_stream_from_device; a tablet that switched to another viewer
\* says so, and the exchange stays for the browser to read.
Terminate(w) ==
    /\ Doing(w, "terminate") /\ Fits("terminate", work[w].was)
    /\ \/ Save(w, Without(w, Assigned(w, "stopped"), {"media"}))
       \/ Save(w, Assigned(w, "redirected"))

(* The decision *)

\* Fault: those who stream already, and no other approved viewer.
OtherStreaming(r) == On(DeviceOf(r), In({"streaming"})) \ {r}

\* The device's other viewers.
OtherViewers(r) == On(DeviceOf(r), In(Active)) \ {r}

\* The two queries of a decision; the second keeps the other viewers' rows,
\* and those of their streams, until the decision is saved.
ReadDecision(w, r, op) ==
    /\ requests[r] # Nil /\ (Overdue(requests[r]) \/ Fits(op, requests[r]))
    /\ op = "approve_remotely" => requests[r].remote
    /\ LET ss == {requests[q].stream : q \in OtherViewers(r)} IN
        /\ OtherViewers(r) \cap HeldRequests(w) = {}
        /\ ss \cap HeldStreams(w) = {}
        /\ Open(w, Opened(op, r, Seen(requests[r]), OtherViewers(r), ss))

\* record_video_stream_decision, an approval: the viewers there were are
\* redirected, or keep a remote-control request from being approved.
Granted(w, by) ==
    /\ InTime(w)
    /\ work[w].was.remote => work[w].others = {}
    /\ work[w].req \notin HeldRequests(w)
    /\ requests' = [r \in Request |->
            IF r = work[w].req
            THEN [Assigned(w, "approved") EXCEPT !.due = 2, !.by = by]
            ELSE IF r \in work[w].others
                 THEN [requests[r] EXCEPT !.state = "redirected"]
                 ELSE requests[r]]
    /\ Close(w) /\ UNCHANGED streams

Approve(w) ==
    Doing(w, "approve") /\ (TimedOut(w, {}) \/ Granted(w, "device"))
ApproveRemotely(w) ==
    Doing(w, "approve_remotely") /\ (TimedOut(w, {}) \/ Granted(w, "requester"))

Decline(w) ==
    /\ Doing(w, "decline")
    /\ \/ TimedOut(w, {})
       \/ /\ InTime(w)
          /\ Save(w, Assigned(w, "declined"))

(* Time and clean-up *)

\* A deadline passes: the answer's, and for an approved request the session's.
Later(r) ==
    /\ requests[r] # Nil /\ requests[r].late < requests[r].due
    /\ requests' = [requests EXCEPT ![r].late = @ + 1]
    /\ UNCHANGED <<streams, work>>

\* _expire_video_stream_requests, at the start of the clean-up, of
\* list_video_stream_requests ("expire": both also delete preflight exchanges)
\* and of get_video_stream_request_for_requester ("list"): its query.
ReadOverdue(w, op) ==
    /\ \E r \in Request : requests[r] # Nil /\ requests[r].late > 0
    /\ Open(w, Opened(op, Nil, Nil,
                      {r \in In(Live) : Overdue(requests[r])}, {}))

\* Its update does not look at the states again.
ExpireListed(w) ==
    /\ Doing(w, "list") /\ work[w].others \cap HeldRequests(w) = {}
    /\ requests' = Closed(work[w].others, "expired")
    /\ Close(w) /\ UNCHANGED streams

\* Fault: no exchange but those of the requests that expire.
ExpireRequestsOnly(w) ==
    /\ Doing(w, "expire") /\ work[w].others \cap HeldRequests(w) = {}
    /\ requests' = Closed(work[w].others, "expired")
    /\ Close(w) /\ UNCHANGED streams

\* cleanup_expired_video_preflight_exchanges and list_video_stream_requests also
\* delete the exchanges whose own expiry, the answer's deadline, is past.
Expire(w) ==
    /\ Doing(w, "expire") /\ work[w].others \cap HeldRequests(w) = {}
    /\ requests' = [r \in Request |->
            IF requests[r] # Nil /\ requests[r].late > 0
            THEN [Closed(work[w].others, "expired")[r] EXCEPT !.probe = "none"]
            ELSE Closed(work[w].others, "expired")[r]]
    /\ Close(w) /\ UNCHANGED streams

\* A handler that refuses, that fails on its write, or whose instance stops.
Abandon(w) == ~Idle(w) /\ Close(w) /\ UNCHANGED <<streams, requests>>

-----------------------------------------------------------------------------
Reads(w) ==
    \/ \E d \in Device, ss \in SUBSET Stream : ReadInventory(w, d, ss)
    \/ \E v \in Stream, r \in Request : ReadStream(w, v, r)
    \/ \E r \in Request, op \in Op \cap Handlers : ReadRequest(w, r, op)
    \/ \E r \in Request, op \in Decision \cap Handlers : ReadDecision(w, r, op)
    \/ \E op \in {"expire", "list"} : ReadOverdue(w, op)

Writes(w) ==
    \/ Reconcile(w) \/ Create(w) \/ Cancel(w) \/ Poll(w)
    \/ StartPreflight(w) \/ StartMedia(w) \/ MarkStreaming(w) \/ Stop(w)
    \/ PreflightAnswer(w) \/ PreflightResult(w) \/ Unavailable(w)
    \/ MediaAnswer(w) \/ Terminate(w)
    \/ Approve(w) \/ ApproveRemotely(w) \/ Decline(w)
    \/ Expire(w) \/ ExpireListed(w)

Next ==
    \/ \E w \in Worker : Reads(w) \/ Writes(w) \/ Abandon(w)
    \/ \E d \in Device, v \in Stream, remote \in RemoteControl :
            Advertise(d, v, remote)
    \/ \E v \in Stream : Lapse(v)
    \/ \E r \in Request : Later(r)

Spec == Init /\ [][Next]_vars

\* Time passes; a transaction that is open ends, one way or the other; the
\* clean-up finds a turn again and again and does not fail every time
\* (_cleanup_loop goes on after a clean-up that raised).
Fairness ==
    /\ \A r \in Request : WF_vars(Later(r))
    /\ \A w \in Worker : /\ WF_vars(Writes(w) \/ Abandon(w))
                         /\ SF_vars(ReadOverdue(w, "expire")) /\ SF_vars(Expire(w))
FairSpec == Spec /\ Fairness

-----------------------------------------------------------------------------
(* Correctness *)

\* No media without consent: a request is viewed, or its media signalled, only
\* after an approval, and the requester's own approval counts only where the
\* tablet had remote control on when the request was made.
ConsentGiven ==
    \A r \in Request : requests[r] # Nil =>
        /\ requests[r].state \in Active \/ requests[r].media # "none"
             => requests[r].by # "nobody"
        /\ requests[r].by = "requester" => requests[r].remote

\* One request per device is approved or streaming: a new approval redirects
\* the viewer there was.
OneViewerPerDevice ==
    \A q, r \in In(Active) : DeviceOf(q) = DeviceOf(r) => q = r

\* The handler that writes in w read request r while it was live, and gives
\* it another live state.
Overtaken(w, r) ==
    /\ ~Idle(w) /\ work[w].req = r /\ Writes(w)
    /\ work[w].was.state \in Live /\ ~work[w].was.overdue
    /\ work[w].op \in {"offer", "result", "approve", "approve_remotely", "started"}

\* A request that ended comes back only by a handler that had read it before
\* it ended, in time, and writes after: none takes an ended request up.
EndedStaysEnded ==
    [][\A r \in In(Terminal) :
        \/ requests'[r].state \in Terminal
        \/ \E w \in Worker : Overtaken(w, r)]_vars

\* A viewer who was redirected in favour of another one is not approved or
\* streaming again.
DisplacedIsDone ==
    [][\A r \in In({"redirected"}) : requests'[r].state \notin Active]_vars

\* Every request ends.
RequestsEnd == \A r \in Request : [](r \in In(Live) => <>(r \notin In(Live)))

\* The preflight's SDP and ICE credentials go when the request has ended.
ProbesDiscarded ==
    \A r \in Request :
        [](r \in In(Terminal)
             => <>(requests[r] # Nil /\ requests[r].probe = "none"))
=============================================================================
