--------------------------- MODULE RecordingDownload ---------------------------
(***************************************************************************)
(* Recording downloads: a requester asks for a recording on a tablet, the  *)
(* tablet uploads a copy into the tracker's spool, a browser fetches it,   *)
(* and the copy is deleted.  The requests are rows, the copies are files;  *)
(* a handler changes the one after the other, and may stop in between.     *)
(*                                                                         *)
(* A copy's path has the recording's id in it and not the request's, as    *)
(* the tablet names a recording alike each time: so requests for one       *)
(* recording share a file.                                                 *)
(*                                                                         *)
(* All transactions but the expiry lock the row, and that of the           *)
(* recording's stream, before they look at it: they are one step each.     *)
(* But a handler takes the time before it waits for the lock: a deadline   *)
(* that passes meanwhile goes unnoticed (Noticed).                         *)
(*                                                                         *)
(* What a file contains is left out, and so is a PUT that overlaps another *)
(* of the same request.  Handlers take less than the TTL (Age, AgePart).   *)
(***************************************************************************)
CONSTANTS
    Job,         \* HTTP requests that can be under way at once
    Request,     \* request ids; none is used twice
    User,        \* requesters
    Recording,
    Nil

VARIABLES
    rows,        \* RecordingDownloadRequest
    spool,       \* the file of each recording below recordings/
    parts,       \* the .part file of each request
    jobs,        \* what each HTTP request is about to do
    sweep        \* the recordings whose files the cleanup is about to delete

vars == <<rows, spool, parts, jobs, sweep>>

Unsettled == {"awaiting_approval", "approved", "uploading"}
Ended == {"declined", "expired", "downloaded"}
File == {"none", "young", "old"}   \* old: last written longer ago than the TTL

\* late: expires_at has passed.  stored: storage_relpath is set.
Row ==
    [recording : Recording, requester : User,
     state : Unsettled \cup {"ready"} \cup Ended, late : BOOLEAN,
     stored : BOOLEAN]

Step ==
    {"starting", "writing", "written", "replaced", "streaming", "delivered",
     "expiring"}

TypeOK ==
    /\ rows \in [Request -> Row \cup {Nil}]
    /\ spool \in [Recording -> File]
    /\ parts \in [Request -> File]
    /\ jobs \in [Job -> [step : Step, request : Request] \cup {Nil}]
    /\ sweep \in (SUBSET Recording) \cup {Nil}

ASSUME NilAssumption == Nil \notin Row

In(states) == {r \in Request : rows[r] # Nil /\ rows[r].state \in states}
Of(v) == {r \in Request : rows[r] # Nil /\ rows[r].recording = v}

At(j, step) == jobs[j] # Nil /\ jobs[j].step = step
Starts(j, step, r) ==
    jobs[j] = Nil /\ jobs' = [jobs EXCEPT ![j] = [step |-> step, request |-> r]]
GoesTo(j, step) == jobs' = [jobs EXCEPT ![j].step = step]
Ends(j) == jobs' = [jobs EXCEPT ![j] = Nil]

\* What a transaction may take the deadline of row r for.
Noticed(r) == {FALSE, rows[r].late}

Becomes(r, state, late) ==
    rows' = [rows EXCEPT ![r].state = state, ![r].late = late]
-----------------------------------------------------------------------------
Init ==
    /\ rows = [r \in Request |-> Nil]
    /\ spool = [v \in Recording |-> "none"]
    /\ parts = [r \in Request |-> "none"]
    /\ jobs = [j \in Job |-> Nil]
    /\ sweep = Nil

(* Request and decision *)

\* Fault: a request that awaits its approval is not looked for.
OpenTransfersOf(u, v) ==
    {r \in Of(v) \cap In({"approved", "uploading"}) :
        rows[r].requester = u /\ ~rows[r].late}

\* The requester's own request for the recording, still open.
OpenOf(u, v) ==
    {r \in Of(v) \cap In(Unsettled) : rows[r].requester = u /\ ~rows[r].late}

\* create_recording_download_request: otherwise the requester gets the
\* recording's request that is ready, or the own one that is open.
Create(r, u, v, remote) ==
    /\ rows[r] = Nil
    /\ Of(v) \cap In({"ready"}) = {} /\ OpenOf(u, v) = {}
    /\ rows' = [rows EXCEPT ![r] =
            [recording |-> v, requester |-> u,
             state |-> IF remote THEN "approved" ELSE "awaiting_approval",
             late |-> FALSE, stored |-> FALSE]]
    /\ UNCHANGED <<spool, parts, jobs, sweep>>

\* Fault: the state is the word of the tablet's message.
DecidedByMessage(approved) == IF approved THEN "approved" ELSE "decline"

Decided(approved) == IF approved THEN "approved" ELSE "declined"

\* decide_recording_download_request.  A request whose deadline has passed is
\* closed first, whatever its state.  One that is declined has no time left.
Decide(r, approved) ==
    /\ rows[r] # Nil
    /\ \E late \in Noticed(r) :
        /\ late => Becomes(r, "expired", TRUE)
        /\ ~late => /\ rows[r].state \in {"awaiting_approval", "approved"}
                    /\ Becomes(r, Decided(approved), ~approved)
    /\ UNCHANGED <<spool, parts, jobs, sweep>>

(* The tablet's upload: one PUT per chunk *)

\* upload_recording_download: the upload of a request that awaits approval
\* counts as its approval.
BeginUpload(j, r) ==
    /\ r \in In(Unsettled) /\ ~rows[r].late
    /\ Starts(j, "starting", r)
    /\ IF rows[r].state = "awaiting_approval"
       THEN Becomes(r, "approved", FALSE) ELSE UNCHANGED rows
    /\ UNCHANGED <<spool, parts, sweep>>

\* mark_recording_download_uploading
MarkUploading(j) ==
    /\ At(j, "starting")
    /\ LET r == jobs[j].request IN \E late \in Noticed(r) :
        /\ late => Becomes(r, "expired", TRUE) /\ Ends(j)
        /\ ~late => /\ rows[r].state \in {"approved", "uploading"}
                    /\ rows' = [rows EXCEPT ![r].state = "uploading"]
                    /\ GoesTo(j, "writing")
    /\ UNCHANGED <<spool, parts, sweep>>

\* The chunk is written: the last one, or one to be followed by others.
WriteChunk(j) ==
    /\ At(j, "writing")
    /\ parts' = [parts EXCEPT ![jobs[j].request] = "young"]
    /\ GoesTo(j, "written") \/ Ends(j)
    /\ UNCHANGED <<rows, spool, sweep>>

RecordingOf(j) == rows[jobs[j].request].recording

\* os.replace.  The handler then reads what it has put there, also when the
\* file is removed meanwhile.
ReplaceFile(j) ==
    /\ At(j, "written") /\ parts[jobs[j].request] # "none"
    /\ spool' = [spool EXCEPT ![RecordingOf(j)] = parts[jobs[j].request]]
    /\ parts' = [parts EXCEPT ![jobs[j].request] = "none"]
    /\ GoesTo(j, "replaced") /\ UNCHANGED <<rows, sweep>>

\* complete_recording_download_upload
CompleteUpload(j) ==
    /\ At(j, "replaced") /\ Ends(j)
    /\ LET r == jobs[j].request IN \E late \in Noticed(r) :
        /\ late => Becomes(r, "expired", TRUE)
        /\ ~late =>
            /\ rows[r].state \in {"approved", "uploading"}
            /\ rows' = [rows EXCEPT ![r].state = "ready", ![r].late = FALSE,
                                   ![r].stored = TRUE]
    /\ UNCHANGED <<spool, parts, sweep>>

(* The browser's download *)

\* organization_recording_download: any requester may fetch it.
OpenCopy(j, r) ==
    /\ r \in In({"ready"}) /\ rows[r].stored
    /\ spool[rows[r].recording] # "none"
    /\ Starts(j, "streaming", r) /\ UNCHANGED <<rows, spool, parts, sweep>>

\* Fault: whatever became of the request meanwhile.
DeliverAnyway(j) ==
    /\ At(j, "streaming") /\ GoesTo(j, "delivered")
    /\ rows' = [rows EXCEPT ![jobs[j].request].state = "downloaded",
                           ![jobs[j].request].stored = FALSE]
    /\ UNCHANGED <<spool, parts, sweep>>

\* complete_recording_download_delivery, once the last byte is sent.
Deliver(j) ==
    /\ At(j, "streaming") /\ GoesTo(j, "delivered")
    /\ LET r == jobs[j].request IN
        rows' = IF rows[r].state # "ready" THEN rows
                ELSE [rows EXCEPT ![r].state = "downloaded", ![r].late = TRUE,
                                  ![r].stored = FALSE]
    /\ UNCHANGED <<spool, parts, sweep>>

\* delete_delivered_recording_copy, the file.
RemoveDelivered(j) ==
    /\ At(j, "delivered") /\ Ends(j)
    /\ spool' = [spool EXCEPT ![RecordingOf(j)] = "none"]
    /\ UNCHANGED <<rows, parts, sweep>>

(* Expiry and clean-up *)

\* _expire_recording_download_requests, which runs when requests are read, and
\* takes no lock: its query, one row at a time, and its update.
ReadLate(j, r) ==
    /\ r \in In(Unsettled) /\ rows[r].late
    /\ Starts(j, "expiring", r) /\ UNCHANGED <<rows, spool, parts, sweep>>

ExpireLate(j) ==
    /\ At(j, "expiring") /\ Ends(j)
    /\ rows' = [rows EXCEPT ![jobs[j].request].state = "expired"]
    /\ UNCHANGED <<spool, parts, sweep>>

\* Fault: a request is given up if its file is still there to delete.
AbandonedFiles ==
    {r \in In({"ready"}) : rows[r].late /\ spool[rows[r].recording] # "none"}

Abandoned == {r \in In({"ready"}) : rows[r].late /\ rows[r].stored}

\* expire_recording_download_spools, by the cleanup worker.
ExpireSpools ==
    /\ sweep = Nil
    /\ LET gone == Abandoned IN
        /\ sweep' = {rows[r].recording : r \in gone}
        /\ rows' = [r \in Request |->
                IF r \in gone
                THEN [rows[r] EXCEPT !.state = "expired", !.stored = FALSE]
                ELSE rows[r]]
    /\ UNCHANGED <<spool, parts, jobs>>

\* Fault: only the files of requests that were given up.
RemoveExpiredOnly ==
    /\ sweep # Nil /\ sweep' = Nil
    /\ spool' = [v \in Recording |-> IF v \in sweep THEN "none" ELSE spool[v]]
    /\ UNCHANGED <<rows, parts, jobs>>

\* _remove_expired_recording_spool_files: those, and all that are old.
RemoveExpired ==
    /\ sweep # Nil /\ sweep' = Nil
    /\ spool' = [v \in Recording |->
            IF v \in sweep \/ spool[v] = "old" THEN "none" ELSE spool[v]]
    /\ parts' = [r \in Request |->
            IF parts[r] = "old" THEN "none" ELSE parts[r]]
    /\ UNCHANGED <<rows, jobs>>

(* Time and failure *)

Later(r) ==
    /\ rows[r] # Nil /\ ~rows[r].late
    /\ rows' = [rows EXCEPT ![r].late = TRUE]
    /\ UNCHANGED <<spool, parts, jobs, sweep>>

\* A copy's clock starts with its last chunk, before that of its request, so it
\* may be old while the request has time left.
Age(v) ==
    /\ spool[v] = "young"
    /\ \A j \in Job : At(j, "replaced") => RecordingOf(j) # v
    /\ spool' = [spool EXCEPT ![v] = "old"]
    /\ UNCHANGED <<rows, parts, jobs, sweep>>

AgePart(r) ==
    /\ parts[r] = "young"
    /\ \A j \in Job : At(j, "written") => jobs[j].request # r
    /\ parts' = [parts EXCEPT ![r] = "old"]
    /\ UNCHANGED <<rows, spool, jobs, sweep>>

\* A handler that is refused or fails, a connection that breaks, an instance
\* that stops.
Abandon(j) ==
    jobs[j] # Nil /\ Ends(j) /\ UNCHANGED <<rows, spool, parts, sweep>>

AbandonSweep ==
    sweep # Nil /\ sweep' = Nil /\ UNCHANGED <<rows, spool, parts, jobs>>
-----------------------------------------------------------------------------
Goes(j) ==
    \/ MarkUploading(j) \/ WriteChunk(j) \/ ReplaceFile(j)
    \/ CompleteUpload(j) \/ Deliver(j) \/ RemoveDelivered(j) \/ ExpireLate(j)

Next ==
    \/ \E r \in Request, u \in User, v \in Recording, remote \in BOOLEAN :
            Create(r, u, v, remote)
    \/ \E r \in Request, approved \in BOOLEAN : Decide(r, approved)
    \/ \E j \in Job, r \in Request :
            BeginUpload(j, r) \/ OpenCopy(j, r) \/ ReadLate(j, r)
    \/ \E j \in Job : Goes(j) \/ Abandon(j)
    \/ ExpireSpools \/ RemoveExpired \/ AbandonSweep
    \/ \E r \in Request : Later(r) \/ AgePart(r)
    \/ \E v \in Recording : Age(v)

Spec == Init /\ [][Next]_vars

\* Time passes; a handler that is under way ends, one way or the other; the
\* cleanup worker goes round again and again, and not every round is cut short.
Fairness ==
    /\ \A r \in Request : WF_vars(Later(r)) /\ WF_vars(AgePart(r))
    /\ \A v \in Recording : WF_vars(Age(v))
    /\ \A j \in Job : WF_vars(Goes(j) \/ Abandon(j))
    /\ WF_vars(ExpireSpools) /\ SF_vars(RemoveExpired)
FairSpec == Spec /\ Fairness
-----------------------------------------------------------------------------
(* Correctness *)

\* Bound: the cleanup worker does not run, so that only a delivery can take a
\* file away.
CleanupWaits == sweep = Nil

\* A requester has the tablet's operator asked once about a recording, until
\* the question is answered or overdue, though the form may be sent again and
\* answers may come in the moment they are due.
OneQuestion ==
    \A q, r \in In({"awaiting_approval"}) :
        q = r \/ rows[q].late \/ rows[r].late
        \/ rows[q].recording # rows[r].recording
        \/ rows[q].requester # rows[r].requester

\* A request that was declined, has expired or was delivered stays ended, and a
\* declined or expired one is never delivered: a tablet's upload, a download or
\* an expiry that was under way when it ended does not reopen it.
EndedStaysEnded ==
    [][\A r \in In(Ended) :
        /\ rows'[r].state \in Ended
        /\ rows'[r].state = "downloaded" => rows[r].state = "downloaded"]_vars

\* A request that is "ready to download", and has time left, has its file.
ReadyHasFile ==
    \A r \in In({"ready"}) :
        ~rows[r].late => spool[rows[r].recording] # "none"

\* No copy stays in the spool: neither one delivered, nor one whose request
\* expired or was never completed, nor a part of one, wherever a handler stopped.
CopiesGo ==
    /\ \A v \in Recording : []<>(spool[v] = "none")
    /\ \A r \in Request : []<>(parts[r] = "none")

\* A request that is ready is delivered or expires, with its file or without: new
\* requests for the recording are not referred to it for ever.
ReadyEnds == \A r \in Request : []<>(r \notin In({"ready"}))
=============================================================================
