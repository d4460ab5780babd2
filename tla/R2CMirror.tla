------------------------------ MODULE R2CMirror ------------------------------
(***************************************************************************)
(* The SQL mirror of an owner: the hub's entry for one drone under one key *)
(* and the rows of r2c_drone_owner_state that stand for it.                *)
(*                                                                         *)
(* A handler changes the entry under the hub's lock and writes the row     *)
(* after it has released it, in a transaction of its own that reads the    *)
(* row first.  The index on the row's key is not unique.  Handlers of      *)
(* different tablets, the sweep, the load at start-up and the daily        *)
(* clean-up overlap; those of one tablet follow one another.  A handler    *)
(* whose write raises ends its tablet's connection; a sweep whose write    *)
(* raises ends _expiry_loop, which catches nothing else than its           *)
(* cancellation.                                                           *)
(*                                                                         *)
(* Which claim is the better one (_pick_owner) is left open, and so is     *)
(* when a tablet speaks.  No tablet changes its key, and none is back      *)
(* before its last connection has written what it had to.                  *)
(***************************************************************************)
EXTENDS Integers, FiniteSets

CONSTANTS
    Tablet,
    Lease,      \* R2C_LEASE_SEC, in ticks
    Sweeper,    \* the task that runs _expiry_loop
    NoOne       \* no owner, no row, nothing to write

Writer == Tablet \cup {Sweeper}

VARIABLES
    owner,      \* the drone's entry in _owners
    mirror,     \* its rows, each under the tablet whose handler inserted it
    tail,       \* [Writer -> what it has still to write]
    expiring,   \* _expiry_loop has not ended
    load,       \* _load_state
    doomed      \* the rows the clean-up has found and not yet deleted

mirrorVars == <<owner, mirror, tail, expiring, load, doomed>>

\* left: ticks until the lease has run out.
Held == [of : Tablet, confirmed : BOOLEAN, left : 0 .. Lease]
Mirrored == [of : Tablet, left : 0 .. Lease]

ASSUME MirrorAssumption ==
    /\ Lease \in Nat \ {0}
    /\ Sweeper \notin Tablet /\ NoOne \notin Tablet \cup Mirrored
    /\ {"unread", "absent", "deleted"} \cap Tablet = {}

\* shared: the values are those of the entry in _owners, and change with it.
\* seen: the row the transaction has read; was: whose it was, for an upsert.
Pending ==
    [op : {"upsert", "delete"}, of : Tablet \cup {NoOne}, left : 0 .. Lease,
     shared : BOOLEAN, was : Tablet \cup {NoOne},
     seen : Tablet \cup {"unread", "absent", "deleted"}]

MirrorTypeOK ==
    /\ owner \in Held \cup {NoOne}
    /\ mirror \in [Tablet -> Mirrored \cup {NoOne}]
    /\ tail \in [Writer -> Pending \cup {NoOne}]
    /\ expiring \in BOOLEAN /\ doomed \subseteq Tablet
    /\ load \in [step : {"due", "read", "over"}, found : SUBSET Mirrored]

Entry(t, confirmed) == [of |-> t, confirmed |-> confirmed, left |-> Lease]
Upsert(entry, shared) ==
    [op |-> "upsert", of |-> entry.of, left |-> entry.left, shared |-> shared,
     was |-> NoOne, seen |-> "unread"]
Delete ==
    [op |-> "delete", of |-> NoOne, left |-> 0, shared |-> FALSE,
     was |-> NoOne, seen |-> "unread"]

\* The writes under way, when _owners gets another entry, or none.
Parted ==
    [w \in Writer |->
        IF tail[w] = NoOne THEN NoOne ELSE [tail[w] EXCEPT !.shared = FALSE]]

\* The writes under way, when the entry's lease is renewed.
Renewed ==
    [w \in Writer |->
        IF tail[w] # NoOne /\ tail[w].shared
        THEN [tail[w] EXCEPT !.left = Lease] ELSE tail[w]]

Rows == {t \in Tablet : mirror[t] # NoOne}
Lapsed == {t \in Rows : mirror[t].left = 0}
-----------------------------------------------------------------------------
MirrorInit ==
    /\ owner = NoOne /\ mirror = [t \in Tablet |-> NoOne]
    /\ tail = [w \in Writer |-> NoOne]
    /\ expiring = TRUE /\ load = [step |-> "due", found |-> {}] /\ doomed = {}

(* What handlers do under the lock *)

Takes(t, confirmed) ==
    /\ owner' = Entry(t, confirmed)
    /\ tail' = [Parted EXCEPT ![t] = Upsert(owner', TRUE)]

Keeps(t, shared) ==
    /\ owner' = [owner EXCEPT !.left = Lease]
    /\ tail' = [Renewed EXCEPT ![t] = Upsert(owner', shared)]

Drops(w) == owner' = NoOne /\ tail' = [Parted EXCEPT ![w] = Delete]

Idle(w) == tail[w] = NoOne
HeldBy(t) == owner # NoOne /\ owner.of = t

\* _handle_first_sighting: it writes nothing while a confirmed owner's lease runs.
FirstSighting(t) ==
    /\ Idle(t)
    /\ \/ /\ owner # NoOne => ~owner.confirmed \/ owner.left = 0
          /\ Takes(t, FALSE)
       \/ owner # NoOne /\ ~owner.confirmed /\ Keeps(t, TRUE)
    /\ UNCHANGED <<mirror, expiring, load, doomed>>

\* _handle_heartbeat, and _handle_sighting of the owner's zone: a copy is written.
Renew(t) ==
    /\ Idle(t) /\ HeldBy(t) /\ Keeps(t, FALSE)
    /\ UNCHANGED <<mirror, expiring, load, doomed>>

\* _handle_drone_confirmed
DroneConfirmed(t) ==
    /\ Idle(t) /\ Takes(t, TRUE)
    /\ UNCHANGED <<mirror, expiring, load, doomed>>

\* _handle_drone_lost
DroneLost(t) ==
    /\ Idle(t) /\ HeldBy(t) /\ Drops(t)
    /\ UNCHANGED <<mirror, expiring, load, doomed>>

\* disconnect: owners of other sources are left to the sweep.
Disconnect(t) ==
    /\ Idle(t) /\ HeldBy(t) /\ owner.confirmed /\ Drops(t)
    /\ UNCHANGED <<mirror, expiring, load, doomed>>

\* Fault: an owner that was confirmed is left to its tablet's disconnect.
SweepUnconfirmed ==
    /\ expiring /\ Idle(Sweeper) /\ owner # NoOne
    /\ owner.left = 0 /\ ~owner.confirmed /\ Drops(Sweeper)
    /\ UNCHANGED <<mirror, expiring, load, doomed>>

\* expire_stale_entries
Sweep ==
    /\ expiring /\ Idle(Sweeper) /\ owner # NoOne /\ owner.left = 0
    /\ Drops(Sweeper) /\ UNCHANGED <<mirror, expiring, load, doomed>>

(* Their transactions *)

\* The exception leaves the handler: serve_r2c_websocket disconnects the tablet;
\* nothing is there to catch the sweep's.
Raises(w) ==
    /\ IF HeldBy(w) /\ owner.confirmed THEN Drops(w)
       ELSE tail' = [tail EXCEPT ![w] = NoOne] /\ UNCHANGED owner
    /\ expiring' = (expiring /\ w # Sweeper)
    /\ UNCHANGED <<mirror, load, doomed>>

\* The SELECT of _upsert_owner_state and _delete_owner_state;
\* scalar_one_or_none raises when there are two rows.
Read(w) ==
    /\ ~Idle(w) /\ tail[w].seen = "unread"
    /\ \/ Cardinality(Rows) > 1 /\ Raises(w)
       \/ /\ Rows = {}
          /\ tail' = [tail EXCEPT ![w].seen = "absent"]
          /\ UNCHANGED <<owner, mirror, expiring, load, doomed>>
       \/ \E t \in Tablet :
          /\ Rows = {t}
          /\ tail' = [tail EXCEPT ![w].seen = t, ![w].was =
                IF tail[w].op = "upsert" THEN mirror[t].of ELSE NoOne]
          /\ UNCHANGED <<owner, mirror, expiring, load, doomed>>

\* Whoever has read a row that is deleted will find it gone.
RowsDeleted(gone, tails) ==
    /\ mirror' = [t \in Tablet |-> IF t \in gone THEN NoOne ELSE mirror[t]]
    /\ tail' = [w \in Writer |->
            IF tails[w] # NoOne /\ tails[w].seen \in gone
            THEN [tails[w] EXCEPT !.seen = "deleted", !.was = NoOne]
            ELSE tails[w]]

Over(w) == [tail EXCEPT ![w] = NoOne]

\* Fault: the guid column is left at its default.
InsertUnnamed(w) ==
    /\ tail[w].op = "upsert" /\ tail[w].seen = "absent"
    /\ mirror' = [mirror EXCEPT ![w] = [of |-> NoOne, left |-> tail[w].left]]
    /\ tail' = Over(w) /\ UNCHANGED <<owner, expiring, load, doomed>>

\* The INSERT, also if another one came between.
Insert(w) ==
    /\ tail[w].op = "upsert" /\ tail[w].seen = "absent"
    /\ mirror' = [mirror EXCEPT ![w] = [of |-> tail[w].of, left |-> tail[w].left]]
    /\ tail' = Over(w) /\ UNCHANGED <<owner, expiring, load, doomed>>

\* Fault: the row keeps the guid it was inserted with.
UpdateLease(w) ==
    /\ tail[w].op = "upsert" /\ tail[w].seen \in Tablet
    /\ mirror' = [mirror EXCEPT ![tail[w].seen].left = tail[w].left]
    /\ tail' = Over(w) /\ UNCHANGED <<owner, expiring, load, doomed>>

\* The UPDATE sets the columns that differ from what was read: the lease, and
\* the guid if another was read.  One of a deleted row raises.
Update(w) ==
    /\ tail[w].op = "upsert"
    /\ \/ /\ tail[w].seen \in Tablet
          /\ mirror' = [mirror EXCEPT ![tail[w].seen] =
                [of |-> IF tail[w].of = tail[w].was THEN @.of ELSE tail[w].of,
                 left |-> tail[w].left]]
          /\ tail' = Over(w) /\ UNCHANGED <<owner, expiring, load, doomed>>
       \/ tail[w].seen = "deleted" /\ Raises(w)

\* The DELETE; one of a row that is gone is no error.
DeleteRow(w) ==
    /\ tail[w].op = "delete" /\ tail[w].seen # "unread"
    /\ RowsDeleted({tail[w].seen} \cap Tablet, Over(w))
    /\ doomed' = doomed \ {tail[w].seen}
    /\ UNCHANGED <<owner, expiring, load>>

Writes(w) == Read(w) \/ (~Idle(w) /\ (Insert(w) \/ Update(w) \/ DeleteRow(w)))

(* Start-up and clean-up *)

\* _load_state, its transaction ...
LoadRead ==
    /\ load.step = "due"
    /\ load' = [step |-> "read", found |-> {mirror[t] : t \in Rows \ Lapsed}]
    /\ UNCHANGED <<owner, mirror, tail, expiring, doomed>>

\* ... and what it does under the lock, whatever handlers did in between.  Of
\* two rows, one becomes the entry; that it was confirmed is not in the row.
LoadTaken ==
    /\ load.step = "read"
    /\ IF load.found = {} THEN owner' = NoOne
       ELSE \E row \in load.found :
            owner' = [of |-> row.of, confirmed |-> FALSE, left |-> row.left]
    /\ tail' = Parted /\ load' = [step |-> "over", found |-> {}]
    /\ UNCHANGED <<mirror, expiring, doomed>>

\* _load_state_safe: the time is up, or the database failed.
LoadGivenUp ==
    /\ load.step # "over" /\ load' = [step |-> "over", found |-> {}]
    /\ UNCHANGED <<owner, mirror, tail, expiring, doomed>>

\* _cleanup_persisted_state, its query ...
CleanUpFinds ==
    /\ doomed = {} /\ Lapsed # {} /\ doomed' = Lapsed
    /\ UNCHANGED <<owner, mirror, tail, expiring, load>>

\* ... and its deletes, by primary key, whatever the rows hold by then.
CleanUpDeletes ==
    /\ doomed # {} /\ doomed' = {} /\ RowsDeleted(doomed, tail)
    /\ UNCHANGED <<owner, expiring, load>>

CleanUpFails ==
    /\ doomed # {} /\ doomed' = {}
    /\ UNCHANGED <<owner, mirror, tail, expiring, load>>

(* Time and failure *)

Less(n) == IF n = 0 THEN 0 ELSE n - 1
Older(held) == IF held = NoOne THEN NoOne ELSE [held EXCEPT !.left = Less(@)]

LeasesRun ==
    /\ owner' = Older(owner)
    /\ mirror' = [t \in Tablet |-> Older(mirror[t])]
    /\ tail' = [w \in Writer |-> Older(tail[w])]
    /\ load' = [load EXCEPT !.found = {Older(row) : row \in @}]
    /\ UNCHANGED <<expiring, doomed>>

\* The process ends, and another starts.
Restart ==
    /\ owner' = NoOne /\ tail' = [w \in Writer |-> NoOne] /\ expiring' = TRUE
    /\ load' = [step |-> "due", found |-> {}] /\ doomed' = {}
    /\ UNCHANGED mirror
-----------------------------------------------------------------------------
\* A tablet says that it has seen the drone, or keeps the lease.
Vouches(t) == FirstSighting(t) \/ Renew(t) \/ DroneConfirmed(t)

MirrorNext ==
    \/ \E t \in Tablet : Vouches(t) \/ DroneLost(t) \/ Disconnect(t)
    \/ Sweep \/ \E w \in Writer : Writes(w)
    \/ LoadRead \/ LoadTaken \/ LoadGivenUp
    \/ CleanUpFinds \/ CleanUpDeletes \/ CleanUpFails
    \/ LeasesRun \/ Restart

\* Time passes, transactions end, the sweep's loop goes on while it lives, and
\* not every clean-up fails.
MirrorFairness ==
    /\ WF_mirrorVars(LeasesRun) /\ WF_mirrorVars(Sweep)
    /\ \A w \in Writer : WF_mirrorVars(Writes(w))
    /\ WF_mirrorVars(LoadRead \/ LoadTaken \/ LoadGivenUp)
    /\ WF_mirrorVars(CleanUpFinds) /\ SF_mirrorVars(CleanUpDeletes)

MirrorSpec == MirrorInit /\ [][MirrorNext]_mirrorVars /\ MirrorFairness
-----------------------------------------------------------------------------
(* Correctness *)

\* From some point on no tablet vouches for the drone, and no process ends.
GoesQuiet == <>[][~Restart /\ \A t \in Tablet : ~Vouches(t)]_mirrorVars
OneRow == Cardinality(Rows) <= 1

\* What nobody vouches for is forgotten: the rows of a drone nobody sees any
\* more are deleted, however writes, deletes, loads and clean-ups overlapped, and
\* so is its owner in memory, also one a restart brought back, if the drone never
\* had two rows.
Forgotten ==
    GoesQuiet => <>[](Rows = {}) /\ ([]OneRow => <>[](owner = NoOne))

\* An owner that keeps its lease is in the database again and again, whatever a
\* late write of another tablet, a clean-up that found its row before it was
\* renewed, or a second row did: a restart then finds it.
RowCatchesUp ==
    \A t \in Tablet :
        <>[]HeldBy(t) /\ []<><<Renew(t)>>_mirrorVars
            => []<>(\E r \in Rows : mirror[r].of = t)

\* An owner whose tablet stops sending heartbeats and sightings stops owning the
\* drone when the lease expires (R2C_PROTOCOL.md).
LeaseEnds == GoesQuiet => <>[](owner = NoOne)
=============================================================================
