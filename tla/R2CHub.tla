------------------------------- MODULE R2CHub -------------------------------
(***************************************************************************)
(* The live coordination state of the tracker: class R2CCoordinationHub of *)
(* main.py, driven by serve_r2c_websocket.                                 *)
(*                                                                         *)
(* Tablets keep a websocket open to the hub, register ("hello") under a    *)
(* coordination key - the CalTopo map they report, or for tablets without  *)
(* one a standalone group found by proximity - and claim, confirm and      *)
(* release drones.  Every handler changes the hub's dictionaries inside    *)
(* one critical section of the hub's lock, so each handler is one action.  *)
(* What the handlers do after the lock is released (SQL, sends) changes    *)
(* none of these dictionaries.                                             *)
(*                                                                         *)
(* Time is relative: a lease is stored as the ticks it has left, the other *)
(* timestamps as ages, all saturating, and Tick advances them together.    *)
(***************************************************************************)
EXTENDS Integers, FiniteSets, OwnerOrder

CONSTANTS
    Socket,      \* websocket objects; one is reused once nothing refers to it
    Tablet,      \* enrolled devices (device credentials)
    Org,         \* organizations
    Zone,        \* zone ids, as their ranks in lexical order; guid = zoneId
    Map,         \* CalTopo map ids, as ranks
    Standalone,  \* the keys that start with "Standalone_", as ranks
    Drone,       \* remote ids
    Place,       \* usable locations
    NoFix,       \* a location _has_usable_location rejects
    Nil          \* dict.get without an entry

CONSTANTS
    TabletOf,    \* [Socket -> Tablet]: the credential the socket presented
    OrgOf,       \* [Tablet -> Org]: the organization of the credential
    ZoneOf,      \* [Tablet -> Zone]: the zone id its app reports
    OwnKey,      \* [Zone -> Standalone]: _standalone_map_id_for_zone
    Distance,    \* [Place -> [Place -> Nat]]
    Radius,      \* STANDALONE_GROUP_RADIUS_M
    Lease,       \* R2C_LEASE_SEC, in ticks; 0: less than one
    Silence,     \* R2C_CLIENT_SILENCE_SEC, in ticks; 0: less than one
    Retention    \* CONFIRMATION_RETENTION_MS, in ticks

CONSTANTS
    Reports,     \* the map ids tablets report in hello, NoMap included or not
    Claims,      \* [ts, dist, mapped] records tablets send in first_sighting
    Labels,      \* has the mappedId of a drone_confirmed text? those they send
    EarlyMaps,   \* map ids tablets name in messages they send before hello
    Overlap,     \* may a tablet open a socket while its last one is open?
    GateReleases \* is R2C_MIN_TRACKER_FUNCTIONALITY_RELEASE positive?

NoMap == 0       \* the empty map id: not reported, or no hello yet
Stale == Lease + 1
Key == Map \cup Standalone
Location == Place \cup {NoFix}
Slots == Org \X Key \X Zone        \* the entries of _zones_by_map
Claimable == Org \X Key \X Drone   \* the entries of _owners

Connection ==
    [key : Key \cup {NoMap}, reported : Map \cup {NoMap},
     mode : {"map", "standalone"}, place : Location, parked : BOOLEAN,
     wired : BOOLEAN, seen : 0 .. Stale, quiet : 0 .. Silence]
Owner ==
    [zone : Zone, ts : Int, dist : Int, mapped : BOOLEAN,
     confirmed : BOOLEAN, left : -1 .. Lease]
Confirmation == [by : Zone, age : 0 .. Retention + 1]
Holder ==          \* what DroneOwnership says of an owner
    [zone : Zone, ts : Int, dist : Int, mapped : BOOLEAN,
     confirmed : BOOLEAN, active : BOOLEAN]

ASSUME ConstantsAssumption ==
    /\ TabletOf \in [Socket -> Tablet] /\ OrgOf \in [Tablet -> Org]
    /\ ZoneOf \in [Tablet -> Zone] /\ OwnKey \in [Zone -> Standalone]
    /\ Zone \subseteq Int /\ Key \subseteq Nat \ {NoMap}
    /\ Map \cap Standalone = {} /\ Reports \subseteq Map \cup {NoMap}
    /\ EarlyMaps \subseteq Map /\ NoFix \notin Place
    /\ Distance \in [Place -> [Place -> Nat]] /\ Radius \in Nat
    /\ Lease \in Nat /\ Silence \in Nat /\ Retention \in Nat
    /\ Claims \subseteq [ts : Int, dist : Int, mapped : BOOLEAN]
    /\ Labels \subseteq BOOLEAN /\ Overlap \in BOOLEAN
    /\ GateReleases \in BOOLEAN
    /\ Nil \notin Socket /\ Nil \notin Owner \cup Holder
    /\ Nil \notin Confirmation

VARIABLES
    conn,    \* R2CZoneConnection of each socket
    task,    \* where its serve_r2c_websocket is; not "none" iff in _connections
    byDev,   \* _connections_by_device_credential_id
    zones,   \* _zones_by_map
    owners,  \* _owners
    confs    \* _confirmed_drones_by_map

vars == <<conn, task, byDev, zones, owners, confs>>

-----------------------------------------------------------------------------
(* Reading the state *)

Blank ==
    [key |-> NoMap, reported |-> NoMap, mode |-> "map", place |-> NoFix,
     parked |-> FALSE, wired |-> TRUE, seen |-> Stale, quiet |-> 0]

OrgAt(s) == OrgOf[TabletOf[s]]
ZoneAt(s) == ZoneOf[TabletOf[s]]
SlotOf(s) == <<OrgAt(s), conn[s].key, ZoneAt(s)>>
Registered(s) == conn[s].key # NoMap /\ zones[SlotOf(s)] = s

\* A connection object nothing refers to any more is gone.
Reap(c, t, z) ==
    [s \in Socket |->
        IF t[s] = "none" /\ \A r \in Slots : z[r] # s THEN Blank ELSE c[s]]

\* _message_context: the key of the connection, else the one in the message.
ContextKeys(s) == IF conn[s].key # NoMap THEN {conn[s].key} ELSE EarlyMaps

Active(owner) == owner # Nil /\ owner.left >= 0
\* Fault: the organization is not compared.
OwnedByAnyOrg(os, k, o, z) == os[k] # Nil /\ os[k].zone = z
OwnedBy(os, k, o, z) == k[1] = o /\ os[k] # Nil /\ os[k].zone = z

-----------------------------------------------------------------------------
(* Standalone grouping *)

KeysOf(mode) == IF mode = "map" THEN Map ELSE Standalone

\* Live zones of the given mode, other than z, within the radius of p.
Neighbours(o, z, p, mode) ==
    {r \in Slots :
        /\ r[1] = o /\ r[2] \in KeysOf(mode) /\ r[3] # z
        /\ zones[r] # Nil
        /\ conn[zones[r]].wired /\ conn[zones[r]].mode = mode
        /\ conn[zones[r]].place # NoFix
        /\ Distance[p][conn[zones[r]].place] <= Radius}

\* Fault: a tablet that is in a group is its own nearest neighbour.
NearestOrOwnKey(o, z, p, mode) ==
    LET own == {r \in Slots : /\ r[1] = o /\ r[2] \in KeysOf(mode) /\ r[3] = z
                              /\ zones[r] # Nil /\ conn[zones[r]].mode = mode}
        near == IF own # {} THEN own ELSE Neighbours(o, z, p, mode)
    IN {r[2] : r \in near}

\* The key of the nearest of them; the lowest key when two are as near.
NearestKey(o, z, p, mode) ==
    LET near == Neighbours(o, z, p, mode)
        D(r) == Distance[p][conn[zones[r]].place]
    IN {r[2] : r \in {r \in near : \A q \in near :
            D(r) < D(q) \/ (D(r) = D(q) /\ r[2] <= q[2])}}

\* Fault: the reported map is not looked at.
ResolveByPlaceOnly(o, z, reported, p) ==
    IF p = NoFix \/ NearestKey(o, z, p, "map") = {} THEN {OwnKey[z]}
    ELSE NearestKey(o, z, p, "map")

\* _resolve_coordination_map_id, as the set of its one answer.
Resolve(o, z, reported, p) ==
    IF reported # NoMap THEN {reported}
    ELSE IF p = NoFix THEN {OwnKey[z]}
    ELSE LET mapped == NearestKey(o, z, p, "map")
             group == NearestKey(o, z, p, "standalone")
         IN IF mapped # {} THEN mapped
            ELSE IF group # {} THEN group ELSE {OwnKey[z]}

\* _resolve_persisted_mapped_coordination_map_id: any map some tablet reports
\* may still have a recent row near p.  The rows are not part of this module.
PersistedMaps == Reports \ {NoMap}

\* Where a heartbeat of a standalone tablet at p puts it.
HomesOf(s, p) ==
    LET live == Resolve(OrgAt(s), ZoneAt(s), conn[s].reported, p)
    IN IF p # NoFix /\ live \subseteq Standalone
       THEN live \cup PersistedMaps ELSE live

\* Fault: the old entry stays.
EnrolledTwice(s, k) == [zones EXCEPT ![<<OrgAt(s), k, ZoneAt(s)>>] = s]

\* _zones_by_map after s has left its entry and taken the one under key k.
Enrolled(s, k) ==
    LET left == IF Registered(s) THEN [zones EXCEPT ![SlotOf(s)] = Nil]
                ELSE zones
    IN [left EXCEPT ![<<OrgAt(s), k, ZoneAt(s)>>] = s]

-----------------------------------------------------------------------------
(* Owners and confirmations *)

\* _prune_confirmed_drones_locked
Pruned(cs) ==
    [k \in Claimable |->
        IF cs[k] # Nil /\ cs[k].age > Retention THEN Nil ELSE cs[k]]

\* _merge_drone_confirmations_locked: the newer of the two events is kept.
Merged(cs, o, old, new) ==
    [k \in Claimable |->
        LET moved == cs[<<o, old, k[3]>>]
        IN IF /\ k[1] = o /\ k[2] = new /\ moved # Nil
              /\ cs[k] = Nil \/ moved.age <= cs[k].age
           THEN moved ELSE cs[k]]

\* Fault: the owner brought along replaces the one that is there.
MovedOwnersOverwrite(os, o, z, old, new) ==
    [k \in Claimable |->
        IF k[2] = old /\ OwnedBy(os, k, o, z) THEN Nil
        ELSE IF k[1] = o /\ k[2] = new /\ OwnedBy(os, <<o, old, k[3]>>, o, z)
        THEN os[<<o, old, k[3]>>] ELSE os[k]]

\* Owners of zone z move with it from key old to key new.
MovedOwners(os, o, z, old, new) ==
    [k \in Claimable |->
        LET from == <<o, old, k[3]>>
        IN IF k[2] = old /\ OwnedBy(os, k, o, z) THEN Nil
           ELSE IF k[1] = o /\ k[2] = new /\ OwnedBy(os, from, o, z)
           THEN IF os[k] = Nil THEN os[from] ELSE PickOwner(os[k], os[from])
           ELSE os[k]]

\* A heartbeat extends every lease of its zone in its organization.
Renewed(os, o, z) ==
    [k \in Claimable |->
        IF OwnedBy(os, k, o, z) THEN [os[k] EXCEPT !.left = Lease] ELSE os[k]]

\* Fault: a confirmation is not told from a claim.
ArbitratedLikeClaims(existing, z, claim) ==
    LET candidate == [zone |-> z, ts |-> claim.ts, dist |-> claim.dist,
                      mapped |-> claim.mapped, confirmed |-> FALSE,
                      left |-> Lease]
    IN IF existing = Nil THEN candidate
       ELSE [PickOwner(existing, candidate) EXCEPT !.left = Lease]

\* The owner of k after a first_sighting by zone z.
Arbitrated(existing, z, claim) ==
    LET candidate == [zone |-> z, ts |-> claim.ts, dist |-> claim.dist,
                      mapped |-> claim.mapped, confirmed |-> FALSE,
                      left |-> Lease]
    IN IF existing = Nil THEN candidate
       ELSE IF existing.confirmed
       THEN IF Active(existing) THEN existing ELSE candidate
       ELSE [PickOwner(existing, candidate) EXCEPT !.left = Lease]

\* Fault: the lease of a confirmed owner in another unit.
ConfirmedOwnerTwice(existing, z, mapped) ==
    [zone |-> z, ts |-> 0, dist |-> 0, mapped |-> mapped,
     confirmed |-> TRUE, left |-> 2 * Lease]

\* The owner a confirmation by zone z installs.
ConfirmedOwner(existing, z, mapped) ==
    [zone |-> z,
     ts |-> IF existing = Nil THEN 0 ELSE existing.ts,
     dist |-> IF existing = Nil THEN 0 ELSE existing.dist,
     mapped |-> mapped, confirmed |-> TRUE, left |-> Lease]

\* idle is ignored while the zone holds an unexpired lease under key k.
MayPark(s, k) ==
    \A d \in Drone :
        LET owner == owners[<<OrgAt(s), k, d>>]
        IN ~(Active(owner) /\ owner.zone = ZoneAt(s))

\* Fault: a confirmed owner whose lease has run out is left to the sweep.
RunningConfirmationOwnerOf(s, k) ==
    /\ k[2] = conn[s].key /\ OwnedBy(owners, k, OrgAt(s), ZoneAt(s))
    /\ owners[k].confirmed /\ Active(owners[k])
\* Fault: only confirmations whose tablet still owns the drone are forgotten.
ConfirmedAndOwned(s, k) ==
    /\ k[2] = conn[s].key /\ OwnedBy(owners, k, OrgAt(s), ZoneAt(s))
    /\ confs[k] # Nil /\ confs[k].by = ZoneAt(s)
\* What disconnecting the registered socket s takes away.
ConfirmationOwnerOf(s, k) ==
    /\ k[2] = conn[s].key /\ OwnedBy(owners, k, OrgAt(s), ZoneAt(s))
    /\ owners[k].confirmed
ConfirmedFrom(s, k) ==
    /\ k[1] = OrgAt(s) /\ k[2] = conn[s].key /\ confs[k] # Nil
    /\ confs[k].by = ZoneAt(s)

\* Fault: the socket is the only one the device is looked for with.
NoReplacements(s) == {}

\* The other open sockets of the device, the last seen first.
Replacements(s) ==
    LET others == {r \in Socket : /\ r # s /\ task[r] # "none"
                                  /\ TabletOf[r] = TabletOf[s]}
    IN {r \in others : \A q \in others : conn[q].seen >= conn[r].seen}

\* Any message restarts the receive timeout of its socket.
Heard(s) == [conn EXCEPT ![s].quiet = 0]
Serving(s) == task[s] = "serving"
-----------------------------------------------------------------------------
Init ==
    /\ conn = [s \in Socket |-> Blank]
    /\ task = [s \in Socket |-> "none"]
    /\ byDev = [t \in Tablet |-> Nil]
    /\ zones = [r \in Slots |-> Nil]
    /\ owners = [k \in Claimable |-> Nil]
    /\ confs = [k \in Claimable |-> Nil]

\* A tablet's authenticated websocket is accepted.
Connect(s) ==
    /\ task[s] = "none" /\ \A r \in Slots : zones[r] # s
    /\ Overlap \/ \A r \in Socket :
                    TabletOf[r] = TabletOf[s] => task[r] = "none"
    /\ task' = [task EXCEPT ![s] = "serving"]
    /\ conn' = [conn EXCEPT ![s] = Blank]
    /\ byDev' = [byDev EXCEPT ![TabletOf[s]] = s]
    /\ UNCHANGED <<zones, owners, confs>>

\* hello that reports map m from location p.
Hello(s, m, p) ==
    /\ Serving(s)
    /\ \E k \in Resolve(OrgAt(s), ZoneAt(s), m, p) :
        /\ zones' = Enrolled(s, k)
        /\ conn' = Reap([conn EXCEPT ![s] =
                [Blank EXCEPT !.key = k, !.reported = m, !.place = p,
                              !.seen = 0,
                              !.mode = IF m = NoMap THEN "standalone"
                                       ELSE "map"]], task, zones')
    /\ UNCHANGED <<task, byDev, owners, confs>>

\* A hello refused for its functionality release: the socket is closed and
\* its serve loop returns, without a disconnect.
RefuseHello(s) ==
    /\ Serving(s) /\ GateReleases
    /\ task' = [task EXCEPT ![s] = "refused"]
    /\ UNCHANGED <<conn, byDev, zones, owners, confs>>

Beat(s, p, k) ==
    [conn EXCEPT ![s] = [@ EXCEPT !.place = p, !.seen = 0, !.quiet = 0,
                                  !.key = k]]

\* A heartbeat from location p that leaves the tablet where it is.
Heartbeat(s, p) ==
    /\ Serving(s)
    /\ conn[s].mode = "standalone" => conn[s].key \in HomesOf(s, p)
    /\ conn' = Beat(s, p, conn[s].key)
    /\ owners' = IF conn[s].key = NoMap THEN owners
                 ELSE Renewed(owners, OrgAt(s), ZoneAt(s))
    /\ UNCHANGED <<task, byDev, zones, confs>>

\* A heartbeat that moves a standalone tablet to another key.
HeartbeatRehomed(s, p) ==
    /\ Serving(s) /\ conn[s].mode = "standalone"
    /\ \E k \in HomesOf(s, p) \ {conn[s].key} :
        /\ zones' = Enrolled(s, k)
        /\ conn' = Reap(Beat(s, p, k), task, zones')
        /\ confs' = Merged(Pruned(confs), OrgAt(s), conn[s].key, k)
        /\ owners' = Renewed(MovedOwners(owners, OrgAt(s), ZoneAt(s),
                                         conn[s].key, k),
                             OrgAt(s), ZoneAt(s))
    /\ UNCHANGED <<task, byDev>>

\* The database query of such a heartbeat fails: the handler is left with the
\* location set, and the socket is closed.
HeartbeatFailed(s, p) ==
    /\ Serving(s) /\ conn[s].mode = "standalone" /\ p # NoFix
    /\ Resolve(OrgAt(s), ZoneAt(s), conn[s].reported, p) \subseteq Standalone
    /\ conn' = Beat(s, p, conn[s].key)
    /\ task' = [task EXCEPT ![s] = "closing"]
    /\ UNCHANGED <<byDev, zones, owners, confs>>

\* A zone claims drone d.
FirstSighting(s, d, claim) ==
    /\ Serving(s)
    /\ \E key \in ContextKeys(s) :
        owners' = [owners EXCEPT ![<<OrgAt(s), key, d>>] =
                        Arbitrated(@, ZoneAt(s), claim)]
    /\ conn' = Heard(s)
    /\ UNCHANGED <<task, byDev, zones, confs>>

\* A sighting by the owner extends its lease.
Sighting(s, d) ==
    /\ Serving(s)
    /\ \E key \in ContextKeys(s) :
        LET k == <<OrgAt(s), key, d>>
        IN /\ OwnedBy(owners, k, OrgAt(s), ZoneAt(s))
           /\ owners' = [owners EXCEPT ![k].left = Lease]
    /\ conn' = Heard(s)
    /\ UNCHANGED <<task, byDev, zones, confs>>

\* The operator of the tablet confirms drone d.
DroneConfirmed(s, d, mapped) ==
    /\ Serving(s)
    /\ \E key \in ContextKeys(s) :
        LET k == <<OrgAt(s), key, d>>
        IN /\ owners' = [owners EXCEPT ![k] =
                            ConfirmedOwner(@, ZoneAt(s), mapped)]
           /\ confs' = [Pruned(confs) EXCEPT ![k] =
                            [by |-> ZoneAt(s), age |-> 0]]
    /\ conn' = Heard(s)
    /\ UNCHANGED <<task, byDev, zones>>

\* The owner reports that its drone is lost.
DroneLost(s, d) ==
    /\ Serving(s)
    /\ \E key \in ContextKeys(s) :
        LET k == <<OrgAt(s), key, d>>
        IN /\ OwnedBy(owners, k, OrgAt(s), ZoneAt(s))
           /\ owners' = [owners EXCEPT ![k] = Nil]
           /\ confs' = [confs EXCEPT ![k] = Nil]
    /\ conn' = Heard(s)
    /\ UNCHANGED <<task, byDev, zones>>

\* The tablet parks.
Idle(s) ==
    /\ Serving(s)
    /\ \E key \in ContextKeys(s) : MayPark(s, key)
    /\ conn' = [conn EXCEPT ![s] = [@ EXCEPT !.parked = TRUE, !.seen = 0,
                                             !.quiet = 0]]
    /\ UNCHANGED <<task, byDev, zones, owners, confs>>

\* Any other message, and one its handler ignores or only relays.
OtherMessage(s) ==
    /\ Serving(s)
    /\ conn' = Heard(s)
    /\ UNCHANGED <<task, byDev, zones, owners, confs>>

\* The receive timeout: the hub parks the tablet itself and closes the socket.
SilenceTimeout(s) ==
    /\ Serving(s) /\ conn[s].quiet = Silence
    /\ conn' = IF conn[s].key # NoMap /\ MayPark(s, conn[s].key)
               THEN [conn EXCEPT ![s] = [@ EXCEPT !.parked = TRUE, !.seen = 0]]
               ELSE conn
    /\ task' = [task EXCEPT ![s] = "closing"]
    /\ UNCHANGED <<byDev, zones, owners, confs>>

\* The socket has closed, on either side's initiative or by an error.
Disconnect(s) ==
    /\ task[s] \in {"serving", "closing"}
    /\ task' = [task EXCEPT ![s] = "none"]
    /\ IF byDev[TabletOf[s]] = s
       THEN \E r \in IF Replacements(s) = {} THEN {Nil} ELSE Replacements(s) :
                byDev' = [byDev EXCEPT ![TabletOf[s]] = r]
       ELSE byDev' = byDev
    /\ conn' = Reap([conn EXCEPT ![s].wired = FALSE], task', zones)
    /\ owners' = [k \in Claimable |->
                    IF Registered(s) /\ ConfirmationOwnerOf(s, k) THEN Nil
                    ELSE owners[k]]
    /\ confs' = [k \in Claimable |->
                    IF /\ Registered(s)
                       /\ ConfirmedFrom(s, k) \/ ConfirmationOwnerOf(s, k)
                    THEN Nil ELSE confs[k]]
    /\ UNCHANGED zones

\* Fault: parked zones are not swept.
OutdatedUnparked(r) ==
    /\ zones[r] # Nil /\ ~conn[zones[r]].wired /\ ~conn[zones[r]].parked
    /\ conn[zones[r]].seen > Lease

\* An offline zone not seen for longer than a lease.
Outdated(r) ==
    zones[r] # Nil /\ ~conn[zones[r]].wired /\ conn[zones[r]].seen > Lease

\* expire_stale_entries
Sweep ==
    /\ zones' = [r \in Slots |-> IF Outdated(r) THEN Nil ELSE zones[r]]
    /\ conn' = Reap(conn, task, zones')
    /\ owners' = [k \in Claimable |->
                    IF Active(owners[k]) THEN owners[k] ELSE Nil]
    /\ confs' = [k \in Claimable |->
                    IF owners[k] # Nil /\ ~Active(owners[k]) THEN Nil
                    ELSE confs[k]]
    /\ UNCHANGED <<task, byDev>>

Older(n, limit) == IF n < limit THEN n + 1 ELSE limit

\* One unit of time passes.
Tick ==
    /\ conn' = [s \in Socket |->
                  [conn[s] EXCEPT
                     !.seen = Older(@, Stale),
                     !.quiet = IF Serving(s) THEN Older(@, Silence) ELSE @]]
    /\ owners' = [k \in Claimable |->
                    IF Active(owners[k])
                    THEN [owners[k] EXCEPT !.left = @ - 1] ELSE owners[k]]
    /\ confs' = [k \in Claimable |->
                    IF confs[k] = Nil THEN Nil
                    ELSE [confs[k] EXCEPT !.age = Older(@, Retention + 1)]]
    /\ UNCHANGED <<task, byDev, zones>>

Message(s) ==
    \/ \E m \in Reports, p \in Location : Hello(s, m, p)
    \/ RefuseHello(s)
    \/ \E p \in Location : \/ Heartbeat(s, p) \/ HeartbeatRehomed(s, p)
                          \/ HeartbeatFailed(s, p)
    \/ \E d \in Drone, claim \in Claims : FirstSighting(s, d, claim)
    \/ \E d \in Drone : Sighting(s, d) \/ DroneLost(s, d)
    \/ \E d \in Drone, mapped \in Labels : DroneConfirmed(s, d, mapped)
    \/ Idle(s)
    \/ OtherMessage(s)

Next ==
    \/ \E s \in Socket : Connect(s) \/ Message(s) \/ SilenceTimeout(s)
                         \/ Disconnect(s)
    \/ Sweep
    \/ Tick

Spec == Init /\ [][Next]_vars
-----------------------------------------------------------------------------
(* What must hold *)

\* Every variable has its type.
TypeOK ==
    /\ conn \in [Socket -> Connection]
    /\ task \in [Socket -> {"none", "serving", "closing", "refused"}]
    /\ byDev \in [Tablet -> Socket \cup {Nil}]
    /\ zones \in [Slots -> Socket \cup {Nil}]
    /\ owners \in [Claimable -> Owner \cup {Nil}]
    /\ confs \in [Claimable -> Confirmation \cup {Nil}]

\* The zone registry and the connections agree, however tablets reconnect,
\* move between keys and time out: an entry of _zones_by_map holds a
\* connection that is itself under that key, and its websocket is set exactly
\* while the connection is in _connections (disconnect clears one only when
\* the entry is still its own).
RegistryConsistent ==
    \A r \in Slots :
        zones[r] # Nil =>
            /\ SlotOf(zones[r]) = r
            /\ conn[zones[r]].wired <=> task[zones[r]] # "none"

\* _connections_by_device_credential_id finds a device exactly while it has a
\* connection, and finds one of its own: is_device_connected and every send
\* to a device rely on it when a tablet's old and new socket overlap.
DeviceIndex ==
    \A t \in Tablet :
        IF byDev[t] = Nil
        THEN \A s \in Socket : TabletOf[s] = t => task[s] = "none"
        ELSE TabletOf[byDev[t]] = t /\ task[byDev[t]] # "none"

\* "A mapped instance never changes its coordination key because a standalone
\* instance is nearby": a tablet that reports a map is under that map's key.
MappedStays ==
    \A s \in Socket :
        conn[s].key # NoMap /\ conn[s].mode = "map" =>
            conn[s].key = conn[s].reported

Absent(o, z) ==
    \A s \in Socket : OrgAt(s) = o /\ ZoneAt(s) = z => task[s] = "none"

\* A drone that is owned by confirmation is owned by a connected tablet.
ConfirmedOwnerConnected ==
    \A k \in Claimable :
        owners[k] # Nil /\ owners[k].confirmed =>
            ~Absent(k[1], owners[k].zone)

ZoneOnline(o, key, z) ==
    LET s == zones[<<o, key, z>>] IN s # Nil /\ conn[s].wired

\* A confirmation lives no longer than its tablet's presence: who owns a drone
\* by confirmation is registered and connected under that key.
ConfirmedOwnerOnline ==
    \A k \in Claimable :
        owners[k] # Nil /\ owners[k].confirmed =>
            ZoneOnline(k[1], k[2], owners[k].zone)

\* The same of the events that are replayed to tablets that join later.
ConfirmerOnline ==
    \A k \in Claimable :
        confs[k] # Nil => ZoneOnline(k[1], k[2], confs[k].by)

\* Apart from the clock and the sweep, a step changes the registry, the owners
\* and the confirmations of one organization only, although organizations
\* share map ids, zone ids and drones (a confirmation prunes the outdated
\* confirmations of all).
OneOrg(o) ==
    /\ \A r \in Slots : r[1] # o => zones'[r] = zones[r]
    /\ \A k \in Claimable :
        k[1] # o => /\ owners'[k] = owners[k]
                    /\ confs'[k] \in {confs[k], Pruned(confs)[k]}
OneOrgPerStep == [][Tick \/ Sweep \/ \E o \in Org : OneOrg(o)]_vars

\* Under one key the owner of a drone changes for the better only, by the
\* arbitration order, whether the rival claims the drone or brings it along
\* from another group; except that a confirmation takes it from anybody and
\* the first claim after a confirmed owner's lease takes it too.
OwnerOnlyImproves ==
    [][\A k \in Claimable :
        owners[k] # Nil /\ owners'[k] # Nil =>
            \/ owners'[k].zone = owners[k].zone
            \/ owners'[k].confirmed
            \/ owners[k].confirmed /\ ~Active(owners[k])
            \/ Precedes(owners'[k], owners[k])]_owners

-----------------------------------------------------------------------------
(* Where no tablet coordinates without a map, the hub implements the          *)
(* ownership promised to the tablets.                                         *)

Holders ==
    [k \in Claimable |->
        IF owners[k] = Nil THEN Nil
        ELSE [zone |-> owners[k].zone, ts |-> owners[k].ts,
              dist |-> owners[k].dist, mapped |-> owners[k].mapped,
              confirmed |-> owners[k].confirmed,
              active |-> Active(owners[k])]]
Promised == INSTANCE DroneOwnership
              WITH holder <- Holders,
                   present <- {r \in Slots : ZoneOnline(r[1], r[2], r[3])}

\* Every step of the hub is one the ownership promise allows for every drone.
OwnershipPromise == Promised!Spec

-----------------------------------------------------------------------------
(* Time passes, and receive_text is called with a timeout: these steps come  *)
(* whatever the tablets do.                                                  *)

Fairness ==
    /\ WF_vars(Tick)
    /\ \A s \in Socket : WF_vars(SilenceTimeout(s))
                        /\ WF_vars(task[s] = "closing" /\ Disconnect(s))
FairSpec == Spec /\ Fairness

\* _expiry_loop sweeps every R2C_SWEEP_SEC until a sweep's SQL raises: nothing
\* catches the exception, and from then on no Sweep is taken.  So this is no
\* fairness of the hub but a premise: the loop has not ended.
SweepsGoOn == WF_vars(Sweep)

\* While the loop lives, a tablet that falls silent is retired: receive timeout,
\* disconnect and sweep together see to it that a registered zone is heard from
\* again or forgotten.
Unheard(r) ==
    zones[r] # Nil /\ (conn[zones[r]].quiet > 0 \/ ~conn[zones[r]].wired)
SilentZoneForgotten ==
    SweepsGoOn => \A r \in Slots : Unheard(r) ~> ~Unheard(r)

\* "the owner stops sending heartbeat or owner-originated sighting updates and
\* the lease expires": while the loop lives, an owner that has left and stays
\* away is replaced or forgotten.
AbsentOwnerReleased ==
    SweepsGoOn =>
        \A k \in Claimable, z \in Zone :
            OwnedBy(owners, k, k[1], z) /\ Absent(k[1], z) ~>
                ~OwnedBy(owners, k, k[1], z) \/ ~Absent(k[1], z)

=============================================================================
