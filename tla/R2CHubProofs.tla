---------------------------- MODULE R2CHubProofs ----------------------------
(***************************************************************************)
(* Proofs about R2CHub for any number of sockets, tablets, organizations,  *)
(* maps and drones, and any lease, silence and retention times; about its  *)
(* arbitration rule; and, for tablets that keep their coordination key     *)
(* while they are connected, that the hub implements DroneOwnership.       *)
(***************************************************************************)
EXTENDS R2CHub, WellFoundedInduction, TLAPS

-----------------------------------------------------------------------------
(* The arbitration rule picks the best of the claims it is shown, in whatever
   order they reach the hub. *)

\* The tuple comparison of _pick_owner is a strict order on claims.
LEMMA PrecedesIsStrict ==
    ASSUME NEW a \in ClaimKey, NEW b \in ClaimKey, NEW c \in ClaimKey
    PROVE  /\ ~Precedes(a, a)
           /\ Precedes(a, b) /\ Precedes(b, c) => Precedes(a, c)
           /\ Precedes(a, b) => ~Precedes(b, a)
BY SMT DEF ClaimKey, Precedes

\* Two claims neither of which is better are the same claim: "that final
\* tie-breaker keeps full ties deterministic".
LEMMA PrecedesIsTotal ==
    ASSUME NEW a \in ClaimKey, NEW b \in ClaimKey,
           ~Precedes(a, b), ~Precedes(b, a)
    PROVE  a = b
<1>1. a.ts = b.ts BY SMT DEF ClaimKey, Precedes
<1>2. a.dist = b.dist BY <1>1, SMT DEF ClaimKey, Precedes
<1>3. a.mapped = b.mapped
  <2>1. a.mapped \in BOOLEAN /\ b.mapped \in BOOLEAN BY DEF ClaimKey
  <2>2. ~(a.mapped /\ ~b.mapped) /\ ~(b.mapped /\ ~a.mapped)
    BY <1>1, <1>2 DEF Precedes
  <2> QED BY <2>1, <2>2
<1>4. a.zone = b.zone BY <1>1, <1>2, <1>3, SMT DEF ClaimKey, Precedes
<1> QED BY <1>1, <1>2, <1>3, <1>4 DEF ClaimKey

\* Of two claims the rule returns one that the other does not precede.
LEMMA PickOwnerIsBest ==
    ASSUME NEW a \in ClaimKey, NEW b \in ClaimKey
    PROVE  /\ PickOwner(a, b) \in {a, b}
           /\ ~Precedes(a, PickOwner(a, b)) /\ ~Precedes(b, PickOwner(a, b))
BY PrecedesIsStrict DEF PickOwner

\* Which of two tablets reaches the hub first makes no difference, neither
\* for a drone without an owner (_handle_first_sighting installs the first
\* claim unchecked and compares the second with it) ...
THEOREM FirstClaimOrderIrrelevant ==
    ASSUME NEW a \in ClaimKey, NEW b \in ClaimKey
    PROVE  PickOwner(a, b) = PickOwner(b, a)
<1>1. CASE Precedes(b, a) BY <1>1, PrecedesIsStrict DEF PickOwner
<1>2. CASE Precedes(a, b) BY <1>2, PrecedesIsStrict DEF PickOwner
<1>3. CASE ~Precedes(a, b) /\ ~Precedes(b, a)
  BY <1>3, PrecedesIsTotal DEF PickOwner
<1> QED BY <1>1, <1>2, <1>3

\* ... nor for one that has an owner already.
THEOREM RivalOrderIrrelevant ==
    ASSUME NEW a \in ClaimKey, NEW b \in ClaimKey, NEW c \in ClaimKey
    PROVE  PickOwner(PickOwner(a, b), c) = PickOwner(PickOwner(a, c), b)
<1>1. CASE Precedes(b, a) /\ Precedes(c, a)
  <2>1. PickOwner(PickOwner(a, b), c) = PickOwner(b, c)
    BY <1>1 DEF PickOwner
  <2>2. PickOwner(PickOwner(a, c), b) = PickOwner(c, b)
    BY <1>1 DEF PickOwner
  <2> QED BY <2>1, <2>2, FirstClaimOrderIrrelevant
<1>2. CASE Precedes(b, a) /\ ~Precedes(c, a)
  BY <1>2, PrecedesIsStrict DEF PickOwner
<1>3. CASE ~Precedes(b, a) /\ Precedes(c, a)
  BY <1>3, PrecedesIsStrict DEF PickOwner
<1>4. CASE ~Precedes(b, a) /\ ~Precedes(c, a)
  BY <1>4 DEF PickOwner
<1> QED BY <1>1, <1>2, <1>3, <1>4

-----------------------------------------------------------------------------
(* What the operators return *)

LEMMA BlankType == Blank \in Connection
BY ConstantsAssumption, SMT DEF Blank, Connection, Location, Stale

LEMMA SocketSlot ==
    ASSUME NEW s \in Socket, NEW k \in Key
    PROVE  <<OrgAt(s), k, ZoneAt(s)>> \in Slots
BY ConstantsAssumption DEF Slots, OrgAt, ZoneAt

LEMMA SocketClaim ==
    ASSUME NEW s \in Socket, NEW k \in Key, NEW d \in Drone
    PROVE  <<OrgAt(s), k, d>> \in Claimable
BY ConstantsAssumption DEF Claimable, OrgAt

LEMMA ReapType ==
    ASSUME NEW c \in [Socket -> Connection], NEW t, NEW z
    PROVE  Reap(c, t, z) \in [Socket -> Connection]
BY BlankType DEF Reap

LEMMA NearestKeyType ==
    ASSUME NEW o, NEW z, NEW p, NEW mode, NEW k \in NearestKey(o, z, p, mode)
    PROVE  k \in Key
<1>1. Neighbours(o, z, p, mode) \subseteq Slots BY DEF Neighbours
<1>2. \E r \in Slots : k = r[2] BY <1>1 DEF NearestKey
<1> QED BY <1>2 DEF Slots

LEMMA ResolveType ==
    ASSUME NEW o, NEW z \in Zone, NEW m \in Map \cup {NoMap}, NEW p,
           NEW k \in Resolve(o, z, m, p)
    PROVE  k \in Key
<1>1. OwnKey[z] \in Key BY ConstantsAssumption DEF Key
<1>2. m # NoMap => m \in Key BY DEF Key
<1> QED BY <1>1, <1>2, NearestKeyType DEF Resolve

LEMMA HomesType ==
    ASSUME TypeOK, NEW s \in Socket, NEW p, NEW k \in HomesOf(s, p)
    PROVE  k \in Key
<1>1. conn[s].reported \in Map \cup {NoMap} BY DEF TypeOK, Connection
<1>2. ZoneAt(s) \in Zone BY ConstantsAssumption DEF ZoneAt
<1>3. PersistedMaps \subseteq Key
  BY ConstantsAssumption DEF PersistedMaps, Key
<1>4. \A x \in Resolve(OrgAt(s), ZoneAt(s), conn[s].reported, p) : x \in Key
  BY <1>1, <1>2, ResolveType
<1> QED BY <1>3, <1>4 DEF HomesOf

LEMMA EnrolledType ==
    ASSUME TypeOK, NEW s \in Socket, NEW k \in Key
    PROVE  Enrolled(s, k) \in [Slots -> Socket \cup {Nil}]
BY SocketSlot DEF Enrolled, TypeOK

LEMMA PrunedType ==
    ASSUME NEW cs \in [Claimable -> Confirmation \cup {Nil}]
    PROVE  Pruned(cs) \in [Claimable -> Confirmation \cup {Nil}]
BY DEF Pruned

LEMMA MergedType ==
    ASSUME NEW cs \in [Claimable -> Confirmation \cup {Nil}],
           NEW o, NEW old \in Key, NEW new
    PROVE  Merged(cs, o, old, new) \in [Claimable -> Confirmation \cup {Nil}]
<1>1. \A k \in Claimable : k[1] = o => <<o, old, k[3]>> \in Claimable
  BY DEF Claimable
<1> QED BY <1>1 DEF Merged

LEMMA RenewedType ==
    ASSUME NEW os \in [Claimable -> Owner \cup {Nil}], NEW o, NEW z
    PROVE  Renewed(os, o, z) \in [Claimable -> Owner \cup {Nil}]
<1> SUFFICES ASSUME NEW k \in Claimable, OwnedBy(os, k, o, z)
             PROVE  [os[k] EXCEPT !.left = Lease] \in Owner
  BY DEF Renewed
<1>1. os[k] \in Owner BY DEF OwnedBy
<1>2. Lease \in -1 .. Lease BY ConstantsAssumption, SMT
<1> QED BY <1>1, <1>2 DEF Owner

LEMMA MovedOwnersType ==
    ASSUME NEW os \in [Claimable -> Owner \cup {Nil}],
           NEW o, NEW z, NEW old \in Key, NEW new
    PROVE  MovedOwners(os, o, z, old, new) \in [Claimable -> Owner \cup {Nil}]
<1>1. \A k \in Claimable : k[1] = o => <<o, old, k[3]>> \in Claimable
  BY DEF Claimable
<1> QED BY <1>1 DEF MovedOwners, PickOwner

LEMMA ArbitratedType ==
    ASSUME NEW existing \in Owner \cup {Nil}, NEW z \in Zone,
           NEW claim \in Claims
    PROVE  Arbitrated(existing, z, claim) \in Owner
<1> DEFINE candidate == [zone |-> z, ts |-> claim.ts, dist |-> claim.dist,
                         mapped |-> claim.mapped, confirmed |-> FALSE,
                         left |-> Lease]
<1>1. Lease \in -1 .. Lease BY ConstantsAssumption, SMT
<1>2. candidate \in Owner BY <1>1, ConstantsAssumption DEF Owner
<1>3. \A x \in Owner : [x EXCEPT !.left = Lease] \in Owner
  BY <1>1 DEF Owner
<1> QED BY <1>2, <1>3 DEF Arbitrated, PickOwner

LEMMA ConfirmedOwnerType ==
    ASSUME NEW existing \in Owner \cup {Nil}, NEW z \in Zone,
           NEW mapped \in BOOLEAN
    PROVE  ConfirmedOwner(existing, z, mapped) \in Owner
<1>1. Lease \in -1 .. Lease BY ConstantsAssumption, SMT
<1>2. existing # Nil => existing.ts \in Int /\ existing.dist \in Int
  BY DEF Owner
<1> QED BY <1>1, <1>2 DEF ConfirmedOwner, Owner

-----------------------------------------------------------------------------
(* Type correctness *)

LEMMA InitType == Init => TypeOK
BY BlankType, ConstantsAssumption DEF Init, TypeOK

LEMMA HeardType ==
    ASSUME TypeOK, NEW s \in Socket
    PROVE  Heard(s) \in [Socket -> Connection]
<1>1. 0 \in 0 .. Silence BY ConstantsAssumption, SMT
<1>2. conn[s] \in Connection BY DEF TypeOK
<1>3. [conn[s] EXCEPT !.quiet = 0] \in Connection
  BY <1>1, <1>2 DEF Connection
<1> QED BY <1>3 DEF Heard, TypeOK

LEMMA BeatType ==
    ASSUME TypeOK, NEW s \in Socket, NEW p \in Location,
           NEW k \in Key \cup {NoMap}
    PROVE  Beat(s, p, k) \in [Socket -> Connection]
<1>1. 0 \in 0 .. Silence /\ 0 \in 0 .. Stale
  BY ConstantsAssumption, SMT DEF Stale
<1>2. conn[s] \in Connection BY DEF TypeOK
<1>3. [conn[s] EXCEPT !.place = p, !.seen = 0, !.quiet = 0, !.key = k]
        \in Connection
  BY <1>1, <1>2, ZenonT(60) DEF Connection
<1> QED BY <1>3 DEF Beat, TypeOK

LEMMA ParkedType ==
    ASSUME TypeOK, NEW s \in Socket
    PROVE  /\ [conn EXCEPT ![s] = [@ EXCEPT !.parked = TRUE, !.seen = 0]]
                \in [Socket -> Connection]
           /\ [conn EXCEPT ![s] = [@ EXCEPT !.parked = TRUE, !.seen = 0,
                                             !.quiet = 0]]
                \in [Socket -> Connection]
<1>1. 0 \in 0 .. Silence /\ 0 \in 0 .. Stale
  BY ConstantsAssumption, SMT DEF Stale
<1>2. conn[s] \in Connection BY DEF TypeOK
<1>3. [conn[s] EXCEPT !.parked = TRUE, !.seen = 0] \in Connection
  BY <1>1, <1>2, ZenonT(60) DEF Connection
<1>4. [conn[s] EXCEPT !.parked = TRUE, !.seen = 0, !.quiet = 0] \in Connection
  BY <1>1, <1>2, ZenonT(60) DEF Connection
<1> QED BY <1>3, <1>4 DEF TypeOK

\* A message names the key of its connection or a map.
LEMMA ContextKeysType ==
    ASSUME TypeOK, NEW s \in Socket
    PROVE  ContextKeys(s) \subseteq Key
<1>1. conn[s].key \in Key \cup {NoMap} BY DEF TypeOK, Connection
<1>2. EarlyMaps \subseteq Key BY ConstantsAssumption DEF Key
<1> QED BY <1>1, <1>2 DEF ContextKeys

LEMMA OlderType ==
    ASSUME NEW limit \in Nat, NEW n \in 0 .. limit
    PROVE  Older(n, limit) \in 0 .. limit
BY SMT DEF Older

LEMMA TickType == TypeOK /\ Tick => TypeOK'
<1> SUFFICES ASSUME TypeOK, Tick PROVE TypeOK'
  OBVIOUS
<1>1. Stale \in Nat /\ Silence \in Nat /\ Retention + 1 \in Nat /\ Lease \in Nat
  BY ConstantsAssumption, SMT DEF Stale
<1>2. conn' \in [Socket -> Connection]
  <2> SUFFICES ASSUME NEW s \in Socket
               PROVE  [conn[s] EXCEPT
                        !.seen = Older(@, Stale),
                        !.quiet = IF Serving(s) THEN Older(@, Silence) ELSE @]
                        \in Connection
    BY DEF Tick
  <2>1. conn[s] \in Connection BY DEF TypeOK
  <2>2. Older(conn[s].seen, Stale) \in 0 .. Stale
    BY <1>1, <2>1, OlderType DEF Connection
  <2>3. Older(conn[s].quiet, Silence) \in 0 .. Silence
    BY <1>1, <2>1, OlderType DEF Connection
  <2> QED BY <2>1, <2>2, <2>3 DEF Connection
<1>3. owners' \in [Claimable -> Owner \cup {Nil}]
  <2> SUFFICES ASSUME NEW k \in Claimable, Active(owners[k])
               PROVE  [owners[k] EXCEPT !.left = @ - 1] \in Owner
    BY DEF Tick, TypeOK
  <2>1. owners[k] \in Owner /\ owners[k].left >= 0 BY DEF Active, TypeOK
  <2>2. owners[k].left - 1 \in -1 .. Lease BY <1>1, <2>1, SMT DEF Owner
  <2> QED BY <2>1, <2>2 DEF Owner
<1>4. confs' \in [Claimable -> Confirmation \cup {Nil}]
  <2> SUFFICES ASSUME NEW k \in Claimable, confs[k] # Nil
               PROVE  [confs[k] EXCEPT !.age = Older(@, Retention + 1)]
                        \in Confirmation
    BY DEF Tick
  <2>1. confs[k] \in Confirmation BY DEF TypeOK
  <2>2. Older(confs[k].age, Retention + 1) \in 0 .. Retention + 1
    BY <1>1, <2>1, OlderType DEF Confirmation
  <2> QED BY <2>1, <2>2 DEF Confirmation
<1> QED BY <1>2, <1>3, <1>4 DEF Tick, TypeOK

\* Who coordinates without a map has been given a key: a heartbeat moves the
\* owners of the old key, so the type of owners rests on it.
StandaloneKeyed ==
    \A s \in Socket : conn[s].mode = "standalone" => conn[s].key # NoMap

LEMMA MessageType ==
    ASSUME TypeOK, StandaloneKeyed, NEW s \in Socket, Message(s)
    PROVE  TypeOK'
<1>1. ASSUME NEW m \in Reports, NEW p \in Location, Hello(s, m, p)
      PROVE  TypeOK'
  <2>1. PICK k \in Resolve(OrgAt(s), ZoneAt(s), m, p) :
          /\ zones' = Enrolled(s, k)
          /\ conn' = Reap([conn EXCEPT ![s] =
                  [Blank EXCEPT !.key = k, !.reported = m, !.place = p,
                                !.seen = 0,
                                !.mode = IF m = NoMap THEN "standalone"
                                         ELSE "map"]], task, zones')
    BY <1>1 DEF Hello
  <2>2. m \in Map \cup {NoMap} /\ ZoneAt(s) \in Zone
    BY ConstantsAssumption DEF ZoneAt
  <2>3. k \in Key BY <2>2, ResolveType
  <2>4. 0 \in 0 .. Stale BY ConstantsAssumption, SMT DEF Stale
  <2>5. [Blank EXCEPT !.key = k, !.reported = m, !.place = p, !.seen = 0,
                      !.mode = IF m = NoMap THEN "standalone" ELSE "map"]
          \in Connection
    BY <2>2, <2>3, <2>4, BlankType DEF Connection
  <2>6. [conn EXCEPT ![s] =
          [Blank EXCEPT !.key = k, !.reported = m, !.place = p, !.seen = 0,
                        !.mode = IF m = NoMap THEN "standalone" ELSE "map"]]
          \in [Socket -> Connection]
    BY <2>5 DEF TypeOK
  <2>7. conn' \in [Socket -> Connection] BY <2>1, <2>6, ReapType
  <2> QED BY <1>1, <2>1, <2>3, <2>7, EnrolledType DEF Hello, TypeOK
<1>2. ASSUME RefuseHello(s) PROVE TypeOK'
  BY <1>2 DEF RefuseHello, TypeOK
<1>3. ASSUME NEW p \in Location, Heartbeat(s, p) PROVE TypeOK'
  <2>1. conn[s].key \in Key \cup {NoMap} BY DEF TypeOK, Connection
  <2>2. conn' \in [Socket -> Connection] BY <1>3, <2>1, BeatType DEF Heartbeat
  <2>3. owners' \in [Claimable -> Owner \cup {Nil}]
    BY <1>3, RenewedType DEF Heartbeat, TypeOK
  <2> QED BY <1>3, <2>2, <2>3 DEF Heartbeat, TypeOK
<1>4. ASSUME NEW p \in Location, HeartbeatRehomed(s, p) PROVE TypeOK'
  <2>1. PICK k \in HomesOf(s, p) \ {conn[s].key} :
          /\ zones' = Enrolled(s, k)
          /\ conn' = Reap(Beat(s, p, k), task, zones')
          /\ confs' = Merged(Pruned(confs), OrgAt(s), conn[s].key, k)
          /\ owners' = Renewed(MovedOwners(owners, OrgAt(s), ZoneAt(s),
                                           conn[s].key, k),
                               OrgAt(s), ZoneAt(s))
    BY <1>4 DEF HeartbeatRehomed
  <2> conn[s].key \in Key
    BY <1>4 DEF HeartbeatRehomed, StandaloneKeyed, TypeOK, Connection
  <2>2. k \in Key BY HomesType
  <2>3. conn' \in [Socket -> Connection] BY <2>1, <2>2, BeatType, ReapType
  <2>4. confs' \in [Claimable -> Confirmation \cup {Nil}]
    BY <1>4, <2>1, PrunedType, MergedType DEF TypeOK
  <2>5. owners' \in [Claimable -> Owner \cup {Nil}]
    BY <1>4, <2>1, MovedOwnersType, RenewedType DEF TypeOK
  <2> QED BY <1>4, <2>1, <2>2, <2>3, <2>4, <2>5, EnrolledType
          DEF HeartbeatRehomed, TypeOK
<1>5. ASSUME NEW d \in Drone, NEW claim \in Claims, FirstSighting(s, d, claim)
      PROVE  TypeOK'
  <2>1. PICK key \in ContextKeys(s) :
          owners' = [owners EXCEPT ![<<OrgAt(s), key, d>>] =
                        Arbitrated(@, ZoneAt(s), claim)]
    BY <1>5 DEF FirstSighting
  <2>2. <<OrgAt(s), key, d>> \in Claimable
    BY <2>1, ContextKeysType, SocketClaim
  <2>3. ZoneAt(s) \in Zone BY ConstantsAssumption DEF ZoneAt
  <2>4. Arbitrated(owners[<<OrgAt(s), key, d>>], ZoneAt(s), claim) \in Owner
    BY <2>2, <2>3, ArbitratedType DEF TypeOK
  <2> QED BY <1>5, <2>1, <2>4, HeardType DEF FirstSighting, TypeOK
<1>6. ASSUME NEW d \in Drone, Sighting(s, d) PROVE TypeOK'
  <2>1. PICK key \in ContextKeys(s) :
          /\ OwnedBy(owners, <<OrgAt(s), key, d>>, OrgAt(s), ZoneAt(s))
          /\ owners' = [owners EXCEPT ![<<OrgAt(s), key, d>>].left = Lease]
    BY <1>6 DEF Sighting
  <2>2. <<OrgAt(s), key, d>> \in Claimable
    BY <2>1, ContextKeysType, SocketClaim
  <2>3. owners[<<OrgAt(s), key, d>>] \in Owner
    BY <2>1, <2>2 DEF OwnedBy, TypeOK
  <2>4. Lease \in -1 .. Lease BY ConstantsAssumption, SMT
  <2>5. [owners[<<OrgAt(s), key, d>>] EXCEPT !.left = Lease] \in Owner
    BY <2>3, <2>4 DEF Owner
  <2> QED BY <1>6, <2>1, <2>5, HeardType DEF Sighting, TypeOK
<1>7. ASSUME NEW d \in Drone, DroneLost(s, d) PROVE TypeOK'
  BY <1>7, HeardType DEF DroneLost, TypeOK
<1>8. ASSUME NEW d \in Drone, NEW mapped \in Labels,
             DroneConfirmed(s, d, mapped)
      PROVE  TypeOK'
  <2>1. PICK key \in ContextKeys(s) :
          /\ owners' = [owners EXCEPT ![<<OrgAt(s), key, d>>] =
                            ConfirmedOwner(@, ZoneAt(s), mapped)]
          /\ confs' = [Pruned(confs) EXCEPT ![<<OrgAt(s), key, d>>] =
                            [by |-> ZoneAt(s), age |-> 0]]
    BY <1>8 DEF DroneConfirmed
  <2>2. <<OrgAt(s), key, d>> \in Claimable
    BY <2>1, ContextKeysType, SocketClaim
  <2>3. ZoneAt(s) \in Zone /\ mapped \in BOOLEAN
    BY ConstantsAssumption DEF ZoneAt
  <2>4. ConfirmedOwner(owners[<<OrgAt(s), key, d>>], ZoneAt(s), mapped)
          \in Owner
    BY <2>2, <2>3, ConfirmedOwnerType DEF TypeOK
  <2>5. 0 \in 0 .. Retention + 1 BY ConstantsAssumption, SMT
  <2>6. [by |-> ZoneAt(s), age |-> 0] \in Confirmation
    BY <2>3, <2>5 DEF Confirmation
  <2>7. confs' \in [Claimable -> Confirmation \cup {Nil}]
    BY <2>1, <2>6, PrunedType DEF TypeOK
  <2> QED BY <1>8, <2>1, <2>4, <2>7, HeardType DEF DroneConfirmed, TypeOK
<1>9. ASSUME Idle(s) PROVE TypeOK'
  BY <1>9, ParkedType DEF Idle, TypeOK
<1>10. ASSUME OtherMessage(s) PROVE TypeOK'
  BY <1>10, HeardType DEF OtherMessage, TypeOK
<1>11. ASSUME NEW p \in Location, HeartbeatFailed(s, p) PROVE TypeOK'
  <2>1. conn[s].key \in Key \cup {NoMap} BY DEF TypeOK, Connection
  <2>2. conn' \in [Socket -> Connection]
    BY <1>11, <2>1, BeatType DEF HeartbeatFailed
  <2> QED BY <1>11, <2>2 DEF HeartbeatFailed, TypeOK
<1> QED BY <1>1, <1>2, <1>3, <1>4, <1>5, <1>6, <1>7, <1>8, <1>9, <1>10, <1>11
        DEF Message

LEMMA NextType ==
    ASSUME TypeOK, StandaloneKeyed, [Next]_vars
    PROVE  TypeOK'
<1>1. ASSUME NEW s \in Socket, Connect(s) PROVE TypeOK'
  BY <1>1, BlankType, ConstantsAssumption DEF Connect, TypeOK
<1>2. ASSUME NEW s \in Socket, SilenceTimeout(s) PROVE TypeOK'
  <2>1. conn' \in [Socket -> Connection]
    BY <1>2, ParkedType DEF SilenceTimeout, TypeOK
  <2> QED BY <1>2, <2>1 DEF SilenceTimeout, TypeOK
<1>3. ASSUME NEW s \in Socket, Disconnect(s) PROVE TypeOK'
  <2> conn[s] \in Connection BY DEF TypeOK
  <2>1. [conn[s] EXCEPT !.wired = FALSE] \in Connection BY DEF Connection
  <2>2. [conn EXCEPT ![s].wired = FALSE] \in [Socket -> Connection]
    BY <2>1 DEF TypeOK
  <2>3. conn' \in [Socket -> Connection] BY <1>3, <2>2, ReapType DEF Disconnect
  <2>4. byDev' \in [Tablet -> Socket \cup {Nil}]
    BY <1>3 DEF Disconnect, Replacements, TypeOK
  <2>5. task' \in [Socket -> {"none", "serving", "closing", "refused"}]
    BY <1>3 DEF Disconnect, TypeOK
  <2>6. owners' \in [Claimable -> Owner \cup {Nil}]
    BY <1>3 DEF Disconnect, TypeOK
  <2>7. confs' \in [Claimable -> Confirmation \cup {Nil}]
    BY <1>3 DEF Disconnect, TypeOK
  <2>8. zones' = zones BY <1>3 DEF Disconnect
  <2> QED BY <2>3, <2>4, <2>5, <2>6, <2>7, <2>8 DEF TypeOK
<1>4. ASSUME Sweep PROVE TypeOK'
  <2>1. conn' \in [Socket -> Connection] BY <1>4, ReapType DEF Sweep, TypeOK
  <2> QED BY <1>4, <2>1 DEF Sweep, TypeOK
<1>5. CASE UNCHANGED vars BY <1>5 DEF vars, TypeOK
<1> QED BY <1>1, <1>2, <1>3, <1>4, <1>5, MessageType, TickType DEF Next

-----------------------------------------------------------------------------
(* Keys *)

\* A connection whose key, reported map and mode stay, or that is reset, keeps
\* what is known of its key.
LEMMA SameKeys ==
    ASSUME StandaloneKeyed, MappedStays,
           \A s \in Socket : \/ conn'[s] = Blank
                             \/ /\ conn'[s].key = conn[s].key
                                /\ conn'[s].reported = conn[s].reported
                                /\ conn'[s].mode = conn[s].mode
    PROVE  StandaloneKeyed' /\ MappedStays'
BY DEF StandaloneKeyed, MappedStays, Blank

LEMMA NextKeys ==
    ASSUME TypeOK, StandaloneKeyed, MappedStays, [Next]_vars
    PROVE  StandaloneKeyed' /\ MappedStays'
<1> DEFINE Same(s) == /\ conn'[s].key = conn[s].key
                      /\ conn'[s].reported = conn[s].reported
                      /\ conn'[s].mode = conn[s].mode
           Kept == \A s \in Socket : conn'[s] = Blank \/ Same(s)
<1>1. ASSUME NEW s \in Socket, NEW m \in Reports, NEW p \in Location,
             Hello(s, m, p)
      PROVE  StandaloneKeyed' /\ MappedStays'
  <2>1. PICK k \in Resolve(OrgAt(s), ZoneAt(s), m, p) :
          conn' = Reap([conn EXCEPT ![s] =
                  [Blank EXCEPT !.key = k, !.reported = m, !.place = p,
                                !.seen = 0,
                                !.mode = IF m = NoMap THEN "standalone"
                                         ELSE "map"]], task, zones')
    BY <1>1 DEF Hello
  <2>2. m \in Map \cup {NoMap} /\ ZoneAt(s) \in Zone
    BY ConstantsAssumption DEF ZoneAt
  <2>3. k # NoMap BY <2>2, ResolveType, ConstantsAssumption
  <2>4. m # NoMap => k = m BY DEF Resolve
  <2>5. \A r \in Socket : r # s => conn'[r] = Blank \/ conn'[r] = conn[r]
    BY <2>1 DEF Reap, TypeOK
  <2>6. conn'[s] = Blank
        \/ /\ conn'[s].key = k /\ conn'[s].reported = m
           /\ conn'[s].mode = IF m = NoMap THEN "standalone" ELSE "map"
    BY <2>1 DEF Reap, TypeOK, Blank
  <2> QED BY <2>3, <2>4, <2>5, <2>6 DEF StandaloneKeyed, MappedStays, Blank
<1>2. ASSUME NEW s \in Socket, NEW p \in Location, HeartbeatRehomed(s, p)
      PROVE  StandaloneKeyed' /\ MappedStays'
  <2>1. PICK k \in HomesOf(s, p) : conn' = Reap(Beat(s, p, k), task, zones')
    BY <1>2 DEF HeartbeatRehomed
  <2>2. k # NoMap BY HomesType, ConstantsAssumption
  <2>3. \A r \in Socket : r # s => conn'[r] = Blank \/ conn'[r] = conn[r]
    BY <2>1 DEF Reap, Beat, TypeOK
  <2>4. Beat(s, p, k)[s].key = k /\ Beat(s, p, k)[s].mode = "standalone"
    <3>1. conn[s] \in Connection /\ conn[s].mode = "standalone"
      BY <1>2 DEF TypeOK, HeartbeatRehomed
    <3> QED BY <3>1 DEF Beat, TypeOK, Connection
  <2>5. conn'[s] \in {Blank, Beat(s, p, k)[s]} BY <2>1 DEF Reap
  <2> QED BY <2>2, <2>3, <2>4, <2>5
          DEF StandaloneKeyed, MappedStays, Blank
<1>3. ASSUME NEW s \in Socket, Message(s)
      PROVE  \/ Kept \/ \E m \in Reports, p \in Location : Hello(s, m, p)
             \/ \E p \in Location : HeartbeatRehomed(s, p)
  <2>1. ASSUME NEW p \in Location, Heartbeat(s, p) PROVE Kept
    BY <2>1 DEF Heartbeat, Beat, TypeOK, Connection
  <2>2. ASSUME conn' = Heard(s) PROVE Kept
    BY <2>2 DEF Heard, TypeOK, Connection
  <2>3. ASSUME Idle(s) PROVE Kept BY <2>3 DEF Idle, TypeOK, Connection
  <2>4. ASSUME RefuseHello(s) PROVE Kept BY <2>4 DEF RefuseHello
  <2>5. ASSUME NEW p \in Location, HeartbeatFailed(s, p) PROVE Kept
    BY <2>5 DEF HeartbeatFailed, Beat, TypeOK, Connection
  <2> HIDE DEF Kept
  <2> QED BY <1>3, <2>1, <2>2, <2>3, <2>4, <2>5
          DEF Message, FirstSighting, Sighting, DroneLost, DroneConfirmed,
              OtherMessage
<1>4. ASSUME NEW s \in Socket, Connect(s) PROVE Kept
  BY <1>4 DEF Connect, TypeOK
<1>5. ASSUME NEW s \in Socket, SilenceTimeout(s) PROVE Kept
  BY <1>5 DEF SilenceTimeout, TypeOK, Connection
<1>6. ASSUME NEW s \in Socket, Disconnect(s) PROVE Kept
  BY <1>6 DEF Disconnect, Reap, TypeOK, Connection
<1>7. CASE Sweep BY <1>7, SameKeys DEF Sweep, Reap
<1>8. CASE Tick
  <2>1. \A s \in Socket : Same(s) BY <1>8 DEF Tick, TypeOK, Connection
  <2> QED BY <2>1, SameKeys
<1>9. CASE UNCHANGED vars BY <1>9, SameKeys DEF vars
<1>10. Kept => StandaloneKeyed' /\ MappedStays' BY SameKeys
<1> HIDE DEF Kept
<1> QED BY <1>1, <1>2, <1>3, <1>4, <1>5, <1>6, <1>7, <1>8, <1>9, <1>10
        DEF Next

IInv == TypeOK /\ StandaloneKeyed /\ MappedStays

LEMMA Inductive == Spec => []IInv
<1>1. Init => IInv
  BY InitType DEF Init, IInv, StandaloneKeyed, MappedStays, Blank
<1>2. IInv /\ [Next]_vars => IInv' BY NextType, NextKeys DEF IInv
<1> QED BY <1>1, <1>2, PTL DEF Spec

\* The hub's dictionaries hold only what their types allow.
THEOREM TypeCorrect == Spec => []TypeOK
<1>1. IInv => TypeOK BY DEF IInv
<1> QED BY <1>1, Inductive, PTL

\* A tablet that reports a map is always under that map's key.
THEOREM MappedStaysAlways == Spec => []MappedStays
<1>1. IInv => MappedStays BY DEF IInv
<1> QED BY <1>1, Inductive, PTL

-----------------------------------------------------------------------------
(* The registry *)

\* The websocket of a connection is set until the socket's disconnect.
Wired == \A s \in Socket : task[s] # "none" => conn[s].wired

RegistryInv == RegistryConsistent /\ Wired

\* What is registered, or still served, is not reaped.
LEMMA ReapKeeps ==
    ASSUME NEW c, NEW t, NEW z, NEW s \in Socket,
           t[s] # "none" \/ \E r \in Slots : z[r] = s
    PROVE  Reap(c, t, z)[s] = c[s]
BY DEF Reap

\* A step that adds no entry, and leaves key and presence of the connections
\* alone, keeps the registry consistent.
LEMMA SameEntries ==
    ASSUME TypeOK, RegistryInv,
           \A r \in Slots : zones'[r] \in {zones[r], Nil},
           \A s \in Socket :
              /\ \/ task'[s] # "none" \/ \E r \in Slots : zones'[r] = s
                 => /\ conn'[s].key = conn[s].key
                    /\ conn'[s].wired = conn[s].wired
              /\ task'[s] # "none" <=> task[s] # "none"
    PROVE  RegistryInv'
<1>1. \A r \in Slots : zones'[r] # Nil => zones'[r] \in Socket BY DEF TypeOK
<1> QED BY <1>1 DEF RegistryInv, RegistryConsistent, Wired, SlotOf, OrgAt,
                    ZoneAt

\* A serving tablet that leaves its entry for the one under key k.
LEMMA Enrolling ==
    ASSUME TypeOK, RegistryInv, NEW s \in Socket, NEW k \in Key, Serving(s),
           NEW c \in [Socket -> Connection], c[s].key = k, c[s].wired,
           \A r \in Socket : r # s => c[r] = conn[r],
           zones' = Enrolled(s, k), task' = task, conn' = Reap(c, task, zones')
    PROVE  RegistryInv'
<1> DEFINE here == <<OrgAt(s), k, ZoneAt(s)>>
<1>1. here \in Slots /\ zones'[here] = s BY SocketSlot DEF Enrolled, TypeOK
<1>2. ASSUME NEW r \in Slots, zones'[r] = s PROVE r = here
  <2>1. SUFFICES ASSUME r # here PROVE FALSE
    OBVIOUS
  <2>2. zones[r] = s /\ (Registered(s) => r # SlotOf(s))
    BY <1>2, <2>1, ConstantsAssumption DEF Enrolled, TypeOK
  <2>3. SlotOf(s) = r BY <2>2, ConstantsAssumption
                      DEF RegistryInv, RegistryConsistent
  <2>4. conn[s].key # NoMap
    BY <2>3, ConstantsAssumption DEF SlotOf, Slots
  <2> QED BY <2>2, <2>3, <2>4 DEF Registered
<1>3. ASSUME NEW r \in Slots, zones'[r] # Nil, r # here
      PROVE  zones'[r] = zones[r] /\ zones'[r] \in Socket /\ zones'[r] # s
  <2>1. zones'[r] = zones[r] BY <1>3 DEF Enrolled, TypeOK
  <2> QED BY <1>2, <1>3, <2>1 DEF TypeOK
<1>4. \A r \in Socket : task[r] # "none" \/ (\E q \in Slots : zones'[q] = r)
        => conn'[r] = c[r]
  BY ReapKeeps
<1>5. conn'[s] = c[s] BY <1>4 DEF Serving
<1>6. RegistryConsistent'
  <2> SUFFICES ASSUME NEW r \in Slots, zones'[r] # Nil
               PROVE  /\ SlotOf(zones[r])' = r
                      /\ conn'[zones'[r]].wired <=> task'[zones'[r]] # "none"
    BY DEF RegistryConsistent
  <2>1. CASE r = here
    BY <1>1, <1>5, <2>1 DEF SlotOf, Serving, OrgAt, ZoneAt
  <2>2. CASE r # here
    <3>1. conn'[zones'[r]] = conn[zones[r]]
      BY <1>3, <1>4, <2>2
    <3> QED BY <1>3, <2>2, <3>1
            DEF RegistryInv, RegistryConsistent, SlotOf, OrgAt, ZoneAt
  <2> QED BY <2>1, <2>2
<1>7. Wired' BY <1>4, <1>5 DEF Wired, RegistryInv
<1> QED BY <1>6, <1>7 DEF RegistryInv

LEMMA NextRegistry ==
    ASSUME IInv, RegistryInv, [Next]_vars
    PROVE  RegistryInv'
<1> TypeOK BY DEF IInv
<1> DEFINE Same(s) == conn'[s].key = conn[s].key
                      /\ conn'[s].wired = conn[s].wired
           Kept == /\ zones' = zones /\ \A s \in Socket : Same(s)
                   /\ \A s \in Socket : task'[s] # "none" <=> task[s] # "none"
<1>1. ASSUME NEW s \in Socket, NEW m \in Reports, NEW p \in Location,
             Hello(s, m, p)
      PROVE  RegistryInv'
  <2>1. PICK k \in Resolve(OrgAt(s), ZoneAt(s), m, p) :
          /\ zones' = Enrolled(s, k)
          /\ conn' = Reap([conn EXCEPT ![s] =
                  [Blank EXCEPT !.key = k, !.reported = m, !.place = p,
                                !.seen = 0,
                                !.mode = IF m = NoMap THEN "standalone"
                                         ELSE "map"]], task, zones')
    BY <1>1 DEF Hello
  <2> DEFINE c == [conn EXCEPT ![s] =
                  [Blank EXCEPT !.key = k, !.reported = m, !.place = p,
                                !.seen = 0,
                                !.mode = IF m = NoMap THEN "standalone"
                                         ELSE "map"]]
  <2>2. m \in Map \cup {NoMap} /\ ZoneAt(s) \in Zone
    BY ConstantsAssumption DEF ZoneAt
  <2>3. k \in Key BY <2>2, ResolveType
  <2>4. 0 \in 0 .. Stale BY ConstantsAssumption, SMT DEF Stale
  <2>5. c[s] \in Connection
    BY <2>2, <2>3, <2>4, BlankType DEF Connection, TypeOK
  <2>6. c \in [Socket -> Connection] BY <2>5 DEF TypeOK
  <2>7. c[s].key = k /\ c[s].wired BY DEF TypeOK, Blank
  <2>8. \A r \in Socket : r # s => c[r] = conn[r] BY DEF TypeOK
  <2>9. Serving(s) /\ task' = task BY <1>1 DEF Hello
  <2> HIDE DEF c
  <2> QED BY <2>1, <2>3, <2>6, <2>7, <2>8, <2>9, Enrolling DEF c
<1>2. ASSUME NEW s \in Socket, NEW p \in Location, HeartbeatRehomed(s, p)
      PROVE  RegistryInv'
  <2>1. PICK k \in HomesOf(s, p) :
          zones' = Enrolled(s, k) /\ conn' = Reap(Beat(s, p, k), task, zones')
    BY <1>2 DEF HeartbeatRehomed
  <2>2. k \in Key BY HomesType
  <2>3. Serving(s) /\ task' = task BY <1>2 DEF HeartbeatRehomed
  <2>4. conn[s].wired /\ conn[s] \in Connection
    BY <2>3 DEF Serving, RegistryInv, Wired, TypeOK
  <2>5. Beat(s, p, k)[s].key = k /\ Beat(s, p, k)[s].wired
    BY <2>4 DEF Beat, TypeOK, Connection
  <2>6. \A r \in Socket : r # s => Beat(s, p, k)[r] = conn[r]
    BY DEF Beat, TypeOK
  <2>7. Beat(s, p, k) \in [Socket -> Connection] BY <2>2, BeatType
  <2> QED BY <2>1, <2>2, <2>3, <2>5, <2>6, <2>7, Enrolling
<1>3. ASSUME NEW s \in Socket, Message(s)
      PROVE  \/ Kept \/ \E m \in Reports, p \in Location : Hello(s, m, p)
             \/ \E p \in Location : HeartbeatRehomed(s, p)
  <2>1. ASSUME NEW p \in Location, Heartbeat(s, p) PROVE Kept
    BY <2>1 DEF Heartbeat, Beat, TypeOK, Connection
  <2>2. ASSUME conn' = Heard(s), task' = task, zones' = zones PROVE Kept
    BY <2>2 DEF Heard, TypeOK, Connection
  <2>3. ASSUME Idle(s) PROVE Kept BY <2>3 DEF Idle, TypeOK, Connection
  <2>4. ASSUME RefuseHello(s) PROVE Kept
    BY <2>4 DEF RefuseHello, Serving, TypeOK
  <2>5. ASSUME NEW p \in Location, HeartbeatFailed(s, p) PROVE Kept
    BY <2>5 DEF HeartbeatFailed, Beat, Serving, TypeOK, Connection
  <2> HIDE DEF Kept
  <2> QED BY <1>3, <2>1, <2>2, <2>3, <2>4, <2>5
          DEF Message, FirstSighting, Sighting, DroneLost, DroneConfirmed,
              OtherMessage
<1>4. ASSUME NEW s \in Socket, Connect(s) PROVE RegistryInv'
  <2>1. \A r \in Slots : zones'[r] = zones[r] /\ zones[r] # s
    BY <1>4 DEF Connect
  <2>2. conn'[s].wired BY <1>4 DEF Connect, TypeOK, Blank
  <2>3. \A r \in Socket : r # s => conn'[r] = conn[r] /\ task'[r] = task[r]
    BY <1>4 DEF Connect, TypeOK
  <2>4. \A r \in Slots : zones[r] # Nil => zones[r] \in Socket BY DEF TypeOK
  <2> QED BY <2>1, <2>2, <2>3, <2>4
          DEF RegistryInv, RegistryConsistent, Wired, SlotOf, OrgAt, ZoneAt
<1>5. ASSUME NEW s \in Socket, SilenceTimeout(s) PROVE Kept
  BY <1>5 DEF SilenceTimeout, TypeOK, Connection, Serving
<1>6. ASSUME NEW s \in Socket, Disconnect(s) PROVE RegistryInv'
  <2> DEFINE c == [conn EXCEPT ![s].wired = FALSE]
  <2>1. /\ zones' = zones /\ task' = [task EXCEPT ![s] = "none"]
        /\ conn' = Reap(c, task', zones')
    BY <1>6 DEF Disconnect
  <2>2. c[s].key = conn[s].key /\ ~c[s].wired
    BY DEF TypeOK, Connection
  <2>3. \A r \in Socket : r # s => c[r] = conn[r] BY DEF TypeOK
  <2> HIDE DEF c
  <2>4. \A r \in Socket : task'[r] # "none" \/ (\E q \in Slots : zones'[q] = r)
          => conn'[r] = c[r]
    BY <2>1 DEF Reap
  <2>5. task'[s] = "none" /\ \A r \in Socket : r # s => task'[r] = task[r]
    BY <2>1 DEF TypeOK
  <2>6. \A r \in Slots : zones[r] # Nil => zones[r] \in Socket BY DEF TypeOK
  <2>7. Wired' BY <2>3, <2>4, <2>5 DEF RegistryInv, Wired
  <2>8. RegistryConsistent'
    <3> SUFFICES ASSUME NEW r \in Slots, zones[r] # Nil
                 PROVE  /\ SlotOf(zones[r])' = r
                        /\ conn'[zones[r]].wired <=> task'[zones[r]] # "none"
      BY <2>1 DEF RegistryConsistent
    <3>1. conn'[zones[r]] = c[zones[r]] BY <2>1, <2>4, <2>6
    <3> QED BY <2>1, <2>2, <2>3, <2>5, <2>6, <3>1
            DEF RegistryInv, RegistryConsistent, SlotOf, OrgAt, ZoneAt
  <2> QED BY <2>7, <2>8 DEF RegistryInv
<1>7. CASE Sweep
  <2>1. \A r \in Slots : zones'[r] \in {zones[r], Nil} BY <1>7 DEF Sweep
  <2>2. task' = task BY <1>7 DEF Sweep
  <2>3. \A s \in Socket : task'[s] # "none" \/ (\E r \in Slots : zones'[r] = s)
          => conn'[s] = conn[s]
    BY <1>7, <2>2, ReapKeeps DEF Sweep
  <2> QED BY <2>1, <2>2, <2>3, SameEntries
<1>8. CASE Tick
  <2>1. \A s \in Socket : Same(s) BY <1>8 DEF Tick, TypeOK, Connection
  <2>2. zones' = zones /\ task' = task BY <1>8 DEF Tick
  <2> QED BY <2>1, <2>2, SameEntries
<1>9. CASE UNCHANGED vars BY <1>9, SameEntries DEF vars
<1>10. Kept => RegistryInv' BY SameEntries
<1> HIDE DEF Kept
<1> QED BY <1>1, <1>2, <1>3, <1>4, <1>5, <1>6, <1>7, <1>8, <1>9, <1>10
        DEF Next

\* However tablets reconnect, move and time out, an entry of the registry holds
\* a connection that is itself under that key, and that is wired exactly while
\* it is connected.
THEOREM RegistryAlwaysConsistent == Spec => []RegistryConsistent
<1>1. Init => RegistryInv
  BY DEF Init, RegistryInv, RegistryConsistent, Wired
<1>2. IInv /\ RegistryInv /\ [Next]_vars => RegistryInv' BY NextRegistry
<1>3. RegistryInv => RegistryConsistent BY DEF RegistryInv
<1> QED BY <1>1, <1>2, <1>3, Inductive, PTL DEF Spec

-----------------------------------------------------------------------------
(* The index of connections by device *)

LEMMA LeastNatural ==
    ASSUME NEW T \in SUBSET Nat, T # {}
    PROVE  \E m \in T : \A n \in T : m <= n
<1> DEFINE less == {ss \in Nat \X Nat : ss[1] < ss[2]}
<1>1. \A m, n \in Nat : m < n => <<m, n>> \in less BY SMT
<1>2. IsWellFoundedOn(less, Nat) BY NatLessThanWellFounded, Zenon DEF OpToRel
<1> HIDE DEF less
<1>3. PICK m \in T : \A n \in T : <<n, m>> \notin less BY <1>2, WFMin
<1>4. ASSUME NEW n \in T PROVE m <= n
  <2>1. ~(n < m) BY <1>1, <1>3
  <2> QED BY <2>1, SMT
<1> QED BY <1>4

\* While the device has another connection, disconnect finds one.
LEMMA ReplacementFound ==
    ASSUME TypeOK, NEW s \in Socket, NEW q \in Socket,
           q # s, task[q] # "none", TabletOf[q] = TabletOf[s]
    PROVE  Replacements(s) # {}
<1> DEFINE others == {r \in Socket : /\ r # s /\ task[r] # "none"
                                     /\ TabletOf[r] = TabletOf[s]}
           ages == {conn[r].seen : r \in others}
<1>1. \A r \in Socket : conn[r].seen \in 0 .. Stale BY DEF TypeOK, Connection
<1>2. Stale \in Nat BY ConstantsAssumption, SMT DEF Stale
<1>3. ages \in SUBSET Nat BY <1>1, <1>2, SMT
<1>4. q \in others OBVIOUS
<1>5. PICK m \in ages : \A n \in ages : m <= n
  <2>1. ages # {} BY <1>4
  <2> HIDE DEF ages
  <2> QED BY <1>3, <2>1, LeastNatural
<1>6. PICK r \in others : conn[r].seen = m OBVIOUS
<1>7. \A p \in others : conn[p].seen >= conn[r].seen
  <2> SUFFICES ASSUME NEW p \in others PROVE conn[p].seen >= m
    BY <1>6
  <2>1. m <= conn[p].seen BY <1>5
  <2>2. m \in Nat /\ conn[p].seen \in Nat BY <1>3
  <2> QED BY <2>1, <2>2, SMT
<1> QED BY <1>6, <1>7 DEF Replacements

LEMMA NextDeviceIndex ==
    ASSUME TypeOK, DeviceIndex, [Next]_vars
    PROVE  DeviceIndex'
<1> DEFINE Kept ==
        /\ byDev' = byDev
        /\ \A s \in Socket : task'[s] = "none" <=> task[s] = "none"
<1>1. ASSUME NEW s \in Socket, Connect(s) PROVE DeviceIndex'
  <2>1. byDev' = [byDev EXCEPT ![TabletOf[s]] = s]
        /\ task' = [task EXCEPT ![s] = "serving"]
    BY <1>1 DEF Connect
  <2>2. s # Nil /\ TabletOf[s] \in Tablet BY ConstantsAssumption
  <2> SUFFICES ASSUME NEW t \in Tablet
               PROVE  IF byDev'[t] = Nil
                      THEN \A r \in Socket : TabletOf[r] = t => task'[r] = "none"
                      ELSE /\ TabletOf[byDev'[t]] = t
                           /\ task'[byDev'[t]] # "none"
    BY DEF DeviceIndex
  <2>3. CASE t = TabletOf[s] BY <2>1, <2>2, <2>3 DEF TypeOK
  <2>4. CASE t # TabletOf[s]
    <3>1. byDev'[t] = byDev[t] BY <2>1, <2>4 DEF TypeOK
    <3>2. byDev[t] = Nil \/ byDev[t] \in Socket BY DEF TypeOK
    <3> QED BY <2>1, <2>4, <3>1, <3>2 DEF TypeOK, DeviceIndex
  <2> QED BY <2>3, <2>4
<1>2. ASSUME NEW s \in Socket, Disconnect(s) PROVE DeviceIndex'
  <2>1. task' = [task EXCEPT ![s] = "none"] BY <1>2 DEF Disconnect
  <2>2. Nil \notin Socket BY ConstantsAssumption
  <2> SUFFICES ASSUME NEW t \in Tablet
               PROVE  IF byDev'[t] = Nil
                      THEN \A r \in Socket : TabletOf[r] = t => task'[r] = "none"
                      ELSE /\ TabletOf[byDev'[t]] = t
                           /\ task'[byDev'[t]] # "none"
    BY DEF DeviceIndex
  <2>3. byDev[t] = Nil \/ byDev[t] \in Socket BY DEF TypeOK
  <2>4. CASE t = TabletOf[s] /\ byDev[t] = s
    <3>1. PICK r \in IF Replacements(s) = {} THEN {Nil} ELSE Replacements(s) :
            byDev' = [byDev EXCEPT ![t] = r]
      BY <1>2, <2>4 DEF Disconnect
    <3>2. byDev'[t] = r BY <3>1 DEF TypeOK
    <3>3. CASE Replacements(s) = {}
      <4>1. \A q \in Socket : TabletOf[q] = t => q = s \/ task[q] = "none"
        BY <2>4, <3>3, ReplacementFound
      <4> QED BY <2>1, <3>1, <3>2, <3>3, <4>1 DEF TypeOK
    <3>4. CASE Replacements(s) # {}
      <4>1. r \in Socket /\ r # s /\ task[r] # "none" /\ TabletOf[r] = t
        BY <2>4, <3>1, <3>4 DEF Replacements
      <4> QED BY <2>1, <2>2, <3>2, <4>1 DEF TypeOK
    <3> QED BY <3>3, <3>4
  <2>5. CASE ~(t = TabletOf[s] /\ byDev[t] = s)
    <3>1. byDev'[t] = byDev[t] BY <1>2, <2>5 DEF Disconnect, TypeOK
    <3>2. byDev[t] # s
      <4>1. SUFFICES ASSUME byDev[t] = s PROVE FALSE
        OBVIOUS
      <4>2. TabletOf[s] = t BY <2>2, <4>1 DEF DeviceIndex
      <4> QED BY <2>5, <4>1, <4>2
    <3> QED BY <2>1, <2>3, <3>1, <3>2 DEF TypeOK, DeviceIndex
  <2> QED BY <2>4, <2>5
<1>3. ASSUME NEW s \in Socket, Message(s) PROVE Kept
  <2>1. ASSUME RefuseHello(s) PROVE Kept
    BY <2>1 DEF RefuseHello, Serving, TypeOK
  <2>2. ASSUME byDev' = byDev, task' = task PROVE Kept BY <2>2
  <2>3. ASSUME NEW p \in Location, HeartbeatFailed(s, p) PROVE Kept
    BY <2>3 DEF HeartbeatFailed, Serving, TypeOK
  <2> HIDE DEF Kept
  <2> QED BY <1>3, <2>1, <2>2, <2>3
          DEF Message, Hello, Heartbeat, HeartbeatRehomed, FirstSighting,
              Sighting, DroneLost, DroneConfirmed, Idle, OtherMessage
<1>4. ASSUME NEW s \in Socket, SilenceTimeout(s) PROVE Kept
  BY <1>4 DEF SilenceTimeout, Serving, TypeOK
<1>5. Sweep \/ Tick \/ UNCHANGED vars => Kept BY DEF Sweep, Tick, vars
<1>6. Kept => DeviceIndex'
  <2> SUFFICES ASSUME Kept, NEW t \in Tablet
               PROVE  IF byDev'[t] = Nil
                      THEN \A r \in Socket : TabletOf[r] = t => task'[r] = "none"
                      ELSE /\ TabletOf[byDev'[t]] = t
                           /\ task'[byDev'[t]] # "none"
    BY DEF DeviceIndex
  <2>1. byDev[t] = Nil \/ byDev[t] \in Socket BY DEF TypeOK
  <2> QED BY <2>1 DEF DeviceIndex
<1> HIDE DEF Kept
<1> QED BY <1>1, <1>2, <1>3, <1>4, <1>5, <1>6 DEF Next

\* However the sockets of a tablet overlap, the index by device has one of its
\* connections exactly while it has any.
THEOREM DeviceIndexAlwaysRight == Spec => []DeviceIndex
<1>1. Init => DeviceIndex BY DEF Init, DeviceIndex
<1>2. TypeOK /\ DeviceIndex /\ [Next]_vars => DeviceIndex' BY NextDeviceIndex
<1> QED BY <1>1, <1>2, TypeCorrect, PTL DEF Spec

-----------------------------------------------------------------------------
(* Tenants *)

\* Apart from the clock and the sweep, a step is one tablet's, and changes the
\* registry, the owners and the confirmations of its organization only.
THEOREM TenantsIsolated == Spec => OneOrgPerStep
<1>1. ASSUME IInv, NEW s \in Socket,
             Connect(s) \/ Message(s) \/ SilenceTimeout(s) \/ Disconnect(s)
      PROVE  OneOrg(OrgAt(s))
  <2> TypeOK BY <1>1 DEF IInv
  <2> DEFINE o == OrgAt(s)
             Zs == \A r \in Slots : r[1] # o => zones'[r] = zones[r]
             Os == \A k \in Claimable : k[1] # o => owners'[k] = owners[k]
             Cs == \A k \in Claimable :
                     k[1] # o => confs'[k] \in {confs[k], Pruned(confs)[k]}
  <2>1. ASSUME NEW k, zones' = Enrolled(s, k) PROVE Zs
    BY <2>1 DEF Enrolled, SlotOf, TypeOK
  <2>2. ASSUME NEW m \in Reports, NEW p \in Location, Hello(s, m, p)
        PROVE  Zs /\ Os /\ Cs
    BY <2>1, <2>2 DEF Hello
  <2>3. ASSUME NEW p \in Location, Heartbeat(s, p) PROVE Zs /\ Os /\ Cs
    BY <2>3 DEF Heartbeat, Renewed, OwnedBy
  <2>4. ASSUME NEW p \in Location, HeartbeatRehomed(s, p)
        PROVE  Zs /\ Os /\ Cs
    <3>1. PICK k \in HomesOf(s, p) :
            /\ zones' = Enrolled(s, k)
            /\ confs' = Merged(Pruned(confs), o, conn[s].key, k)
            /\ owners' = Renewed(MovedOwners(owners, o, ZoneAt(s),
                                             conn[s].key, k), o, ZoneAt(s))
      BY <2>4 DEF HeartbeatRehomed
    <3>2. Os BY <3>1 DEF Renewed, MovedOwners, OwnedBy
    <3>3. Cs BY <3>1 DEF Merged
    <3> QED BY <2>1, <3>1, <3>2, <3>3
  <2>5. ASSUME NEW d \in Drone, NEW claim \in Claims, FirstSighting(s, d, claim)
        PROVE  Zs /\ Os /\ Cs
    BY <2>5 DEF FirstSighting, TypeOK
  <2>6. ASSUME NEW d \in Drone, Sighting(s, d) PROVE Zs /\ Os /\ Cs
    BY <2>6 DEF Sighting, TypeOK
  <2>7. ASSUME NEW d \in Drone, DroneLost(s, d) PROVE Zs /\ Os /\ Cs
    BY <2>7 DEF DroneLost, TypeOK
  <2>8. ASSUME NEW d \in Drone, NEW mapped \in Labels,
               DroneConfirmed(s, d, mapped)
        PROVE  Zs /\ Os /\ Cs
    BY <2>8, PrunedType DEF DroneConfirmed, TypeOK
  <2>9. ASSUME \/ Idle(s) \/ OtherMessage(s) \/ RefuseHello(s)
               \/ Connect(s) \/ SilenceTimeout(s)
               \/ \E p \in Location : HeartbeatFailed(s, p)
        PROVE  Zs /\ Os /\ Cs
    BY <2>9 DEF Idle, OtherMessage, RefuseHello, Connect, SilenceTimeout,
                HeartbeatFailed
  <2>10. ASSUME Disconnect(s) PROVE Zs /\ Os /\ Cs
    BY <2>10 DEF Disconnect, ConfirmationOwnerOf, ConfirmedFrom, OwnedBy
  <2>11. Zs /\ Os /\ Cs
    <3> HIDE DEF Zs, Os, Cs
    <3> QED BY <1>1, <2>2, <2>3, <2>4, <2>5, <2>6, <2>7, <2>8, <2>9, <2>10
            DEF Message
  <2> QED BY <2>11 DEF OneOrg
<1>2. \A s \in Socket : OrgAt(s) \in Org
  BY ConstantsAssumption DEF OrgAt
<1>3. IInv /\ [Next]_vars
        => [Tick \/ Sweep \/ \E o \in Org : OneOrg(o)]_vars
  <2> HIDE DEF IInv
  <2> QED BY <1>1, <1>2 DEF Next
<1> QED BY <1>3, Inductive, PTL DEF Spec, OneOrgPerStep

-----------------------------------------------------------------------------
(* Owners *)

Improves(new, old) ==
    old # Nil /\ new # Nil =>
        \/ new.zone = old.zone \/ new.confirmed
        \/ old.confirmed /\ ~Active(old)
        \/ Precedes(new, old)

\* A change of the lease alone does not matter to the order.
LEMMA LeaseNotCompared ==
    ASSUME NEW o \in Owner, NEW n, NEW b
    PROVE  /\ [o EXCEPT !.left = n].zone = o.zone
           /\ [o EXCEPT !.left = n].confirmed = o.confirmed
           /\ Precedes([o EXCEPT !.left = n], b) <=> Precedes(o, b)
BY DEF Owner, Precedes, ClaimKey

LEMMA RenewedImproves ==
    ASSUME NEW o \in Owner, o # Nil, NEW n, NEW b, Improves(o, b)
    PROVE  Improves([o EXCEPT !.left = n], b)
<1> SUFFICES ASSUME b # Nil
             PROVE  Improves([o EXCEPT !.left = n], b)
  BY DEF Improves
<1>1. CASE o.zone = b.zone BY <1>1, LeaseNotCompared DEF Improves
<1>2. CASE o.confirmed BY <1>2, LeaseNotCompared DEF Improves
<1>3. CASE b.confirmed /\ ~Active(b) BY <1>3 DEF Improves
<1>4. CASE Precedes(o, b)
  <2>1. Precedes([o EXCEPT !.left = n], b) BY <1>4, LeaseNotCompared
  <2> QED BY <2>1 DEF Improves
<1> QED BY <1>1, <1>2, <1>3, <1>4 DEF Improves

LEMMA ArbitratedImproves ==
    ASSUME NEW old \in Owner \cup {Nil}, NEW z \in Zone, NEW claim \in Claims
    PROVE  Improves(Arbitrated(old, z, claim), old)
<1> DEFINE candidate == [zone |-> z, ts |-> claim.ts, dist |-> claim.dist,
                         mapped |-> claim.mapped, confirmed |-> FALSE,
                         left |-> Lease]
<1>1. Lease \in -1 .. Lease BY ConstantsAssumption, SMT
<1>2. candidate \in Owner BY <1>1, ConstantsAssumption DEF Owner
<1> HIDE DEF candidate
<1>3. CASE old = Nil BY <1>3 DEF Improves
<1>4. CASE old \in Owner /\ old.confirmed
  BY <1>4 DEF Improves, Arbitrated
<1>5. CASE old \in Owner /\ old # Nil /\ ~old.confirmed
  <2>1. Arbitrated(old, z, claim)
          = [PickOwner(old, candidate) EXCEPT !.left = Lease]
    BY <1>5 DEF Arbitrated, candidate
  <2>2. CASE PickOwner(old, candidate) = old
    BY <1>5, <2>1, <2>2, LeaseNotCompared DEF Improves
  <2>3. CASE PickOwner(old, candidate) # old
    <3>1. PickOwner(old, candidate) = candidate /\ Precedes(candidate, old)
      BY <2>3 DEF PickOwner
    <3>2. Precedes([candidate EXCEPT !.left = Lease], old)
      BY <1>2, <3>1, LeaseNotCompared
    <3> QED BY <2>1, <3>1, <3>2 DEF Improves
  <2> QED BY <2>2, <2>3
<1> QED BY <1>3, <1>4, <1>5

LEMMA MovedImproves ==
    ASSUME TypeOK, NEW o, NEW z, NEW old \in Key, NEW new, NEW k \in Claimable
    PROVE  Improves(Renewed(MovedOwners(owners, o, z, old, new), o, z)[k],
                    owners[k])
<1> DEFINE os == MovedOwners(owners, o, z, old, new)
<1>1. os \in [Claimable -> Owner \cup {Nil}]
  BY MovedOwnersType DEF TypeOK
<1>2. Improves(os[k], owners[k])
  BY DEF MovedOwners, Improves, PickOwner
<1>3. owners[k] \in Owner \cup {Nil} BY DEF TypeOK
<1> HIDE DEF os, Improves
<1>4. CASE OwnedBy(os, k, o, z)
  <2>1. os[k] \in Owner BY <1>1, <1>4 DEF OwnedBy
  <2>2. Renewed(os, o, z)[k] = [os[k] EXCEPT !.left = Lease]
    BY <1>4 DEF Renewed
  <2>3. os[k] # Nil BY <1>4 DEF OwnedBy
  <2>4. Improves([os[k] EXCEPT !.left = Lease], owners[k])
    BY <1>2, <2>1, <2>3, RenewedImproves
  <2> QED BY <2>2, <2>4 DEF os
<1>5. CASE ~OwnedBy(os, k, o, z)
  <2>1. Renewed(os, o, z)[k] = os[k] BY <1>5 DEF Renewed
  <2> QED BY <1>2, <2>1 DEF os
<1> QED BY <1>4, <1>5

\* Whatever the tablets send, the owner of a drone under a key is replaced by
\* a better one only, but for confirmations and lapsed confirmed owners.
THEOREM OwnersImprove == Spec => OwnerOnlyImproves
<1> DEFINE Fine == \A k \in Claimable : Improves(owners'[k], owners[k])
<1>1. ASSUME TypeOK, StandaloneKeyed, NEW s \in Socket, Message(s),
             owners' # owners
      PROVE  Fine
  <2> TypeOK /\ StandaloneKeyed BY <1>1
  <2>1. ASSUME NEW p \in Location, Heartbeat(s, p) PROVE Fine
    <3> SUFFICES ASSUME NEW k \in Claimable
                 PROVE  Improves(owners'[k], owners[k])
      OBVIOUS
    <3>1. owners' = Renewed(owners, OrgAt(s), ZoneAt(s))
      BY <1>1, <2>1 DEF Heartbeat
    <3>2. owners[k] \in Owner \cup {Nil} BY DEF TypeOK
    <3>3. owners[k] # Nil => [owners[k] EXCEPT !.left = Lease].zone
                              = owners[k].zone
      BY <3>2, LeaseNotCompared
    <3> QED BY <3>1, <3>3 DEF Renewed, Improves
  <2>2. ASSUME NEW p \in Location, HeartbeatRehomed(s, p) PROVE Fine
    <3>1. PICK k \in HomesOf(s, p) :
            owners' = Renewed(MovedOwners(owners, OrgAt(s), ZoneAt(s),
                                          conn[s].key, k),
                              OrgAt(s), ZoneAt(s))
      BY <2>2 DEF HeartbeatRehomed
    <3>2. conn[s].key \in Key
      BY <2>2 DEF HeartbeatRehomed, StandaloneKeyed, TypeOK, Connection
    <3> QED BY <3>1, <3>2, MovedImproves
  <2>3. ASSUME NEW d \in Drone, NEW claim \in Claims, FirstSighting(s, d, claim)
        PROVE  Fine
    <3>1. PICK key \in ContextKeys(s) :
            owners' = [owners EXCEPT ![<<OrgAt(s), key, d>>] =
                          Arbitrated(@, ZoneAt(s), claim)]
      BY <2>3 DEF FirstSighting
    <3>2. ZoneAt(s) \in Zone BY ConstantsAssumption DEF ZoneAt
    <3> SUFFICES ASSUME NEW k \in Claimable
                 PROVE  Improves(owners'[k], owners[k])
      OBVIOUS
    <3>3. owners[k] \in Owner \cup {Nil} BY DEF TypeOK
    <3>4. Improves(owners[k], owners[k]) BY DEF Improves
    <3>5. Improves(Arbitrated(owners[k], ZoneAt(s), claim), owners[k])
      BY <3>2, <3>3, ArbitratedImproves
    <3>6. owners'[k] \in {owners[k], Arbitrated(owners[k], ZoneAt(s), claim)}
      BY <3>1 DEF TypeOK
    <3> QED BY <3>4, <3>5, <3>6
  <2>4. ASSUME NEW d \in Drone, Sighting(s, d) PROVE Fine
    <3>1. PICK key \in ContextKeys(s) :
            owners' = [owners EXCEPT ![<<OrgAt(s), key, d>>].left = Lease]
      BY <2>4 DEF Sighting
    <3> SUFFICES ASSUME NEW k \in Claimable, owners[k] # Nil
                 PROVE  Improves(owners'[k], owners[k])
      BY DEF Improves
    <3>2. owners[k] \in Owner BY DEF TypeOK
    <3>3. owners'[k] \in {owners[k], [owners[k] EXCEPT !.left = Lease]}
      BY <3>1 DEF TypeOK
    <3>4. [owners[k] EXCEPT !.left = Lease].zone = owners[k].zone
      BY <3>2, LeaseNotCompared
    <3> QED BY <3>3, <3>4 DEF Improves
  <2>5. ASSUME NEW d \in Drone, DroneLost(s, d) PROVE Fine
    BY <2>5 DEF DroneLost, TypeOK, Improves
  <2>6. ASSUME NEW d \in Drone, NEW mapped \in Labels,
               DroneConfirmed(s, d, mapped)
        PROVE  Fine
    <3>1. PICK key \in ContextKeys(s) :
            owners' = [owners EXCEPT ![<<OrgAt(s), key, d>>] =
                          ConfirmedOwner(@, ZoneAt(s), mapped)]
      BY <2>6 DEF DroneConfirmed
    <3> QED BY <3>1 DEF ConfirmedOwner, Improves, TypeOK
  <2> QED BY <1>1, <2>1, <2>2, <2>3, <2>4, <2>5, <2>6
          DEF Message, Hello, RefuseHello, HeartbeatFailed, Idle, OtherMessage
<1>2. ASSUME TypeOK, Tick PROVE Fine
  <2> TypeOK BY <1>2
  <2> SUFFICES ASSUME NEW k \in Claimable, owners[k] # Nil
               PROVE  Improves(owners'[k], owners[k])
    BY DEF Improves
  <2>1. owners[k] \in Owner BY DEF TypeOK
  <2>2. \A n : [owners[k] EXCEPT !.left = n].zone = owners[k].zone
    BY <2>1, LeaseNotCompared
  <2>3. owners'[k].zone = owners[k].zone BY <1>2, <2>2 DEF Tick
  <2> QED BY <2>3 DEF Improves
<1>3. ASSUME Sweep \/ \E s \in Socket : Disconnect(s) PROVE Fine
  BY <1>3 DEF Sweep, Disconnect, Improves
<1>4. IInv /\ [Next]_vars => [Fine]_owners
  BY <1>1, <1>2, <1>3 DEF IInv, Next, vars, Connect, SilenceTimeout
<1>5. [Fine]_owners =>
        [\A k \in Claimable :
            owners[k] # Nil /\ owners'[k] # Nil =>
              \/ owners'[k].zone = owners[k].zone
              \/ owners'[k].confirmed
              \/ owners[k].confirmed /\ ~Active(owners[k])
              \/ Precedes(owners'[k], owners[k])]_owners
  BY DEF Improves
<1> HIDE DEF Fine
<1> QED BY <1>4, <1>5, Inductive, PTL DEF Spec, OwnerOnlyImproves

-----------------------------------------------------------------------------
(* Tablets that keep their key while they are connected *)

\* What the app does: one websocket at a time, hello before anything that
\* names a drone, and a zone id of its own in its organization.
OrderlyTablets ==
    /\ ~Overlap /\ EarlyMaps = {}
    /\ \A t, u \in Tablet :
        OrgOf[t] = OrgOf[u] /\ ZoneOf[t] = ZoneOf[u] => t = u

\* No tablet changes its coordination key while it is connected: it reports
\* one map, and without a map it stays in its group.
KeysKept ==
    \A s \in Socket :
        task[s] # "none" /\ task'[s] # "none" /\ conn[s].key # NoMap
            => conn'[s].key = conn[s].key

Lone ==
    \A r, s \in Socket :
        /\ TabletOf[r] = TabletOf[s] /\ task[r] # "none" /\ task[s] # "none"
        => r = s

\* Who is connected and has a key is in the registry.
AtHome == \A s \in Socket : task[s] # "none" /\ conn[s].key # NoMap => Registered(s)

HomeInv == IInv /\ RegistryInv /\ Lone /\ AtHome

SteadyInv == HomeInv /\ ConfirmedOwnerOnline /\ ConfirmerOnline

LEMMA SlotIsSlot ==
    ASSUME TypeOK, NEW s \in Socket, conn[s].key # NoMap
    PROVE  SlotOf(s) \in Slots /\ conn[s].key \in Key
<1>1. conn[s].key \in Key BY DEF TypeOK, Connection
<1> QED BY <1>1, SocketSlot DEF SlotOf

\* Nobody is moved to another group.
LEMMA NoRehoming ==
    ASSUME IInv, KeysKept, NEW s \in Socket, NEW p \in Location,
           HeartbeatRehomed(s, p)
    PROVE  FALSE
<1> TypeOK /\ StandaloneKeyed BY DEF IInv
<1>1. PICK k \in HomesOf(s, p) \ {conn[s].key} :
        /\ zones' = Enrolled(s, k) /\ conn' = Reap(Beat(s, p, k), task, zones')
  BY DEF HeartbeatRehomed
<1>2. task[s] # "none" /\ task' = task /\ conn[s].key # NoMap
  BY DEF HeartbeatRehomed, Serving, StandaloneKeyed
<1>3. conn[s] \in Connection BY DEF TypeOK
<1>4. Beat(s, p, k)[s].key = k BY <1>3 DEF Beat, TypeOK, Connection
<1>5. conn'[s] = Beat(s, p, k)[s] BY <1>1, <1>2, ReapKeeps
<1> QED BY <1>1, <1>2, <1>4, <1>5 DEF KeysKept

\* A tablet that says hello again keeps its entry.
LEMMA HelloEnrols ==
    ASSUME IInv, RegistryInv, NEW s \in Socket, NEW m \in Reports,
           NEW p \in Location, Hello(s, m, p)
    PROVE  \E k \in Key :
            /\ zones' = Enrolled(s, k) /\ zones'[<<OrgAt(s), k, ZoneAt(s)>>] = s
            /\ conn'[s].key = k /\ conn'[s].wired
            /\ task' = task /\ task[s] # "none"
            /\ \A r \in Socket : r # s => conn'[r] \in {conn[r], Blank}
            /\ \A r \in Socket : r # s /\ task[r] # "none" => conn'[r] = conn[r]
<1> TypeOK BY DEF IInv
<1>1. PICK k \in Resolve(OrgAt(s), ZoneAt(s), m, p) :
        /\ zones' = Enrolled(s, k)
        /\ conn' = Reap([conn EXCEPT ![s] =
                [Blank EXCEPT !.key = k, !.reported = m, !.place = p,
                              !.seen = 0,
                              !.mode = IF m = NoMap THEN "standalone"
                                       ELSE "map"]], task, zones')
  BY DEF Hello
<1> DEFINE c == [conn EXCEPT ![s] =
                [Blank EXCEPT !.key = k, !.reported = m, !.place = p,
                              !.seen = 0,
                              !.mode = IF m = NoMap THEN "standalone"
                                       ELSE "map"]]
<1>2. m \in Map \cup {NoMap} /\ ZoneAt(s) \in Zone
  BY ConstantsAssumption DEF ZoneAt
<1>3. k \in Key BY <1>2, ResolveType
<1>4. c[s].key = k /\ c[s].wired BY DEF TypeOK, Blank
<1>5. \A r \in Socket : r # s => c[r] = conn[r] BY DEF TypeOK
<1>6. task' = task /\ task[s] # "none" BY DEF Hello, Serving
<1>7. conn' = Reap(c, task, zones') BY <1>1
<1> HIDE DEF c
<1>8. conn'[s] = c[s] BY <1>6, <1>7, ReapKeeps
<1>9. \A r \in Socket : conn'[r] \in {c[r], Blank} BY <1>7 DEF Reap
<1>10. \A r \in Socket : task[r] # "none" => conn'[r] = c[r]
  BY <1>7, ReapKeeps
<1>11. zones'[<<OrgAt(s), k, ZoneAt(s)>>] = s
  BY <1>1, <1>3, SocketSlot DEF Enrolled, TypeOK
<1>12. zones' = Enrolled(s, k) BY <1>1
<1>13. conn'[s].key = k /\ conn'[s].wired BY <1>4, <1>8
<1>14. /\ \A r \in Socket : r # s => conn'[r] \in {conn[r], Blank}
       /\ \A r \in Socket : r # s /\ task[r] # "none" => conn'[r] = conn[r]
  BY <1>5, <1>9, <1>10
<1> QED BY <1>3, <1>6, <1>11, <1>12, <1>13, <1>14

\* What steps but hello, a disconnect and the sweep do to the registry.
LEMMA PassingHome ==
    ASSUME IInv, KeysKept, Next
    PROVE  \/ \E s \in Socket, m \in Reports, p \in Location : Hello(s, m, p)
           \/ \E s \in Socket : Connect(s) \/ Disconnect(s)
           \/ Sweep
           \/ /\ zones' = zones
              /\ \A s \in Socket : /\ conn'[s].key = conn[s].key
                                   /\ conn'[s].wired = conn[s].wired
                                   /\ task'[s] # "none" <=> task[s] # "none"
<1> TypeOK BY DEF IInv
<1> DEFINE Kept ==
        /\ zones' = zones
        /\ \A s \in Socket : /\ conn'[s].key = conn[s].key
                             /\ conn'[s].wired = conn[s].wired
                             /\ task'[s] # "none" <=> task[s] # "none"
<1>1. ASSUME NEW s \in Socket, Message(s)
      PROVE  Kept \/ \E m \in Reports, p \in Location : Hello(s, m, p)
  <2>1. ASSUME NEW p \in Location, Heartbeat(s, p) PROVE Kept
    BY <2>1 DEF Heartbeat, Beat, TypeOK, Connection
  <2>2. ASSUME conn' = Heard(s), task' = task, zones' = zones PROVE Kept
    BY <2>2 DEF Heard, TypeOK, Connection
  <2>3. ASSUME Idle(s) PROVE Kept BY <2>3 DEF Idle, TypeOK, Connection
  <2>4. ASSUME RefuseHello(s) PROVE Kept
    BY <2>4 DEF RefuseHello, Serving, TypeOK
  <2>5. ASSUME NEW p \in Location, HeartbeatFailed(s, p) PROVE Kept
    BY <2>5 DEF HeartbeatFailed, Beat, Serving, TypeOK, Connection
  <2>6. \A p \in Location : ~HeartbeatRehomed(s, p) BY NoRehoming
  <2> HIDE DEF Kept
  <2> QED BY <1>1, <2>1, <2>2, <2>3, <2>4, <2>5, <2>6
          DEF Message, FirstSighting, Sighting, DroneLost, DroneConfirmed,
              OtherMessage
<1>2. ASSUME NEW s \in Socket, SilenceTimeout(s) PROVE Kept
  BY <1>2 DEF SilenceTimeout, TypeOK, Connection, Serving
<1>3. CASE Tick BY <1>3 DEF Tick, TypeOK, Connection
<1> HIDE DEF Kept
<1> QED BY <1>1, <1>2, <1>3 DEF Next, Kept

\* A zone that is online stays so, in its entry, until its own disconnect.
LEMMA OnlineStays ==
    ASSUME HomeInv, OrderlyTablets, KeysKept, Next, NEW r \in Slots,
           zones[r] # Nil, conn[zones[r]].wired, ~Disconnect(zones[r])
    PROVE  zones'[r] = zones[r] /\ conn'[zones[r]].wired
<1> TypeOK /\ IInv /\ RegistryInv BY DEF HomeInv, IInv
<1> DEFINE q == zones[r]
<1>1. q \in Socket /\ SlotOf(q) = r /\ task[q] # "none"
  BY DEF TypeOK, RegistryInv, RegistryConsistent
<1> HIDE DEF q
<1>2. ASSUME NEW s \in Socket, NEW m \in Reports, NEW p \in Location,
             Hello(s, m, p)
      PROVE  zones'[r] = q /\ conn'[q].wired
  <2>1. PICK k \in Key :
            /\ zones' = Enrolled(s, k) /\ zones'[<<OrgAt(s), k, ZoneAt(s)>>] = s
            /\ conn'[s].key = k /\ conn'[s].wired
            /\ task' = task /\ task[s] # "none"
            /\ \A x \in Socket : x # s /\ task[x] # "none" => conn'[x] = conn[x]
    BY <1>2, HelloEnrols
  <2>2. CASE s = q
    <3>1. conn[s].key # NoMap
      BY <1>1, <2>2, ConstantsAssumption DEF SlotOf, Slots
    <3>2. k = conn[s].key BY <2>1, <3>1 DEF KeysKept
    <3>3. <<OrgAt(s), k, ZoneAt(s)>> = r BY <1>1, <2>2, <3>2 DEF SlotOf
    <3> QED BY <2>1, <2>2, <3>3
  <2>3. CASE s # q
    <3>1. r # <<OrgAt(s), k, ZoneAt(s)>>
      <4>1. SUFFICES ASSUME r = <<OrgAt(s), k, ZoneAt(s)>> PROVE FALSE
        OBVIOUS
      <4>2. OrgAt(s) = OrgAt(q) /\ ZoneAt(s) = ZoneAt(q)
        BY <1>1, <4>1 DEF SlotOf
      <4>3. TabletOf[s] = TabletOf[q]
        BY <1>1, <4>2, ConstantsAssumption
           DEF OrderlyTablets, OrgAt, ZoneAt
      <4> QED BY <1>1, <2>1, <2>3, <4>3 DEF HomeInv, Lone
    <3>2. Registered(s) => SlotOf(s) # r BY <2>3 DEF Registered, q
    <3>3. zones'[r] = zones[r] BY <2>1, <3>1, <3>2 DEF Enrolled, TypeOK
    <3> QED BY <1>1, <2>1, <2>3, <3>3 DEF q
  <2> QED BY <2>2, <2>3
<1>3. ASSUME NEW s \in Socket, Connect(s)
      PROVE  zones'[r] = q /\ conn'[q].wired
  <2>1. s # q BY <1>3 DEF Connect, q
  <2> QED BY <1>1, <1>3, <2>1 DEF Connect, TypeOK, q
<1>4. ASSUME NEW s \in Socket, Disconnect(s)
      PROVE  zones'[r] = q /\ conn'[q].wired
  <2> DEFINE c == [conn EXCEPT ![s].wired = FALSE]
  <2>1. s # q BY <1>4 DEF q
  <2>2. /\ zones' = zones /\ task' = [task EXCEPT ![s] = "none"]
        /\ conn' = Reap(c, task', zones)
    BY <1>4 DEF Disconnect
  <2>3. task'[q] # "none" BY <1>1, <2>1, <2>2 DEF TypeOK
  <2>4. c[q] = conn[q] BY <2>1, <1>1 DEF TypeOK
  <2> HIDE DEF c
  <2>5. conn'[q] = c[q] BY <1>1, <2>2, <2>3 DEF Reap
  <2> QED BY <2>2, <2>4, <2>5 DEF q
<1>5. CASE Sweep
  <2>1. zones'[r] = q BY <1>5 DEF Sweep, Outdated, q
  <2>2. conn'[q] = conn[q] BY <1>1, <1>5, ReapKeeps DEF Sweep
  <2> QED BY <2>1, <2>2 DEF q
<1>6. CASE /\ zones' = zones
           /\ \A s \in Socket : conn'[s].wired = conn[s].wired
  BY <1>1, <1>6 DEF q
<1> QED BY <1>2, <1>3, <1>4, <1>5, <1>6, PassingHome DEF q

LEMMA NextHome ==
    ASSUME HomeInv, OrderlyTablets, KeysKept, Next
    PROVE  Lone' /\ AtHome'
<1> TypeOK /\ IInv /\ RegistryInv /\ Lone /\ AtHome BY DEF HomeInv, IInv
<1>1. ASSUME NEW s \in Socket, task'[s] # "none", task[s] = "none"
      PROVE  Connect(s)
  <2>1. ~(\E q \in Socket, m \in Reports, p \in Location : Hello(q, m, p))
    BY <1>1 DEF Hello
  <2>2. \A q \in Socket : Disconnect(q) => task' = [task EXCEPT ![q] = "none"]
    BY DEF Disconnect
  <2>3. \A q \in Socket : Connect(q) => task' = [task EXCEPT ![q] = "serving"]
    BY DEF Connect
  <2>4. Sweep => task' = task BY DEF Sweep
  <2> QED BY <1>1, <2>1, <2>2, <2>3, <2>4, PassingHome DEF TypeOK
<1>2. Lone'
  <2> SUFFICES ASSUME NEW r \in Socket, NEW s \in Socket, r # s,
                      TabletOf[r] = TabletOf[s],
                      task'[r] # "none", task'[s] # "none"
               PROVE  FALSE
    BY DEF Lone
  <2>1. ASSUME NEW x \in Socket, NEW y \in Socket, x # y,
               TabletOf[x] = TabletOf[y], task'[y] # "none", Connect(x)
        PROVE  FALSE
    BY <2>1 DEF Connect, OrderlyTablets, TypeOK
  <2> QED BY <1>1, <2>1 DEF Lone
<1>3. ASSUME NEW s \in Socket, task'[s] # "none", conn'[s].key # NoMap
      PROVE  zones'[SlotOf(s)'] = s
  <2>1. CASE task[s] # "none" /\ conn[s].key # NoMap
    <3>1. SlotOf(s)' = SlotOf(s)
      BY <1>3, <2>1 DEF KeysKept, SlotOf, OrgAt, ZoneAt
    <3>2. zones[SlotOf(s)] = s /\ conn[s].wired /\ SlotOf(s) \in Slots
      BY <2>1, SlotIsSlot DEF AtHome, Registered, RegistryInv, Wired
    <3>3. ~Disconnect(s) BY <1>3 DEF Disconnect, TypeOK
    <3>4. zones'[SlotOf(s)] = s
      BY <3>2, <3>3, OnlineStays, ConstantsAssumption
    <3> QED BY <3>1, <3>4
  <2>2. CASE task[s] = "none"
    <3>1. Connect(s) BY <1>1, <1>3, <2>2
    <3>2. conn'[s].key = NoMap BY <3>1 DEF Connect, Blank, TypeOK
    <3> QED BY <1>3, <3>2
  <2>3. CASE task[s] # "none" /\ conn[s].key = NoMap
    <3>1. PICK q \in Socket, m \in Reports, p \in Location : Hello(q, m, p)
      <4>1. ASSUME NEW q \in Socket, Connect(q) PROVE conn'[s].key = NoMap
        BY <2>3, <4>1 DEF Connect, Blank, TypeOK
      <4>2. ASSUME NEW q \in Socket, Disconnect(q) PROVE conn'[s].key = NoMap
        BY <2>3, <4>2 DEF Disconnect, Reap, Blank, TypeOK, Connection
      <4>3. Sweep => conn'[s].key = NoMap BY <2>3 DEF Sweep, Reap, Blank
      <4> QED BY <1>3, <2>3, <4>1, <4>2, <4>3, PassingHome
    <3>2. PICK k \in Key :
            /\ zones'[<<OrgAt(q), k, ZoneAt(q)>>] = q /\ conn'[q].key = k
            /\ \A x \in Socket : x # q => conn'[x] \in {conn[x], Blank}
      BY <3>1, HelloEnrols
    <3>3. s = q BY <1>3, <2>3, <3>2 DEF Blank
    <3> QED BY <3>2, <3>3 DEF SlotOf, OrgAt, ZoneAt
  <2> QED BY <2>1, <2>2, <2>3
<1>4. AtHome' BY <1>3 DEF AtHome, Registered
<1> QED BY <1>2, <1>4

\* Who owns a drone by confirmation has done so before, or confirms it now.
LEMMA ConfirmedOwnersFrom ==
    ASSUME IInv, KeysKept, Next, NEW k \in Claimable,
           owners'[k] # Nil, owners'[k].confirmed
    PROVE  \/ /\ owners[k] # Nil /\ owners[k].confirmed
              /\ owners[k].zone = owners'[k].zone
           \/ \E s \in Socket, d \in Drone, mapped \in Labels :
                /\ DroneConfirmed(s, d, mapped)
                /\ k[1] = OrgAt(s) /\ k[2] \in ContextKeys(s)
                /\ owners'[k].zone = ZoneAt(s)
<1> TypeOK BY DEF IInv
<1> DEFINE Same == /\ owners[k] # Nil /\ owners[k].confirmed
                   /\ owners[k].zone = owners'[k].zone
<1>0. owners[k] # Nil => \A n : /\ [owners[k] EXCEPT !.left = n].zone
                                     = owners[k].zone
                                /\ [owners[k] EXCEPT !.left = n].confirmed
                                     = owners[k].confirmed
  BY LeaseNotCompared DEF TypeOK
<1>1. ASSUME NEW s \in Socket, NEW p \in Location, Heartbeat(s, p)
      PROVE  Same
  BY <1>0, <1>1 DEF Heartbeat, Renewed, OwnedBy
<1>2. ASSUME NEW s \in Socket, NEW d \in Drone, NEW claim \in Claims,
             FirstSighting(s, d, claim)
      PROVE  Same
  <2>1. PICK key \in ContextKeys(s) :
          owners' = [owners EXCEPT ![<<OrgAt(s), key, d>>] =
                        Arbitrated(@, ZoneAt(s), claim)]
    BY <1>2 DEF FirstSighting
  <2>2. owners'[k] \in {owners[k], Arbitrated(owners[k], ZoneAt(s), claim)}
    BY <2>1 DEF TypeOK
  <2> DEFINE candidate == [zone |-> ZoneAt(s), ts |-> claim.ts,
                           dist |-> claim.dist, mapped |-> claim.mapped,
                           confirmed |-> FALSE, left |-> Lease]
  <2>3. \A n : ~[candidate EXCEPT !.left = n].confirmed OBVIOUS
  <2>4. ~candidate.confirmed OBVIOUS
  <2>5. Arbitrated(owners[k], ZoneAt(s), claim)
          = IF owners[k] = Nil THEN candidate
            ELSE IF owners[k].confirmed
            THEN IF Active(owners[k]) THEN owners[k] ELSE candidate
            ELSE [PickOwner(owners[k], candidate) EXCEPT !.left = Lease]
    BY DEF Arbitrated
  <2>6. PickOwner(owners[k], candidate) \in {owners[k], candidate}
    BY DEF PickOwner
  <2> HIDE DEF candidate
  <2>7. owners'[k] = owners[k]
    BY <1>0, <2>2, <2>3, <2>4, <2>5, <2>6
  <2> QED BY <2>7
<1>3. ASSUME NEW s \in Socket, NEW d \in Drone, Sighting(s, d)
      PROVE  Same
  <2>1. PICK key \in ContextKeys(s) :
          /\ OwnedBy(owners, <<OrgAt(s), key, d>>, OrgAt(s), ZoneAt(s))
          /\ owners' = [owners EXCEPT ![<<OrgAt(s), key, d>>].left = Lease]
    BY <1>3 DEF Sighting
  <2> QED BY <1>0, <2>1 DEF TypeOK, OwnedBy
<1>4. ASSUME NEW s \in Socket, NEW d \in Drone, DroneLost(s, d)
      PROVE  Same
  BY <1>4 DEF DroneLost, TypeOK
<1>5. ASSUME NEW s \in Socket, NEW d \in Drone, NEW mapped \in Labels,
             DroneConfirmed(s, d, mapped)
      PROVE  Same \/ /\ k[1] = OrgAt(s) /\ k[2] \in ContextKeys(s)
                     /\ owners'[k].zone = ZoneAt(s)
  <2>1. PICK key \in ContextKeys(s) :
          owners' = [owners EXCEPT ![<<OrgAt(s), key, d>>] =
                        ConfirmedOwner(@, ZoneAt(s), mapped)]
    BY <1>5 DEF DroneConfirmed
  <2>2. CASE k = <<OrgAt(s), key, d>>
    BY <2>1, <2>2 DEF TypeOK, ConfirmedOwner
  <2>3. CASE k # <<OrgAt(s), key, d>>
    BY <2>1, <2>3 DEF TypeOK
  <2> QED BY <2>2, <2>3
<1>6. ASSUME NEW s \in Socket, Disconnect(s) PROVE Same
  BY <1>6 DEF Disconnect
<1>7. ASSUME Sweep PROVE Same BY <1>7 DEF Sweep
<1>8. ASSUME Tick PROVE Same
  <2>1. owners[k] # Nil /\ \/ owners'[k] = owners[k]
                           \/ owners'[k] = [owners[k] EXCEPT !.left = @ - 1]
    BY <1>8 DEF Tick, Active
  <2> QED BY <1>0, <2>1
<1>9. ASSUME UNCHANGED owners PROVE Same BY <1>9
<1>10. \A s \in Socket, p \in Location : ~HeartbeatRehomed(s, p)
  BY NoRehoming
<1> HIDE DEF Same
<1>11. ASSUME NEW s \in Socket, Message(s)
       PROVE  Same \/ \E d \in Drone, mapped \in Labels :
                        DroneConfirmed(s, d, mapped)
  BY <1>1, <1>2, <1>3, <1>4, <1>9, <1>10, <1>11
     DEF Message, Hello, RefuseHello, HeartbeatFailed, Idle, OtherMessage
<1>12. Same \/ \E s \in Socket, d \in Drone, mapped \in Labels :
                 DroneConfirmed(s, d, mapped)
  <2>1. ASSUME NEW s \in Socket, Connect(s) \/ SilenceTimeout(s) PROVE Same
    BY <1>9, <2>1 DEF Connect, SilenceTimeout
  <2> QED BY <1>6, <1>7, <1>8, <1>11, <2>1 DEF Next
<1> QED BY <1>5, <1>12 DEF Same

\* The same of the confirmations.
LEMMA ConfirmationsFrom ==
    ASSUME IInv, KeysKept, Next, NEW k \in Claimable, confs'[k] # Nil
    PROVE  \/ confs[k] # Nil /\ confs[k].by = confs'[k].by
           \/ \E s \in Socket, d \in Drone, mapped \in Labels :
                /\ DroneConfirmed(s, d, mapped)
                /\ k[1] = OrgAt(s) /\ k[2] \in ContextKeys(s)
                /\ confs'[k].by = ZoneAt(s)
<1> TypeOK BY DEF IInv
<1> DEFINE Same == confs[k] # Nil /\ confs[k].by = confs'[k].by
<1>1. ASSUME NEW s \in Socket, NEW d \in Drone, DroneLost(s, d) PROVE Same
  BY <1>1 DEF DroneLost, TypeOK
<1>2. ASSUME NEW s \in Socket, NEW d \in Drone, NEW mapped \in Labels,
             DroneConfirmed(s, d, mapped)
      PROVE  Same \/ /\ k[1] = OrgAt(s) /\ k[2] \in ContextKeys(s)
                     /\ confs'[k].by = ZoneAt(s)
  <2>1. PICK key \in ContextKeys(s) :
          confs' = [Pruned(confs) EXCEPT ![<<OrgAt(s), key, d>>] =
                        [by |-> ZoneAt(s), age |-> 0]]
    BY <1>2 DEF DroneConfirmed
  <2>2. CASE k = <<OrgAt(s), key, d>> BY <2>1, <2>2 DEF Pruned
  <2>3. CASE k # <<OrgAt(s), key, d>> BY <2>1, <2>3 DEF Pruned
  <2> QED BY <2>2, <2>3
<1>3. ASSUME NEW s \in Socket, Disconnect(s) PROVE Same
  BY <1>3 DEF Disconnect
<1>4. ASSUME Sweep PROVE Same BY <1>4 DEF Sweep
<1>5. ASSUME Tick PROVE Same
  <2>1. confs[k] # Nil /\ confs'[k] = [confs[k] EXCEPT !.age =
                                          Older(@, Retention + 1)]
    BY <1>5 DEF Tick
  <2>2. confs[k] \in Confirmation BY <2>1 DEF TypeOK
  <2> QED BY <2>1, <2>2 DEF Confirmation
<1>6. ASSUME UNCHANGED confs PROVE Same BY <1>6
<1>7. \A s \in Socket, p \in Location : ~HeartbeatRehomed(s, p)
  BY NoRehoming
<1> HIDE DEF Same
<1>8. ASSUME NEW s \in Socket, Message(s)
      PROVE  Same \/ \E d \in Drone, mapped \in Labels :
                        DroneConfirmed(s, d, mapped)
  BY <1>1, <1>6, <1>7, <1>8
     DEF Message, Hello, RefuseHello, Heartbeat, HeartbeatFailed, Idle,
         OtherMessage, FirstSighting, Sighting
<1>9. Same \/ \E s \in Socket, d \in Drone, mapped \in Labels :
                 DroneConfirmed(s, d, mapped)
  <2>1. ASSUME NEW s \in Socket, Connect(s) \/ SilenceTimeout(s) PROVE Same
    BY <1>6, <2>1 DEF Connect, SilenceTimeout
  <2> QED BY <1>3, <1>4, <1>5, <1>8, <2>1 DEF Next
<1> QED BY <1>2, <1>9 DEF Same

\* Whoever confirms a drone is online under the key the confirmation is for.
LEMMA ConfirmsFromHome ==
    ASSUME HomeInv, OrderlyTablets, NEW s \in Socket, NEW d \in Drone,
           NEW mapped \in Labels, DroneConfirmed(s, d, mapped),
           NEW key \in ContextKeys(s)
    PROVE  ZoneOnline(OrgAt(s), key, ZoneAt(s))'
<1> TypeOK BY DEF HomeInv, IInv
<1>1. conn[s].key = key /\ key # NoMap /\ task[s] # "none"
  BY DEF ContextKeys, OrderlyTablets, DroneConfirmed, Serving
<1>2. zones[<<OrgAt(s), key, ZoneAt(s)>>] = s /\ conn[s].wired
  BY <1>1 DEF HomeInv, AtHome, Registered, SlotOf, RegistryInv, Wired
<1>3. zones' = zones /\ conn'[s].wired
  BY <1>2 DEF DroneConfirmed, Heard, TypeOK, Connection
<1> QED BY <1>2, <1>3, ConstantsAssumption DEF ZoneOnline, OrgAt, ZoneAt

\* Who leaves takes along what it owns by confirmation, and its confirmations.
LEMMA LeavesNothing ==
    ASSUME HomeInv, NEW k \in Claimable, NEW z \in Zone,
           ZoneOnline(k[1], k[2], z), Disconnect(zones[<<k[1], k[2], z>>])
    PROVE  /\ owners[k] # Nil /\ owners[k].confirmed /\ owners[k].zone = z
                => owners'[k] = Nil
           /\ confs[k] # Nil /\ confs[k].by = z => confs'[k] = Nil
<1> DEFINE s == zones[<<k[1], k[2], z>>]
<1>1. <<k[1], k[2], z>> \in Slots /\ k[2] # NoMap
  BY ConstantsAssumption DEF Claimable, Slots
<1>2. s \in Socket /\ SlotOf(s) = <<k[1], k[2], z>>
  BY <1>1 DEF ZoneOnline, HomeInv, IInv, TypeOK, RegistryInv,
              RegistryConsistent
<1> HIDE DEF s
<1>3. OrgAt(s) = k[1] /\ conn[s].key = k[2] /\ ZoneAt(s) = z
  BY <1>2 DEF SlotOf
<1>4. Registered(s) BY <1>1, <1>2, <1>3 DEF Registered, s
<1> QED BY <1>3, <1>4
        DEF Disconnect, ConfirmationOwnerOf, ConfirmedFrom, OwnedBy, s

LEMMA NextSteady ==
    ASSUME SteadyInv, OrderlyTablets, KeysKept, Next
    PROVE  ConfirmedOwnerOnline' /\ ConfirmerOnline'
<1> HomeInv /\ IInv /\ TypeOK BY DEF SteadyInv, HomeInv, IInv
<1>1. ASSUME NEW k \in Claimable, NEW z \in Zone, ZoneOnline(k[1], k[2], z),
             ~Disconnect(zones[<<k[1], k[2], z>>])
      PROVE  /\ zones'[<<k[1], k[2], z>>] # Nil
             /\ conn'[zones'[<<k[1], k[2], z>>]].wired
  <2>1. <<k[1], k[2], z>> \in Slots BY DEF Claimable, Slots
  <2> QED BY <1>1, <2>1, OnlineStays DEF ZoneOnline
<1>2. ASSUME NEW k \in Claimable, owners'[k] # Nil, owners'[k].confirmed
      PROVE  ZoneOnline(k[1], k[2], owners[k].zone)'
  <2>1. CASE /\ owners[k] # Nil /\ owners[k].confirmed
             /\ owners[k].zone = owners'[k].zone
    <3> DEFINE z == owners[k].zone
    <3>1. z \in Zone /\ ZoneOnline(k[1], k[2], z)
      BY <2>1 DEF TypeOK, Owner, SteadyInv, ConfirmedOwnerOnline
    <3>2. ~Disconnect(zones[<<k[1], k[2], z>>])
      BY <1>2, <2>1, <3>1, LeavesNothing
    <3> HIDE DEF z
    <3>3. /\ zones'[<<k[1], k[2], z>>] # Nil
          /\ conn'[zones'[<<k[1], k[2], z>>]].wired
      BY <1>1, <3>1, <3>2
    <3> QED BY <2>1, <3>3 DEF ZoneOnline, z
  <2>2. CASE \E s \in Socket, d \in Drone, mapped \in Labels :
                /\ DroneConfirmed(s, d, mapped)
                /\ k[1] = OrgAt(s) /\ k[2] \in ContextKeys(s)
                /\ owners'[k].zone = ZoneAt(s)
    BY <2>2, ConfirmsFromHome DEF ZoneOnline, OrgAt, ZoneAt
  <2> QED BY <1>2, <2>1, <2>2, ConfirmedOwnersFrom
<1>3. ASSUME NEW k \in Claimable, confs'[k] # Nil
      PROVE  ZoneOnline(k[1], k[2], confs[k].by)'
  <2>1. CASE confs[k] # Nil /\ confs[k].by = confs'[k].by
    <3> DEFINE z == confs[k].by
    <3>1. z \in Zone /\ ZoneOnline(k[1], k[2], z)
      BY <2>1 DEF TypeOK, Confirmation, SteadyInv, ConfirmerOnline
    <3>2. ~Disconnect(zones[<<k[1], k[2], z>>])
      BY <1>3, <2>1, <3>1, LeavesNothing
    <3> HIDE DEF z
    <3>3. /\ zones'[<<k[1], k[2], z>>] # Nil
          /\ conn'[zones'[<<k[1], k[2], z>>]].wired
      BY <1>1, <3>1, <3>2
    <3> QED BY <2>1, <3>3 DEF ZoneOnline, z
  <2>2. CASE \E s \in Socket, d \in Drone, mapped \in Labels :
                /\ DroneConfirmed(s, d, mapped)
                /\ k[1] = OrgAt(s) /\ k[2] \in ContextKeys(s)
                /\ confs'[k].by = ZoneAt(s)
    BY <2>2, ConfirmsFromHome DEF ZoneOnline, OrgAt, ZoneAt
  <2> QED BY <1>3, <2>1, <2>2, ConfirmationsFrom
<1> QED BY <1>2, <1>3 DEF ConfirmedOwnerOnline, ConfirmerOnline

\* The hub, with tablets that keep their key.
SteadySpec == Spec /\ [][KeysKept]_vars

\* The invariant of tablets that keep their key.
LEMMA SteadyInvariance == ASSUME OrderlyTablets PROVE SteadySpec => []SteadyInv
<1>1. Init => Lone /\ AtHome /\ ConfirmedOwnerOnline /\ ConfirmerOnline
  BY DEF Init, Lone, AtHome, ConfirmedOwnerOnline, ConfirmerOnline
<1>2. SteadyInv /\ [Next]_vars /\ [KeysKept]_vars
        => (Lone /\ AtHome /\ ConfirmedOwnerOnline /\ ConfirmerOnline)'
  <2> SUFFICES ASSUME SteadyInv, [Next]_vars, [KeysKept]_vars
               PROVE  (Lone /\ AtHome /\ ConfirmedOwnerOnline
                         /\ ConfirmerOnline)'
    OBVIOUS
  <2> HomeInv BY DEF SteadyInv
  <2>1. CASE UNCHANGED vars
    BY <2>1 DEF SteadyInv, HomeInv, vars, Lone, AtHome, ConfirmedOwnerOnline,
                ConfirmerOnline, ZoneOnline, Registered, SlotOf, OrgAt, ZoneAt
  <2>2. CASE Next /\ KeysKept BY <2>2, NextHome, NextSteady
  <2> QED BY <2>1, <2>2
<1>3. Init => RegistryInv
  BY DEF Init, RegistryInv, RegistryConsistent, Wired
<1>4. IInv /\ RegistryInv /\ [Next]_vars => RegistryInv' BY NextRegistry
<1>5. SteadyInv <=> /\ IInv /\ RegistryInv /\ Lone /\ AtHome
                    /\ ConfirmedOwnerOnline /\ ConfirmerOnline
  BY DEF SteadyInv, HomeInv
<1>6. Spec => []IInv BY Inductive
<1>7. Spec => []RegistryInv BY <1>3, <1>4, <1>6, PTL DEF Spec
<1>8. (Lone /\ AtHome /\ ConfirmedOwnerOnline /\ ConfirmerOnline)
        /\ IInv /\ RegistryInv /\ [Next]_vars /\ [KeysKept]_vars
        => (Lone /\ AtHome /\ ConfirmedOwnerOnline /\ ConfirmerOnline)'
  BY <1>2, <1>5
<1> QED BY <1>1, <1>5, <1>6, <1>7, <1>8, PTL DEF Spec, SteadySpec

\* Tablets that keep their key: whoever owns a drone by its confirmation
\* (_handle_drone_confirmed) is online under the drone's key; disconnect and the
\* sweep's releases leave nothing behind.
THEOREM ConfirmedOwnersOnline ==
    ASSUME OrderlyTablets PROVE SteadySpec => []ConfirmedOwnerOnline
<1>1. SteadyInv => ConfirmedOwnerOnline BY DEF SteadyInv
<1> QED BY <1>1, SteadyInvariance, PTL

\* So is whoever has confirmed a drone: what the hub replays to a tablet that
\* says hello is never the confirmation of one that has gone.
THEOREM ConfirmersOnline ==
    ASSUME OrderlyTablets PROVE SteadySpec => []ConfirmerOnline
<1>1. SteadyInv => ConfirmerOnline BY DEF SteadyInv
<1> QED BY <1>1, SteadyInvariance, PTL

\* And no confirmed owner is without a connection in its organization.  With
\* tablets that switch maps this fails: _rehome_locked leaves ownership behind.
THEOREM ConfirmedOwnersConnected ==
    ASSUME OrderlyTablets PROVE SteadySpec => []ConfirmedOwnerConnected
<1>1. SteadyInv => ConfirmedOwnerConnected
  <2> SUFFICES ASSUME SteadyInv, NEW k \in Claimable, owners[k] # Nil,
                      owners[k].confirmed
               PROVE  ~Absent(k[1], owners[k].zone)
    BY DEF ConfirmedOwnerConnected
  <2> DEFINE r == <<k[1], k[2], owners[k].zone>>
             s == zones[r]
  <2>1. TypeOK /\ RegistryConsistent BY DEF SteadyInv, HomeInv, IInv, RegistryInv
  <2>2. ZoneOnline(k[1], k[2], owners[k].zone) BY DEF SteadyInv, ConfirmedOwnerOnline
  <2>3. r \in Slots BY <2>1 DEF TypeOK, Claimable, Slots, Owner
  <2>4. s \in Socket /\ task[s] # "none" /\ SlotOf(s) = r
    BY <2>1, <2>2, <2>3 DEF ZoneOnline, TypeOK, RegistryConsistent
  <2> QED BY <2>4 DEF Absent, SlotOf
<1> QED BY <1>1, SteadyInvariance, PTL

-----------------------------------------------------------------------------
(* The hub implements the ownership promised to the tablets *)

\* What an owner is mapped to.
HolderOf(owner) ==
    IF owner = Nil THEN Nil
    ELSE [zone |-> owner.zone, ts |-> owner.ts, dist |-> owner.dist,
          mapped |-> owner.mapped, confirmed |-> owner.confirmed,
          active |-> Active(owner)]

LEMMA HoldersAre ==
    /\ Holders = [k \in Claimable |-> HolderOf(owners[k])]
    /\ Holders' = [k \in Claimable |-> HolderOf(owners'[k])]
BY DEF Holders, HolderOf, Active

LEMMA HolderType ==
    ASSUME NEW owner \in Owner
    PROVE  /\ owner # Nil /\ HolderOf(owner) # Nil
           /\ HolderOf(owner) \in Holder
           /\ HolderOf(owner).zone = owner.zone
           /\ HolderOf(owner).confirmed = owner.confirmed
           /\ HolderOf(owner).active <=> owner.left >= 0
<1>1. owner # Nil BY ConstantsAssumption
<1>2. HolderOf(owner) \in Holder BY <1>1 DEF HolderOf, Holder, Active, Owner
<1>3. HolderOf(owner).active = Active(owner) BY <1>1 DEF HolderOf
<1>4. Active(owner) <=> owner.left >= 0 BY <1>1 DEF Active
<1>5. HolderOf(owner).active <=> owner.left >= 0 BY <1>3, <1>4, Zenon
<1>6. HolderOf(owner) # Nil BY <1>2, ConstantsAssumption
<1>7. /\ HolderOf(owner).zone = owner.zone
      /\ HolderOf(owner).confirmed = owner.confirmed
  BY <1>1 DEF HolderOf
<1> QED BY <1>1, <1>2, <1>5, <1>6, <1>7

\* Only the lease tells whether a holder is active.
LEMMA SameHolder ==
    ASSUME NEW h \in Holder, NEW g \in Holder,
           g.zone = h.zone, g.ts = h.ts, g.dist = h.dist,
           g.mapped = h.mapped, g.confirmed = h.confirmed
    PROVE  /\ g.active => g = [h EXCEPT !.active = TRUE]
           /\ ~g.active => g = [h EXCEPT !.active = FALSE]
<1>1. g = [h EXCEPT !.active = g.active] BY DEF Holder
<1>2. g.active \in BOOLEAN BY DEF Holder
<1>3. CASE g.active = TRUE BY <1>1, <1>3
<1>4. CASE g.active = FALSE BY <1>1, <1>4
<1> QED BY <1>2, <1>3, <1>4

LEMMA HolderAgain ==
    ASSUME NEW owner \in Owner, NEW n \in -1 .. Lease,
           NEW next, next = [owner EXCEPT !.left = n]
    PROVE  /\ n >= 0 => HolderOf(next)
                          = [HolderOf(owner) EXCEPT !.active = TRUE]
           /\ n < 0 => HolderOf(next)
                         = [HolderOf(owner) EXCEPT !.active = FALSE]
<1>1. next \in Owner BY DEF Owner
<1>2. /\ next.zone = owner.zone /\ next.ts = owner.ts /\ next.dist = owner.dist
      /\ next.mapped = owner.mapped /\ next.confirmed = owner.confirmed
      /\ next.left = n
  BY DEF Owner
<1>3. /\ HolderOf(next).zone = HolderOf(owner).zone
      /\ HolderOf(next).ts = HolderOf(owner).ts
      /\ HolderOf(next).dist = HolderOf(owner).dist
      /\ HolderOf(next).mapped = HolderOf(owner).mapped
      /\ HolderOf(next).confirmed = HolderOf(owner).confirmed
  BY <1>1, <1>2, ConstantsAssumption DEF HolderOf
<1>4. HolderOf(next).active <=> n >= 0 BY <1>1, <1>2, HolderType
<1>5. ~(n >= 0) <=> n < 0 OBVIOUS
<1>6. HolderOf(next) \in Holder /\ HolderOf(owner) \in Holder
  BY <1>1, HolderType
<1>7. /\ HolderOf(next).active
           => HolderOf(next) = [HolderOf(owner) EXCEPT !.active = TRUE]
      /\ ~HolderOf(next).active
           => HolderOf(next) = [HolderOf(owner) EXCEPT !.active = FALSE]
  BY <1>3, <1>6, SameHolder
<1> QED BY <1>4, <1>5, <1>7

\* The ways in which a drone's owner changes.
Renewal(k) ==
    owners[k] # Nil /\ owners'[k] = [owners[k] EXCEPT !.left = Lease]
Ageing(k) ==
    Active(owners[k]) /\ owners'[k] = [owners[k] EXCEPT !.left = @ - 1]
Arbitration(k) ==
    \E z \in Zone, claim \in Claims :
        owners'[k] = Arbitrated(owners[k], z, claim)
Confirming(k) ==
    \E z \in Zone, mapped \in BOOLEAN :
        owners'[k] = ConfirmedOwner(owners[k], z, mapped)
Forgetting(k) ==
    /\ owners[k] # Nil /\ owners'[k] = Nil
    /\ \/ ~Active(owners[k])
       \/ /\ ZoneOnline(k[1], k[2], owners[k].zone)
          /\ <<k[1], k[2], owners[k].zone>>
               \in {r \in Slots : ZoneOnline(r[1], r[2], r[3])}'
       \/ /\ owners[k].confirmed
          /\ <<k[1], k[2], owners[k].zone>>
               \notin {r \in Slots : ZoneOnline(r[1], r[2], r[3])}'

\* Each is one the promise allows.
LEMMA ChangeAllowed ==
    ASSUME TypeOK, TypeOK', NEW k \in Claimable,
           \/ owners'[k] = owners[k] \/ Renewal(k) \/ Ageing(k)
           \/ Arbitration(k) \/ Confirming(k) \/ Forgetting(k)
    PROVE  Promised!Step(k)
<1>1. Holders[k] = HolderOf(owners[k]) /\ Holders'[k] = HolderOf(owners'[k])
  BY HoldersAre
<1>2. owners[k] \in Owner \cup {Nil} /\ owners'[k] \in Owner \cup {Nil}
  BY DEF TypeOK
<1>3. CASE owners'[k] = owners[k] BY <1>1, <1>3 DEF Promised!Step
<1>4. CASE Renewal(k)
  <2>1. HolderOf(owners'[k]) = [HolderOf(owners[k]) EXCEPT !.active = TRUE]
    <3>1. /\ owners[k] \in Owner /\ Lease \in -1 .. Lease /\ Lease >= 0
          /\ owners'[k] = [owners[k] EXCEPT !.left = Lease]
      BY <1>2, <1>4, ConstantsAssumption DEF Renewal
    <3> QED BY <3>1, HolderAgain
  <2>2. HolderOf(owners[k]) # Nil BY <1>2, <1>4, HolderType DEF Renewal
  <2> QED BY <1>1, <2>1, <2>2 DEF Promised!Step, Promised!Renew
<1>5. CASE Ageing(k)
  <2>1. owners[k] \in Owner /\ owners[k].left \in 0 .. Lease
    BY <1>2, <1>5 DEF Ageing, Active, Owner
  <2> DEFINE n == owners[k].left - 1
  <2>2. owners'[k] = [owners[k] EXCEPT !.left = n] /\ n \in -1 .. Lease
    BY <1>5, <2>1, ConstantsAssumption DEF Ageing
  <2>3. HolderOf(owners[k]) # Nil /\ HolderOf(owners[k]).active = TRUE
    <3>1. HolderOf(owners[k]).active \in BOOLEAN
      BY <2>1, HolderType DEF Holder
    <3> QED BY <2>1, <3>1, HolderType
  <2> HIDE DEF n
  <2>4. CASE n < 0
    <3>1. HolderOf(owners'[k]) = [HolderOf(owners[k]) EXCEPT !.active = FALSE]
      BY <2>1, <2>2, <2>4, HolderAgain
    <3> QED BY <1>1, <2>3, <3>1 DEF Promised!Step, Promised!Lapse
  <2>5. CASE n >= 0
    <3>1. HolderOf(owners'[k]) = [HolderOf(owners[k]) EXCEPT !.active = TRUE]
      BY <2>1, <2>2, <2>5, HolderAgain
    <3> QED BY <1>1, <2>3, <3>1 DEF Promised!Step, Promised!Renew
  <2> QED BY <2>2, <2>4, <2>5
<1>6. CASE Arbitration(k)
  <2>1. PICK z \in Zone, claim \in Claims :
          owners'[k] = Arbitrated(owners[k], z, claim)
    BY <1>6 DEF Arbitration
  <2> DEFINE candidate == [zone |-> z, ts |-> claim.ts, dist |-> claim.dist,
                           mapped |-> claim.mapped, confirmed |-> FALSE,
                           left |-> Lease]
  <2>2. candidate \in Owner /\ ~candidate.confirmed /\ candidate.left >= 0
    BY ConstantsAssumption DEF Owner
  <2>3. owners'[k] = IF owners[k] = Nil THEN candidate
                     ELSE IF owners[k].confirmed
                     THEN IF Active(owners[k]) THEN owners[k] ELSE candidate
                     ELSE [PickOwner(owners[k], candidate) EXCEPT !.left = Lease]
    BY <2>1 DEF Arbitrated
  <2>4. [candidate EXCEPT !.left = Lease] = candidate
    <3>1. \A owner \in Owner : [owner EXCEPT !.left = owner.left] = owner
      BY DEF Owner
    <3>2. candidate.left = Lease OBVIOUS
    <3> HIDE DEF candidate
    <3> QED BY <2>2, <3>1, <3>2
  <2> HIDE DEF candidate
  <2>5. /\ HolderOf(candidate) # Nil /\ HolderOf(candidate).active
        /\ ~HolderOf(candidate).confirmed
    BY <2>2, HolderType
  <2>6. CASE owners[k] = Nil
    BY <1>1, <2>3, <2>5, <2>6
       DEF Promised!Step, Promised!Grant, HolderOf
  <2>7. CASE owners[k] # Nil /\ owners[k].confirmed
    <3>1. owners[k] \in Owner BY <1>2, <2>7
    <3>2. CASE Active(owners[k]) BY <1>3, <2>3, <2>7, <3>2
    <3>3. CASE ~Active(owners[k])
      <4>1. /\ HolderOf(owners[k]) # Nil /\ HolderOf(owners[k]).confirmed
            /\ ~HolderOf(owners[k]).active
        BY <2>7, <3>1, <3>3, HolderType DEF Active
      <4> QED BY <1>1, <2>3, <2>5, <2>7, <3>3, <4>1
              DEF Promised!Step, Promised!Succeed
    <3> QED BY <3>2, <3>3
  <2>8. CASE owners[k] # Nil /\ ~owners[k].confirmed
    <3>1. owners[k] \in Owner BY <1>2, <2>8
    <3>2. CASE Precedes(candidate, owners[k])
      <4>1. owners'[k] = candidate BY <2>3, <2>4, <2>8, <3>2 DEF PickOwner
      <4>2. /\ HolderOf(owners[k]) # Nil /\ ~HolderOf(owners[k]).confirmed
        BY <2>8, <3>1, HolderType
      <4>3. candidate # Nil /\ owners[k] # Nil
        BY <2>2, <2>8, ConstantsAssumption
      <4>4. Promised!Precedes(HolderOf(candidate), HolderOf(owners[k]))
        BY <3>2, <4>3 DEF Promised!Precedes, Precedes, HolderOf
      <4> QED BY <1>1, <2>5, <4>1, <4>2, <4>4
              DEF Promised!Step, Promised!Outbid
    <3>3. CASE ~Precedes(candidate, owners[k])
      BY <1>4, <2>3, <2>8, <3>3 DEF PickOwner, Renewal
    <3> QED BY <3>2, <3>3
  <2> QED BY <2>6, <2>7, <2>8
<1>7. CASE Confirming(k)
  <2>1. PICK z \in Zone, mapped \in BOOLEAN :
          owners'[k] = ConfirmedOwner(owners[k], z, mapped)
    BY <1>7 DEF Confirming
  <2>2. /\ owners'[k].confirmed /\ owners'[k].left = Lease
        /\ owners'[k] \in Owner
    <3>1. owners[k] # Nil => owners[k].ts \in Int /\ owners[k].dist \in Int
      BY <1>2 DEF Owner
    <3> QED BY <2>1, <3>1, ConstantsAssumption DEF ConfirmedOwner, Owner
  <2>3. /\ HolderOf(owners'[k]) # Nil /\ HolderOf(owners'[k]).active
        /\ HolderOf(owners'[k]).confirmed
    BY <2>2, HolderType, ConstantsAssumption
  <2> QED BY <1>1, <2>3 DEF Promised!Step, Promised!Confirm
<1>8. CASE Forgetting(k)
  <2>1. owners[k] \in Owner BY <1>2, <1>8 DEF Forgetting
  <2>2. Holders'[k] = Nil BY <1>1, <1>8 DEF Forgetting, HolderOf
  <2>3. /\ Holders[k] # Nil /\ Holders[k].zone = owners[k].zone
        /\ Holders[k].confirmed = owners[k].confirmed
        /\ Holders[k].active <=> Active(owners[k])
    BY <1>1, <2>1, HolderType DEF Active
  <2>4. Promised!HolderAt(k) = <<k[1], k[2], owners[k].zone>>
    BY <2>3 DEF Promised!HolderAt
  <2>5. <<k[1], k[2], owners[k].zone>> \in Slots
    BY <2>1 DEF Slots, Claimable, Owner
  <2>6. Promised!Forget(k)
    BY <1>8, <2>2, <2>3, <2>4, <2>5 DEF Promised!Forget, Forgetting
  <2> QED BY <2>6 DEF Promised!Step
<1> QED BY <1>3, <1>4, <1>5, <1>6, <1>7, <1>8

Change(k) ==
    \/ owners'[k] = owners[k] \/ Renewal(k) \/ Ageing(k)
    \/ Arbitration(k) \/ Confirming(k) \/ Forgetting(k)

\* A step changes the owner of a drone in these ways only.
LEMMA OwnerChanges ==
    ASSUME HomeInv, OrderlyTablets, KeysKept, Next, NEW k \in Claimable
    PROVE  Change(k)
<1> TypeOK /\ IInv BY DEF HomeInv, IInv
<1>1. ASSUME NEW s \in Socket, NEW p \in Location, Heartbeat(s, p)
      PROVE  Change(k)
  BY <1>1 DEF Heartbeat, Renewed, OwnedBy, Change, Renewal
<1>2. ASSUME NEW s \in Socket, NEW d \in Drone, NEW claim \in Claims,
             FirstSighting(s, d, claim)
      PROVE  Change(k)
  <2>1. PICK key \in ContextKeys(s) :
          owners' = [owners EXCEPT ![<<OrgAt(s), key, d>>] =
                        Arbitrated(@, ZoneAt(s), claim)]
    BY <1>2 DEF FirstSighting
  <2>2. owners'[k] \in {owners[k], Arbitrated(owners[k], ZoneAt(s), claim)}
    BY <2>1 DEF TypeOK
  <2>3. ZoneAt(s) \in Zone BY ConstantsAssumption DEF ZoneAt
  <2> QED BY <2>2, <2>3 DEF Change, Arbitration
<1>3. ASSUME NEW s \in Socket, NEW d \in Drone, Sighting(s, d)
      PROVE  Change(k)
  <2>1. PICK key \in ContextKeys(s) :
          /\ OwnedBy(owners, <<OrgAt(s), key, d>>, OrgAt(s), ZoneAt(s))
          /\ owners' = [owners EXCEPT ![<<OrgAt(s), key, d>>].left = Lease]
    BY <1>3 DEF Sighting
  <2> QED BY <2>1 DEF TypeOK, OwnedBy, Change, Renewal
<1>4. ASSUME NEW s \in Socket, NEW d \in Drone, DroneLost(s, d)
      PROVE  Change(k)
  <2>1. PICK key \in ContextKeys(s) :
          /\ OwnedBy(owners, <<OrgAt(s), key, d>>, OrgAt(s), ZoneAt(s))
          /\ owners' = [owners EXCEPT ![<<OrgAt(s), key, d>>] = Nil]
    BY <1>4 DEF DroneLost
  <2>2. key = conn[s].key /\ key # NoMap /\ task[s] # "none"
    BY <1>4 DEF ContextKeys, OrderlyTablets, DroneLost, Serving
  <2>3. zones[<<OrgAt(s), key, ZoneAt(s)>>] = s /\ conn[s].wired
    BY <2>2 DEF HomeInv, AtHome, Registered, SlotOf, RegistryInv, Wired
  <2>4. zones' = zones /\ conn'[s].wired
    BY <1>4, <2>3 DEF DroneLost, Heard, TypeOK, Connection
  <2>5. CASE k = <<OrgAt(s), key, d>>
    <3>1. owners[k] # Nil /\ owners[k].zone = ZoneAt(s) /\ owners'[k] = Nil
      BY <2>1, <2>5 DEF OwnedBy, TypeOK
    <3>2. <<k[1], k[2], ZoneAt(s)>> \in Slots
      BY SlotIsSlot, <2>2, <2>5 DEF SlotOf
    <3>3. ZoneOnline(k[1], k[2], owners[k].zone)
      BY <2>3, <2>5, <3>1, ConstantsAssumption DEF ZoneOnline
    <3>4. <<k[1], k[2], ZoneAt(s)>>
            \in {r \in Slots : ZoneOnline(r[1], r[2], r[3])}'
      BY <2>3, <2>4, <2>5, <3>2, ConstantsAssumption
         DEF ZoneOnline, OrgAt, ZoneAt
    <3> QED BY <3>1, <3>3, <3>4 DEF Change, Forgetting
  <2>6. CASE k # <<OrgAt(s), key, d>> BY <2>1, <2>6 DEF TypeOK, Change
  <2> QED BY <2>5, <2>6
<1>5. ASSUME NEW s \in Socket, NEW d \in Drone, NEW mapped \in Labels,
             DroneConfirmed(s, d, mapped)
      PROVE  Change(k)
  <2>1. PICK key \in ContextKeys(s) :
          owners' = [owners EXCEPT ![<<OrgAt(s), key, d>>] =
                        ConfirmedOwner(@, ZoneAt(s), mapped)]
    BY <1>5 DEF DroneConfirmed
  <2>2. \/ owners'[k] = owners[k]
        \/ owners'[k] = ConfirmedOwner(owners[k], ZoneAt(s), mapped)
    BY <2>1 DEF TypeOK
  <2>3. ZoneAt(s) \in Zone /\ mapped \in BOOLEAN
    BY ConstantsAssumption DEF ZoneAt
  <2> QED BY <2>2, <2>3 DEF Change, Confirming
<1>6. ASSUME NEW s \in Socket, Disconnect(s) PROVE Change(k)
  <2>1. CASE Registered(s) /\ ConfirmationOwnerOf(s, k)
    <3>1. owners'[k] = Nil BY <1>6, <2>1 DEF Disconnect
    <3>2. /\ owners[k] # Nil /\ owners[k].confirmed
          /\ <<k[1], k[2], owners[k].zone>> = SlotOf(s)
      BY <2>1 DEF ConfirmationOwnerOf, OwnedBy, SlotOf
    <3>3. zones[SlotOf(s)] = s /\ zones' = zones /\ SlotOf(s) \in Slots
      BY <1>6, <2>1, SlotIsSlot DEF Registered, Disconnect
    <3>4. ~conn'[s].wired
      BY <1>6, <3>3 DEF Disconnect, Reap, TypeOK, Connection
    <3>5. <<k[1], k[2], owners[k].zone>>
            \notin {r \in Slots : ZoneOnline(r[1], r[2], r[3])}'
      <4> DEFINE r == SlotOf(s)
      <4>1. zones'[r] = s BY <3>3
      <4>2. r = <<k[1], k[2], owners[k].zone>> BY <3>2
      <4> HIDE DEF r
      <4>3. r = <<r[1], r[2], r[3]>> BY <4>2
      <4> QED BY <3>4, <4>1, <4>2, <4>3 DEF ZoneOnline
    <3> QED BY <3>1, <3>2, <3>5 DEF Change, Forgetting
  <2>2. CASE ~(Registered(s) /\ ConfirmationOwnerOf(s, k))
    BY <1>6, <2>2 DEF Disconnect, Change
  <2> QED BY <2>1, <2>2
<1>7. CASE Sweep BY <1>7 DEF Sweep, Change, Forgetting, Active
<1>8. CASE Tick BY <1>8 DEF Tick, Change, Ageing
<1>9. ASSUME UNCHANGED owners PROVE Change(k) BY <1>9 DEF Change
<1>10. \A s \in Socket, p \in Location : ~HeartbeatRehomed(s, p)
  BY NoRehoming
<1>11. ASSUME NEW s \in Socket, Message(s) PROVE Change(k)
  BY <1>1, <1>2, <1>3, <1>4, <1>5, <1>9, <1>10, <1>11
     DEF Message, Hello, RefuseHello, HeartbeatFailed, Idle, OtherMessage
<1>12. ASSUME NEW s \in Socket, Connect(s) \/ SilenceTimeout(s)
       PROVE  Change(k)
  BY <1>9, <1>12 DEF Connect, SilenceTimeout
<1> QED BY <1>6, <1>7, <1>8, <1>11, <1>12 DEF Next

\* The hub implements DroneOwnership, step by step: owners are only renewed,
\* aged, arbitrated, confirmed or forgotten as it allows, whatever sockets,
\* timeouts, sweeps and sightings come in between.
THEOREM OwnershipKept ==
    ASSUME OrderlyTablets PROVE SteadySpec => OwnershipPromise
<1>1. Init => Promised!Init
  <2>1. Init => Holders = [k \in Claimable |-> Nil]
    BY DEF Init, Holders
  <2>2. Init => {r \in Slots : ZoneOnline(r[1], r[2], r[3])} = {}
    <3> SUFFICES ASSUME Init, NEW r \in Slots PROVE ~ZoneOnline(r[1], r[2], r[3])
      OBVIOUS
    <3>1. r = <<r[1], r[2], r[3]>> BY DEF Slots
    <3> QED BY <3>1 DEF Init, ZoneOnline
  <2> QED BY <2>1, <2>2 DEF Promised!Init
<1>2. ASSUME SteadyInv, TypeOK', [Next]_vars, [KeysKept]_vars
      PROVE  [Promised!Next]_<<Holders,
                 {r \in Slots : ZoneOnline(r[1], r[2], r[3])}>>
  <2>1. CASE UNCHANGED vars
    BY <2>1 DEF vars, Holders, ZoneOnline
  <2>2. CASE Next /\ KeysKept
    <3>1. \A k \in Claimable : Promised!Step(k)
      BY <1>2, <2>2, OwnerChanges, ChangeAllowed
         DEF SteadyInv, HomeInv, IInv, Change
    <3>2. {r \in Slots : ZoneOnline(r[1], r[2], r[3])}' \in SUBSET Slots
      OBVIOUS
    <3> QED BY <3>1, <3>2 DEF Promised!Next
  <2> QED BY <1>2, <2>1, <2>2
<1>3. SteadyInv => TypeOK BY DEF SteadyInv, HomeInv, IInv
<1> QED BY <1>1, <1>2, <1>3, SteadyInvariance, PTL
        DEF Spec, SteadySpec, OwnershipPromise, Promised!Spec

-----------------------------------------------------------------------------
(* All on one map *)

OnMap(m) ==
    \A s \in Socket : conn[s].mode = "map" /\ conn[s].key \in {NoMap, m}

\* A connection has the one map's key, or none yet.
LEMMA NextOnMap ==
    ASSUME TypeOK, NEW m, Reports \subseteq {m}, m # NoMap, OnMap(m), Next
    PROVE  OnMap(m)' /\ KeysKept
<1> DEFINE Fine(c) == c.mode = "map" /\ c.key \in {NoMap, m}
           Good(s) == /\ Fine(conn'[s])
                      /\ task[s] # "none" /\ task'[s] # "none"
                           /\ conn[s].key # NoMap => conn'[s].key = conn[s].key
<1>1. Fine(Blank) BY DEF Blank
<1>2. \A s \in Socket : Fine(conn[s]) /\ conn[s] \in Connection
  BY DEF OnMap, TypeOK
<1>3. ASSUME NEW r \in Socket, conn'[r].key = conn[r].key,
             conn'[r].mode = conn[r].mode
      PROVE  Good(r)
  BY <1>2, <1>3
<1>4. \A r \in Socket : \A c, t, z :
        /\ Reap(c, t, z)[r] \in {c[r], Blank}
        /\ t[r] # "none" => Reap(c, t, z)[r] = c[r]
  BY DEF Reap
<1>5. ASSUME NEW s \in Socket, Message(s), NEW r \in Socket PROVE Good(r)
  <2>1. ASSUME NEW x \in Reports, NEW p \in Location, Hello(s, x, p)
        PROVE  Good(r)
    <3>1. x = m /\ Resolve(OrgAt(s), ZoneAt(s), x, p) = {m}
      BY DEF Resolve
    <3> DEFINE c == [conn EXCEPT ![s] =
                [Blank EXCEPT !.key = m, !.reported = m, !.place = p,
                              !.seen = 0, !.mode = "map"]]
    <3>2. conn' = Reap(c, task, zones') /\ task' = task
      BY <2>1, <3>1 DEF Hello
    <3>3. c[r] = conn[r] \/ (c[r].mode = "map" /\ c[r].key = m /\ r = s)
      <4>1. CASE r = s BY <4>1 DEF TypeOK, Blank
      <4>2. CASE r # s BY <4>2 DEF TypeOK
      <4> QED BY <4>1, <4>2
    <3> HIDE DEF c
    <3>4. /\ conn'[r] \in {c[r], Blank}
          /\ task[r] # "none" => conn'[r] = c[r]
      BY <1>4, <3>2
    <3>5. Fine(conn'[r]) BY <1>1, <1>2, <3>3, <3>4
    <3>6. task[r] # "none" /\ conn[r].key # NoMap => conn'[r].key = conn[r].key
      BY <1>2, <3>3, <3>4
    <3> QED BY <3>5, <3>6
  <2>2. ASSUME NEW p \in Location, Heartbeat(s, p) \/ HeartbeatFailed(s, p)
        PROVE  Good(r)
    <3>1. conn' = Beat(s, p, conn[s].key)
      BY <2>2 DEF Heartbeat, HeartbeatFailed
    <3>2. conn'[r].key = conn[r].key /\ conn'[r].mode = conn[r].mode
      BY <3>1 DEF Beat, TypeOK, Connection
    <3> QED BY <1>3, <3>2
  <2>3. \A p \in Location : ~HeartbeatRehomed(s, p)
    BY <1>2 DEF HeartbeatRehomed
  <2>4. ASSUME conn' = Heard(s) \/ conn' = conn PROVE Good(r)
    <3>1. conn'[r].key = conn[r].key /\ conn'[r].mode = conn[r].mode
      BY <2>4 DEF Heard, TypeOK, Connection
    <3> QED BY <1>3, <3>1
  <2>5. ASSUME Idle(s) PROVE Good(r)
    <3>1. conn'[r].key = conn[r].key /\ conn'[r].mode = conn[r].mode
      BY <2>5 DEF Idle, TypeOK, Connection
    <3> QED BY <1>3, <3>1
  <2> HIDE DEF Good
  <2> QED BY <1>5, <2>1, <2>2, <2>3, <2>4, <2>5
          DEF Message, RefuseHello, FirstSighting, Sighting, DroneLost,
              DroneConfirmed, OtherMessage
<1>6. ASSUME NEW s \in Socket, Connect(s), NEW r \in Socket PROVE Good(r)
  BY <1>1, <1>2, <1>6 DEF Connect, TypeOK
<1>7. ASSUME NEW s \in Socket, SilenceTimeout(s), NEW r \in Socket
      PROVE  Good(r)
  <2> DEFINE c == [conn[s] EXCEPT !.parked = TRUE, !.seen = 0]
  <2>1. c.key = conn[s].key /\ c.mode = conn[s].mode
    <3> DEFINE x == [conn[s] EXCEPT !.parked = TRUE]
    <3>1. x \in Connection /\ x.key = conn[s].key /\ x.mode = conn[s].mode
      BY <1>2 DEF Connection
    <3>2. \A y \in Connection : /\ [y EXCEPT !.seen = 0].key = y.key
                                /\ [y EXCEPT !.seen = 0].mode = y.mode
      BY DEF Connection
    <3>3. c = [x EXCEPT !.seen = 0] OBVIOUS
    <3> HIDE DEF x
    <3> QED BY <3>1, <3>2, <3>3
  <2>2. conn'[r].key = conn[r].key /\ conn'[r].mode = conn[r].mode
    <3>1. conn' = conn \/ conn' = [conn EXCEPT ![s] = c]
      BY <1>7 DEF SilenceTimeout
    <3> HIDE DEF c
    <3> QED BY <2>1, <3>1 DEF TypeOK
  <2> QED BY <1>3, <2>2
<1>8. ASSUME NEW s \in Socket, Disconnect(s), NEW r \in Socket PROVE Good(r)
  <2> DEFINE c == [conn EXCEPT ![s].wired = FALSE]
  <2>1. conn' = Reap(c, task', zones) BY <1>8 DEF Disconnect
  <2>2. c[r] = conn[r] \/ c[r] = [conn[r] EXCEPT !.wired = FALSE]
    BY DEF TypeOK
  <2>3. Fine(c[r]) /\ c[r].key = conn[r].key BY <1>2, <2>2 DEF Connection
  <2> HIDE DEF c
  <2>4. /\ conn'[r] \in {c[r], Blank}
        /\ task'[r] # "none" => conn'[r] = c[r]
    BY <1>4, <2>1
  <2> QED BY <1>1, <2>3, <2>4
<1>9. ASSUME Sweep, NEW r \in Socket PROVE Good(r)
  <2>1. /\ conn'[r] \in {conn[r], Blank}
        /\ task[r] # "none" => conn'[r] = conn[r]
    BY <1>4, <1>9 DEF Sweep
  <2> QED BY <1>1, <1>2, <2>1
<1>10. ASSUME Tick, NEW r \in Socket PROVE Good(r)
  <2>1. conn'[r].key = conn[r].key /\ conn'[r].mode = conn[r].mode
    BY <1>10 DEF Tick, TypeOK, Connection
  <2> QED BY <1>3, <2>1
<1>11. \A r \in Socket : Good(r)
  <2> HIDE DEF Good
  <2> QED BY <1>5, <1>6, <1>7, <1>8, <1>9, <1>10 DEF Next
<1> QED BY <1>11 DEF OnMap, KeysKept

\* Where all tablets report one map, _resolve_key_locked and the heartbeat's
\* rehoming never give one another key.
THEOREM OneMapKeepsKeys ==
    ASSUME NEW m, Reports \subseteq {m}, m # NoMap
    PROVE  Spec => [][KeysKept]_vars
<1>1. Init => OnMap(m) BY DEF Init, OnMap, Blank
<1>2. TypeOK /\ OnMap(m) /\ [Next]_vars => OnMap(m)' /\ [KeysKept]_vars
  <2> SUFFICES ASSUME TypeOK, OnMap(m), [Next]_vars
               PROVE  OnMap(m)' /\ [KeysKept]_vars
    OBVIOUS
  <2>1. CASE Next BY <2>1, NextOnMap
  <2>2. CASE UNCHANGED vars BY <2>2 DEF vars, OnMap
  <2> QED BY <2>1, <2>2
<1>3. IInv => TypeOK BY DEF IInv
<1> QED BY <1>1, <1>2, <1>3, Inductive, PTL DEF Spec

\* So on one map nothing need be assumed of the hub's steps: for tablets with
\* one socket each, ownership is as promised and confirmed owners are online.
THEOREM OwnershipKeptOnOneMap ==
    ASSUME OrderlyTablets, NEW m, Reports \subseteq {m}, m # NoMap
    PROVE  Spec => OwnershipPromise /\ []ConfirmedOwnerOnline /\ []ConfirmerOnline
<1>1. Spec => [][KeysKept]_vars BY OneMapKeepsKeys
<1> QED BY <1>1, OwnershipKept, ConfirmedOwnersOnline, ConfirmersOnline, PTL
        DEF SteadySpec
=============================================================================
