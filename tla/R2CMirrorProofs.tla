--------------------------- MODULE R2CMirrorProofs ---------------------------
(***************************************************************************)
(* Proofs about R2CMirror for any number of tablets and any lease.         *)
(***************************************************************************)
EXTENDS R2CMirror, TLAPS

\* A transaction that would update or delete a row has one that is there, what
\* it would store has an owner, and the sweep stores nothing: this is why no
\* handler writes to, or from, nothing.
WriteInv ==
    \A w \in Writer :
        tail[w] # NoOne =>
            /\ tail[w].op = "upsert" => w \in Tablet /\ tail[w].of \in Tablet
            /\ tail[w].seen \in Tablet => mirror[tail[w].seen] # NoOne

MirrorInv == MirrorTypeOK /\ WriteInv

-----------------------------------------------------------------------------
(* What the operators return *)

LEMMA EntryType ==
    ASSUME NEW t \in Tablet, NEW confirmed \in BOOLEAN
    PROVE  Entry(t, confirmed) \in Held /\ Entry(t, confirmed).of = t
BY MirrorAssumption DEF Entry, Held

LEMMA UpsertType ==
    ASSUME NEW entry \in Held, NEW shared \in BOOLEAN
    PROVE  /\ Upsert(entry, shared) \in Pending
           /\ Upsert(entry, shared).of \in Tablet
           /\ Upsert(entry, shared).seen = "unread"
BY DEF Upsert, Held, Pending

LEMMA DeleteType ==
    Delete \in Pending /\ Delete.op = "delete" /\ Delete.seen = "unread"
BY MirrorAssumption DEF Delete, Pending

\* A write that differs in what the invariant does not speak of.
LEMMA SameWrite ==
    ASSUME NEW p \in Pending, NEW q,
           \/ \E b \in BOOLEAN : q = [p EXCEPT !.shared = b]
           \/ \E n \in 0 .. Lease : q = [p EXCEPT !.left = n]
           \/ q = p
    PROVE  q \in Pending /\ q.op = p.op /\ q.of = p.of /\ q.seen = p.seen
BY DEF Pending

TailInv == tail \in [Writer -> Pending \cup {NoOne}] /\ WriteInv

-----------------------------------------------------------------------------
(* The steps *)

LEMMA PartedInv ==
    ASSUME TailInv, NEW w \in Writer, NEW p \in Pending,
           p.op = "upsert" => w \in Tablet /\ p.of \in Tablet,
           p.seen = "unread",
           mirror' = mirror, tail' = [Parted EXCEPT ![w] = p]
    PROVE  TailInv'
<1>1. \A x \in Writer \ {w} :
        tail'[x] = IF tail[x] = NoOne THEN NoOne
                   ELSE [tail[x] EXCEPT !.shared = FALSE]
  BY DEF Parted
<1>2. tail'[w] = p /\ tail' = [x \in Writer |-> tail'[x]] BY DEF Parted
<1>3. \A x \in Writer \ {w} :
        \/ tail'[x] = NoOne
        \/ /\ tail[x] # NoOne /\ tail'[x] \in Pending
           /\ tail'[x].op = tail[x].op /\ tail'[x].of = tail[x].of
           /\ tail'[x].seen = tail[x].seen
  <2> SUFFICES ASSUME NEW x \in Writer \ {w}, tail[x] # NoOne
               PROVE  /\ tail'[x] \in Pending /\ tail'[x].op = tail[x].op
                      /\ tail'[x].of = tail[x].of
                      /\ tail'[x].seen = tail[x].seen
    BY <1>1
  <2>1. tail[x] \in Pending BY DEF TailInv
  <2>2. \E b \in BOOLEAN : tail'[x] = [tail[x] EXCEPT !.shared = b] BY <1>1
  <2> QED BY <2>1, <2>2, SameWrite
<1>4. \A x \in Writer : tail'[x] \in Pending \cup {NoOne} BY <1>2, <1>3
<1>5. tail' \in [Writer -> Pending \cup {NoOne}] BY <1>2, <1>4
<1>6. WriteInv'
  <2>1. p.seen \notin Tablet BY MirrorAssumption
  <2> QED BY <1>2, <1>3, <2>1 DEF TailInv, WriteInv
<1> QED BY <1>5, <1>6 DEF TailInv

LEMMA RenewedInv ==
    ASSUME TailInv, NEW w \in Writer, NEW p \in Pending,
           p.op = "upsert" => w \in Tablet /\ p.of \in Tablet,
           p.seen = "unread",
           mirror' = mirror, tail' = [Renewed EXCEPT ![w] = p]
    PROVE  TailInv'
<1>1. \A x \in Writer \ {w} :
        tail'[x] = IF tail[x] # NoOne /\ tail[x].shared
                   THEN [tail[x] EXCEPT !.left = Lease] ELSE tail[x]
  BY DEF Renewed
<1>2. tail'[w] = p /\ tail' = [x \in Writer |-> tail'[x]] BY DEF Renewed
<1>3. Lease \in 0 .. Lease BY MirrorAssumption
<1>4. \A x \in Writer \ {w} :
        \/ tail'[x] = NoOne
        \/ /\ tail[x] # NoOne /\ tail'[x] \in Pending
           /\ tail'[x].op = tail[x].op /\ tail'[x].of = tail[x].of
           /\ tail'[x].seen = tail[x].seen
  <2> SUFFICES ASSUME NEW x \in Writer \ {w}, tail[x] # NoOne
               PROVE  /\ tail'[x] \in Pending /\ tail'[x].op = tail[x].op
                      /\ tail'[x].of = tail[x].of
                      /\ tail'[x].seen = tail[x].seen
    BY <1>1
  <2>1. tail[x] \in Pending BY DEF TailInv
  <2>2. \/ \E n \in 0 .. Lease : tail'[x] = [tail[x] EXCEPT !.left = n]
        \/ tail'[x] = tail[x]
    BY <1>1, <1>3
  <2> QED BY <2>1, <2>2, SameWrite
<1>5. \A x \in Writer : tail'[x] \in Pending \cup {NoOne} BY <1>2, <1>4
<1>6. tail' \in [Writer -> Pending \cup {NoOne}] BY <1>2, <1>5
<1>7. WriteInv'
  <2>1. p.seen \notin Tablet BY MirrorAssumption
  <2> QED BY <1>2, <1>4, <2>1 DEF TailInv, WriteInv
<1> QED BY <1>6, <1>7 DEF TailInv

LEMMA OverInv ==
    ASSUME TailInv, NEW w \in Writer, tail' = Over(w),
           \A t \in Tablet : mirror[t] # NoOne => mirror'[t] # NoOne
    PROVE  TailInv'
BY DEF TailInv, WriteInv, Over

LEMMA DropsInv ==
    ASSUME TailInv, NEW w \in Writer, Drops(w), mirror' = mirror
    PROVE  TailInv' /\ owner' = NoOne
<1>1. owner' = NoOne /\ tail' = [Parted EXCEPT ![w] = Delete] BY DEF Drops
<1> QED BY <1>1, DeleteType, PartedInv

LEMMA RaisesInv ==
    ASSUME MirrorInv, NEW w \in Writer, Raises(w)
    PROVE  MirrorInv'
<1> TailInv BY DEF MirrorInv, MirrorTypeOK, TailInv
<1>1. mirror' = mirror /\ load' = load /\ doomed' = doomed /\ expiring' \in BOOLEAN
  BY DEF Raises, MirrorInv, MirrorTypeOK
<1>2. TailInv' /\ owner' \in {owner, NoOne}
  <2>1. CASE Drops(w) BY <1>1, <2>1, DropsInv
  <2>2. CASE tail' = Over(w) /\ owner' = owner BY <1>1, <2>2, OverInv
  <2> QED BY <2>1, <2>2 DEF Raises, Over
<1> QED BY <1>1, <1>2 DEF MirrorInv, MirrorTypeOK, TailInv

LEMMA HandlerInv ==
    ASSUME MirrorInv, NEW t \in Tablet,
           Vouches(t) \/ DroneLost(t) \/ Disconnect(t)
    PROVE  MirrorInv'
<1> TailInv BY DEF MirrorInv, MirrorTypeOK, TailInv
<1>0. t \in Writer BY DEF Writer
<1>1. mirror' = mirror /\ expiring' = expiring /\ load' = load /\ doomed' = doomed
  BY DEF Vouches, FirstSighting, Renew, DroneConfirmed, DroneLost, Disconnect
<1>2. ASSUME NEW c \in BOOLEAN, Takes(t, c)
      PROVE  TailInv' /\ owner' \in Held
  <2>1. owner' \in Held BY <1>2, EntryType DEF Takes
  <2>2. tail' = [Parted EXCEPT ![t] = Upsert(owner', TRUE)]
    BY <1>2 DEF Takes
  <2> QED BY <1>0, <1>1, <2>1, <2>2, UpsertType, PartedInv
<1>3. ASSUME NEW b \in BOOLEAN, owner # NoOne, Keeps(t, b)
      PROVE  TailInv' /\ owner' \in Held
  <2>1. owner' \in Held
    BY <1>3, MirrorAssumption DEF Keeps, MirrorInv, MirrorTypeOK, Held
  <2>2. tail' = [Renewed EXCEPT ![t] = Upsert(owner', b)]
    BY <1>3 DEF Keeps
  <2> QED BY <1>0, <1>1, <2>1, <2>2, UpsertType, RenewedInv
<1>4. ASSUME Drops(t) PROVE TailInv' /\ owner' = NoOne
  BY <1>0, <1>1, <1>4, DropsInv
<1>5. TailInv' /\ owner' \in Held \cup {NoOne}
  BY <1>2, <1>3, <1>4
     DEF Vouches, FirstSighting, Renew, DroneConfirmed, DroneLost, Disconnect,
         HeldBy
<1> QED BY <1>1, <1>5 DEF MirrorInv, MirrorTypeOK, TailInv

\* Deleting rows leaves nobody with one that is gone.
LEMMA RowsDeletedInv ==
    ASSUME NEW gone \in SUBSET Tablet,
           NEW tails \in [Writer -> Pending \cup {NoOne}],
           mirror \in [Tablet -> Mirrored \cup {NoOne}],
           \A w \in Writer :
             tails[w] # NoOne =>
               /\ tails[w].op = "upsert" => w \in Tablet /\ tails[w].of \in Tablet
               /\ tails[w].seen \in Tablet => mirror[tails[w].seen] # NoOne,
           RowsDeleted(gone, tails)
    PROVE  mirror' \in [Tablet -> Mirrored \cup {NoOne}] /\ TailInv'
<1>1. mirror' \in [Tablet -> Mirrored \cup {NoOne}] BY DEF RowsDeleted
<1>2. \A p \in Pending :
        LET q == [p EXCEPT !.seen = "deleted", !.was = NoOne]
        IN q \in Pending /\ q.op = p.op /\ q.of = p.of /\ q.seen = "deleted"
  <2>1. \A p \in Pending :
          LET q == [p EXCEPT !.seen = "deleted"]
          IN q \in Pending /\ q.op = p.op /\ q.of = p.of /\ q.seen = "deleted"
    BY DEF Pending
  <2>2. \A p \in Pending :
          LET q == [p EXCEPT !.was = NoOne]
          IN q \in Pending /\ q.op = p.op /\ q.of = p.of /\ q.seen = p.seen
    BY DEF Pending
  <2> QED BY <2>1, <2>2
<1>3. ASSUME NEW w \in Writer
      PROVE  /\ tail'[w] \in Pending \cup {NoOne}
             /\ tail'[w] # NoOne =>
                  /\ tail'[w].op = "upsert" => w \in Tablet /\ tail'[w].of \in Tablet
                  /\ tail'[w].seen \in Tablet => mirror'[tail'[w].seen] # NoOne
  <2>1. CASE tails[w] # NoOne /\ tails[w].seen \in gone
    <3>1. tail'[w] = [tails[w] EXCEPT !.seen = "deleted", !.was = NoOne]
      BY <2>1 DEF RowsDeleted
    <3>2. /\ tail'[w] \in Pending /\ tail'[w].op = tails[w].op
          /\ tail'[w].of = tails[w].of /\ tail'[w].seen = "deleted"
      BY <1>2, <2>1, <3>1
    <3> QED BY <2>1, <3>2, MirrorAssumption
  <2>2. CASE ~(tails[w] # NoOne /\ tails[w].seen \in gone)
    <3>1. tail'[w] = tails[w] BY <2>2 DEF RowsDeleted
    <3>2. tails[w] # NoOne /\ tails[w].seen \in Tablet
            => mirror'[tails[w].seen] = mirror[tails[w].seen]
      BY <2>2 DEF RowsDeleted
    <3> QED BY <3>1, <3>2
  <2> QED BY <2>1, <2>2
<1>4. tail' = [w \in Writer |-> tail'[w]] BY DEF RowsDeleted
<1>5. tail' \in [Writer -> Pending \cup {NoOne}] BY <1>3, <1>4
<1>6. WriteInv' BY <1>3 DEF WriteInv
<1> QED BY <1>1, <1>5, <1>6 DEF TailInv

LEMMA WritesInv ==
    ASSUME MirrorInv, NEW w \in Writer, Writes(w)
    PROVE  MirrorInv'
<1> TailInv BY DEF MirrorInv, MirrorTypeOK, TailInv
<1>0. MirrorTypeOK BY DEF MirrorInv
<1>1. ASSUME Read(w), ~Raises(w) PROVE MirrorInv'
  <2>0. tail[w] \in Pending /\ tail[w] # NoOne
    BY <1>1 DEF Read, Idle, TailInv
  <2>1. UNCHANGED <<owner, mirror, expiring, load, doomed>>
    BY <1>1 DEF Read
  <2>2. /\ tail' = [tail EXCEPT ![w] = tail'[w]] /\ tail'[w] \in Pending
        /\ tail'[w].op = tail[w].op /\ tail'[w].of = tail[w].of
        /\ tail'[w].seen \in Tablet => mirror[tail'[w].seen] # NoOne
    <3>1. CASE tail' = [tail EXCEPT ![w].seen = "absent"]
      <4>1. tail'[w] = [tail[w] EXCEPT !.seen = "absent"] BY <3>1 DEF TailInv
      <4>2. /\ tail'[w] \in Pending /\ tail'[w].op = tail[w].op
            /\ tail'[w].of = tail[w].of /\ tail'[w].seen = "absent"
        BY <2>0, <4>1 DEF Pending
      <4> QED BY <3>1, <4>2, MirrorAssumption DEF TailInv
    <3>2. ASSUME NEW t \in Tablet, Rows = {t},
                 tail' = [tail EXCEPT ![w].seen = t, ![w].was =
                    IF tail[w].op = "upsert" THEN mirror[t].of ELSE NoOne]
          PROVE  /\ tail' = [tail EXCEPT ![w] = tail'[w]]
                 /\ tail'[w] \in Pending
                 /\ tail'[w].op = tail[w].op /\ tail'[w].of = tail[w].of
                 /\ tail'[w].seen \in Tablet => mirror[tail'[w].seen] # NoOne
      <4> DEFINE was == IF tail[w].op = "upsert" THEN mirror[t].of ELSE NoOne
                 read == [tail[w] EXCEPT !.seen = t]
      <4>1. mirror[t] # NoOne BY <3>2 DEF Rows
      <4>2. was \in Tablet \cup {NoOne}
        BY <1>0, <4>1 DEF MirrorTypeOK, Mirrored
      <4>3. /\ read \in Pending /\ read.op = tail[w].op
            /\ read.of = tail[w].of /\ read.seen = t
        BY <2>0 DEF Pending
      <4>4. tail' = [tail EXCEPT ![w] = [read EXCEPT !.was = was]]
        BY <3>2 DEF TailInv
      <4> HIDE DEF was, read
      <4>5. tail'[w] = [read EXCEPT !.was = was] BY <4>4 DEF TailInv
      <4>6. /\ tail'[w] \in Pending /\ tail'[w].op = read.op
            /\ tail'[w].of = read.of /\ tail'[w].seen = read.seen
        BY <4>2, <4>3, <4>5 DEF Pending
      <4> QED BY <4>1, <4>3, <4>4, <4>5, <4>6
    <3>3. \/ tail' = [tail EXCEPT ![w].seen = "absent"]
          \/ \E t \in Tablet :
                /\ Rows = {t}
                /\ tail' = [tail EXCEPT ![w].seen = t, ![w].was =
                    IF tail[w].op = "upsert" THEN mirror[t].of ELSE NoOne]
      BY <1>1 DEF Read
    <3> QED BY <3>1, <3>2, <3>3
  <2>3. TailInv' BY <2>0, <2>1, <2>2 DEF TailInv, WriteInv
  <2> QED BY <1>0, <2>1, <2>3 DEF MirrorInv, MirrorTypeOK, TailInv
<1>2. ASSUME Insert(w), ~Idle(w) PROVE MirrorInv'
  <2>1. tail[w] \in Pending /\ w \in Tablet /\ tail[w].of \in Tablet
    BY <1>2 DEF Insert, Idle, TailInv, WriteInv
  <2> DEFINE row == [of |-> tail[w].of, left |-> tail[w].left]
  <2>2. row \in Mirrored /\ mirror' = [mirror EXCEPT ![w] = row]
    BY <1>2, <2>1 DEF Insert, Pending, Mirrored
  <2>3. row # NoOne
    BY <2>2, MirrorAssumption
  <2> HIDE DEF row
  <2>4. mirror' \in [Tablet -> Mirrored \cup {NoOne}]
    BY <1>0, <2>2 DEF MirrorTypeOK
  <2>5. \A t \in Tablet : mirror[t] # NoOne => mirror'[t] # NoOne
    BY <1>0, <2>2, <2>3 DEF MirrorTypeOK
  <2>6. TailInv' BY <1>2, <2>5, OverInv DEF Insert
  <2> QED BY <1>0, <1>2, <2>4, <2>6
          DEF Insert, MirrorInv, MirrorTypeOK, TailInv
<1>3. ASSUME Update(w), ~Idle(w), ~Raises(w) PROVE MirrorInv'
  <2>1. /\ tail[w] \in Pending /\ tail[w].of \in Tablet
        /\ tail[w].seen \in Tablet /\ mirror[tail[w].seen] # NoOne
    BY <1>3 DEF Update, Idle, TailInv, WriteInv
  <2>2. mirror[tail[w].seen] \in Mirrored
    BY <1>0, <2>1 DEF MirrorTypeOK
  <2> DEFINE row == [of |-> IF tail[w].of = tail[w].was
                            THEN mirror[tail[w].seen].of ELSE tail[w].of,
                     left |-> tail[w].left]
  <2>3. row \in Mirrored
    BY <2>1, <2>2 DEF Pending, Mirrored
  <2>4. mirror' = [mirror EXCEPT ![tail[w].seen] = row]
    BY <1>3, <1>0 DEF Update, MirrorTypeOK
  <2>5. row # NoOne BY <2>3, MirrorAssumption
  <2> HIDE DEF row
  <2>6. mirror' \in [Tablet -> Mirrored \cup {NoOne}]
    BY <1>0, <2>3, <2>4 DEF MirrorTypeOK
  <2>7. \A t \in Tablet : mirror[t] # NoOne => mirror'[t] # NoOne
    BY <1>0, <2>4, <2>5 DEF MirrorTypeOK
  <2>8. TailInv' BY <1>3, <2>7, OverInv DEF Update
  <2> QED BY <1>0, <1>3, <2>6, <2>8
          DEF Update, MirrorInv, MirrorTypeOK, TailInv
<1>4. ASSUME DeleteRow(w), ~Idle(w) PROVE MirrorInv'
  <2> DEFINE gone == {tail[w].seen} \cap Tablet
             tails == Over(w)
  <2>1. RowsDeleted(gone, tails) BY <1>4 DEF DeleteRow
  <2>2. tails \in [Writer -> Pending \cup {NoOne}]
    BY DEF Over, TailInv
  <2>3. \A x \in Writer :
          tails[x] # NoOne =>
            /\ tails[x].op = "upsert" => x \in Tablet /\ tails[x].of \in Tablet
            /\ tails[x].seen \in Tablet => mirror[tails[x].seen] # NoOne
    BY DEF Over, TailInv, WriteInv
  <2>4. gone \in SUBSET Tablet OBVIOUS
  <2> HIDE DEF gone, tails
  <2>5. mirror' \in [Tablet -> Mirrored \cup {NoOne}] /\ TailInv'
    BY <1>0, <2>1, <2>2, <2>3, <2>4, RowsDeletedInv DEF MirrorTypeOK
  <2>6. UNCHANGED <<owner, expiring, load>> /\ doomed' \subseteq doomed
    BY <1>4 DEF DeleteRow
  <2> QED BY <1>0, <2>5, <2>6 DEF MirrorInv, MirrorTypeOK, TailInv
<1> QED BY <1>1, <1>2, <1>3, <1>4, RaisesInv DEF Writes

LEMMA LoadInv ==
    ASSUME MirrorInv, LoadRead \/ LoadTaken \/ LoadGivenUp
    PROVE  MirrorInv'
<1> TailInv /\ MirrorTypeOK BY DEF MirrorInv, MirrorTypeOK, TailInv
<1>1. CASE LoadRead
  <2>1. {mirror[t] : t \in Rows \ Lapsed} \subseteq Mirrored
    BY DEF MirrorTypeOK, Rows
  <2> QED BY <1>1, <2>1 DEF LoadRead, MirrorInv, MirrorTypeOK, WriteInv
<1>2. CASE LoadTaken
  <2>1. owner' \in Held \cup {NoOne}
    <3>1. \A row \in Mirrored :
            [of |-> row.of, confirmed |-> FALSE, left |-> row.left] \in Held
      BY DEF Mirrored, Held
    <3>2. load.found \subseteq Mirrored BY DEF MirrorTypeOK
    <3> QED BY <1>2, <3>1, <3>2 DEF LoadTaken
  <2>2. tail' = Parted /\ UNCHANGED <<mirror, expiring, doomed>>
        /\ load' = [step |-> "over", found |-> {}]
    BY <1>2 DEF LoadTaken
  <2>3. ASSUME NEW w \in Writer, tail'[w] # NoOne
        PROVE  /\ tail[w] # NoOne /\ tail'[w] \in Pending
               /\ tail'[w].op = tail[w].op /\ tail'[w].of = tail[w].of
               /\ tail'[w].seen = tail[w].seen
    <3>1. tail[w] # NoOne /\ tail'[w] = [tail[w] EXCEPT !.shared = FALSE]
      BY <2>2, <2>3 DEF Parted
    <3>2. tail[w] \in Pending BY <3>1 DEF TailInv
    <3> QED BY <3>1, <3>2, SameWrite
  <2>4. tail' \in [Writer -> Pending \cup {NoOne}]
    BY <2>2, <2>3 DEF Parted
  <2>5. WriteInv' BY <2>2, <2>3 DEF WriteInv, TailInv
  <2> QED BY <2>1, <2>2, <2>4, <2>5 DEF MirrorInv, MirrorTypeOK
<1>3. CASE LoadGivenUp
  BY <1>3 DEF LoadGivenUp, MirrorInv, MirrorTypeOK, WriteInv
<1> QED BY <1>1, <1>2, <1>3

LEMMA CleanUpInv ==
    ASSUME MirrorInv, CleanUpFinds \/ CleanUpDeletes \/ CleanUpFails
    PROVE  MirrorInv'
<1> TailInv /\ MirrorTypeOK BY DEF MirrorInv, MirrorTypeOK, TailInv
<1>1. CASE CleanUpFinds
  BY <1>1 DEF CleanUpFinds, MirrorInv, MirrorTypeOK, WriteInv, Lapsed, Rows
<1>2. CASE CleanUpDeletes
  <2>1. mirror' \in [Tablet -> Mirrored \cup {NoOne}] /\ TailInv'
    BY <1>2, RowsDeletedInv
       DEF CleanUpDeletes, MirrorTypeOK, TailInv, WriteInv
  <2> QED BY <1>2, <2>1 DEF CleanUpDeletes, MirrorInv, MirrorTypeOK, TailInv
<1>3. CASE CleanUpFails
  BY <1>3 DEF CleanUpFails, MirrorInv, MirrorTypeOK, WriteInv
<1> QED BY <1>1, <1>2, <1>3

LEMMA LeasesRunInv == ASSUME MirrorInv, LeasesRun PROVE MirrorInv'
<1> TailInv /\ MirrorTypeOK BY DEF MirrorInv, MirrorTypeOK, TailInv
<1>1. \A n \in 0 .. Lease : Less(n) \in 0 .. Lease
  BY MirrorAssumption DEF Less
<1>2. \A x \in Held : Older(x) \in Held \cup {NoOne}
  BY <1>1 DEF Older, Held
<1>3. \A x \in Mirrored : Older(x) \in Mirrored
  BY <1>1, MirrorAssumption DEF Older, Mirrored
<1>4. owner' \in Held \cup {NoOne}
  BY <1>2 DEF LeasesRun, MirrorTypeOK, Older
<1>5. /\ mirror' \in [Tablet -> Mirrored \cup {NoOne}]
      /\ \A t \in Tablet : mirror[t] # NoOne => mirror'[t] # NoOne
  BY <1>3, MirrorAssumption DEF LeasesRun, MirrorTypeOK, Older
<1>6. load' \in [step : {"due", "read", "over"}, found : SUBSET Mirrored]
  <2>1. load.found \subseteq Mirrored BY DEF MirrorTypeOK
  <2>2. {Older(row) : row \in load.found} \subseteq Mirrored BY <1>3, <2>1
  <2> QED BY <2>2 DEF LeasesRun, MirrorTypeOK
<1>7. ASSUME NEW w \in Writer, tail'[w] # NoOne
      PROVE  /\ tail[w] # NoOne /\ tail'[w] \in Pending
             /\ tail'[w].op = tail[w].op /\ tail'[w].of = tail[w].of
             /\ tail'[w].seen = tail[w].seen
  <2>1. tail[w] # NoOne /\ tail'[w] = [tail[w] EXCEPT !.left = Less(tail[w].left)]
    BY <1>7 DEF LeasesRun, Older
  <2>2. tail[w] \in Pending BY <2>1 DEF TailInv
  <2>3. Less(tail[w].left) \in 0 .. Lease BY <1>1, <2>2 DEF Pending
  <2> QED BY <2>1, <2>2, <2>3, SameWrite
<1>8. tail' \in [Writer -> Pending \cup {NoOne}]
  BY <1>7 DEF LeasesRun
<1>9. WriteInv' BY <1>5, <1>7 DEF WriteInv, TailInv
<1> QED BY <1>4, <1>5, <1>6, <1>8, <1>9
        DEF LeasesRun, MirrorInv, MirrorTypeOK

\* Every variable of the mirror keeps its type, however writes, deletes, the
\* load and the clean-up overlap: in particular no transaction updates a row it
\* has not found, or stores one without an owner (_upsert_owner_state,
\* _delete_owner_state, _load_state, _cleanup_persisted_state).
THEOREM MirrorTypeCorrect == MirrorSpec => []MirrorTypeOK
<1>1. MirrorInit => MirrorInv
  BY DEF MirrorInit, MirrorInv, MirrorTypeOK, WriteInv
<1>2. MirrorInv /\ [MirrorNext]_mirrorVars => MirrorInv'
  <2> SUFFICES ASSUME MirrorInv, [MirrorNext]_mirrorVars PROVE MirrorInv'
    OBVIOUS
  <2>1. CASE UNCHANGED mirrorVars
    BY <2>1 DEF mirrorVars, MirrorInv, MirrorTypeOK, WriteInv
  <2>2. CASE Sweep
    <3> TailInv BY DEF MirrorInv, MirrorTypeOK, TailInv
    <3>1. Sweeper \in Writer BY DEF Writer
    <3>2. TailInv' /\ owner' = NoOne BY <2>2, <3>1, DropsInv DEF Sweep
    <3> QED BY <2>2, <3>2 DEF Sweep, MirrorInv, MirrorTypeOK, TailInv
  <2>3. CASE Restart
    BY <2>3 DEF Restart, MirrorInv, MirrorTypeOK, WriteInv
  <2> QED BY <2>1, <2>2, <2>3, HandlerInv, WritesInv, LoadInv, CleanUpInv,
             LeasesRunInv DEF MirrorNext
<1>3. MirrorInv => MirrorTypeOK BY DEF MirrorInv
<1> QED BY <1>1, <1>2, <1>3, PTL DEF MirrorSpec
=============================================================================
