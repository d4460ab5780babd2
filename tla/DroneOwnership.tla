--------------------------- MODULE DroneOwnership ---------------------------
(***************************************************************************)
(* What the R2C hub promises about drone ownership (R2C_PROTOCOL.md,       *)
(* sections 4, 6 and 7), without connections, messages or time.            *)
(*                                                                         *)
(* A drone under a coordination key has at most one holder.  A holder whose*)
(* lease runs is active.  Holders change in the ways listed here and in no *)
(* other; one step may change several drones at once (a tablet that leaves,*)
(* a sweep).                                                               *)
(***************************************************************************)
EXTENDS OwnerOrder

CONSTANTS Claimable,  \* organization, coordination key and drone
          Slots,      \* organization, coordination key and zone
          Nil

VARIABLES holder,     \* [Claimable -> holder or Nil]
          present     \* the slots whose zone is connected

HolderAt(k) == <<k[1], k[2], holder[k].zone>>

\* A free drone is given to the zone that claims or confirms it.
Grant(k) == holder[k] = Nil /\ holder'[k] # Nil /\ holder'[k].active

\* A confirmation takes the drone from anybody.
Confirm(k) == holder'[k] # Nil /\ holder'[k].active /\ holder'[k].confirmed

\* A claim takes it only when it is strictly better, and from a confirmed
\* holder only when that holder's lease has run out.
Outbid(k) ==
    /\ holder[k] # Nil /\ ~holder[k].confirmed
    /\ holder'[k] # Nil /\ ~holder'[k].confirmed /\ holder'[k].active
    /\ Precedes(holder'[k], holder[k])
Succeed(k) ==
    /\ holder[k] # Nil /\ holder[k].confirmed /\ ~holder[k].active
    /\ holder'[k] # Nil /\ ~holder'[k].confirmed /\ holder'[k].active

\* A lease runs out; it may be renewed as long as the holder is not forgotten.
Lapse(k) ==
    holder[k] # Nil /\ holder'[k] = [holder[k] EXCEPT !.active = FALSE]
Renew(k) ==
    holder[k] # Nil /\ holder'[k] = [holder[k] EXCEPT !.active = TRUE]

\* A holder is forgotten when its lease has run out, when it says so itself,
\* or when it holds by confirmation and leaves.  In particular a holder that
\* leaves keeps what it won by its claim until the lease runs out.
Forget(k) ==
    /\ holder[k] # Nil /\ holder'[k] = Nil
    /\ \/ ~holder[k].active
       \/ HolderAt(k) \in present /\ HolderAt(k) \in present'
       \/ holder[k].confirmed /\ HolderAt(k) \notin present'

Step(k) ==
    \/ holder'[k] = holder[k]
    \/ Grant(k) \/ Confirm(k) \/ Outbid(k) \/ Succeed(k)
    \/ Lapse(k) \/ Renew(k) \/ Forget(k)

Init == holder = [k \in Claimable |-> Nil] /\ present = {}
Next == present' \in SUBSET Slots /\ \A k \in Claimable : Step(k)
Spec == Init /\ [][Next]_<<holder, present>>
=============================================================================
