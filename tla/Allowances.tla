----------------------------- MODULE Allowances -----------------------------
(***************************************************************************)
(* The monthly usage allowance of one organization, for one month: every   *)
(* instance of the service runs a worker that loads the billing export,    *)
(* enters it in the allowance row, switches remote video off or on, and    *)
(* mails the notices that are pending.                                     *)
(*                                                                         *)
(* Costs count as far as the limits tell them apart.  The export grows and *)
(* is corrected, the workers of two instances overlap in every way, mails  *)
(* fail and instances stop.                                                *)
(***************************************************************************)
EXTENDS Integers, FiniteSets

CONSTANTS
    Worker,     \* instances that run billing_notification_worker
    Viewer,     \* users who watch remote video
    NoData

\* Actual cost: below EXTENDED_BETA_VIDEO_CUTOFF, from there up to
\* EXTENDED_BETA_MONTHLY_ALLOWANCE, above it.
Cost == 0 .. 2
Cutoff == 1
Allowance == 1
Notice ==
    {"beta_allowance_on_track", "beta_allowance_exceeded",
     "beta_video_disabled"}

\* over: the forecast for the month, at least the actual cost, is above the
\* allowance.
Costs == {c \in [actual : Cost, over : BOOLEAN] : c.actual > Allowance => c.over}

ASSUME NoCosts == NoData \notin Costs

VARIABLES
    bill,       \* what the billing export says
    allowance,  \* ExtendedBetaAllowance row: the costs entered last
    off,        \* its video_disabled_at is set
    notices,    \* [Notice -> state of the BillingNotification row]
    viewing,    \* viewers with a live video request
    overlapped, \* viewers whose request had passed the check of the allowance
                \* when video went off, and is entered later
    step,       \* [Worker -> its next step]
    loaded,     \* [Worker -> costs it has loaded for its next step]
    listed      \* [Worker -> notices it has still to mail]

allowanceVars ==
    <<bill, allowance, off, notices, viewing, overlapped, step, loaded, listed>>
requestVars == <<viewing, overlapped>>

AllowanceTypeOK ==
    /\ bill \in Costs /\ allowance \in Costs \cup {NoData} /\ off \in BOOLEAN
    /\ notices \in [Notice -> {"none", "pending", "canceled", "sent"}]
    /\ viewing \subseteq Viewer /\ overlapped \subseteq Viewer
    /\ step \in [Worker -> {"load", "reconcile", "list", "mail"}]
    /\ loaded \in [Worker -> Costs \cup {NoData}]
    /\ listed \in [Worker -> SUBSET Notice]

-----------------------------------------------------------------------------
(* What the costs entail *)

\* The notices for costs like these.
Due(costs) ==
    {n \in Notice :
        \/ n = "beta_allowance_on_track" /\ costs.over
        \/ n = "beta_allowance_exceeded" /\ costs.actual > Allowance
        \/ n = "beta_video_disabled" /\ costs.actual >= Cutoff}

\* Fault: a notice stays pending when it is true no more.
NoticesKept(due) ==
    [n \in Notice |-> IF n \in due /\ notices[n] = "none" THEN "pending"
                      ELSE notices[n]]

\* A notice is queued once a month; what is pending and true no more is
\* canceled, for good.
NoticesFor(due) ==
    [n \in Notice |->
        IF n \in due THEN IF notices[n] = "none" THEN "pending" ELSE notices[n]
        ELSE IF notices[n] = "pending" THEN "canceled" ELSE notices[n]]

-----------------------------------------------------------------------------
AllowanceInit ==
    /\ bill = [actual |-> 0, over |-> FALSE] /\ allowance = NoData /\ off = FALSE
    /\ notices = [n \in Notice |-> "none"]
    /\ viewing = {} /\ overlapped = {}
    /\ step = [w \in Worker |-> "load"]
    /\ loaded = [w \in Worker |-> NoData] /\ listed = [w \in Worker |-> {}]

\* The export is continued, or corrected.
BillChanges ==
    /\ bill' \in Costs
    /\ UNCHANGED <<allowance, off, notices, requestVars, step, loaded, listed>>

(* One round of a worker *)

\* load_platform_billing_snapshot
Load(w) ==
    /\ step[w] = "load" /\ step' = [step EXCEPT ![w] = "reconcile"]
    /\ loaded' = [loaded EXCEPT ![w] = bill]
    /\ UNCHANGED <<bill, allowance, off, notices, requestVars, listed>>

\* The export is not to be had, or is stale: the round goes on without it.
LoadFails(w) ==
    /\ step[w] = "load" /\ step' = [step EXCEPT ![w] = "list"]
    /\ UNCHANGED <<bill, allowance, off, notices, requestVars, loaded, listed>>

\* Fault: at the cutoff, video stays on.
OffAboveCutoff(costs) == costs.actual > Cutoff

\* Is video off with these costs?
OffAt(costs) == costs.actual >= Cutoff

\* Who is viewing after a reconciliation that leaves video off.
Viewing == IF off' /\ ~off THEN {} ELSE viewing

\* reconcile_extended_beta_allowances
Reconcile(w) ==
    /\ step[w] = "reconcile" /\ step' = [step EXCEPT ![w] = "list"]
    /\ allowance' = loaded[w] /\ off' = OffAt(loaded[w])
    /\ viewing' = Viewing
    /\ IF off' /\ ~off THEN overlapped' \in SUBSET Viewer
       ELSE overlapped' = IF off' THEN overlapped ELSE {}
    /\ notices' = NoticesFor(Due(loaded[w]))
    /\ loaded' = [loaded EXCEPT ![w] = NoData]
    /\ UNCHANGED <<bill, listed>>

\* list_pending_billing_notifications, at the start of the deliveries
List(w) ==
    /\ step[w] = "list" /\ step' = [step EXCEPT ![w] = "mail"]
    /\ listed' = [listed EXCEPT ![w] = {n \in Notice : notices[n] = "pending"}]
    /\ UNCHANGED <<bill, allowance, off, notices, requestVars, loaded>>

\* A listed notice is mailed and marked, though it was canceled meanwhile.
\* (mark_billing_notification_sent)
Mail(w, n) ==
    /\ step[w] = "mail" /\ n \in listed[w]
    /\ notices' = [notices EXCEPT ![n] = "sent"]
    /\ listed' = [listed EXCEPT ![w] = @ \ {n}]
    /\ UNCHANGED <<bill, allowance, off, requestVars, step, loaded>>

\* Fault: a notice that could not be mailed has a state of its own.
MailFailsForGood(w, n) ==
    /\ step[w] = "mail" /\ n \in listed[w]
    /\ notices' = [notices EXCEPT ![n] = "failed"]
    /\ listed' = [listed EXCEPT ![w] = @ \ {n}]
    /\ UNCHANGED <<bill, allowance, off, requestVars, step, loaded>>

\* It is not mailed, or not marked: it stays pending for the next round.
\* (mark_billing_notification_failed)
MailFails(w, n) ==
    /\ step[w] = "mail" /\ n \in listed[w]
    /\ listed' = [listed EXCEPT ![w] = @ \ {n}]
    /\ UNCHANGED <<bill, allowance, off, notices, requestVars, step, loaded>>

\* An hour later.
NextRound(w) ==
    /\ step[w] = "mail" /\ listed[w] = {} /\ step' = [step EXCEPT ![w] = "load"]
    /\ UNCHANGED <<bill, allowance, off, notices, requestVars, loaded, listed>>

\* The round ends with an exception, or the instance stops and another starts.
Stop(w) ==
    /\ step' = [step EXCEPT ![w] = "load"]
    /\ loaded' = [loaded EXCEPT ![w] = NoData]
    /\ listed' = [listed EXCEPT ![w] = {}]
    /\ UNCHANGED <<bill, allowance, off, notices, requestVars>>

(* Viewers *)

\* create_video_stream_request, as far as it regards the allowance: it reads the
\* row without a lock, and enters its request later.
View(v) ==
    /\ off => v \in overlapped
    /\ viewing' = viewing \cup {v}
    /\ UNCHANGED <<bill, allowance, off, notices, overlapped, step, loaded,
                   listed>>
EndView(v) ==
    /\ v \in viewing /\ viewing' = viewing \ {v}
    /\ UNCHANGED <<bill, allowance, off, notices, overlapped, step, loaded,
                   listed>>

AllowanceNext ==
    \/ BillChanges
    \/ \E v \in Viewer : View(v) \/ EndView(v)
    \/ \E w \in Worker :
        \/ Load(w) \/ LoadFails(w) \/ Reconcile(w) \/ List(w)
        \/ NextRound(w) \/ Stop(w)
        \/ \E n \in Notice : Mail(w, n) \/ MailFails(w, n)

AllowanceSpec == AllowanceInit /\ [][AllowanceNext]_allowanceVars

\* A worker runs round after round; not every round fails to get the export,
\* or ends before it is entered.
Rounds(w) ==
    /\ SF_allowanceVars(Load(w)) /\ SF_allowanceVars(Reconcile(w))
    /\ WF_allowanceVars(List(w) \/ NextRound(w))
    /\ WF_allowanceVars(\E n \in Notice : Mail(w, n) \/ MailFails(w, n))
AllowanceFairSpec == AllowanceSpec /\ \A w \in Worker : Rounds(w)

-----------------------------------------------------------------------------
(* Properties *)

\* While video is off nobody views but those whose request overlapped the
\* switch, and a notice that is still to be mailed is
\* true of the costs entered last, whichever worker entered them, from however
\* old an export.
NoticesTrue ==
    /\ off => viewing \subseteq overlapped
    /\ off => allowance # NoData /\ allowance.actual >= Cutoff
    /\ \A n \in Notice :
        notices[n] = "pending" => allowance # NoData /\ n \in Due(allowance)

\* Video goes off, and stays off, when the cost has reached the cutoff for good,
\* and on again when it is found to be below, though workers overtake one
\* another with old exports.
VideoFollowsBill ==
    /\ <>[](bill.actual >= Cutoff) => <>[]off
    /\ <>[](bill.actual < Cutoff) => <>[]~off

=============================================================================
