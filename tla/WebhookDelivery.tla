--------------------------- MODULE WebhookDelivery ---------------------------
(***************************************************************************)
(* One TestFlight feedback event of App Store Connect.  Apple calls the    *)
(* webhook until a call is answered with success; calls overlap, and may   *)
(* be answered by different instances.  A call claims the event's row,     *)
(* mails the feedback, and marks the row sent or failed.                   *)
(***************************************************************************)
EXTENDS Integers, FiniteSets

CONSTANTS
    Call,    \* calls that can be under way at once
    Swift    \* a call that lives ends before its claim is old (5 minutes): the
             \* mail senders time out after 15 seconds a step

ASSUME SwiftAssumption == Swift \in BOOLEAN

VARIABLES
    delivery,      \* state of the event's ExternalWebhookDelivery; "none": no row
    stale,      \* its updated_at is more than 5 minutes ago
    told,     \* the feedback has been mailed
    calls      \* [Call -> where it is]

webhookVars == <<delivery, stale, told, calls>>

WebhookTypeOK ==
    /\ delivery \in {"none", "processing", "sent", "failed"}
    /\ stale \in BOOLEAN /\ told \in BOOLEAN
    /\ calls \in [Call -> {"none", "arrived", "claimed", "mailed", "failing"}]

\* Calls that have claimed the event and not marked it.
AtWork == {c \in Call : calls[c] \in {"claimed", "mailed", "failing"}}

WebhookInit ==
    /\ delivery = "none" /\ stale = FALSE /\ told = FALSE
    /\ calls = [c \in Call |-> "none"]

Goes(c, from, to) == calls[c] = from /\ calls' = [calls EXCEPT ![c] = to]

\* A call with a good signature, the first or one more.
EventArrives(c) ==
    Goes(c, "none", "arrived") /\ UNCHANGED <<delivery, stale, told>>

\* Fault: a row that another call works on is claimed like any other.
ClaimableUnlessSent == delivery # "sent"

\* claim_external_webhook_delivery: the unique key of the insertion and the
\* condition of the update let one of several calls through.
Claimable ==
    \/ delivery \in {"none", "failed"}
    \/ delivery = "processing" /\ stale

ClaimEvent(c) ==
    /\ Goes(c, "arrived", "claimed") /\ Claimable
    /\ delivery' = "processing" /\ stale' = FALSE /\ UNCHANGED told

\* Sent, or claimed by another call: answered with success at once.
DeclineEvent(c) ==
    /\ Goes(c, "arrived", "none") /\ ~Claimable
    /\ UNCHANGED <<delivery, stale, told>>

\* send_testflight_feedback
MailFeedback(c) ==
    /\ Goes(c, "claimed", "mailed") /\ told' = TRUE
    /\ UNCHANGED <<delivery, stale>>

\* It raises; the mail may have been made all the same.
FeedbackFails(c) ==
    /\ Goes(c, "claimed", "failing") /\ told' \in {told, TRUE}
    /\ UNCHANGED <<delivery, stale>>

\* mark_external_webhook_delivery_sent, of the row whoever claimed it last
MarkEventSent(c) ==
    /\ Goes(c, "mailed", "none") /\ delivery' = "sent" /\ stale' = FALSE
    /\ UNCHANGED told

MarkingFails(c) ==
    Goes(c, "mailed", "failing") /\ UNCHANGED <<delivery, stale, told>>

\* mark_external_webhook_delivery_failed, likewise; Apple will call again
MarkEventFailed(c) ==
    /\ Goes(c, "failing", "none") /\ delivery' = "failed" /\ stale' = FALSE
    /\ UNCHANGED told

\* The instance stops, or the database is not there to mark the row.
CallDies(c) ==
    /\ calls[c] # "none" /\ calls' = [calls EXCEPT ![c] = "none"]
    /\ UNCHANGED <<delivery, stale, told>>

ClaimAges ==
    /\ delivery = "processing" /\ ~stale /\ (Swift => AtWork = {})
    /\ stale' = TRUE /\ UNCHANGED <<delivery, told, calls>>

WebhookNext ==
    \/ ClaimAges
    \/ \E c \in Call :
        \/ EventArrives(c) \/ ClaimEvent(c) \/ DeclineEvent(c)
        \/ MailFeedback(c) \/ FeedbackFails(c)
        \/ MarkEventSent(c) \/ MarkingFails(c) \/ MarkEventFailed(c)
        \/ CallDies(c)

WebhookSpec == WebhookInit /\ [][WebhookNext]_webhookVars

-----------------------------------------------------------------------------
(* Properties *)

\* However calls of the same event overlap, fail and are given up, one of them
\* at a time works on it and the row says so; and an event that counts as sent
\* has been mailed, with no call left that could mail it again or unmark it.
OneAtATime ==
    /\ \A c, d \in AtWork : c = d
    /\ AtWork # {} => delivery = "processing"
    /\ delivery = "sent" => told

=============================================================================
