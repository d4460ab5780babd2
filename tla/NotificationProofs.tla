-------------------------- MODULE NotificationProofs --------------------------
(***************************************************************************)
(* What holds of the two components that mail notices, for every number of *)
(* instances, calls and viewers: the monthly allowance of an organization, *)
(* and the feedback events of App Store Connect.                           *)
(***************************************************************************)
EXTENDS Allowances, WebhookDelivery, TLAPS

-----------------------------------------------------------------------------
(* Allowances *)

\* A worker has loaded the costs it is about to enter.
LoadedFirst == \A w \in Worker : step[w] = "reconcile" => loaded[w] # NoData

AllowanceInv == AllowanceTypeOK /\ LoadedFirst /\ NoticesTrue

LEMMA AllowanceStarts == AllowanceInit => AllowanceInv
<1>. SUFFICES ASSUME AllowanceInit PROVE AllowanceInv
  OBVIOUS
<1>1. bill \in Costs
  BY SMT DEF AllowanceInit, Costs, Cost, Allowance
<1>2. AllowanceTypeOK
  BY <1>1 DEF AllowanceInit, AllowanceTypeOK
<1>3. LoadedFirst /\ NoticesTrue
  BY DEF AllowanceInit, LoadedFirst, NoticesTrue
<1>. QED  BY <1>2, <1>3 DEF AllowanceInv

\* Entering costs leaves exactly the notices pending that are true of them.
LEMMA ReconcileEnters ==
  ASSUME AllowanceInv, NEW w \in Worker, Reconcile(w)
  PROVE  AllowanceInv'
<1> DEFINE costs == loaded[w]
<1>1. costs \in Costs /\ costs # NoData
  BY NoCosts DEF AllowanceInv, AllowanceTypeOK, LoadedFirst, Reconcile
<1>2. AllowanceTypeOK'
  <2>1. off' \in BOOLEAN /\ allowance' \in Costs
    BY <1>1 DEF Reconcile, OffAt
  <2>2. viewing' \subseteq Viewer /\ overlapped' \subseteq Viewer
    BY DEF Reconcile, Viewing, AllowanceInv, AllowanceTypeOK
  <2>3. notices' \in [Notice -> {"none", "pending", "canceled", "sent"}]
    BY DEF Reconcile, NoticesFor, AllowanceInv, AllowanceTypeOK
  <2>. QED  BY <2>1, <2>2, <2>3 DEF Reconcile, AllowanceInv, AllowanceTypeOK
<1>3. LoadedFirst'
  BY DEF Reconcile, LoadedFirst, AllowanceInv, AllowanceTypeOK
<1>4. NoticesTrue'
  <2>1. off' => allowance' # NoData /\ allowance'.actual >= Cutoff
    BY <1>1 DEF Reconcile, OffAt
  <2>4. off' => viewing' \subseteq overlapped'
    BY DEF Reconcile, Viewing, AllowanceInv, NoticesTrue
  <2>2. ASSUME NEW n \in Notice, notices'[n] = "pending"
        PROVE  n \in Due(allowance')
    BY <2>2 DEF Reconcile, NoticesFor
  <2>3. allowance' # NoData
    BY <1>1 DEF Reconcile
  <2>. QED  BY <2>1, <2>2, <2>3, <2>4 DEF NoticesTrue, Due
<1>. QED  BY <1>2, <1>3, <1>4 DEF AllowanceInv

LEMMA AllowanceStep ==
  ASSUME AllowanceInv, [AllowanceNext]_allowanceVars
  PROVE  AllowanceInv'
<1>. USE DEF AllowanceInv, AllowanceTypeOK, LoadedFirst, requestVars
<1>1. CASE UNCHANGED allowanceVars
  BY <1>1 DEF allowanceVars, NoticesTrue, Due
<1>2. CASE BillChanges
  BY <1>2 DEF BillChanges, NoticesTrue, Due
<1>3. ASSUME NEW v \in Viewer, View(v) \/ EndView(v)
      PROVE  AllowanceInv'
  BY <1>3 DEF View, EndView, NoticesTrue, Due
<1>4. ASSUME NEW w \in Worker, Load(w) \/ LoadFails(w)
      PROVE  AllowanceInv'
  BY <1>4, NoCosts DEF Load, LoadFails, NoticesTrue, Due
<1>5. ASSUME NEW w \in Worker, Reconcile(w)
      PROVE  AllowanceInv'
  BY <1>5, ReconcileEnters
<1>6. ASSUME NEW w \in Worker, List(w) \/ NextRound(w) \/ Stop(w)
      PROVE  AllowanceInv'
  BY <1>6 DEF List, NextRound, Stop, NoticesTrue, Due
<1>7. ASSUME NEW w \in Worker, NEW n \in Notice, Mail(w, n) \/ MailFails(w, n)
      PROVE  AllowanceInv'
  BY <1>7 DEF Mail, MailFails, NoticesTrue, Due
<1>. QED
  BY <1>1, <1>2, <1>3, <1>4, <1>5, <1>6, <1>7 DEF AllowanceNext

\* The states of the allowance, its notices and the workers are the ones the
\* code gives them.
THEOREM AllowanceTypeCorrect == AllowanceSpec => []AllowanceTypeOK
<1>1. AllowanceSpec => []AllowanceInv
  BY AllowanceStarts, AllowanceStep, PTL DEF AllowanceSpec
<1>. QED  BY <1>1, PTL DEF AllowanceInv

\* However many workers reconcile, in whatever order and from however old an
\* export: nobody views while video is off but those whose request overlapped the
\* switch, and what is pending is true of the
\* costs entered last.
THEOREM NoticesAreTrue == AllowanceSpec => []NoticesTrue
<1>1. AllowanceSpec => []AllowanceInv
  BY AllowanceStarts, AllowanceStep, PTL DEF AllowanceSpec
<1>. QED  BY <1>1, PTL DEF AllowanceInv

-----------------------------------------------------------------------------
(* Feedback events *)

\* What a call knows of the mail, and what a row that has grown old says of
\* the calls.
EventInv ==
    /\ WebhookTypeOK /\ OneAtATime
    /\ \A c \in Call : calls[c] = "mailed" => told
    /\ stale => AtWork = {}

LEMMA EventStarts == WebhookInit => EventInv
  BY DEF WebhookInit, EventInv, WebhookTypeOK, OneAtATime, AtWork

LEMMA EventStep ==
  ASSUME Swift, EventInv, [WebhookNext]_webhookVars
  PROVE  EventInv'
<1>. USE DEF EventInv, WebhookTypeOK, OneAtATime, AtWork
<1>1. CASE UNCHANGED webhookVars
  BY <1>1 DEF webhookVars
<1>2. CASE ClaimAges
  BY <1>2 DEF ClaimAges
<1>3. ASSUME NEW c \in Call, EventArrives(c) \/ DeclineEvent(c)
      PROVE  EventInv'
  BY <1>3 DEF EventArrives, DeclineEvent, Goes
<1>4. ASSUME NEW c \in Call, ClaimEvent(c)
      PROVE  EventInv'
  <2>1. AtWork = {}
    BY <1>4 DEF ClaimEvent, Claimable
  <2>2. AtWork' = {c}
    BY <1>4, <2>1 DEF ClaimEvent, Goes
  <2>3. \A d \in Call : calls'[d] = "mailed" => told'
    BY <1>4 DEF ClaimEvent, Goes
  <2>. QED  BY <1>4, <2>2, <2>3 DEF ClaimEvent, Goes
<1>5. ASSUME NEW c \in Call, MailFeedback(c) \/ FeedbackFails(c)
      PROVE  EventInv'
  <2>1. AtWork' = AtWork /\ (told => told') /\ told' \in BOOLEAN
    BY <1>5 DEF MailFeedback, FeedbackFails, Goes
  <2>2. calls' \in [Call -> {"none", "arrived", "claimed", "mailed", "failing"}]
    BY <1>5 DEF MailFeedback, FeedbackFails, Goes
  <2>3. \A d \in Call : calls'[d] = "mailed" => told'
    BY <1>5, <2>1 DEF MailFeedback, FeedbackFails, Goes
  <2>4. UNCHANGED <<delivery, stale>>
    BY <1>5 DEF MailFeedback, FeedbackFails
  <2>5. OneAtATime'
    BY <2>1, <2>4
  <2>6. stale' => AtWork' = {}
    BY <2>1, <2>4
  <2>7. WebhookTypeOK'
    BY <2>1, <2>2, <2>4
  <2>. HIDE DEF WebhookTypeOK, OneAtATime, AtWork
  <2>. QED  BY <2>3, <2>5, <2>6, <2>7
<1>6. ASSUME NEW c \in Call, MarkEventSent(c) \/ MarkEventFailed(c)
      PROVE  EventInv'
  <2>1. AtWork = {c}
    BY <1>6 DEF MarkEventSent, MarkEventFailed, Goes
  <2>2. AtWork' = {}
    BY <1>6, <2>1 DEF MarkEventSent, MarkEventFailed, Goes
  <2>3. \A d \in Call : calls'[d] = "mailed" => told'
    BY <1>6 DEF MarkEventSent, MarkEventFailed, Goes
  <2>4. OneAtATime'
    BY <1>6, <2>2 DEF MarkEventSent, MarkEventFailed, Goes
  <2>5. WebhookTypeOK'
    BY <1>6 DEF MarkEventSent, MarkEventFailed, Goes
  <2>. HIDE DEF WebhookTypeOK, OneAtATime, AtWork
  <2>. QED  BY <2>2, <2>3, <2>4, <2>5
<1>7. ASSUME NEW c \in Call, MarkingFails(c) \/ CallDies(c)
      PROVE  EventInv'
  BY <1>7 DEF MarkingFails, CallDies, Goes
<1>. QED
  BY <1>1, <1>2, <1>3, <1>4, <1>5, <1>6, <1>7 DEF WebhookNext

\* With mail senders that time out before a claim is old, whatever the number
\* of calls of an event: one works on it at a time, and none once it is sent.
THEOREM EventHandledOnce ==
  ASSUME Swift
  PROVE  WebhookSpec => []OneAtATime
<1>1. EventInv /\ [WebhookNext]_webhookVars => EventInv'
  BY EventStep
<1>2. WebhookSpec => []EventInv
  BY EventStarts, <1>1, PTL DEF WebhookSpec
<1>. QED  BY <1>2, PTL DEF EventInv

=============================================================================
