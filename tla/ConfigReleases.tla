--------------------------- MODULE ConfigReleases ---------------------------
(***************************************************************************)
(* How one organization's tablet configuration is published: an            *)
(* administrator asks a connected tablet for its settings, the tablet's    *)
(* answer becomes the organization's proposal, and an administrator        *)
(* approves it as a release, rejects it, or restores an earlier release.   *)
(*                                                                         *)
(* There is one proposal row, of the organization's key; asking again      *)
(* changes it.  No method of the store locks it: a method reads the row,   *)
(* checks what it has read, and writes the columns it has changed, and     *)
(* others commit in between.  A handler keeps in "saw" the row as it read  *)
(* it; it is belated when the row is not that any more.                  *)
(***************************************************************************)
EXTENDS Integers, FiniteSets, StoreRows

CONSTANTS
    Handler,     \* web and websocket handlers that can be under way at once
    Tablet,      \* tablets with an active credential
    Snapshot,    \* validated configurations
    MaxRequest,  \* bound on the requests ever made; they are numbered
    MaxVersion,  \* bound on the clock, in milliseconds: version_ms
    Nothing

ASSUME ConfigAssumption ==
    /\ MaxRequest \in Nat /\ MaxVersion \in Nat \ {0}
    /\ Nothing \notin Tablet \cup Snapshot

VARIABLES
    proposal,    \* OrganizationConfigProposal row
    releases,    \* OrganizationConfigRelease rows
    current,     \* OrganizationConfigState.current_version_ms; 0: no row
    made,        \* number of requests so far
    now,         \* the clock
    asked,       \* requests that reached their tablet
    answers,     \* the tablets' answers
    doing        \* [Handler -> what it is about to do]

configVars ==
    <<proposal, releases, current, made, now, asked, answers, doing>>

ConfigRequest == [id : 1 .. MaxRequest, device : Tablet]
Answer == [id : 1 .. MaxRequest, device : Tablet, snapshot : Snapshot]
Proposal ==
    [id : 1 .. MaxRequest, device : Tablet, state : {"awaiting_device", "ready"},
     snapshot : Snapshot \cup {Nothing}]
Release == [version : 1 .. MaxVersion, device : Tablet, snapshot : Snapshot]

\* What a handler has read and is about to write, or the request that it is
\* about to send.
Starting ==
    [do : {"start"}, request : ConfigRequest, saw : Proposal \cup {Nothing}]
Deliver == [do : {"deliver"}, request : ConfigRequest]
Complete == [do : {"complete"}, answer : Answer, saw : Proposal]
Rejecting == [do : {"reject"}]
Approving ==
    [do : {"approve"}, version : 1 .. MaxVersion, was : 0 .. MaxVersion,
     saw : Proposal]
Restoring ==
    [do : {"restore"}, version : 1 .. MaxVersion, was : 0 .. MaxVersion]
ConfigTask ==
    Starting \cup Deliver \cup Complete \cup Rejecting \cup Approving
        \cup Restoring

ASSUME NoneAssumption == Nothing \notin Proposal \cup ConfigTask

ConfigTypeOK ==
    /\ proposal \in Proposal \cup {Nothing}
    /\ releases \subseteq Release
    /\ current \in 0 .. MaxVersion /\ now \in 1 .. MaxVersion
    /\ made \in 0 .. MaxRequest
    /\ asked \subseteq ConfigRequest /\ answers \subseteq Answer
    /\ doing \in [Handler -> ConfigTask \cup {Nothing}]

Versions == {r.version : r \in releases}

\* A handler begins what it does, and ends it.
Begins(h, task) == doing[h] = Nothing /\ doing' = [doing EXCEPT ![h] = task]
Ends(h) == doing' = [doing EXCEPT ![h] = Nothing]

\* The proposal when a handler that read saw has changed it to row.
Written(saw, row) ==
    [id |-> Column(saw.id, row.id, proposal.id),
     device |-> Column(saw.device, row.device, proposal.device),
     state |-> Column(saw.state, row.state, proposal.state),
     snapshot |-> Column(saw.snapshot, row.snapshot, proposal.snapshot)]

\* The proposal is not any more what the handler read.
Belated(h) ==
    doing[h] \in Starting \cup Complete \cup Approving /\ proposal # doing[h].saw

-----------------------------------------------------------------------------
ConfigInit ==
    /\ proposal = Nothing /\ releases = {} /\ current = 0
    /\ made = 0 /\ now = 1
    /\ asked = {} /\ answers = {} /\ doing = [h \in Handler |-> Nothing]

\* request_organization_config, of a tablet that is connected:
\* start_organization_config_proposal reads the proposal,
Start(h, d) ==
    /\ made < MaxRequest /\ made' = made + 1
    /\ Begins(h, [do |-> "start", saw |-> proposal,
                  request |-> [id |-> made + 1, device |-> d]])
    /\ UNCHANGED <<proposal, releases, current, now, asked, answers>>

\* Fault: the answer to the request before stays.
RequestKeeping(request) ==
    [id |-> request.id, device |-> request.device, state |-> "awaiting_device",
     snapshot |-> IF proposal = Nothing THEN Nothing ELSE proposal.snapshot]

\* The row of a new request.
Requested(request) ==
    [id |-> request.id, device |-> request.device, state |-> "awaiting_device",
     snapshot |-> Nothing]

\* and enters the request.  A second row is refused, and so is a change of one
\* that is gone.
ProposalStarted(request, saw) ==
    /\ (saw = Nothing) = (proposal = Nothing)
    /\ proposal' = IF saw = Nothing THEN Requested(request)
                   ELSE Written(saw, Requested(request))

CommitStart(h) ==
    /\ doing[h] \in Starting
    /\ ProposalStarted(doing[h].request, doing[h].saw)
    /\ doing' = [doing EXCEPT
            ![h] = [do |-> "deliver", request |-> doing[h].request]]
    /\ UNCHANGED <<releases, current, made, now, asked, answers>>

\* send_organization_config_snapshot_request
Reach(h) ==
    /\ doing[h] \in Deliver /\ Ends(h)
    /\ asked' = asked \cup {doing[h].request}
    /\ UNCHANGED <<proposal, releases, current, made, now, answers>>

\* The tablet is gone: the handler rejects the proposal that is there now.
Unreachable(h) ==
    /\ doing[h] \in Deliver /\ proposal # Nothing
    /\ doing' = [doing EXCEPT ![h] = [do |-> "reject"]]
    /\ UNCHANGED <<proposal, releases, current, made, now, asked, answers>>

\* A tablet answers a request, or one again, with its settings of the moment.
AnswerRequest(request, s) ==
    /\ answers' = answers \cup
        {[id |-> request.id, device |-> request.device, snapshot |-> s]}
    /\ UNCHANGED <<proposal, releases, current, made, now, asked, doing>>

\* Fault: an answer to any request of the tablet will do.
AwaitedFrom(a) ==
    /\ proposal # Nothing /\ proposal.device = a.device
    /\ proposal.state = "awaiting_device"

\* Fault: a second answer replaces the first.
AwaitedAgain(a) ==
    proposal # Nothing /\ proposal.id = a.id /\ proposal.device = a.device

Awaited(a) ==
    /\ proposal # Nothing /\ proposal.id = a.id /\ proposal.device = a.device
    /\ proposal.state = "awaiting_device"

\* The answer arrives, and complete_organization_config_proposal finds it
\* awaited.
ReceiveAnswer(h, a) ==
    /\ Awaited(a)
    /\ Begins(h, [do |-> "complete", answer |-> a, saw |-> proposal])
    /\ UNCHANGED <<proposal, releases, current, made, now, asked, answers>>

\* The row is updated by its primary key, the organization's: whichever
\* request it has by now.
ProposalCompleted(a, saw) ==
    /\ proposal # Nothing
    /\ proposal' = Written(saw, [saw EXCEPT !.state = "ready",
                                            !.snapshot = a.snapshot])

CompleteProposal(h) ==
    /\ doing[h] \in Complete /\ Ends(h)
    /\ ProposalCompleted(doing[h].answer, doing[h].saw)
    /\ UNCHANGED <<releases, current, made, now, asked, answers>>

\* Fault: what the tablet has not answered yet is approved.
ApprovableEarly == proposal # Nothing

Approvable == proposal # Nothing /\ proposal.state = "ready"

\* approve_organization_config_proposal, which takes the time first,
ApproveProposal(h) ==
    /\ Approvable
    /\ Begins(h, [do |-> "approve", version |-> now, was |-> current,
                  saw |-> proposal])
    /\ UNCHANGED <<proposal, releases, current, made, now, asked, answers>>

\* The row of the current version is inserted by one handler only.
CurrentWritten(task) ==
    /\ task.was = 0 => current = 0
    /\ current' = Column(task.was, task.version, current)

\* and publishes what it has read.  Two releases of one millisecond are
\* refused; the proposal goes, whatever it has become or if it is gone.
ProposalApproved(task) ==
    /\ task.version \notin Versions
    /\ releases' = releases \cup
        {[version |-> task.version, device |-> task.saw.device,
          snapshot |-> task.saw.snapshot]}
    /\ CurrentWritten(task) /\ proposal' = Nothing

CommitApproval(h) ==
    /\ doing[h] \in Approving /\ ProposalApproved(doing[h]) /\ Ends(h)
    /\ UNCHANGED <<made, now, asked, answers>>

\* reject_organization_config_proposal
RejectProposal(h) ==
    /\ proposal # Nothing /\ Begins(h, [do |-> "reject"])
    /\ UNCHANGED <<proposal, releases, current, made, now, asked, answers>>

CommitRejection(h) ==
    /\ doing[h] \in Rejecting /\ proposal' = Nothing /\ Ends(h)
    /\ UNCHANGED <<releases, current, made, now, asked, answers>>

\* restore_organization_config_release
RestoreRelease(h, v) ==
    /\ v \in Versions
    /\ Begins(h, [do |-> "restore", version |-> v, was |-> current])
    /\ UNCHANGED <<proposal, releases, current, made, now, asked, answers>>

CommitRestore(h) ==
    /\ doing[h] \in Restoring /\ CurrentWritten(doing[h]) /\ Ends(h)
    /\ UNCHANGED <<proposal, releases, made, now, asked, answers>>

\* A handler that is refused, or lost.
GiveUp(h) ==
    /\ doing[h] # Nothing /\ Ends(h)
    /\ UNCHANGED <<proposal, releases, current, made, now, asked, answers>>

\* The clock stands still at its bound.
Pass ==
    /\ now' = IF now < MaxVersion THEN now + 1 ELSE now
    /\ UNCHANGED <<proposal, releases, current, made, asked, answers, doing>>

ConfigNext ==
    \/ Pass
    \/ \E request \in asked, s \in Snapshot : AnswerRequest(request, s)
    \/ \E h \in Handler :
        \/ CommitStart(h) \/ Reach(h) \/ Unreachable(h) \/ CompleteProposal(h)
        \/ ApproveProposal(h) \/ CommitApproval(h) \/ RejectProposal(h) \/ CommitRejection(h)
        \/ CommitRestore(h) \/ GiveUp(h)
        \/ \E d \in Tablet : Start(h, d)
        \/ \E a \in answers : ReceiveAnswer(h, a)
        \/ \E v \in 1 .. MaxVersion : RestoreRelease(h, v)

ConfigSpec == ConfigInit /\ [][ConfigNext]_configVars

-----------------------------------------------------------------------------
(* Properties *)

\* However handlers overlap, a proposal is ready when it has a snapshot and
\* then only, and what is proposed or was published some tablet has sent: no
\* mixture of columns publishes an empty or a made-up configuration.
SnapshotsWereSent ==
    LET Sent == {a.snapshot : a \in answers} IN
    /\ proposal # Nothing =>
        IF proposal.state = "ready" THEN proposal.snapshot \in Sent
        ELSE proposal.snapshot = Nothing
    /\ \A r \in releases : r.snapshot \in Sent

\* What is proposed is what its tablet sent in answer to its request.
Answered ==
    proposal # Nothing /\ proposal.state = "ready" =>
        [id |-> proposal.id, device |-> proposal.device,
         snapshot |-> proposal.snapshot] \in answers

\* A snapshot gets under review for a request, or as a tablet's, that it was
\* not sent for in one way only: a request and an answer, or two requests,
\* overlapped in the database.  Late, repeated and misdirected answers do not.
AnsweredByItsDevice ==
    [][Answered =>
        \/ Answered'
        \/ \E h \in Handler :
            Belated(h) /\ (CommitStart(h) \/ CompleteProposal(h))]_configVars

\* What an administrator has seen proposed is replaced by asking again, or by
\* an answer that was read as awaited before, and by nothing else; a release
\* is never taken back or changed, and each version that was ever current can
\* be looked up and restored.
ReviewedStays ==
    [][/\ Approvable /\ proposal' \notin {proposal, Nothing} =>
            \E h \in Handler :
                CommitStart(h) \/ (Belated(h) /\ CompleteProposal(h))
       /\ releases \subseteq releases'
       /\ current' # current => current' \in {r.version : r \in releases'}
      ]_configVars

=============================================================================
