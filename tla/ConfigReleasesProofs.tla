------------------------- MODULE ConfigReleasesProofs -------------------------
(***************************************************************************)
(* What holds of configuration proposals and releases for every number of  *)
(* handlers, tablets, snapshots, requests and milliseconds, however the    *)
(* handlers overlap.                                                       *)
(***************************************************************************)
EXTENDS ConfigReleases, TLAPS

-----------------------------------------------------------------------------
(* The invariant *)

\* The snapshots of answers.
SentIn(ans) == {a.snapshot : a \in ans}

\* A proposal row that is ready has a snapshot that was sent, any other none.
Sound(row, ans) ==
    row # Nothing =>
        IF row.state = "ready" THEN row.snapshot \in SentIn(ans)
        ELSE row.snapshot = Nothing

\* What handlers have read was sound then, and what they checked held then.
Recalled(task, ans, rels) ==
    /\ task \in Starting => Sound(task.saw, ans)
    /\ task \in Complete =>
        /\ Sound(task.saw, ans) /\ task.saw.state = "awaiting_device"
        /\ task.answer \in ans
        /\ task.saw.id = task.answer.id /\ task.saw.device = task.answer.device
    /\ task \in Approving => Sound(task.saw, ans) /\ task.saw.state = "ready"
    /\ task \in Restoring => \E r \in rels : r.version = task.version

ConfigInv ==
    /\ ConfigTypeOK /\ Sound(proposal, answers)
    /\ \A r \in releases : r.snapshot \in SentIn(answers)
    /\ \A h \in Handler : Recalled(doing[h], answers, releases)

LEMMA InvSent == ConfigInv => SnapshotsWereSent
  BY DEF ConfigInv, Sound, SnapshotsWereSent, SentIn

LEMMA InitConfig == ConfigInit => ConfigInv
  BY NoneAssumption, ConfigAssumption
  DEF ConfigInit, ConfigInv, ConfigTypeOK, Sound, Recalled, ConfigTask

-----------------------------------------------------------------------------
(* Rows and tasks *)

\* No task is of two kinds.
LEMMA TaskKinds ==
  /\ Starting \cap (Complete \cup Approving \cup Restoring) = {}
  /\ Complete \cap (Approving \cup Restoring) = {}
  /\ Approving \cap Restoring = {}
  /\ (Deliver \cup Rejecting \cup {Nothing})
        \cap (Starting \cup Complete \cup Approving \cup Restoring) = {}
  BY NoneAssumption
  DEF Starting, Deliver, Complete, Rejecting, Approving, Restoring, ConfigTask

\* Deliveries, rejections and rest recall nothing.
LEMMA RecallNothing ==
  ASSUME NEW task \in Deliver \cup Rejecting \cup {Nothing}, NEW ans, NEW rels
  PROVE  Recalled(task, ans, rels)
  BY TaskKinds DEF Recalled

\* What is recalled stays so while answers and releases are only added.
LEMMA RecalledStays ==
  ASSUME NEW ans, NEW ans2, ans \subseteq ans2, NEW rels, NEW rels2,
         rels \subseteq rels2, NEW task, Recalled(task, ans, rels)
  PROVE  Recalled(task, ans2, rels2)
  BY DEF Recalled, Sound, SentIn

\* A step keeps the invariant if the rows are sound after it and one handler at
\* most has another task.
LEMMA StepKeeps ==
  ASSUME ConfigInv, ConfigTypeOK', answers \subseteq answers',
         releases \subseteq releases', Sound(proposal', answers'),
         \A r \in releases' \ releases : r.snapshot \in SentIn(answers),
         \/ doing' = doing
         \/ \E h \in Handler : \E task \in ConfigTask \cup {Nothing} :
                /\ doing' = [doing EXCEPT ![h] = task]
                /\ Recalled(task, answers', releases')
  PROVE  ConfigInv'
<1>1. \A r \in releases' : r.snapshot \in SentIn(answers')
  BY DEF ConfigInv, SentIn
<1>2. ASSUME NEW h \in Handler PROVE Recalled(doing'[h], answers', releases')
  <2>1. Recalled(doing[h], answers', releases')
    BY RecalledStays DEF ConfigInv
  <2>. QED  BY <2>1 DEF ConfigInv, ConfigTypeOK
<1>. QED  BY <1>1, <1>2 DEF ConfigInv

-----------------------------------------------------------------------------
(* The handlers *)

LEMMA InvStart ==
  ASSUME ConfigInv, NEW h \in Handler, NEW d \in Tablet, Start(h, d)
  PROVE  ConfigInv'
<1>. DEFINE task == [do |-> "start", saw |-> proposal,
                     request |-> [id |-> made + 1, device |-> d]]
<1>1. task \in Starting /\ made' \in 0 .. MaxRequest
  BY ConfigAssumption DEF ConfigInv, ConfigTypeOK, Start, Starting, ConfigRequest
<1>2. ConfigTypeOK'
  BY <1>1 DEF ConfigInv, ConfigTypeOK, Start, Begins, ConfigTask
<1>3. Recalled(task, answers', releases')
  BY <1>1, TaskKinds DEF ConfigInv, Start, Recalled, Sound, SentIn
<1>4. doing' = [doing EXCEPT ![h] = task]
  BY DEF Start, Begins
<1>. HIDE DEF task
<1>5. Sound(proposal', answers')
  BY DEF ConfigInv, Start, Sound, SentIn
<1>. QED
  BY <1>1, <1>2, <1>3, <1>4, <1>5, StepKeeps DEF Start, ConfigTask

\* The row of a request, new or written over one that is there.
LEMMA StartedRow ==
  ASSUME ConfigInv, NEW task \in Starting, Recalled(task, answers, releases),
         ProposalStarted(task.request, task.saw)
  PROVE  /\ proposal' \in Proposal
         /\ IF proposal'.state = "ready" THEN proposal'.snapshot \in SentIn(answers)
            ELSE proposal'.snapshot = Nothing
<1>1. task.request.id \in 1 .. MaxRequest /\ task.request.device \in Tablet
  BY DEF Starting, ConfigRequest
<1>2. CASE task.saw = Nothing
  BY <1>1, <1>2 DEF ProposalStarted, Requested, Proposal
<1>3. CASE task.saw # Nothing
  <2>1. task.saw \in Proposal /\ proposal \in Proposal
    BY <1>3 DEF ProposalStarted, Starting, ConfigInv, ConfigTypeOK
  <2>2. Sound(task.saw, answers) /\ Sound(proposal, answers)
    BY DEF Recalled, ConfigInv
  <2>3. proposal' = Written(task.saw, Requested(task.request))
    BY <1>3 DEF ProposalStarted
  <2>4. proposal # Nothing
    BY <1>3 DEF ProposalStarted
  <2>5. proposal' \in Proposal
    BY <1>1, <2>1, <2>3 DEF Written, Column, Requested, Proposal
  <2>6. /\ proposal'.state = Column(task.saw.state, "awaiting_device", proposal.state)
        /\ proposal'.snapshot = Column(task.saw.snapshot, Nothing, proposal.snapshot)
    BY <2>3 DEF Written, Requested
  <2>7. CASE task.saw.state = "awaiting_device"
    BY <1>3, <2>2, <2>4, <2>5, <2>6, <2>7 DEF Column, Sound
  <2>8. CASE task.saw.state # "awaiting_device"
    <3>1. task.saw.state = "ready" /\ task.saw.snapshot # Nothing
      BY <1>3, <2>1, <2>2, <2>8, ConfigAssumption
      DEF Sound, SentIn, Proposal, ConfigInv, ConfigTypeOK, Answer
    <3>. QED  BY <2>5, <2>6, <3>1 DEF Column
  <2>. QED  BY <2>7, <2>8
<1>. QED  BY <1>2, <1>3

LEMMA InvCommitStart ==
  ASSUME ConfigInv, NEW h \in Handler, CommitStart(h)
  PROVE  ConfigInv'
<1>. DEFINE task == [do |-> "deliver", request |-> doing[h].request]
<1>1. doing[h] \in Starting /\ Recalled(doing[h], answers, releases)
      /\ ProposalStarted(doing[h].request, doing[h].saw)
  BY DEF CommitStart, ConfigInv
<1>2. /\ proposal' \in Proposal
      /\ IF proposal'.state = "ready" THEN proposal'.snapshot \in SentIn(answers)
         ELSE proposal'.snapshot = Nothing
  BY <1>1, StartedRow
<1>3. task \in Deliver
  BY <1>1 DEF Starting, Deliver
<1>4. doing' = [doing EXCEPT ![h] = task]
  BY DEF CommitStart
<1>5. Recalled(task, answers', releases')
  BY <1>3, RecallNothing
<1>. HIDE DEF task
<1>6. ConfigTypeOK'
  BY <1>2, <1>3, <1>4 DEF CommitStart, ConfigInv, ConfigTypeOK, ConfigTask
<1>7. Sound(proposal', answers')
  BY <1>2 DEF CommitStart, Sound, SentIn
<1>. QED
  BY <1>3, <1>4, <1>5, <1>6, <1>7, StepKeeps DEF CommitStart, ConfigTask

\* A handler that ends, or is about to reject.
LEMMA InvRest ==
  ASSUME ConfigInv, NEW h \in Handler, NEW task \in Rejecting \cup {Nothing},
         doing' = [doing EXCEPT ![h] = task], ConfigTypeOK', Sound(proposal', answers'),
         answers \subseteq answers', releases \subseteq releases',
         \A r \in releases' \ releases : r.snapshot \in SentIn(answers)
  PROVE  ConfigInv'
<1>1. Recalled(task, answers', releases')
  BY RecallNothing
<1>. QED  BY <1>1, StepKeeps DEF ConfigTask

LEMMA InvDeliver ==
  ASSUME ConfigInv, NEW h \in Handler, Reach(h) \/ Unreachable(h)
  PROVE  ConfigInv'
<1>1. Sound(proposal', answers')
  BY DEF Reach, Unreachable, ConfigInv, Sound, SentIn
<1>2. CASE Reach(h)
  <2>1. ConfigTypeOK'
    BY <1>2 DEF Reach, Ends, ConfigInv, ConfigTypeOK, Deliver
  <2>. QED  BY <1>1, <1>2, <2>1, InvRest DEF Reach, Ends
<1>3. CASE Unreachable(h)
  <2>. DEFINE task == [do |-> "reject"]
  <2>1. task \in Rejecting
    BY DEF Rejecting
  <2>2. doing' = [doing EXCEPT ![h] = task]
    BY <1>3 DEF Unreachable
  <2>. HIDE DEF task
  <2>3. ConfigTypeOK'
    BY <1>3, <2>1, <2>2 DEF Unreachable, ConfigInv, ConfigTypeOK, ConfigTask
  <2>. QED  BY <1>1, <1>3, <2>1, <2>2, <2>3, InvRest DEF Unreachable
<1>. QED  BY <1>2, <1>3

LEMMA InvAnswer ==
  ASSUME ConfigInv, NEW request \in asked, NEW s \in Snapshot,
         AnswerRequest(request, s)
  PROVE  ConfigInv'
<1>. DEFINE a == [id |-> request.id, device |-> request.device, snapshot |-> s]
<1>1. a \in Answer
  BY DEF ConfigInv, ConfigTypeOK, ConfigRequest, Answer
<1>2. answers' = answers \cup {a}
  BY DEF AnswerRequest
<1>. HIDE DEF a
<1>3. ConfigTypeOK'
  BY <1>1, <1>2 DEF AnswerRequest, ConfigInv, ConfigTypeOK
<1>4. Sound(proposal', answers')
  BY <1>2 DEF AnswerRequest, ConfigInv, Sound, SentIn
<1>. QED  BY <1>2, <1>3, <1>4, StepKeeps DEF AnswerRequest

LEMMA InvReceive ==
  ASSUME ConfigInv, NEW h \in Handler, NEW a \in answers, ReceiveAnswer(h, a)
  PROVE  ConfigInv'
<1>. DEFINE task == [do |-> "complete", answer |-> a, saw |-> proposal]
<1>1. task \in Complete
  BY DEF ConfigInv, ConfigTypeOK, ReceiveAnswer, Awaited, Complete
<1>2. doing' = [doing EXCEPT ![h] = task]
  BY DEF ReceiveAnswer, Begins
<1>3. Sound(proposal', answers')
  BY DEF ReceiveAnswer, ConfigInv, Sound, SentIn
<1>4. Recalled(task, answers', releases')
  BY <1>1, TaskKinds
  DEF ReceiveAnswer, Awaited, ConfigInv, Recalled, Sound, SentIn
<1>. HIDE DEF task
<1>5. ConfigTypeOK'
  BY <1>1, <1>2 DEF ReceiveAnswer, ConfigInv, ConfigTypeOK, ConfigTask
<1>. QED
  BY <1>1, <1>2, <1>3, <1>4, <1>5, StepKeeps DEF ReceiveAnswer, ConfigTask

\* The answered row has the state and the snapshot of the answer.
LEMMA CompletedRow ==
  ASSUME ConfigInv, NEW task \in Complete, Recalled(task, answers, releases),
         ProposalCompleted(task.answer, task.saw)
  PROVE  /\ proposal' \in Proposal /\ proposal \in Proposal
         /\ proposal'.state = "ready"
         /\ proposal'.snapshot = task.answer.snapshot
         /\ proposal'.id = proposal.id /\ proposal'.device = proposal.device
         /\ task.answer \in answers /\ task.answer \in Answer
<1>1. /\ task.saw \in Proposal /\ task.answer \in Answer
      /\ proposal \in Proposal
  BY DEF Complete, ProposalCompleted, ConfigInv, ConfigTypeOK
<1>2. /\ task.saw.state = "awaiting_device" /\ task.saw.snapshot = Nothing
      /\ task.answer \in answers
  BY <1>1, NoneAssumption DEF Recalled, Sound
<1>3. task.answer.snapshot \in Snapshot /\ task.answer.snapshot # Nothing
  BY <1>1, ConfigAssumption DEF Answer
<1>4. proposal' = Written(task.saw, [task.saw EXCEPT !.state = "ready",
                                        !.snapshot = task.answer.snapshot])
  BY DEF ProposalCompleted
<1>. QED  BY <1>1, <1>2, <1>3, <1>4 DEF Written, Column, Proposal

LEMMA InvComplete ==
  ASSUME ConfigInv, NEW h \in Handler, CompleteProposal(h)
  PROVE  ConfigInv'
<1>1. doing[h] \in Complete /\ Recalled(doing[h], answers, releases)
      /\ ProposalCompleted(doing[h].answer, doing[h].saw)
  BY DEF CompleteProposal, ConfigInv
<1>2. /\ proposal' \in Proposal /\ proposal'.state = "ready"
      /\ proposal'.snapshot = doing[h].answer.snapshot
      /\ doing[h].answer \in answers
  BY <1>1, CompletedRow
<1>3. ConfigTypeOK'
  BY <1>2 DEF CompleteProposal, Ends, ConfigInv, ConfigTypeOK
<1>4. Sound(proposal', answers')
  BY <1>2 DEF CompleteProposal, Sound, SentIn
<1>. QED  BY <1>3, <1>4, InvRest DEF CompleteProposal, Ends

LEMMA InvApprove ==
  ASSUME ConfigInv, NEW h \in Handler, ApproveProposal(h)
  PROVE  ConfigInv'
<1>. DEFINE task == [do |-> "approve", version |-> now, was |-> current,
                     saw |-> proposal]
<1>1. task \in Approving
  BY DEF ConfigInv, ConfigTypeOK, ApproveProposal, Approvable, Approving
<1>2. doing' = [doing EXCEPT ![h] = task]
  BY DEF ApproveProposal, Begins
<1>3. Sound(proposal', answers')
  BY DEF ApproveProposal, ConfigInv, Sound, SentIn
<1>4. Recalled(task, answers', releases')
  BY <1>1, TaskKinds
  DEF ApproveProposal, Approvable, ConfigInv, Recalled, Sound, SentIn
<1>. HIDE DEF task
<1>5. ConfigTypeOK'
  BY <1>1, <1>2 DEF ApproveProposal, ConfigInv, ConfigTypeOK, ConfigTask
<1>. QED
  BY <1>1, <1>2, <1>3, <1>4, <1>5, StepKeeps DEF ApproveProposal, ConfigTask

LEMMA InvCommitApproval ==
  ASSUME ConfigInv, NEW h \in Handler, CommitApproval(h)
  PROVE  ConfigInv'
<1>. DEFINE row == [version |-> doing[h].version,
                    device |-> doing[h].saw.device,
                    snapshot |-> doing[h].saw.snapshot]
<1>1. doing[h] \in Approving /\ Recalled(doing[h], answers, releases)
      /\ ProposalApproved(doing[h])
  BY DEF CommitApproval, ConfigInv
<1>2. doing[h].saw \in Proposal /\ doing[h].version \in 1 .. MaxVersion
  BY <1>1 DEF Approving
<1>3. doing[h].saw.snapshot \in SentIn(answers)
  BY <1>1, <1>2, NoneAssumption DEF Recalled, Sound
<1>4. row \in Release
  BY <1>2, <1>3 DEF Release, Proposal, SentIn, ConfigInv, ConfigTypeOK, Answer
<1>5. releases' = releases \cup {row} /\ proposal' = Nothing
  BY <1>1 DEF ProposalApproved
<1>6. current' \in 0 .. MaxVersion
  BY <1>1, <1>2 DEF ProposalApproved, CurrentWritten, Column, ConfigInv, ConfigTypeOK
<1>7. row.snapshot = doing[h].saw.snapshot
  OBVIOUS
<1>. HIDE DEF row
<1>8. ConfigTypeOK'
  BY <1>4, <1>5, <1>6 DEF CommitApproval, Ends, ConfigInv, ConfigTypeOK
<1>9. Sound(proposal', answers')
  BY <1>5 DEF Sound
<1>. QED  BY <1>3, <1>5, <1>7, <1>8, <1>9, InvRest DEF CommitApproval, Ends

LEMMA InvReject ==
  ASSUME ConfigInv, NEW h \in Handler,
         RejectProposal(h) \/ CommitRejection(h) \/ GiveUp(h)
  PROVE  ConfigInv'
<1>. DEFINE task == [do |-> "reject"]
<1>1. task \in Rejecting
  BY DEF Rejecting
<1>2. doing' = [doing EXCEPT ![h] = task] \/ doing' = [doing EXCEPT ![h] = Nothing]
  BY DEF RejectProposal, CommitRejection, GiveUp, Begins, Ends
<1>. HIDE DEF task
<1>3. ConfigTypeOK'
  BY <1>1, <1>2
  DEF RejectProposal, CommitRejection, GiveUp, ConfigInv, ConfigTypeOK, ConfigTask
<1>4. Sound(proposal', answers')
  BY DEF RejectProposal, CommitRejection, GiveUp, ConfigInv, Sound, SentIn
<1>. QED
  BY <1>1, <1>2, <1>3, <1>4, InvRest DEF RejectProposal, CommitRejection, GiveUp

LEMMA InvRestore ==
  ASSUME ConfigInv, NEW h \in Handler, NEW v \in 1 .. MaxVersion,
         RestoreRelease(h, v)
  PROVE  ConfigInv'
<1>. DEFINE task == [do |-> "restore", version |-> v, was |-> current]
<1>1. task \in Restoring
  BY DEF ConfigInv, ConfigTypeOK, Restoring
<1>2. doing' = [doing EXCEPT ![h] = task]
  BY DEF RestoreRelease, Begins
<1>3. Sound(proposal', answers')
  BY DEF RestoreRelease, ConfigInv, Sound, SentIn
<1>4. Recalled(task, answers', releases')
  BY <1>1, TaskKinds DEF RestoreRelease, Recalled, Versions
<1>. HIDE DEF task
<1>5. ConfigTypeOK'
  BY <1>1, <1>2 DEF RestoreRelease, ConfigInv, ConfigTypeOK, ConfigTask
<1>. QED
  BY <1>1, <1>2, <1>3, <1>4, <1>5, StepKeeps DEF RestoreRelease, ConfigTask

LEMMA InvCommitRestore ==
  ASSUME ConfigInv, NEW h \in Handler, CommitRestore(h)
  PROVE  ConfigInv'
<1>1. doing[h] \in Restoring /\ CurrentWritten(doing[h])
  BY DEF CommitRestore
<1>2. current' \in 0 .. MaxVersion
  BY <1>1 DEF Restoring, CurrentWritten, Column, ConfigInv, ConfigTypeOK
<1>3. ConfigTypeOK'
  BY <1>2 DEF CommitRestore, Ends, ConfigInv, ConfigTypeOK
<1>4. Sound(proposal', answers')
  BY DEF CommitRestore, ConfigInv, Sound, SentIn
<1>. QED  BY <1>3, <1>4, InvRest DEF CommitRestore, Ends

LEMMA InvPass ==
  ASSUME ConfigInv, Pass
  PROVE  ConfigInv'
<1>1. now' \in 1 .. MaxVersion
  BY ConfigAssumption DEF Pass, ConfigInv, ConfigTypeOK
<1>2. ConfigTypeOK'
  BY <1>1 DEF Pass, ConfigInv, ConfigTypeOK
<1>3. Sound(proposal', answers')
  BY DEF Pass, ConfigInv, Sound, SentIn
<1>. QED  BY <1>2, <1>3, StepKeeps DEF Pass

LEMMA InvNext == ConfigInv /\ [ConfigNext]_configVars => ConfigInv'
<1>. SUFFICES ASSUME ConfigInv, [ConfigNext]_configVars PROVE ConfigInv'
  OBVIOUS
<1>1. CASE UNCHANGED configVars
  <2>1. ConfigTypeOK' /\ Sound(proposal', answers')
    BY <1>1 DEF configVars, ConfigInv, ConfigTypeOK, Sound, SentIn
  <2>. QED  BY <1>1, <2>1, StepKeeps DEF configVars
<1>2. CASE Pass
  BY <1>2, InvPass
<1>3. CASE \E request \in asked, s \in Snapshot : AnswerRequest(request, s)
  BY <1>3, InvAnswer
<1>4. ASSUME NEW h \in Handler,
             \/ CommitStart(h) \/ Reach(h) \/ Unreachable(h) \/ CompleteProposal(h)
             \/ ApproveProposal(h) \/ CommitApproval(h) \/ RejectProposal(h)
             \/ CommitRejection(h) \/ CommitRestore(h) \/ GiveUp(h)
      PROVE  ConfigInv'
  BY <1>4, InvCommitStart, InvDeliver, InvComplete, InvApprove,
     InvCommitApproval, InvReject, InvCommitRestore
<1>5. ASSUME NEW h \in Handler,
             \/ \E d \in Tablet : Start(h, d)
             \/ \E a \in answers : ReceiveAnswer(h, a)
             \/ \E v \in 1 .. MaxVersion : RestoreRelease(h, v)
      PROVE  ConfigInv'
  BY <1>5, InvStart, InvReceive, InvRestore
<1>. QED  BY <1>1, <1>2, <1>3, <1>4, <1>5 DEF ConfigNext

LEMMA ConfigInvariance == ConfigSpec => []ConfigInv
  BY InitConfig, InvNext, PTL DEF ConfigSpec

-----------------------------------------------------------------------------
(* The theorems *)

\* All rows, messages and tasks of the proposals' methods have their types.
THEOREM ConfigTypeCorrect == ConfigSpec => []ConfigTypeOK
<1>1. ConfigInv => ConfigTypeOK
  BY DEF ConfigInv
<1>. QED  BY <1>1, ConfigInvariance, PTL

\* However start_, complete_ and approve_organization_config_proposal overlap,
\* none of which locks the row, no proposal is ready without a snapshot that a
\* tablet has sent, and none but such is published.
THEOREM PublishedWereSent == ConfigSpec => []SnapshotsWereSent
  BY InvSent, ConfigInvariance, PTL

\* What a step does to a proposal.
LEMMA RowSteps ==
  ASSUME ConfigInv, ConfigNext, proposal' # proposal
  PROVE  \/ proposal' = Nothing
         \/ \E h \in Handler : CommitStart(h) \/ CompleteProposal(h)
  BY DEF ConfigNext, Pass, AnswerRequest, Reach, Unreachable, ApproveProposal,
         CommitApproval, ProposalApproved, RejectProposal, CommitRejection,
         CommitRestore, GiveUp, Start, ReceiveAnswer, RestoreRelease

\* Of what is under review and was sent for by its request nothing else is made
\* unless the writing start_organization_config_proposal or
\* complete_organization_config_proposal was overtaken.
THEOREM PublishedAsAnswered == ConfigSpec => AnsweredByItsDevice
<1>1. ConfigInv /\ [ConfigNext]_configVars =>
        [Answered =>
            \/ Answered'
            \/ \E h \in Handler :
                Belated(h) /\ (CommitStart(h) \/ CompleteProposal(h))]_configVars
  <2>. SUFFICES ASSUME ConfigInv, ConfigNext, Answered,
                       \A h \in Handler : CommitStart(h) \/ CompleteProposal(h) =>
                            ~Belated(h)
                PROVE  Answered'
    OBVIOUS
  <2>1. answers \subseteq answers'
    BY DEF ConfigNext, Pass, AnswerRequest, Reach, Unreachable, ApproveProposal,
           CommitApproval, RejectProposal, CommitRejection, CommitStart,
           CompleteProposal, CommitRestore, GiveUp, Start, ReceiveAnswer,
           RestoreRelease
  <2>2. CASE proposal' \in {proposal, Nothing}
    BY <2>1, <2>2 DEF Answered
  <2>3. ASSUME NEW h \in Handler, CommitStart(h)
        PROVE  Answered'
    <3>1. doing[h] \in Starting /\ doing[h].saw = proposal
          /\ ProposalStarted(doing[h].request, doing[h].saw)
      BY <2>3 DEF CommitStart, Belated
    <3>2. proposal'.state = "awaiting_device"
      BY <3>1 DEF ProposalStarted, Requested, Written, Column
    <3>. QED  BY <3>2 DEF Answered
  <2>4. ASSUME NEW h \in Handler, CompleteProposal(h)
        PROVE  Answered'
    <3>1. /\ doing[h] \in Complete /\ doing[h].saw = proposal
          /\ ProposalCompleted(doing[h].answer, doing[h].saw)
          /\ Recalled(doing[h], answers, releases)
      BY <2>4 DEF CompleteProposal, Belated, ConfigInv
    <3>2. /\ proposal'.snapshot = doing[h].answer.snapshot
          /\ proposal'.id = proposal.id /\ proposal'.device = proposal.device
          /\ doing[h].answer \in answers /\ doing[h].answer \in Answer
      BY <3>1, CompletedRow
    <3>3. proposal.id = doing[h].answer.id /\ proposal.device = doing[h].answer.device
      BY <3>1 DEF Recalled
    <3>4. doing[h].answer =
            [id |-> proposal'.id, device |-> proposal'.device,
             snapshot |-> proposal'.snapshot]
      BY <3>2, <3>3 DEF Answer
    <3>. QED  BY <2>1, <3>2, <3>4 DEF Answered
  <2>. QED  BY <2>2, <2>3, <2>4, RowSteps
<1>. QED  BY <1>1, ConfigInvariance, PTL DEF ConfigSpec, AnsweredByItsDevice

\* Under review a proposal is replaced by start_organization_config_proposal
\* only, or by a complete_organization_config_proposal that was overtaken;
\* releases are never taken back, and the current version is one of them.
THEOREM ReviewedKept == ConfigSpec => ReviewedStays
<1>. DEFINE Kept ==
        /\ Approvable /\ proposal' \notin {proposal, Nothing} =>
            \E h \in Handler :
                CommitStart(h) \/ (Belated(h) /\ CompleteProposal(h))
        /\ releases \subseteq releases'
        /\ current' # current => current' \in {r.version : r \in releases'}
<1>1. ConfigInv /\ [ConfigNext]_configVars => [Kept]_configVars
  <2>. SUFFICES ASSUME ConfigInv, ConfigNext PROVE Kept
    OBVIOUS
  <2>1. ASSUME Approvable, proposal' \notin {proposal, Nothing},
               NEW h \in Handler, CompleteProposal(h)
        PROVE  Belated(h)
    <3>1. doing[h] \in Complete /\ Recalled(doing[h], answers, releases)
      BY <2>1 DEF CompleteProposal, ConfigInv
    <3>2. doing[h].saw.state = "awaiting_device" /\ proposal.state = "ready"
      BY <2>1, <3>1 DEF Recalled, Approvable
    <3>. QED  BY <3>1, <3>2 DEF Belated
  <2>2. Approvable /\ proposal' \notin {proposal, Nothing} =>
            \E h \in Handler :
                CommitStart(h) \/ (Belated(h) /\ CompleteProposal(h))
    BY <2>1, RowSteps
  <2>3. releases \subseteq releases'
    BY DEF ConfigNext, Pass, AnswerRequest, Reach, Unreachable, ApproveProposal,
           CommitApproval, ProposalApproved, RejectProposal, CommitRejection,
           CommitStart, CompleteProposal, CommitRestore, GiveUp, Start,
           ReceiveAnswer, RestoreRelease
  <2>4. ASSUME current' # current
        PROVE  current' \in {r.version : r \in releases'}
    <3>1. PICK h \in Handler : CommitApproval(h) \/ CommitRestore(h)
      BY <2>4
      DEF ConfigNext, Pass, AnswerRequest, Reach, Unreachable, ApproveProposal,
          RejectProposal, CommitRejection, CommitStart, CompleteProposal,
          GiveUp, Start, ReceiveAnswer, RestoreRelease
    <3>2. current' = doing[h].version
      BY <2>4, <3>1
      DEF CommitApproval, ProposalApproved, CommitRestore, CurrentWritten, Column
    <3>3. CASE CommitApproval(h)
      <4>1. \E r \in releases' : r.version = doing[h].version
        <5>. DEFINE row == [version |-> doing[h].version,
                            device |-> doing[h].saw.device,
                            snapshot |-> doing[h].saw.snapshot]
        <5>1. row \in releases' /\ row.version = doing[h].version
          BY <3>3 DEF CommitApproval, ProposalApproved
        <5>. QED  BY <5>1
      <4>. QED  BY <3>2, <4>1
    <3>4. CASE CommitRestore(h)
      <4>1. \E r \in releases : r.version = doing[h].version
        BY <3>4 DEF CommitRestore, ConfigInv, Recalled
      <4>. QED  BY <2>3, <3>2, <4>1
    <3>. QED  BY <3>1, <3>3, <3>4
  <2>. QED  BY <2>2, <2>3, <2>4
<1>2. [][Kept]_configVars => ReviewedStays
  BY PTL DEF ReviewedStays, Kept
<1>. HIDE DEF Kept
<1>. QED  BY <1>1, <1>2, ConfigInvariance, PTL DEF ConfigSpec
=============================================================================
