-------------------------- MODULE DeviceCredentials --------------------------
(***************************************************************************)
(* The tablets of one organization: the enrollment QR codes its            *)
(* administrators print, the credentials tablets get for scanning them,    *)
(* and how a credential is blocked, signed in again, extended, replaced    *)
(* and retired.                                                            *)
(*                                                                         *)
(* Campaigns and credentials are kept in the order of their creation.      *)
(* Every tablet's app has an installation id (apps from before there were  *)
(* any are left out), and all tablets are of one model.  Hours and years   *)
(* pass unseen: a row whose time is over may be found so, and changed, at  *)
(* any time.                                                               *)
(*                                                                         *)
(* A page's handler makes sure that the organization is not archived, and  *)
(* then calls a method of the store, in another transaction.  Methods for  *)
(* one credential read its row without a lock, check what they have read   *)
(* and write the columns they have changed, and others commit in between;  *)
(* a change of policy and an enrollment hold a lock meanwhile, on the      *)
(* organization and on the campaign.  The other methods lock all they      *)
(* work on, and are one step.                                              *)
(***************************************************************************)
EXTENDS Integers, Sequences, FiniteSets, StoreRows

CONSTANTS
    PageHandler,      \* requests of pages and tablets that overlap others
    Installation,    \* installation ids of the app; a tablet may reinstall it
    Member,          \* users with the r2c_device role
    Limits,          \* max_redemptions of campaigns, as administrators choose
    MaxCampaigns,    \* bound on the campaigns ever created
    MaxCredentials,  \* bound on the credentials ever issued
    Nobody

ASSUME DeviceAssumption ==
    /\ Limits \subseteq 1 .. 500 /\ {MaxCampaigns, MaxCredentials} \subseteq Nat
    /\ Nobody \notin Member

VARIABLES
    open,            \* the organization is not archived
    policy,          \* Organization.device_access_policy
    campaigns,       \* EnrollmentCampaign rows
    creds,           \* DeviceCredential rows
    working          \* [PageHandler -> what it is doing]

deviceVars == <<open, policy, campaigns, creds, working>>

Policy == {"member_verified", "qr_managed"}
CredState == {"active", "expired", "reauth_required", "superseded", "revoked"}
Campaign ==
    [state : {"active", "superseded", "revoked", "expired", "exhausted"},
     used : 0 .. 500, limit : Limits]
Credential ==
    [of : Installation, campaign : 1 .. MaxCampaigns, state : CredState,
     member : Member \cup {Nobody}]

\* What a handler is doing: its page is open to it, or its method has read a
\* row and will write a state and a member, or the policy, with or without the
\* lock, or it holds a campaign.
AtRest == [do |-> "nothing"]
Page == [do |-> "page"]
RowTask ==
    [do : {"block", "retire", "extend", "complete", "late", "replace"},
     cred : 1 .. MaxCredentials, saw : Credential, state : CredState,
     member : Member \cup {Nobody}]
PolicyRead == [do : {"policy"}, was : Policy, to : Policy]
PolicyTask ==
    [do : {"set"}, was : Policy, to : Policy, ids : SUBSET (1 .. MaxCredentials)]
IssueTask ==
    [do : {"issue"}, campaign : 1 .. MaxCampaigns, of : Installation,
     policy : Policy, ids : SUBSET (1 .. MaxCredentials)]

DeviceTypeOK ==
    /\ open \in BOOLEAN /\ policy \in Policy
    /\ campaigns \in Seq(Campaign) /\ Len(campaigns) <= MaxCampaigns
    /\ creds \in Seq(Credential) /\ Len(creds) <= MaxCredentials
    /\ \A i \in DOMAIN creds : creds[i].campaign \in DOMAIN campaigns
    /\ working \in [PageHandler -> {AtRest, Page} \cup RowTask \cup PolicyRead
                                    \cup PolicyTask \cup IssueTask]

Campaigns == DOMAIN campaigns
Creds == DOMAIN creds

\* Credentials that work, or will again when extended or signed in.
Pending(row) == row.state \in {"active", "expired", "reauth_required"}

\* Nobody holds the organization's row, or that of campaign c.
OrgFree == \A h \in PageHandler : working[h] \notin PolicyTask
CampaignFree(c) ==
    \A h \in PageHandler : working[h] \in IssueTask => working[h].campaign # c
ActiveFree == \A c \in Campaigns : campaigns[c].state = "active" => CampaignFree(c)

-----------------------------------------------------------------------------
(* Rows *)

Superseded(row) ==
    IF Pending(row) THEN [row EXCEPT !.state = "superseded"] ELSE row

\* The credentials after a new or renewed QR: under an open enrollment every
\* tablet has to scan it.
Cleared ==
    [i \in Creds |-> IF policy = "qr_managed" THEN Superseded(creds[i])
                     ELSE creds[i]]

\* At most one campaign is active.
OthersSuperseded(c) ==
    [d \in Campaigns |->
        IF d # c /\ campaigns[d].state = "active"
        THEN [campaigns[d] EXCEPT !.state = "superseded"] ELSE campaigns[d]]

\* Under member_verified nobody's active credentials are blocked.
Unverified(row) == row.state = "active" /\ row.member = Nobody

\* Fault: whatever is not revoked is renewable.
RenewableOld(row) == row.state # "revoked"

RenewableCred(row) == row.state \in {"active", "expired"}

\* Fault: the last use leaves the campaign active.
RedeemedOpen(campaign) ==
    [campaign EXCEPT !.used = @ + 1,
                     !.state = IF campaign.used >= campaign.limit
                               THEN "exhausted" ELSE @]

\* A campaign that is redeemed once more.
Redeemed(campaign) ==
    [campaign EXCEPT !.used = @ + 1,
                     !.state = IF campaign.used + 1 >= campaign.limit
                               THEN "exhausted" ELSE @]

-----------------------------------------------------------------------------
DeviceInit ==
    /\ open = TRUE /\ policy = "member_verified"
    /\ campaigns = << >> /\ creds = << >>
    /\ working = [h \in PageHandler |-> AtRest]

\* require_organization_user lets an administrator, or a member, in.
Admit(h) ==
    /\ working[h] = AtRest /\ open
    /\ working' = [working EXCEPT ![h] = Page]
    /\ UNCHANGED <<open, policy, campaigns, creds>>

\* A handler is refused, or lost with its transaction.
Quit(h) ==
    /\ working[h] # AtRest /\ working' = [working EXCEPT ![h] = AtRest]
    /\ UNCHANGED <<open, policy, campaigns, creds>>

\* A method of one step is called from a page: by a handler that was let in,
\* or by one that nothing overlaps.
FromPage ==
    /\ UNCHANGED <<open, policy>>
    /\ \/ open /\ UNCHANGED working
       \/ \E h \in PageHandler :
            /\ working[h] = Page
            /\ working' = [working EXCEPT ![h] = AtRest]

-----------------------------------------------------------------------------
(* Campaigns *)

\* create_enrollment_campaign
CampaignCreated(limit) ==
    /\ OrgFree /\ ActiveFree
    /\ campaigns' = Append(OthersSuperseded(0),
            [state |-> "active", used |-> 0, limit |-> limit])
    /\ creds' = Cleared

CreateCampaign(limit) ==
    /\ Len(campaigns) < MaxCampaigns /\ CampaignCreated(limit) /\ FromPage

\* revoke_enrollment_campaign, in whatever state it is
RevokeCampaign(c) ==
    /\ OrgFree /\ CampaignFree(c)
    /\ campaigns' = [campaigns EXCEPT ![c].state = "revoked"]
    /\ UNCHANGED creds /\ FromPage

Renewable(c) ==
    campaigns[c].state # "revoked" /\ campaigns[c].used < campaigns[c].limit

\* renew_enrollment_campaign: copies printed before carry another generation.
CampaignRenewed(c) ==
    /\ OrgFree /\ CampaignFree(c) /\ ActiveFree /\ Renewable(c)
    /\ campaigns' = [OthersSuperseded(c) EXCEPT ![c].state = "active"]
    /\ creds' = Cleared

RenewCampaign(c) == CampaignRenewed(c) /\ FromPage

\* extend_all_device_credentials, which locks them
AllExtended ==
    /\ \E i \in Creds : creds[i].state \in {"active", "expired"}
    /\ creds' = [i \in Creds |->
            IF creds[i].state \in {"active", "expired"}
            THEN [creds[i] EXCEPT !.state = "active"] ELSE creds[i]]

ExtendAll == AllExtended /\ UNCHANGED campaigns /\ FromPage

-----------------------------------------------------------------------------
(* What methods read, and will write *)

\* The method do has read credential i, and gives it a state and a member.
Reading(do, i, state, member) ==
    [do |-> do, cred |-> i, saw |-> creds[i], state |-> state, member |-> member]

\* require_device_reauthentication, whatever state the row is in
Block ==
    {Reading("block", i, "reauth_required", creds[i].member) : i \in Creds}

\* retire_device_credential
Retire ==
    {Reading("retire", i, "revoked", creds[i].member) :
        i \in {k \in Creds : creds[k].state \notin {"revoked", "superseded"}}}

\* extend_device_credential
Extend ==
    {Reading("extend", i, "active", creds[i].member) :
        i \in {k \in Creds : RenewableCred(creds[k])}}

\* complete_device_reauthentication, of a member who just signed in
CompleteReauthentication ==
    {Reading("complete", p[1], "active", p[2]) :
        p \in {q \in Creds \X Member :
                /\ creds[q[1]].state = "reauth_required"
                /\ creds[q[1]].member \in {Nobody, q[2]}}}

\* authenticate_device_token, of a credential whose year is over
AuthenticateLate ==
    {Reading("late", i, "expired", creds[i].member) :
        i \in {k \in Creds : creds[k].state = "active"}}

\* j is an earlier authorization of the tablet that has i now.
Replaceable(i, j) ==
    /\ creds[i].state = "active" /\ creds[i].member # Nobody
    /\ j < i /\ creds[j].member = creds[i].member
    /\ creds[j].of # creds[i].of /\ Pending(creds[j])

\* replace_device_authorization.  Streams and recordings that come along are
\* in other modules.
Replace ==
    {Reading("replace", j, "superseded", creds[j].member) :
        j \in {k \in Creds : \E i \in Creds : Replaceable(i, k)}}

\* update_device_access_policy; update_settings does the same.
SetPolicy == [do : {"policy"}, was : {policy}, to : Policy]

Usable(c) ==
    campaigns[c].state = "active" /\ campaigns[c].used < campaigns[c].limit

\* Fault: only the credentials that work at the moment make way.
EarlierActive(t) == {i \in Creds : creds[i].of = t /\ creds[i].state = "active"}

\* The installation's earlier credentials, which are to make way.
Earlier(t) == {i \in Creds : creds[i].of = t /\ Pending(creds[i])}

\* issue_device_credential, of a tablet that scans the QR, or does so again
\* since the answer was lost
Issue ==
    {[do |-> "issue", campaign |-> p[1], of |-> p[2], policy |-> policy,
      ids |-> Earlier(p[2])] :
        p \in {q \in Campaigns \X Installation :
                /\ Len(creds) < MaxCredentials
                /\ CampaignFree(q[1]) /\ Usable(q[1])}}

OfPages == Block \cup Retire \cup Extend \cup CompleteReauthentication \cup SetPolicy
OfTablets == AuthenticateLate \cup Replace \cup Issue

\* A method has read what it needs.
Read(h) ==
    LET Takes(readings) == \E task \in readings : working' = [working EXCEPT ![h] = task]
    IN
    /\ \/ working[h] = Page /\ Takes(OfPages)
       \/ working[h] = AtRest /\ Takes(OfTablets)
    /\ UNCHANGED <<open, policy, campaigns, creds>>

\* The change of policy is flushed, which locks the organization, and the
\* credentials it blocks are looked up.
Locked(task) ==
    [do |-> "set", was |-> task.was, to |-> task.to,
     ids |-> IF task.to = "member_verified"
             THEN {i \in Creds : Unverified(creds[i])} ELSE {}]

Lock(h) ==
    /\ working[h] \in PolicyRead /\ OrgFree
    /\ working' = [working EXCEPT ![h] = Locked(working[h])]
    /\ UNCHANGED <<open, policy, campaigns, creds>>

-----------------------------------------------------------------------------
(* What they write *)

\* The row's state and member, as far as they have changed.  A replacement
\* waits for the organization.
RowWritten(task) ==
    /\ task \in RowTask /\ (task.do = "replace" => OrgFree)
    /\ creds' = [creds EXCEPT
            ![task.cred].state = Column(task.saw.state, task.state, @),
            ![task.cred].member = Column(task.saw.member, task.member, @)]
    /\ UNCHANGED <<policy, campaigns>>

\* The credentials looked up are blocked, whatever they have become.
PolicyWritten(task) ==
    /\ task \in PolicyTask
    /\ policy' = Column(task.was, task.to, policy)
    /\ creds' = [i \in Creds |-> IF i \in task.ids
            THEN [creds[i] EXCEPT !.state = "reauth_required"] ELSE creds[i]]
    /\ UNCHANGED campaigns

\* The installation's earlier ones make way for the new one.
CredentialIssued(task) ==
    /\ task \in IssueTask /\ Len(creds) < MaxCredentials
    /\ campaigns' = [campaigns EXCEPT ![task.campaign] = Redeemed(@)]
    /\ creds' = Append([i \in Creds |->
                IF i \in task.ids THEN [creds[i] EXCEPT !.state = "superseded"]
                ELSE creds[i]],
            [of |-> task.of, campaign |-> task.campaign, member |-> Nobody,
             state |-> IF task.policy = "member_verified" THEN "reauth_required"
                       ELSE "active"])
    /\ UNCHANGED policy

Committed(task) == RowWritten(task) \/ PolicyWritten(task) \/ CredentialIssued(task)

Finish(h) ==
    /\ Committed(working[h]) /\ working' = [working EXCEPT ![h] = AtRest]
    /\ UNCHANGED open

\* A method that nothing overlaps.
AtOnce ==
    /\ \/ /\ open
          /\ \E task \in OfPages :
              IF task \in PolicyRead THEN OrgFree /\ Committed(Locked(task))
              ELSE Committed(task)
       \/ \E task \in OfTablets : Committed(task)
    /\ UNCHANGED <<open, working>>

\* issue_device_credential, of a QR whose hours are over
IssueLate(c) ==
    /\ campaigns[c].state = "active" /\ CampaignFree(c)
    /\ campaigns' = [campaigns EXCEPT ![c].state = "expired"]
    /\ UNCHANGED <<open, policy, creds, working>>

-----------------------------------------------------------------------------
(* The organization *)

\* Fault: the QR code stays.
KeptAtArchival == campaigns

\* Fault: campaigns get the organization's state, which no method knows.
ArchivedToo ==
    [c \in Campaigns |-> [campaigns[c] EXCEPT !.state = "archived"]]

RevokedAtArchival ==
    [c \in Campaigns |-> IF campaigns[c].state = "active"
        THEN [campaigns[c] EXCEPT !.state = "revoked"] ELSE campaigns[c]]

\* archive_organization, what it does to campaigns and credentials.  Its
\* updates wait for whoever holds the organization or an active campaign.
ArchiveDevices ==
    /\ open /\ open' = FALSE
    /\ OrgFree /\ ActiveFree
    /\ campaigns' = RevokedAtArchival
    /\ creds' = [i \in Creds |-> IF creds[i].state = "active"
            THEN [creds[i] EXCEPT !.state = "revoked"] ELSE creds[i]]
    /\ UNCHANGED <<policy, working>>

\* unarchive_organization
UnarchiveDevices ==
    /\ ~open /\ OrgFree /\ open' = TRUE
    /\ UNCHANGED <<policy, campaigns, creds, working>>

-----------------------------------------------------------------------------
(* initialize, when an instance starts; the one before it may be at work *)

\* The later campaign, or credential, of two is kept.
DuplicateCampaign(c) ==
    /\ campaigns[c].state = "active"
    /\ \E d \in Campaigns : d > c /\ campaigns[d].state = "active"

CampaignsAtStart ==
    [c \in Campaigns |-> IF DuplicateCampaign(c)
        THEN [campaigns[c] EXCEPT !.state = "superseded"] ELSE campaigns[c]]

VerifiedAtStart ==
    [i \in Creds |->
        IF policy = "qr_managed" /\ DuplicateCampaign(creds[i].campaign)
        THEN Superseded(creds[i])
        ELSE IF policy = "member_verified" /\ Unverified(creds[i])
        THEN [creds[i] EXCEPT !.state = "reauth_required"] ELSE creds[i]]

Restart ==
    /\ campaigns' = CampaignsAtStart
    /\ creds' = [i \in Creds |->
            IF \E j \in Creds : /\ j > i /\ creds[j].of = creds[i].of
                                /\ Pending(VerifiedAtStart[j])
            THEN Superseded(VerifiedAtStart[i]) ELSE VerifiedAtStart[i]]
    /\ UNCHANGED <<open, policy, working>>

-----------------------------------------------------------------------------
DeviceNext ==
    \/ AtOnce \/ ExtendAll \/ ArchiveDevices \/ UnarchiveDevices \/ Restart
    \/ \E h \in PageHandler : Admit(h) \/ Quit(h) \/ Read(h) \/ Lock(h) \/ Finish(h)
    \/ \E limit \in Limits : CreateCampaign(limit)
    \/ \E c \in Campaigns : RevokeCampaign(c) \/ RenewCampaign(c) \/ IssueLate(c)

DeviceSpec == DeviceInit /\ [][DeviceNext]_deviceVars

-----------------------------------------------------------------------------
(* Properties *)

\* Credential i is brought back: an administrator blocks it, whatever its state
\* is, or a handler commits a method that found it pending when it read it.
Revives(task, i) ==
    \/ task \in RowTask /\ task.cred = i /\ (task.do = "block" \/ Pending(task.saw))
    \/ task \in PolicyTask /\ i \in task.ids
Revived(i) ==
    \/ \E task \in Block : task.cred = i /\ RowWritten(task)
    \/ \E h \in PageHandler : Finish(h) /\ Revives(working[h], i)

\* A retired or replaced authorization works or waits again in these two ways
\* only.  Extensions, enrollments, campaigns, late sign-ins, policies,
\* archivals and restarts, in any order, do not bring it back.
RetiredForGood ==
    [][\A i \in Creds : ~Pending(creds[i]) /\ Pending(creds'[i]) => Revived(i)
      ]_deviceVars

Twins(i, j) ==
    i < j /\ creds[i].of = creds[j].of /\ Pending(creds[i]) /\ Pending(creds[j])

\* A tablet comes to two credentials that work or wait in two cases only: one of
\* them is brought back, as above, or an enrollment commits that was overlapped
\* by another one of the tablet or by what brought one back.  However it
\* enrolls again, is blocked, signs in or is extended, nothing else leaves it
\* with two.
OneLivePerInstallation ==
    [][\A i, j \in DOMAIN creds' :
        Twins(i, j)' =>
            \/ /\ {i, j} \subseteq Creds
               /\ Twins(i, j) \/ Revived(i) \/ Revived(j)
            \/ \E h \in PageHandler :
                /\ Finish(h) /\ working[h] \in IssueTask
                /\ working[h].ids # Earlier(working[h].of)]_deviceVars

\* One QR is valid at a time, it has uses left, and no campaign, renewed or
\* not, has given out more credentials than its limit or lost count of them.
CampaignsKeepCount ==
    /\ \A c, d \in Campaigns :
        campaigns[c].state = "active" /\ campaigns[d].state = "active" => c = d
    /\ \A c \in Campaigns :
        /\ campaigns[c].used =
                Cardinality({i \in Creds : creds[i].campaign = c})
        /\ campaigns[c].used <= campaigns[c].limit
        /\ campaigns[c].state = "active" => Usable(c)

\* Nothing the organization has given out enrolls or admits a tablet.
Off ==
    /\ \A c \in Campaigns : campaigns[c].state # "active"
    /\ \A i \in Creds : creds[i].state # "active"

\* A handler let in before ends by turning something on.
FromOpen(h) ==
    /\ working[h] = Page \/ working[h].do \in {"extend", "complete"}
    /\ working'[h] = AtRest

\* An archival turns everything off, and while the organization is archived
\* only a handler that was let in before turns something on again: no scan, no
\* policy, no replacement and no restart does.
ArchivedIsOff ==
    [][/\ open /\ ~open' => Off'
       /\ ~open /\ ~open' /\ Off =>
            Off' \/ \E h \in PageHandler : FromOpen(h)]_deviceVars

=============================================================================
