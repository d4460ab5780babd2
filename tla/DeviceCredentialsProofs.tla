------------------------ MODULE DeviceCredentialsProofs ------------------------
(***************************************************************************)
(* What holds of the campaigns and credentials of an organization for      *)
(* every number of handlers, tablets, members, campaigns and credentials,  *)
(* however the handlers overlap.                                           *)
(***************************************************************************)
EXTENDS DeviceCredentials, SequenceTheorems, FiniteSetTheorems, TLAPS

-----------------------------------------------------------------------------
(* Rows *)

\* What a step may make of a credential row: it keeps its installation and its
\* campaign, and does not come back to life.
Stays(old, new) ==
    new \in Credential /\ new.of = old.of /\ new.campaign = old.campaign
Ages(old, new) == Stays(old, new) /\ (Pending(new) => Pending(old))

LEMMA AgesTwice ==
  ASSUME NEW a, NEW b, NEW c, Ages(a, b), Ages(b, c)
  PROVE  Ages(a, c)
  BY DEF Ages, Stays

LEMMA AgesNot ==
  ASSUME NEW row \in Credential
  PROVE  Ages(row, row)
  BY DEF Ages, Stays

LEMMA AgesInState ==
  ASSUME NEW row \in Credential,
         NEW s \in {"active", "expired", "reauth_required", "superseded", "revoked"},
         NEW new, new = [row EXCEPT !.state = s]
  PROVE  /\ Stays(row, new) /\ new.state = s
         /\ s \in {"superseded", "revoked"} \/ Pending(row) => Ages(row, new)
  BY DEF Ages, Stays, Credential, CredState, Pending

LEMMA AgesToSuperseded ==
  ASSUME NEW row \in Credential
  PROVE  Ages(row, Superseded(row)) /\ ~Pending(Superseded(row))
  BY DEF Ages, Stays, Credential, CredState, Pending, Superseded

\* A function on 1 .. n is a sequence of length n.
LEMMA RowsAreSeq ==
  ASSUME NEW S, NEW n \in Nat, NEW f \in [1 .. n -> S]
  PROVE  f \in Seq(S) /\ Len(f) = n
  BY SeqDef

-----------------------------------------------------------------------------
(* The invariant *)

OneActive ==
    \A c, d \in Campaigns :
        campaigns[c].state = "active" /\ campaigns[d].state = "active" => c = d

\* An enrollment that holds a campaign holds it alone, and has left a use.
Held ==
    \A h \in PageHandler : working[h] \in IssueTask =>
        /\ working[h].campaign \in Campaigns /\ Usable(working[h].campaign)
        /\ \A g \in PageHandler :
            working[g] \in IssueTask /\ working[g].campaign = working[h].campaign
                => g = h

\* Two methods for one credential turn it on, and one only goes on with any
\* state.
Fit(task) ==
    task \in RowTask =>
        /\ task.state = "active" => task.do \in {"extend", "complete"}
        /\ task.do = "block" \/ Pending(task.saw)
TasksFit == \A h \in PageHandler : Fit(working[h])

DeviceInv == DeviceTypeOK /\ CampaignsKeepCount /\ Held /\ TasksFit

LEMMA Rows ==
  ASSUME DeviceTypeOK
  PROVE  /\ Len(campaigns) \in Nat /\ Campaigns = 1 .. Len(campaigns)
         /\ campaigns \in [Campaigns -> Campaign]
         /\ Len(creds) \in Nat /\ Creds = 1 .. Len(creds)
         /\ creds \in [Creds -> Credential]
  BY LenProperties DEF DeviceTypeOK, Campaigns, Creds

\* No task is of two kinds.
LEMMA TaskKinds ==
  /\ RowTask \cap (PolicyRead \cup PolicyTask \cup IssueTask) = {}
  /\ IssueTask \cap (PolicyRead \cup PolicyTask) = {}
  /\ PolicyRead \cap PolicyTask = {}
  /\ {AtRest, Page}
        \cap (RowTask \cup PolicyRead \cup PolicyTask \cup IssueTask) = {}
  BY DEF RowTask, PolicyRead, PolicyTask, IssueTask, AtRest, Page

-----------------------------------------------------------------------------
(* What a step may make of all rows *)

\* Credentials keep their installations and campaigns, and come back in the
\* ways Revived says.
RowsAge ==
    \A i \in Creds :
        /\ Stays(creds[i], creds'[i])
        /\ Pending(creds'[i]) => Pending(creds[i]) \/ Revived(i)
CredsAge == creds' \in [Creds -> Credential] /\ RowsAge

\* Campaigns keep their counts.
CampaignsStay ==
    /\ campaigns' \in [Campaigns -> Campaign]
    /\ \A c \in Campaigns : /\ campaigns'[c].used = campaigns[c].used
                            /\ campaigns'[c].limit = campaigns[c].limit
                            /\ campaigns'[c].state = "active" =>
                                campaigns[c].used < campaigns[c].limit

\* Enrollments at work go on, their campaigns as they were.
HeldStay ==
    \A h \in PageHandler : working'[h] \in IssueTask =>
        /\ working'[h] = working[h]
        /\ campaigns'[working[h].campaign] = campaigns[working[h].campaign]

LEMMA NothingMoves ==
  ASSUME DeviceInv
  PROVE  /\ creds' = creds => CredsAge
         /\ campaigns' = campaigns => CampaignsStay /\ OneActive'
<1>. USE Rows DEF DeviceInv
<1>1. ASSUME creds' = creds PROVE CredsAge
  BY <1>1, AgesNot DEF CredsAge, RowsAge, Ages
<1>2. ASSUME campaigns' = campaigns PROVE CampaignsStay /\ OneActive'
  BY <1>2 DEF CampaignsStay, OneActive, CampaignsKeepCount, Usable, Campaigns
<1>. QED  BY <1>1, <1>2

\* The counts stay right when no row is added.
LEMMA StayingKeepCount ==
  ASSUME DeviceInv, CredsAge, CampaignsStay, OneActive'
  PROVE  /\ campaigns' \in Seq(Campaign) /\ Len(campaigns') = Len(campaigns)
         /\ Campaigns' = Campaigns
         /\ creds' \in Seq(Credential) /\ Len(creds') = Len(creds)
         /\ Creds' = Creds
         /\ CampaignsKeepCount'
<1>1. campaigns' \in Seq(Campaign) /\ Len(campaigns') = Len(campaigns)
  BY Rows, RowsAreSeq DEF CampaignsStay, DeviceInv
<1>2. creds' \in Seq(Credential) /\ Len(creds') = Len(creds)
  BY Rows, RowsAreSeq DEF CredsAge, DeviceInv
<1>3. Campaigns' = Campaigns /\ Creds' = Creds
  BY DEF CampaignsStay, CredsAge, Campaigns, Creds
<1>4. ASSUME NEW c \in Campaigns
      PROVE  {i \in Creds' : creds'[i].campaign = c}
                = {i \in Creds : creds[i].campaign = c}
  BY <1>3 DEF CredsAge, RowsAge, Stays
<1>5. ASSUME NEW c \in Campaigns'
      PROVE  /\ campaigns'[c].used =
                    Cardinality({i \in Creds' : creds'[i].campaign = c})
             /\ campaigns'[c].used <= campaigns'[c].limit
             /\ campaigns'[c].state = "active" => Usable(c)'
  BY <1>3, <1>4 DEF CampaignsStay, DeviceInv, CampaignsKeepCount, Usable
<1>. QED  BY <1>1, <1>2, <1>3, <1>5 DEF OneActive, CampaignsKeepCount

LEMMA HeldOn ==
  ASSUME DeviceInv, HeldStay, Campaigns' = Campaigns
  PROVE  Held'
<1>. SUFFICES ASSUME NEW h \in PageHandler, working'[h] \in IssueTask
              PROVE  /\ working'[h].campaign \in Campaigns
                     /\ campaigns'[working'[h].campaign].state = "active"
                     /\ campaigns'[working'[h].campaign].used
                            < campaigns'[working'[h].campaign].limit
                     /\ \A g \in PageHandler :
                            /\ working'[g] \in IssueTask
                            /\ working'[g].campaign = working'[h].campaign
                            => g = h
  BY DEF Held, Usable
<1>1. /\ working'[h] = working[h]
      /\ campaigns'[working[h].campaign] = campaigns[working[h].campaign]
  BY DEF HeldStay
<1>. QED  BY <1>1 DEF DeviceInv, Held, HeldStay, Usable

\* So a step that ages credentials and keeps campaigns keeps the invariant, if
\* what the handlers do next is right.
LEMMA StayingKeeps ==
  ASSUME DeviceInv, CredsAge, CampaignsStay, OneActive', HeldStay, TasksFit',
         open' \in BOOLEAN, policy' \in Policy,
         working' \in [PageHandler -> {AtRest, Page} \cup RowTask
                            \cup PolicyRead \cup PolicyTask \cup IssueTask]
  PROVE  DeviceInv' /\ RowsAge
<1>1. /\ campaigns' \in Seq(Campaign) /\ Len(campaigns') = Len(campaigns)
      /\ Campaigns' = Campaigns /\ CampaignsKeepCount'
      /\ creds' \in Seq(Credential) /\ Len(creds') = Len(creds)
      /\ Creds' = Creds
  BY StayingKeepCount
<1>2. \A i \in DOMAIN creds' : creds'[i].campaign \in DOMAIN campaigns'
  BY <1>1
  DEF DeviceInv, DeviceTypeOK, CredsAge, RowsAge, Stays, Creds, Campaigns
<1>3. DeviceTypeOK'
  BY <1>1, <1>2 DEF DeviceInv, DeviceTypeOK
<1>4. Held'
  BY <1>1, HeldOn
<1>. QED  BY <1>1, <1>3, <1>4 DEF DeviceInv, CredsAge

\* Handlers that go on, or are done.
LEMMA HandlersRest ==
  ASSUME DeviceInv,
         \/ UNCHANGED working
         \/ \E h \in PageHandler : working' = [working EXCEPT ![h] = AtRest]
  PROVE  /\ TasksFit'
         /\ working' \in [PageHandler -> {AtRest, Page} \cup RowTask
                            \cup PolicyRead \cup PolicyTask \cup IssueTask]
         /\ \A h \in PageHandler : working'[h] \in {working[h], AtRest}
         /\ campaigns' = campaigns => HeldStay
<1>1. working \in [PageHandler -> {AtRest, Page} \cup RowTask
                            \cup PolicyRead \cup PolicyTask \cup IssueTask]
  BY DEF DeviceInv, DeviceTypeOK
<1>2. /\ working' \in [PageHandler -> {AtRest, Page} \cup RowTask
                            \cup PolicyRead \cup PolicyTask \cup IssueTask]
      /\ \A h \in PageHandler : working'[h] \in {working[h], AtRest}
  BY <1>1
<1>3. TasksFit'
  BY <1>2, TaskKinds DEF DeviceInv, TasksFit, Fit
<1>4. campaigns' = campaigns => HeldStay
  BY <1>2, TaskKinds DEF HeldStay
<1>. QED  BY <1>2, <1>3, <1>4

\* Nobody enrolls while no active campaign is held.
LEMMA NobodyEnrolls ==
  ASSUME DeviceInv, ActiveFree, NEW h \in PageHandler
  PROVE  working[h] \notin IssueTask
  BY DEF DeviceInv, Held, Usable, ActiveFree, CampaignFree

-----------------------------------------------------------------------------
(* Campaigns *)

\* A campaign row whose state alone changes.
LEMMA CampaignInState ==
  ASSUME NEW row \in Campaign,
         NEW s \in {"active", "superseded", "revoked", "expired", "exhausted"}
  PROVE  /\ [row EXCEPT !.state = s] \in Campaign
         /\ [row EXCEPT !.state = s].used = row.used
         /\ [row EXCEPT !.state = s].limit = row.limit
         /\ [row EXCEPT !.state = s].state = s
  BY DEF Campaign

\* One campaign is closed.
LEMMA CampaignCloses ==
  ASSUME DeviceInv, NEW c \in Campaigns, NEW s \in {"revoked", "expired"},
         campaigns' = [campaigns EXCEPT ![c].state = s]
  PROVE  CampaignsStay /\ OneActive'
         /\ \A d \in Campaigns :
                campaigns'[d].state = "active" => campaigns[d].state = "active"
<1>. USE Rows DEF DeviceInv
<1>1. campaigns' = [campaigns EXCEPT ![c] = [campaigns[c] EXCEPT !.state = s]]
  OBVIOUS
<1>2. \A d \in Campaigns : d # c => campaigns'[d] = campaigns[d]
  BY <1>1
<1>3. /\ campaigns'[c] \in Campaign /\ campaigns'[c].state = s
      /\ campaigns'[c].used = campaigns[c].used
      /\ campaigns'[c].limit = campaigns[c].limit
  <2> DEFINE closed == [campaigns[c] EXCEPT !.state = s]
  <2>1. /\ closed \in Campaign /\ closed.state = s
        /\ closed.used = campaigns[c].used /\ closed.limit = campaigns[c].limit
    <3>1. campaigns[c] \in Campaign
      OBVIOUS
    <3>2. s \in {"active", "superseded", "revoked", "expired", "exhausted"}
      OBVIOUS
    <3>. QED  BY <3>1, <3>2, CampaignInState
  <2>2. campaigns'[c] = closed
    BY <1>1
  <2>. HIDE DEF closed
  <2>. QED  BY <2>1, <2>2
<1>4. campaigns' \in [Campaigns -> Campaign] /\ Campaigns' = Campaigns
  BY <1>1, <1>2, <1>3 DEF Campaigns
<1>5. CampaignsStay
  <2>. SUFFICES ASSUME NEW d \in Campaigns
                PROVE  /\ campaigns'[d].used = campaigns[d].used
                       /\ campaigns'[d].limit = campaigns[d].limit
                       /\ campaigns'[d].state = "active" =>
                            campaigns[d].used < campaigns[d].limit
    BY <1>4 DEF CampaignsStay
  <2>1. CASE d = c
    BY <1>3, <2>1
  <2>2. CASE d # c
    BY <1>2, <2>2 DEF CampaignsKeepCount, Usable
  <2>. QED  BY <2>1, <2>2
<1>6. \A d \in Campaigns :
        campaigns'[d].state = "active" => campaigns[d].state = "active"
  BY <1>2, <1>3
<1>7. OneActive'
  BY <1>4, <1>6 DEF OneActive, CampaignsKeepCount
<1>. QED  BY <1>5, <1>6, <1>7

LEMMA SupersededRows ==
  ASSUME DeviceInv, NEW c
  PROVE  /\ OthersSuperseded(c) \in [Campaigns -> Campaign]
         /\ \A d \in Campaigns :
                /\ OthersSuperseded(c)[d].used = campaigns[d].used
                /\ OthersSuperseded(c)[d].limit = campaigns[d].limit
                /\ d # c => OthersSuperseded(c)[d].state # "active"
  BY Rows, CampaignInState DEF DeviceInv, OthersSuperseded

LEMMA ClearedAges ==
  ASSUME DeviceInv, creds' = Cleared
  PROVE  CredsAge
  BY Rows, AgesNot, AgesToSuperseded
  DEF DeviceInv, Cleared, CredsAge, RowsAge, Ages, Stays

LEMMA FromPageRests ==
  ASSUME DeviceInv, FromPage
  PROVE  /\ open' \in BOOLEAN /\ policy' \in Policy
         /\ \/ UNCHANGED working
            \/ \E h \in PageHandler : working' = [working EXCEPT ![h] = AtRest]
  BY DEF FromPage, DeviceInv, DeviceTypeOK

\* One campaign is closed that nobody holds.
LEMMA ClosingKeeps ==
  ASSUME DeviceInv, NEW c \in Campaigns, NEW s \in {"revoked", "expired"},
         campaigns' = [campaigns EXCEPT ![c].state = s], CampaignFree(c),
         UNCHANGED creds, open' \in BOOLEAN, policy' \in Policy,
         \/ UNCHANGED working
         \/ \E h \in PageHandler : working' = [working EXCEPT ![h] = AtRest]
  PROVE  DeviceInv' /\ RowsAge
<1>1. CredsAge
  BY NothingMoves
<1>2. CampaignsStay /\ OneActive'
  BY CampaignCloses
<1>3. /\ TasksFit'
      /\ working' \in [PageHandler -> {AtRest, Page} \cup RowTask
                            \cup PolicyRead \cup PolicyTask \cup IssueTask]
      /\ \A h \in PageHandler : working'[h] \in {working[h], AtRest}
  BY HandlersRest
<1>4. HeldStay
  BY <1>3, TaskKinds, Rows DEF HeldStay, CampaignFree, DeviceInv
<1>. QED  BY <1>1, <1>2, <1>3, <1>4, StayingKeeps

LEMMA RevokeKeeps ==
  ASSUME DeviceInv, NEW c \in Campaigns, RevokeCampaign(c)
  PROVE  DeviceInv' /\ RowsAge
  BY FromPageRests, ClosingKeeps DEF RevokeCampaign

LEMMA IssueLateKeeps ==
  ASSUME DeviceInv, NEW c \in Campaigns, IssueLate(c)
  PROVE  DeviceInv' /\ RowsAge
  BY ClosingKeeps DEF IssueLate, DeviceInv, DeviceTypeOK

LEMMA RenewKeeps ==
  ASSUME DeviceInv, NEW c \in Campaigns, RenewCampaign(c)
  PROVE  DeviceInv' /\ RowsAge
<1>. USE DEF RenewCampaign, CampaignRenewed
<1>1. CredsAge
  BY ClearedAges
<1> DEFINE others == OthersSuperseded(c)
<1>2. /\ others \in [Campaigns -> Campaign]
      /\ campaigns' = [others EXCEPT ![c] = [others[c] EXCEPT !.state = "active"]]
  BY SupersededRows
<1>3. campaigns' \in [Campaigns -> Campaign] /\ Campaigns' = Campaigns
  <2>1. [others[c] EXCEPT !.state = "active"] \in Campaign
    BY <1>2, CampaignInState
  <2>. HIDE DEF others
  <2>. QED  BY <1>2, <2>1, Rows DEF Campaigns, DeviceInv
<1>4. /\ campaigns'[c].used = campaigns[c].used
      /\ campaigns'[c].limit = campaigns[c].limit
      /\ campaigns[c].used < campaigns[c].limit
  BY <1>2, CampaignInState, SupersededRows DEF Renewable
<1>5. ASSUME NEW d \in Campaigns, d # c
      PROVE  /\ campaigns'[d].used = campaigns[d].used
             /\ campaigns'[d].limit = campaigns[d].limit
             /\ campaigns'[d].state # "active"
  BY <1>2, <1>5, SupersededRows
<1>6. CampaignsStay /\ OneActive'
  BY <1>3, <1>4, <1>5 DEF CampaignsStay, OneActive
<1>7. /\ open' \in BOOLEAN /\ policy' \in Policy /\ TasksFit'
      /\ working' \in [PageHandler -> {AtRest, Page} \cup RowTask
                            \cup PolicyRead \cup PolicyTask \cup IssueTask]
      /\ \A h \in PageHandler : working'[h] \in {working[h], AtRest}
  BY FromPageRests, HandlersRest
<1>8. HeldStay
  BY <1>7, NobodyEnrolls, TaskKinds DEF HeldStay
<1>. QED  BY <1>1, <1>6, <1>7, <1>8, StayingKeeps

\* A new campaign has no credentials.
LEMMA CreateKeeps ==
  ASSUME DeviceInv, NEW limit \in Limits, CreateCampaign(limit)
  PROVE  DeviceInv' /\ RowsAge
<1>. USE DEF CreateCampaign, CampaignCreated
<1> DEFINE others == OthersSuperseded(0)
           n == Len(campaigns)
           new == [state |-> "active", used |-> 0, limit |-> limit]
<1>1. CredsAge
  BY ClearedAges
<1>2. others \in Seq(Campaign) /\ Len(others) = n /\ n \in Nat
  BY SupersededRows, Rows, RowsAreSeq DEF DeviceInv
<1>3. new \in Campaign
  BY DeviceAssumption DEF Campaign
<1>4. /\ campaigns' = Append(others, new) /\ campaigns' \in Seq(Campaign)
      /\ Len(campaigns') = n + 1 /\ Campaigns' = 1 .. n + 1
  BY <1>2, <1>3, AppendProperties DEF Campaigns
<1>5. /\ campaigns'[n + 1] = new
      /\ \A d \in 1 .. n : campaigns'[d] = others[d]
  BY <1>2, <1>3, <1>4, AppendProperties
<1>6. Campaigns = 1 .. n /\ 0 \notin Campaigns
  BY <1>2, Rows DEF DeviceInv
<1>7. /\ creds' \in Seq(Credential) /\ Len(creds') = Len(creds)
      /\ Creds' = Creds
  BY <1>1, Rows, RowsAreSeq DEF DeviceInv, CredsAge, Creds
<1>8. \A i \in Creds : creds'[i].campaign = creds[i].campaign
                      /\ creds[i].campaign \in 1 .. n
  BY <1>1, <1>6 DEF CredsAge, RowsAge, Stays, DeviceInv, DeviceTypeOK, Creds, Campaigns
<1>15. /\ open' \in BOOLEAN /\ policy' \in Policy /\ TasksFit'
       /\ working' \in [PageHandler -> {AtRest, Page} \cup RowTask
                            \cup PolicyRead \cup PolicyTask \cup IssueTask]
       /\ \A h \in PageHandler : working'[h] \in {working[h], AtRest}
  BY FromPageRests, HandlersRest
<1>9. DeviceTypeOK'
  <2>1. \A i \in DOMAIN creds' : creds'[i].campaign \in DOMAIN campaigns'
    BY <1>2, <1>4, <1>7, <1>8 DEF Creds, Campaigns
  <2>2. n < MaxCampaigns /\ MaxCampaigns \in Nat
    BY DeviceAssumption
  <2>. HIDE DEF others, new
  <2>. QED
    BY <1>2, <1>4, <1>7, <1>15, <2>1, <2>2 DEF DeviceInv, DeviceTypeOK
<1>10. ASSUME NEW d \in 1 .. n
       PROVE  /\ campaigns'[d].used = Cardinality({i \in Creds' : creds'[i].campaign = d})
              /\ campaigns'[d].used <= campaigns'[d].limit
              /\ campaigns'[d].state # "active"
  <2>1. {i \in Creds' : creds'[i].campaign = d}
          = {i \in Creds : creds[i].campaign = d}
    BY <1>7, <1>8
  <2>2. /\ others[d].used = campaigns[d].used /\ others[d].state # "active"
        /\ others[d].limit = campaigns[d].limit
    BY <1>6, SupersededRows
  <2>. QED
    BY <1>5, <1>6, <2>1, <2>2 DEF DeviceInv, CampaignsKeepCount
<1>11. {i \in Creds' : creds'[i].campaign = n + 1} = {}
  BY <1>2, <1>7, <1>8
<1>12. ASSUME NEW d \in Campaigns'
       PROVE  /\ campaigns'[d].used = Cardinality({i \in Creds' : creds'[i].campaign = d})
              /\ campaigns'[d].used <= campaigns'[d].limit
              /\ campaigns'[d].state = "active" => (Usable(d)' /\ d = n + 1)
  <2>1. CASE d = n + 1
    <3>1. limit \in 1 .. 500 /\ Cardinality({}) = 0
      BY FS_EmptySet, DeviceAssumption
    <3>2. campaigns'[d] = new
      BY <1>5, <2>1
    <3>3. {i \in Creds' : creds'[i].campaign = d} = {}
      BY <1>11, <2>1
    <3>4. new.used = 0 /\ new.limit = limit
      OBVIOUS
    <3>. HIDE DEF n, new, CampaignCreated, CreateCampaign
    <3>. QED  BY <2>1, <3>1, <3>2, <3>3, <3>4 DEF Usable
  <2>2. CASE d \in 1 .. n
    BY <1>10, <2>2
  <2>. QED  BY <1>2, <1>4, <2>1, <2>2
<1>13. CampaignsKeepCount'
  BY <1>12 DEF CampaignsKeepCount
<1>14. Held'
  BY <1>15, NobodyEnrolls, TaskKinds DEF Held
<1>. QED  BY <1>1, <1>9, <1>13, <1>14, <1>15 DEF DeviceInv, CredsAge

-----------------------------------------------------------------------------
(* Enrollment *)

LEMMA OneUseMore ==
  ASSUME NEW u \in 0 .. 500, NEW l \in 1 .. 500, u < l
  PROVE  u + 1 \in 0 .. 500 /\ u + 1 <= l /\ (u + 1 >= l \/ u + 1 < l)
  OBVIOUS

LEMMA RedeemedCounts ==
  ASSUME NEW row \in Campaign, row.used < row.limit
  PROVE  LET more == Redeemed(row)
         IN  /\ more \in Campaign /\ more.used = row.used + 1
             /\ more.limit = row.limit /\ more.used <= more.limit
             /\ more.state = "active" => more.used < more.limit
<1> DEFINE state == IF row.used + 1 >= row.limit THEN "exhausted" ELSE row.state
           one == [row EXCEPT !.used = row.used + 1]
<1>1. row.limit \in Limits /\ row.limit \in 1 .. 500 /\ row.used \in 0 .. 500
  BY DeviceAssumption DEF Campaign
<1>2. /\ row.used + 1 \in 0 .. 500 /\ row.used + 1 <= row.limit
      /\ row.used + 1 >= row.limit \/ row.used + 1 < row.limit
  BY <1>1, OneUseMore
<1>3. state \in {"active", "superseded", "revoked", "expired", "exhausted"}
  BY DEF Campaign
<1>4. state = "active" => row.used + 1 < row.limit
  <2>1. CASE row.used + 1 >= row.limit
    BY <2>1
  <2>2. CASE ~(row.used + 1 >= row.limit)
    BY <1>2, <2>2
  <2>. QED  BY <2>1, <2>2
<1>5. Redeemed(row) = [one EXCEPT !.state = state]
  BY DEF Redeemed
<1>. HIDE DEF state
<1>6. one \in Campaign /\ one.used = row.used + 1 /\ one.limit = row.limit
  BY <1>1, <1>2 DEF Campaign
<1>. HIDE DEF one
<1> DEFINE closed == [one EXCEPT !.state = state]
<1>7. /\ closed \in Campaign /\ closed.used = one.used
      /\ closed.limit = one.limit /\ closed.state = state
  BY <1>3, <1>6, CampaignInState
<1>. HIDE DEF closed
<1>8. Redeemed(row) = closed
  BY <1>5 DEF closed
<1>. QED  BY <1>2, <1>4, <1>6, <1>7, <1>8

\* The credentials that were looked up have made way when the new one is
\* there, and the campaign counts it.
LEMMA IssuedKeeps ==
  ASSUME DeviceInv, NEW task \in IssueTask, CredentialIssued(task),
         task.campaign \in Campaigns, Usable(task.campaign),
         open' \in BOOLEAN, TasksFit',
         working' \in [PageHandler -> {AtRest, Page} \cup RowTask
                            \cup PolicyRead \cup PolicyTask \cup IssueTask],
         \A h \in PageHandler : working'[h] \in IssueTask =>
            working'[h] = working[h] /\ working[h].campaign # task.campaign
  PROVE  /\ DeviceInv' /\ RowsAge
         /\ Creds' = Creds \cup {Len(creds) + 1} /\ Len(creds) + 1 \notin Creds
         /\ creds'[Len(creds) + 1].of = task.of
         /\ \A i \in Creds :
                /\ i \in task.ids => ~Pending(creds'[i])
                /\ i \notin task.ids => creds'[i] = creds[i]
<1> DEFINE n == Len(creds)
           c == task.campaign
           aged == [i \in Creds |-> IF i \in task.ids
                        THEN [creds[i] EXCEPT !.state = "superseded"] ELSE creds[i]]
           state == IF task.policy = "member_verified" THEN "reauth_required"
                    ELSE "active"
           new == [of |-> task.of, campaign |-> c, member |-> Nobody, state |-> state]
           more == Redeemed(campaigns[c])
<1>1. /\ n \in Nat /\ Creds = 1 .. n /\ creds \in [Creds -> Credential]
      /\ Campaigns = 1 .. Len(campaigns) /\ campaigns \in [Campaigns -> Campaign]
      /\ Len(campaigns) \in Nat
  BY Rows DEF DeviceInv
<1>2. \A i \in Creds : /\ aged[i] \in Credential /\ Ages(creds[i], aged[i])
                       /\ i \in task.ids => ~Pending(aged[i])
                       /\ i \notin task.ids => aged[i] = creds[i]
  BY <1>1, AgesNot, AgesInState DEF Ages, Stays, Pending
<1>3. aged \in Seq(Credential) /\ Len(aged) = n
  <2>1. aged \in [1 .. n -> Credential]
    BY <1>1, <1>2
  <2>. HIDE DEF aged
  <2>. QED  BY <1>1, <2>1, RowsAreSeq
<1>4. c \in 1 .. MaxCampaigns /\ task.of \in Installation
  BY DEF IssueTask
<1>5. new \in Credential /\ new.of = task.of /\ new.campaign = c
  BY <1>4 DEF Credential, CredState
<1>6. /\ creds' = Append(aged, new) /\ n < MaxCredentials
      /\ campaigns' = [campaigns EXCEPT ![c] = more]
      /\ Usable(c) /\ UNCHANGED policy
  BY DEF CredentialIssued
<1>7. /\ creds' \in Seq(Credential) /\ Len(creds') = n + 1 /\ Creds' = 1 .. n + 1
      /\ creds'[n + 1] = new /\ \A i \in 1 .. n : creds'[i] = aged[i]
  <2>. HIDE DEF aged, new, n
  <2>. QED  BY <1>1, <1>3, <1>5, <1>6, AppendProperties DEF Creds
<1>8. RowsAge
  BY <1>1, <1>2, <1>7 DEF RowsAge, Ages
<1>9. /\ more \in Campaign /\ more.used = campaigns[c].used + 1
      /\ more.limit = campaigns[c].limit /\ more.used <= more.limit
      /\ more.state = "active" => more.used < more.limit
  BY <1>1, <1>6, RedeemedCounts DEF Usable
<1>10. /\ campaigns' \in [Campaigns -> Campaign] /\ campaigns'[c] = more
       /\ \A d \in Campaigns : d # c => campaigns'[d] = campaigns[d]
  <2>. HIDE DEF more
  <2>. QED  BY <1>1, <1>6, <1>9
<1>11. /\ campaigns' \in Seq(Campaign) /\ Len(campaigns') = Len(campaigns)
       /\ Campaigns' = Campaigns
  BY <1>1, <1>10, RowsAreSeq DEF Campaigns
<1>. HIDE DEF aged, new, more, n
<1>12. \A i \in 1 .. n : /\ creds'[i].of = creds[i].of
                         /\ creds'[i].campaign = creds[i].campaign
  BY <1>1, <1>2, <1>7 DEF Ages, Stays
<1>13. DeviceTypeOK'
  <2>1. \A i \in DOMAIN creds' : creds'[i].campaign \in DOMAIN campaigns'
    BY <1>1, <1>5, <1>7, <1>11, <1>12
    DEF DeviceInv, DeviceTypeOK, Creds, Campaigns
  <2>2. MaxCredentials \in Nat
    BY DeviceAssumption
  <2>. QED
    BY <1>1, <1>6, <1>7, <1>11, <2>1, <2>2 DEF DeviceInv, DeviceTypeOK
<1>14. CampaignsKeepCount'
  <2> DEFINE Of(d) == {i \in Creds : creds[i].campaign = d}
  <2>1. \A d \in Campaigns : IsFiniteSet(Of(d))
    <3>1. IsFiniteSet(Creds)
      BY <1>1, FS_Interval
    <3>. QED  BY <3>1, FS_Subset
  <2>2. {i \in Creds' : creds'[i].campaign = c} = Of(c) \cup {n + 1}
    BY <1>1, <1>5, <1>7, <1>12
  <2>3. n + 1 \notin Of(c)
    BY <1>1
  <2>4. Cardinality({i \in Creds' : creds'[i].campaign = c}) = campaigns'[c].used
    BY <1>9, <1>10, <2>1, <2>2, <2>3, FS_AddElement
    DEF DeviceInv, CampaignsKeepCount
  <2>5. ASSUME NEW d \in Campaigns, d # c
        PROVE  /\ campaigns'[d] = campaigns[d]
               /\ {i \in Creds' : creds'[i].campaign = d} = Of(d)
    BY <1>1, <1>5, <1>7, <1>10, <1>12, <2>5
  <2>6. ASSUME NEW d \in Campaigns
        PROVE  /\ campaigns'[d].used =
                    Cardinality({i \in Creds' : creds'[i].campaign = d})
               /\ campaigns'[d].used <= campaigns'[d].limit
               /\ campaigns'[d].state = "active" =>
                    (Usable(d)' /\ campaigns[d].state = "active")
    <3>1. CASE d = c
      BY <1>6, <1>9, <1>10, <2>4, <3>1 DEF Usable
    <3>2. CASE d # c
      BY <2>5, <3>2 DEF DeviceInv, CampaignsKeepCount, Usable
    <3>. QED  BY <3>1, <3>2
  <2>. QED
    BY <1>11, <2>6 DEF DeviceInv, CampaignsKeepCount
<1>15. Held'
  <2>1. ASSUME NEW h \in PageHandler, working'[h] \in IssueTask
        PROVE  /\ working'[h] = working[h] /\ working[h].campaign \in Campaigns
               /\ campaigns'[working[h].campaign] = campaigns[working[h].campaign]
    BY <1>10, <2>1 DEF DeviceInv, Held
  <2>. QED  BY <1>11, <2>1 DEF DeviceInv, Held, Usable
<1>16. Creds' = Creds \cup {n + 1} /\ n + 1 \notin Creds
  BY <1>1, <1>7
<1>. QED
  BY <1>1, <1>2, <1>5, <1>7, <1>8, <1>13, <1>14, <1>15, <1>16 DEF DeviceInv, n

-----------------------------------------------------------------------------
(* Methods that read first *)

\* What a method may have read.
LEMMA ReadingsFit ==
  ASSUME DeviceInv, NEW task \in OfPages \cup OfTablets
  PROVE  /\ task \in RowTask \cup PolicyRead \cup IssueTask /\ Fit(task)
         /\ task \in RowTask =>
                /\ task.cred \in Creds /\ task.saw = creds[task.cred]
                /\ task \in Block \/ Pending(creds[task.cred])
         /\ task \in IssueTask =>
                /\ task \in Issue
                /\ task.campaign \in Campaigns /\ Usable(task.campaign)
                /\ CampaignFree(task.campaign)
                /\ task.ids = Earlier(task.of)
         /\ ~open /\ Off => task \in OfPages
<1>1. /\ creds \in [Creds -> Credential] /\ Creds \subseteq 1 .. MaxCredentials
      /\ Campaigns \subseteq 1 .. MaxCampaigns
  BY Rows, DeviceAssumption DEF DeviceInv, DeviceTypeOK
<1>2. ASSUME NEW do \in {"block", "retire", "extend", "complete", "late", "replace"},
             NEW i \in Creds, NEW state \in CredState,
             NEW m \in Member \cup {Nobody}
      PROVE  LET t == Reading(do, i, state, m) IN
             /\ t \in RowTask /\ t.do = do /\ t.cred = i /\ t.saw = creds[i]
             /\ t.state = state
  BY <1>1 DEF Reading, RowTask
<1>3. \A i \in Creds : creds[i].member \in Member \cup {Nobody}
  BY <1>1 DEF Credential
<1>4. ASSUME NEW do \in {"block", "retire", "extend", "complete", "late", "replace"},
             NEW i \in Creds, NEW state \in CredState,
             NEW m \in Member \cup {Nobody}, task = Reading(do, i, state, m),
             state = "active" => do \in {"extend", "complete"},
             task \in Block \/ Pending(creds[i]), do = "block" \/ Pending(creds[i]),
             ~open /\ Off => task \in OfPages
      PROVE  /\ task \in RowTask \cup PolicyRead \cup IssueTask /\ Fit(task)
             /\ task \in RowTask =>
                    /\ task.cred \in Creds /\ task.saw = creds[task.cred]
                    /\ task \in Block \/ Pending(creds[task.cred])
             /\ task \notin IssueTask
             /\ ~open /\ Off => task \in OfPages
  BY <1>2, <1>4, TaskKinds DEF Fit
<1>5. CASE task \in Block
  <2>1. PICK i \in Creds : task = Reading("block", i, "reauth_required", creds[i].member)
    BY <1>5 DEF Block
  <2>. QED  BY <1>3, <1>4, <1>5, <2>1 DEF CredState, OfPages
<1>6. CASE task \in Retire
  <2>1. PICK i \in Creds : /\ task = Reading("retire", i, "revoked", creds[i].member)
                           /\ creds[i].state \notin {"revoked", "superseded"}
    BY <1>6 DEF Retire
  <2>2. Pending(creds[i])
    BY <1>1, <2>1 DEF Credential, CredState, Pending
  <2>. QED  BY <1>3, <1>4, <1>6, <2>1, <2>2 DEF CredState, OfPages
<1>7. CASE task \in Extend
  <2>1. PICK i \in Creds : /\ task = Reading("extend", i, "active", creds[i].member)
                           /\ RenewableCred(creds[i])
    BY <1>7 DEF Extend
  <2>. QED
    BY <1>3, <1>4, <1>7, <2>1 DEF CredState, OfPages, RenewableCred, Pending
<1>8. CASE task \in CompleteReauthentication
  <2>1. PICK i \in Creds, m \in Member :
            /\ task = Reading("complete", i, "active", m)
            /\ creds[i].state = "reauth_required"
    BY <1>8 DEF CompleteReauthentication
  <2>. QED  BY <1>4, <1>8, <2>1 DEF CredState, OfPages, Pending
<1>9. CASE task \in AuthenticateLate
  <2>1. PICK i \in Creds : /\ task = Reading("late", i, "expired", creds[i].member)
                           /\ creds[i].state = "active"
    BY <1>9 DEF AuthenticateLate
  <2>. QED  BY <1>3, <1>4, <1>9, <2>1 DEF CredState, Pending, Off
<1>10. CASE task \in Replace
  <2>1. PICK j \in Creds :
            /\ task = Reading("replace", j, "superseded", creds[j].member)
            /\ \E i \in Creds : Replaceable(i, j)
    BY <1>10 DEF Replace
  <2>2. Pending(creds[j]) /\ ~Off
    BY <2>1 DEF Replaceable, Off
  <2>. QED  BY <1>3, <1>4, <1>10, <2>1, <2>2 DEF CredState
<1>11. CASE task \in SetPolicy
  <2>1. task \in PolicyRead
    BY <1>11 DEF SetPolicy, PolicyRead, DeviceInv, DeviceTypeOK
  <2>. QED  BY <1>11, <2>1, TaskKinds DEF Fit, OfPages
<1>12. CASE task \in Issue
  <2>1. PICK c \in Campaigns, t \in Installation :
            /\ task = [do |-> "issue", campaign |-> c, of |-> t, policy |-> policy,
                       ids |-> Earlier(t)]
            /\ CampaignFree(c) /\ Usable(c)
    BY <1>12 DEF Issue
  <2>2. Earlier(t) \subseteq 1 .. MaxCredentials /\ c \in 1 .. MaxCampaigns
    BY <1>1 DEF Earlier
  <2>3. task \in IssueTask
    BY <2>1, <2>2 DEF IssueTask, DeviceInv, DeviceTypeOK
  <2>4. ~Off
    BY <2>1 DEF Off, Usable
  <2>. QED  BY <1>12, <2>1, <2>3, <2>4, TaskKinds DEF Fit
<1>. QED
  BY <1>5, <1>6, <1>7, <1>8, <1>9, <1>10, <1>11, <1>12 DEF OfPages, OfTablets

\* One row is written: its state and member may change.
LEMMA RowWrites ==
  ASSUME DeviceInv, NEW task \in RowTask, RowWritten(task),
         task.cred \in Creds /\ Pending(creds'[task.cred]) =>
            Pending(creds[task.cred]) \/ Revived(task.cred)
  PROVE  /\ CredsAge /\ UNCHANGED <<policy, campaigns>>
         /\ \A i \in Creds :
                creds'[i].state = "active" =>
                    creds[i].state = "active" \/ task.state = "active"
<1>1. creds \in [Creds -> Credential]
  BY Rows DEF DeviceInv
<1>2. UNCHANGED <<policy, campaigns>>
  BY DEF RowWritten
<1>3. CASE task.cred \notin Creds
  <2>1. creds' = creds
    BY <1>1, <1>3 DEF RowWritten, Creds
  <2>. QED  BY <1>2, <2>1, NothingMoves
<1>4. CASE task.cred \in Creds
  <2> DEFINE c == task.cred
             state == Column(task.saw.state, task.state, creds[c].state)
             member == Column(task.saw.member, task.member, creds[c].member)
             row == [creds[c] EXCEPT !.state = state, !.member = member]
  <2>1. creds[c] \in Credential
    BY <1>1, <1>4
  <2>2. state \in {task.state, creds[c].state} /\ state \in CredState
        /\ member \in Member \cup {Nobody}
    BY <2>1 DEF Column, RowTask, Credential
  <2>3. creds' = [creds EXCEPT ![c] = row]
    BY <1>1, <1>4 DEF RowWritten
  <2>. HIDE DEF state, member
  <2>4. Stays(creds[c], row) /\ row.state = state
    BY <2>1, <2>2 DEF Stays, Credential
  <2>. HIDE DEF row
  <2>5. creds' \in [Creds -> Credential] /\ creds'[c] = row
        /\ \A i \in Creds : i # c => creds'[i] = creds[i]
    BY <1>1, <1>4, <2>3, <2>4 DEF Stays
  <2>6. RowsAge
    BY <1>1, <2>4, <2>5, AgesNot DEF RowsAge, Ages
  <2>. QED  BY <1>2, <2>2, <2>4, <2>5, <2>6 DEF CredsAge
<1>. QED  BY <1>3, <1>4

\* The policy is set, and the credentials looked up are blocked.
LEMMA PolicyWrites ==
  ASSUME DeviceInv, NEW task \in PolicyTask, PolicyWritten(task),
         \A i \in Creds \cap task.ids : Pending(creds[i]) \/ Revived(i)
  PROVE  /\ CredsAge /\ UNCHANGED campaigns /\ policy' \in Policy
         /\ \A i \in Creds : creds'[i].state = "active" => creds[i].state = "active"
<1>1. creds \in [Creds -> Credential]
  BY Rows DEF DeviceInv
<1>2. UNCHANGED campaigns /\ policy' \in Policy
  BY DEF PolicyWritten, PolicyTask, Column, DeviceInv, DeviceTypeOK
<1>3. ASSUME NEW i \in Creds
      PROVE  /\ Stays(creds[i], creds'[i])
             /\ Pending(creds'[i]) => Pending(creds[i]) \/ Revived(i)
             /\ creds'[i].state = "active" => creds[i].state = "active"
  <2>1. CASE i \in task.ids
    <3>1. creds'[i] = [creds[i] EXCEPT !.state = "reauth_required"]
      BY <2>1 DEF PolicyWritten
    <3>2. Stays(creds[i], creds'[i]) /\ creds'[i].state = "reauth_required"
      BY <1>1, <3>1, AgesInState
    <3>. QED  BY <2>1, <3>2
  <2>2. CASE i \notin task.ids
    BY <1>1, <2>2, AgesNot DEF PolicyWritten, Ages
  <2>. QED  BY <2>1, <2>2
<1>4. creds' \in [Creds -> Credential]
  BY <1>3 DEF PolicyWritten, Stays
<1>. QED  BY <1>2, <1>3, <1>4 DEF CredsAge, RowsAge

\* What a new credential leaves alone.
TwinsAge ==
    \A i, j \in DOMAIN creds' :
        Twins(i, j)' => {i, j} \subseteq Creds \/ \E h \in PageHandler :
            /\ Finish(h) /\ working[h] \in IssueTask
            /\ working[h].ids # Earlier(working[h].of)

\* While the organization is archived and all is off, it stays off or a handler
\* turns it on that was let in before.
OffAges ==
    ~open /\ ~open' /\ Off => Off' \/ \E h \in PageHandler : FromOpen(h)

Goes == DeviceInv' /\ RowsAge /\ TwinsAge /\ OffAges

LEMMA NoneNew ==
  ASSUME DeviceInv, DeviceInv', RowsAge, Creds' = Creds, OffAges
  PROVE  Goes
  BY DEF Goes, TwinsAge, Creds

\* The new credential has no twin if those that were to make way are those that
\* are there.
LEMMA NoTwin ==
  ASSUME DeviceInv, NEW task, RowsAge, NEW n \in Nat, n \notin Creds,
         Creds' = Creds \cup {n}, creds'[n].of = task.of,
         \A i \in Creds :
            /\ i \in task.ids => ~Pending(creds'[i])
            /\ i \notin task.ids => creds'[i] = creds[i],
         task.ids = Earlier(task.of),
         NEW i \in Creds', NEW j \in Creds', Twins(i, j)'
  PROVE  {i, j} \subseteq Creds
<1>1. ASSUME NEW k \in Creds, creds'[k].of = task.of, Pending(creds'[k])
      PROVE  FALSE
  <2>1. k \notin task.ids /\ creds'[k] = creds[k]
    BY <1>1
  <2>. QED  BY <1>1, <2>1 DEF Earlier
<1>3. /\ creds'[i].of = creds'[j].of /\ Pending(creds'[i]) /\ Pending(creds'[j])
      /\ i < j
  BY DEF Twins, Pending
<1>4. ~(n < n)
  OBVIOUS
<1>5. CASE i = n
  <2>1. j \in Creds \/ i < i
    BY <1>3, <1>5
  <2>2. CASE j \in Creds
    BY <1>1, <1>3, <1>5, <2>2
  <2>. QED  BY <2>1, <2>2, <1>4, <1>5
<1>6. CASE j = n
  <2>1. i \in Creds \/ j < j
    BY <1>3, <1>6
  <2>2. CASE i \in Creds
    BY <1>1, <1>3, <1>6, <2>2
  <2>. QED  BY <2>1, <2>2, <1>4, <1>6
<1>. QED  BY <1>5, <1>6

\* A task is committed by a handler, or at once.
LEMMA CommitGoes ==
  ASSUME DeviceInv, NEW task \in RowTask \cup PolicyTask \cup IssueTask,
         Committed(task), Fit(task), UNCHANGED open,
         \/ UNCHANGED working
         \/ \E h \in PageHandler : working' = [working EXCEPT ![h] = AtRest],
         task \in RowTask /\ task.cred \in Creds /\ Pending(creds'[task.cred]) =>
            Pending(creds[task.cred]) \/ Revived(task.cred),
         task \in PolicyTask =>
            \A i \in Creds \cap task.ids : Pending(creds[i]) \/ Revived(i),
         task \in IssueTask =>
            /\ task.campaign \in Campaigns /\ Usable(task.campaign)
            /\ \A h \in PageHandler : working'[h] \in IssueTask =>
                    working[h].campaign # task.campaign
            /\ \/ task.ids = Earlier(task.of)
               \/ \E h \in PageHandler : Finish(h) /\ working[h] = task,
         ~open /\ task \in RowTask /\ task.state = "active" =>
            \E h \in PageHandler : FromOpen(h)
  PROVE  Goes
<1>1. /\ TasksFit'
      /\ working' \in [PageHandler -> {AtRest, Page} \cup RowTask
                            \cup PolicyRead \cup PolicyTask \cup IssueTask]
      /\ \A h \in PageHandler : working'[h] \in {working[h], AtRest}
      /\ campaigns' = campaigns => HeldStay
  BY HandlersRest
<1>2. open' \in BOOLEAN /\ policy \in Policy
  BY DEF DeviceInv, DeviceTypeOK
<1>3. CASE task \in RowTask
  <2>1. RowWritten(task)
    BY <1>3, TaskKinds DEF Committed, PolicyWritten, CredentialIssued
  <2>2. /\ CredsAge /\ UNCHANGED <<policy, campaigns>>
        /\ \A i \in Creds : creds'[i].state = "active" =>
                creds[i].state = "active" \/ task.state = "active"
    BY <1>3, <2>1, RowWrites
  <2>3. DeviceInv' /\ RowsAge
    BY <1>1, <1>2, <2>2, NothingMoves, StayingKeeps
  <2>4. Creds' = Creds /\ OffAges
    BY <1>3, <2>2 DEF CredsAge, Creds, Campaigns, OffAges, Off
  <2>. QED  BY <2>3, <2>4, NoneNew
<1>4. CASE task \in PolicyTask
  <2>1. PolicyWritten(task)
    BY <1>4, TaskKinds DEF Committed, RowWritten, CredentialIssued
  <2>2. /\ CredsAge /\ UNCHANGED campaigns /\ policy' \in Policy
        /\ \A i \in Creds : creds'[i].state = "active" => creds[i].state = "active"
    BY <1>4, <2>1, PolicyWrites
  <2>3. DeviceInv' /\ RowsAge
    BY <1>1, <1>2, <2>2, NothingMoves, StayingKeeps
  <2>4. Creds' = Creds /\ OffAges
    BY <2>2 DEF CredsAge, Creds, Campaigns, OffAges, Off
  <2>. QED  BY <2>3, <2>4, NoneNew
<1>5. CASE task \in IssueTask
  <2>1. CredentialIssued(task)
    BY <1>5, TaskKinds DEF Committed, RowWritten, PolicyWritten
  <2>2. \A h \in PageHandler : working'[h] \in IssueTask =>
            working'[h] = working[h] /\ working[h].campaign # task.campaign
    BY <1>1, <1>5, TaskKinds
  <2>3. /\ DeviceInv' /\ RowsAge
        /\ Creds' = Creds \cup {Len(creds) + 1} /\ Len(creds) + 1 \notin Creds
        /\ creds'[Len(creds) + 1].of = task.of
        /\ \A i \in Creds :
                /\ i \in task.ids => ~Pending(creds'[i])
                /\ i \notin task.ids => creds'[i] = creds[i]
    BY <1>1, <1>2, <1>5, <2>1, <2>2, IssuedKeeps
  <2>4. ~Off
    BY <1>5 DEF Off, Usable
  <2>5. ASSUME NEW i \in DOMAIN creds', NEW j \in DOMAIN creds', Twins(i, j)',
               task.ids = Earlier(task.of)
        PROVE  {i, j} \subseteq Creds
    <3>1. i \in Creds' /\ j \in Creds'
      BY DEF Creds
    <3>2. Len(creds) + 1 \in Nat
      BY Rows DEF DeviceInv
    <3>. QED  BY <2>3, <2>5, <3>1, <3>2, NoTwin
  <2>6. TwinsAge
    BY <1>5, <2>5 DEF TwinsAge
  <2>. QED  BY <2>3, <2>4, <2>6 DEF Goes, OffAges
<1>. QED  BY <1>3, <1>4, <1>5

LEMMA FinishGoes ==
  ASSUME DeviceInv, NEW h \in PageHandler, Finish(h)
  PROVE  Goes
<1> DEFINE task == working[h]
<1>1. Committed(task) /\ Fit(task) /\ UNCHANGED open
      /\ working' = [working EXCEPT ![h] = AtRest]
  BY DEF Finish, DeviceInv, TasksFit
<1>2. working[h] \in RowTask \cup PolicyTask \cup IssueTask
  BY <1>1 DEF Committed, RowWritten, PolicyWritten, CredentialIssued
<1>3. working'[h] = AtRest /\ \A g \in PageHandler : g # h => working'[g] = working[g]
  BY <1>1 DEF DeviceInv, DeviceTypeOK
<1>4. task \in RowTask => Revived(task.cred)
  BY <1>1 DEF Fit, Revived, Revives
<1>5. task \in PolicyTask => \A i \in Creds \cap task.ids : Revived(i)
  BY DEF Revived, Revives
<1>6. task \in IssueTask =>
        /\ task.campaign \in Campaigns /\ Usable(task.campaign)
        /\ \A g \in PageHandler : working'[g] \in IssueTask =>
                working[g].campaign # task.campaign
  BY <1>3, TaskKinds DEF DeviceInv, Held
<1>7. task \in RowTask /\ task.state = "active" => FromOpen(h)
  BY <1>1, <1>3 DEF Fit, FromOpen
<1>. QED  BY <1>1, <1>2, <1>4, <1>5, <1>6, <1>7, CommitGoes

\* A method's name tells whether it is of a page or of a tablet.
LEMMA TabletsApart ==
  ASSUME NEW task \in OfTablets
  PROVE  task \notin OfPages /\ task \notin PolicyRead
<1>1. task.do \in {"late", "replace", "issue"}
  BY DEF OfTablets, AuthenticateLate, Replace, Issue, Reading
<1>2. task \in OfPages =>
        task.do \in {"block", "retire", "extend", "complete", "policy"}
  BY DEF OfPages, Block, Retire, Extend, CompleteReauthentication, SetPolicy, Reading
<1>. QED  BY <1>1, <1>2 DEF PolicyRead

LEMMA AtOnceGoes ==
  ASSUME DeviceInv, AtOnce
  PROVE  Goes
<1>1. PICK task \in OfPages \cup OfTablets :
        /\ task \in OfPages => open
        /\ IF task \in PolicyRead THEN OrgFree /\ Committed(Locked(task))
           ELSE Committed(task)
  BY TabletsApart DEF AtOnce
<1>2. /\ task \in RowTask \cup PolicyRead \cup IssueTask /\ Fit(task)
      /\ task \in RowTask =>
             /\ task.cred \in Creds /\ task.saw = creds[task.cred]
             /\ task \in Block \/ Pending(creds[task.cred])
      /\ task \in IssueTask =>
             /\ task \in Issue
             /\ task.campaign \in Campaigns /\ Usable(task.campaign)
             /\ CampaignFree(task.campaign)
             /\ task.ids = Earlier(task.of)
      /\ ~open /\ Off => task \in OfPages
  BY ReadingsFit
<1>3. UNCHANGED <<open, working>>
  BY DEF AtOnce
<1>4. CASE ~open /\ Off
  BY <1>1, <1>2, <1>4
<1>5. CASE task \in RowTask
  <2>1. Committed(task) /\ RowWritten(task)
    BY <1>1, <1>5, TaskKinds DEF Committed, PolicyWritten, CredentialIssued
  <2>2. Pending(creds[task.cred]) \/ Revived(task.cred)
    BY <1>2, <1>5, <2>1 DEF Revived
  <2>3. CASE open \/ task.state # "active"
    BY <1>2, <1>3, <1>5, <2>1, <2>2, <2>3, TaskKinds, CommitGoes
  <2>4. CASE ~open /\ ~Off
    <3>1. /\ CredsAge /\ UNCHANGED <<policy, campaigns>>
      BY <1>5, <2>1, <2>2, RowWrites
    <3>2. DeviceInv' /\ RowsAge
      <4>1. /\ TasksFit' /\ HeldStay
            /\ working' \in [PageHandler -> {AtRest, Page} \cup RowTask
                            \cup PolicyRead \cup PolicyTask \cup IssueTask]
        BY <1>3, <3>1, HandlersRest
      <4>2. open' \in BOOLEAN /\ policy' \in Policy
        BY <1>3, <3>1 DEF DeviceInv, DeviceTypeOK
      <4>. QED  BY <3>1, <4>1, <4>2, NothingMoves, StayingKeeps
    <3>3. Creds' = Creds /\ OffAges
      BY <2>4, <3>1 DEF CredsAge, Creds, OffAges
    <3>. QED  BY <3>2, <3>3, NoneNew
  <2>. QED  BY <1>4, <2>3, <2>4
<1>6. CASE task \in IssueTask
  <2>1. Committed(task)
    BY <1>1, <1>6, TaskKinds
  <2>2. \A h \in PageHandler : working'[h] \in IssueTask =>
            working[h].campaign # task.campaign
    BY <1>2, <1>3, <1>6 DEF CampaignFree
  <2>. QED  BY <1>2, <1>3, <1>6, <2>1, <2>2, TaskKinds, CommitGoes
<1>7. CASE task \in PolicyRead
  <2> DEFINE set == Locked(task)
  <2>1. Committed(set)
    BY <1>1, <1>7
  <2>2. set \in PolicyTask /\ \A i \in Creds \cap set.ids : Pending(creds[i])
    <3>1. Creds \subseteq 1 .. MaxCredentials
      BY Rows, DeviceAssumption DEF DeviceInv, DeviceTypeOK
    <3>2. task.was \in Policy /\ task.to \in Policy
      BY <1>7 DEF PolicyRead
    <3>3. /\ set.ids \subseteq {i \in Creds : Unverified(creds[i])}
          /\ set = [do |-> "set", was |-> task.was, to |-> task.to, ids |-> set.ids]
      BY DEF Locked
    <3>. HIDE DEF set
    <3>4. set \in PolicyTask
      BY <3>1, <3>2, <3>3 DEF PolicyTask
    <3>. QED  BY <3>3, <3>4 DEF Unverified, Pending
  <2>. HIDE DEF set
  <2>3. Fit(set)
    BY <2>2, TaskKinds DEF Fit
  <2>. QED  BY <1>3, <2>1, <2>2, <2>3, TaskKinds, CommitGoes
<1>. QED  BY <1>2, <1>5, <1>6, <1>7

\* A method reads, and an enrollment holds its campaign from then on.
LEMMA ReadGoes ==
  ASSUME DeviceInv, NEW h \in PageHandler, Read(h)
  PROVE  Goes
<1>1. PICK task \in OfPages \cup OfTablets :
        working' = [working EXCEPT ![h] = task]
  BY DEF Read
<1>2. /\ task \in RowTask \cup PolicyRead \cup IssueTask /\ Fit(task)
      /\ task \in IssueTask =>
             /\ task.campaign \in Campaigns /\ Usable(task.campaign)
             /\ CampaignFree(task.campaign)
  BY ReadingsFit
<1>3. UNCHANGED <<open, policy, campaigns, creds>>
  BY DEF Read
<1>4. /\ working' \in [PageHandler -> {AtRest, Page} \cup RowTask
                            \cup PolicyRead \cup PolicyTask \cup IssueTask]
      /\ working'[h] = task
      /\ \A g \in PageHandler : g # h => working'[g] = working[g]
  BY <1>1, <1>2 DEF DeviceInv, DeviceTypeOK
<1>5. TasksFit'
  BY <1>2, <1>4 DEF DeviceInv, TasksFit
<1>6. Held'
  <2>1. \A g \in PageHandler : working'[g] \in IssueTask =>
            working'[g].campaign \in Campaigns /\ Usable(working'[g].campaign)
    BY <1>2, <1>4 DEF DeviceInv, Held
  <2>2. \A f, g \in PageHandler :
            /\ working'[f] \in IssueTask /\ working'[g] \in IssueTask
            /\ working'[f].campaign = working'[g].campaign
            => f = g
    BY <1>2, <1>4 DEF DeviceInv, Held, CampaignFree
  <2>. QED  BY <1>3, <2>1, <2>2 DEF Held, Usable, Campaigns
<1>7. DeviceTypeOK'
  BY <1>3, <1>4 DEF DeviceInv, DeviceTypeOK
<1>8. RowsAge /\ Creds' = Creds /\ Campaigns' = Campaigns /\ OffAges
  BY <1>3, NothingMoves DEF CredsAge, Creds, Campaigns, OffAges, Off
<1>9. CampaignsKeepCount'
  BY <1>3, <1>8 DEF DeviceInv, CampaignsKeepCount, Usable
<1>. QED  BY <1>5, <1>6, <1>7, <1>8, <1>9, NoneNew DEF DeviceInv

\* Handlers that are let in, refused, or lock the organization.
LEMMA HandlerGoes ==
  ASSUME DeviceInv, NEW h \in PageHandler, Admit(h) \/ Quit(h) \/ Lock(h)
  PROVE  Goes
<1>1. UNCHANGED <<open, policy, campaigns, creds>>
  BY DEF Admit, Quit, Lock
<1>2. PICK task \in {AtRest, Page} \cup PolicyTask :
        working' = [working EXCEPT ![h] = task]
  <2>1. CASE Lock(h)
    <3>1. Creds \subseteq 1 .. MaxCredentials
      BY Rows, DeviceAssumption DEF DeviceInv, DeviceTypeOK
    <3>2. Locked(working[h]) \in PolicyTask
      BY <2>1, <3>1 DEF Lock, Locked, PolicyRead, PolicyTask
    <3>. QED  BY <2>1, <3>2 DEF Lock
  <2>. QED  BY <2>1 DEF Admit, Quit
<1>3. /\ working' \in [PageHandler -> {AtRest, Page} \cup RowTask
                            \cup PolicyRead \cup PolicyTask \cup IssueTask]
      /\ working'[h] = task
      /\ \A g \in PageHandler : g # h => working'[g] = working[g]
  BY <1>2 DEF DeviceInv, DeviceTypeOK
<1>4. TasksFit'
  BY <1>3, TaskKinds DEF DeviceInv, TasksFit, Fit
<1>5. HeldStay
  BY <1>1, <1>3, TaskKinds DEF HeldStay
<1>6. DeviceInv' /\ RowsAge
  <2>1. open' \in BOOLEAN /\ policy' \in Policy
    BY <1>1 DEF DeviceInv, DeviceTypeOK
  <2>. QED  BY <1>1, <1>3, <1>4, <1>5, <2>1, NothingMoves, StayingKeeps
<1>7. Creds' = Creds /\ OffAges
  BY <1>1 DEF Creds, Campaigns, OffAges, Off
<1>. QED  BY <1>6, <1>7, NoneNew

\* A method called from a page turns things on for a handler that was let in.
LEMMA FromPageOff ==
  ASSUME DeviceInv, FromPage
  PROVE  OffAges
<1>1. CASE open
  BY <1>1 DEF OffAges
<1>2. CASE ~open
  <2>1. PICK h \in PageHandler :
            working[h] = Page /\ working' = [working EXCEPT ![h] = AtRest]
    BY <1>2 DEF FromPage
  <2>2. working'[h] = AtRest
    BY <2>1 DEF DeviceInv, DeviceTypeOK
  <2>. QED  BY <2>1, <2>2 DEF OffAges, FromOpen
<1>. QED  BY <1>1, <1>2

LEMMA ExtendAllGoes ==
  ASSUME DeviceInv, ExtendAll
  PROVE  Goes
<1>1. creds \in [Creds -> Credential]
  BY Rows DEF DeviceInv
<1>2. CredsAge
  BY <1>1, AgesNot, AgesInState
  DEF ExtendAll, AllExtended, CredsAge, RowsAge, Ages, Stays, Pending
<1>3. /\ open' \in BOOLEAN /\ policy' \in Policy
      /\ \/ UNCHANGED working
         \/ \E h \in PageHandler : working' = [working EXCEPT ![h] = AtRest]
  BY FromPageRests DEF ExtendAll
<1>4. /\ TasksFit' /\ HeldStay
      /\ working' \in [PageHandler -> {AtRest, Page} \cup RowTask
                            \cup PolicyRead \cup PolicyTask \cup IssueTask]
  BY <1>3, HandlersRest DEF ExtendAll
<1>5. DeviceInv' /\ RowsAge
  BY <1>2, <1>3, <1>4, NothingMoves, StayingKeeps DEF ExtendAll
<1>6. Creds' = Creds /\ OffAges
  BY <1>2, FromPageOff DEF ExtendAll, CredsAge, Creds
<1>. QED  BY <1>5, <1>6, NoneNew

\* Steps that may add a campaign, and no credential.
LEMMA CampaignGoes ==
  ASSUME DeviceInv,
         \/ \E limit \in Limits : CreateCampaign(limit)
         \/ \E c \in Campaigns : RevokeCampaign(c) \/ RenewCampaign(c)
  PROVE  Goes
<1>1. DeviceInv' /\ RowsAge
  BY CreateKeeps, RevokeKeeps, RenewKeeps
<1>2. creds' = Cleared \/ creds' = creds
  BY DEF CreateCampaign, CampaignCreated, RevokeCampaign, RenewCampaign,
         CampaignRenewed
<1>3. Creds' = Creds
  BY <1>2, Rows DEF DeviceInv, Creds, Cleared
<1>4. OffAges
  BY FromPageOff DEF CreateCampaign, RevokeCampaign, RenewCampaign
<1>. QED  BY <1>1, <1>3, <1>4, NoneNew

LEMMA IssueLateGoes ==
  ASSUME DeviceInv, NEW c \in Campaigns, IssueLate(c)
  PROVE  Goes
<1>1. DeviceInv' /\ RowsAge
  BY IssueLateKeeps
<1>2. Creds' = Creds
  BY DEF IssueLate, Creds
<1>3. OffAges
  BY DEF IssueLate, OffAges, Off
<1>. QED  BY <1>1, <1>2, <1>3, NoneNew

-----------------------------------------------------------------------------
(* The organization, and a start *)

\* What turns campaigns off keeps the counts.
LEMMA CampaignsOff ==
  ASSUME DeviceInv, NEW s \in {"superseded", "revoked"},
         campaigns' = [c \in Campaigns |-> campaigns'[c]],
         \A c \in Campaigns : campaigns'[c]
            \in {campaigns[c], [campaigns[c] EXCEPT !.state = s]}
  PROVE  /\ CampaignsStay /\ OneActive' /\ Campaigns' = Campaigns
         /\ \A c \in Campaigns :
                campaigns'[c].state = "active" => campaigns[c].state = "active"
<1>1. ASSUME NEW c \in Campaigns
      PROVE  /\ campaigns'[c] \in Campaign
             /\ campaigns'[c].used = campaigns[c].used
             /\ campaigns'[c].limit = campaigns[c].limit
             /\ campaigns'[c].state = "active" => campaigns[c].state = "active"
  <2>1. campaigns[c] \in Campaign
    BY Rows DEF DeviceInv
  <2> DEFINE off == [campaigns[c] EXCEPT !.state = s]
  <2>2. /\ off \in Campaign /\ off.used = campaigns[c].used
        /\ off.limit = campaigns[c].limit /\ off.state = s
    <3>1. s \in {"active", "superseded", "revoked", "expired", "exhausted"}
      OBVIOUS
    <3>. QED  BY <2>1, <3>1, CampaignInState
  <2>3. campaigns'[c] = campaigns[c] \/ campaigns'[c] = off
    OBVIOUS
  <2>4. s # "active"
    OBVIOUS
  <2>. HIDE DEF off
  <2>. QED  BY <2>1, <2>2, <2>3, <2>4
<1>2. Campaigns' = Campaigns /\ campaigns' \in [Campaigns -> Campaign]
  BY <1>1 DEF Campaigns
<1>3. CampaignsStay
  BY <1>1, <1>2 DEF CampaignsStay, DeviceInv, CampaignsKeepCount, Usable
<1>4. OneActive'
  BY <1>1, <1>2 DEF OneActive, DeviceInv, CampaignsKeepCount
<1>. QED  BY <1>1, <1>2, <1>3, <1>4

LEMMA ArchiveGoes ==
  ASSUME DeviceInv, ArchiveDevices
  PROVE  Goes /\ Off'
<1>. USE DEF ArchiveDevices
<1>1. /\ CampaignsStay /\ OneActive' /\ Campaigns' = Campaigns
      /\ \A c \in Campaigns : campaigns'[c].state # "active"
  <2>1. campaigns' = [c \in Campaigns |-> campaigns'[c]]
    BY DEF RevokedAtArchival
  <2>2. ASSUME NEW c \in Campaigns
        PROVE  campaigns'[c] = IF campaigns[c].state = "active"
                    THEN [campaigns[c] EXCEPT !.state = "revoked"]
                    ELSE campaigns[c]
    BY DEF RevokedAtArchival
  <2>3. \A c \in Campaigns : campaigns'[c].state # "active"
    BY <2>2, Rows, CampaignInState DEF DeviceInv
  <2>. QED  BY <2>1, <2>2, <2>3, CampaignsOff
<1>2. ASSUME NEW i \in Creds
      PROVE  Ages(creds[i], creds'[i]) /\ creds'[i].state # "active"
  BY Rows, AgesNot, AgesInState DEF DeviceInv
<1>3. CredsAge /\ Creds' = Creds
  BY <1>2 DEF CredsAge, RowsAge, Ages, Stays, Creds
<1>4. /\ TasksFit'
      /\ working' \in [PageHandler -> {AtRest, Page} \cup RowTask
                            \cup PolicyRead \cup PolicyTask \cup IssueTask]
  BY HandlersRest
<1>5. HeldStay
  BY NobodyEnrolls DEF HeldStay
<1>6. DeviceInv' /\ RowsAge
  <2>1. open' \in BOOLEAN /\ policy' \in Policy
    BY DEF DeviceInv, DeviceTypeOK
  <2>. QED  BY <1>1, <1>3, <1>4, <1>5, <2>1, StayingKeeps
<1>7. Goes
  BY <1>3, <1>6, NoneNew DEF OffAges
<1>. QED  BY <1>1, <1>2, <1>3, <1>7 DEF Off

LEMMA UnarchiveGoes ==
  ASSUME DeviceInv, UnarchiveDevices
  PROVE  Goes
<1>. USE DEF UnarchiveDevices
<1>1. /\ TasksFit' /\ HeldStay
      /\ working' \in [PageHandler -> {AtRest, Page} \cup RowTask
                            \cup PolicyRead \cup PolicyTask \cup IssueTask]
  BY HandlersRest
<1>2. open' \in BOOLEAN /\ policy' \in Policy
  BY DEF DeviceInv, DeviceTypeOK
<1>3. DeviceInv' /\ RowsAge
  BY <1>1, <1>2, NothingMoves, StayingKeeps
<1>. QED  BY <1>3, NoneNew DEF OffAges, Creds

\* An instance that starts only closes what it finds.
LEMMA RestartGoes ==
  ASSUME DeviceInv, Restart
  PROVE  Goes
<1>. USE DEF Restart
<1>1. /\ CampaignsStay /\ OneActive' /\ Campaigns' = Campaigns
      /\ \A c \in Campaigns :
            campaigns'[c].state = "active" => campaigns[c].state = "active"
  <2>1. campaigns' = [c \in Campaigns |-> campaigns'[c]]
    BY DEF CampaignsAtStart
  <2>2. \A c \in Campaigns : campaigns'[c]
            \in {campaigns[c], [campaigns[c] EXCEPT !.state = "superseded"]}
    BY DEF CampaignsAtStart
  <2>. QED  BY <2>1, <2>2, CampaignsOff
<1>2. campaigns' = campaigns
  <2>1. ASSUME NEW c \in Campaigns, DuplicateCampaign(c) PROVE FALSE
    <3>1. PICK d \in Campaigns : d > c /\ campaigns[d].state = "active"
      BY <2>1 DEF DuplicateCampaign
    <3>2. c = d /\ c \in Nat
      BY <2>1, <3>1, Rows DEF DuplicateCampaign, DeviceInv, CampaignsKeepCount
    <3>. QED  BY <3>1, <3>2
  <2>2. campaigns' = [c \in Campaigns |-> campaigns[c]]
    BY <2>1 DEF CampaignsAtStart
  <2>. QED  BY <2>2, Rows DEF DeviceInv
<1>3. ASSUME NEW i \in Creds
      PROVE  /\ VerifiedAtStart[i] \in Credential
             /\ Ages(creds[i], VerifiedAtStart[i])
             /\ VerifiedAtStart[i].state = "active" => creds[i].state = "active"
  <2>1. creds[i] \in Credential
    BY Rows DEF DeviceInv
  <2>2. Ages(creds[i], Superseded(creds[i])) /\ ~Pending(Superseded(creds[i]))
    BY <2>1, AgesToSuperseded
  <2>3. Unverified(creds[i]) =>
            Ages(creds[i], [creds[i] EXCEPT !.state = "reauth_required"])
    BY <2>1, AgesInState DEF Unverified, Pending
  <2>. QED
    BY <2>1, <2>2, <2>3, AgesNot DEF VerifiedAtStart, Ages, Stays, Pending, Unverified
<1>4. ASSUME NEW i \in Creds
      PROVE  /\ Ages(creds[i], creds'[i])
             /\ creds'[i].state = "active" => creds[i].state = "active"
  <2>1. /\ VerifiedAtStart[i] \in Credential
        /\ Ages(creds[i], VerifiedAtStart[i])
        /\ VerifiedAtStart[i].state = "active" => creds[i].state = "active"
    BY <1>3
  <2>2. CASE creds'[i] = VerifiedAtStart[i]
    BY <2>1, <2>2
  <2>3. CASE creds'[i] = Superseded(VerifiedAtStart[i])
    <3>1. /\ Ages(VerifiedAtStart[i], Superseded(VerifiedAtStart[i]))
          /\ ~Pending(Superseded(VerifiedAtStart[i]))
      BY <2>1, AgesToSuperseded
    <3>2. Ages(creds[i], Superseded(VerifiedAtStart[i]))
      BY <2>1, <3>1, AgesTwice
    <3>. QED  BY <2>3, <3>1, <3>2 DEF Pending
  <2>. QED  BY <2>2, <2>3
<1>5. CredsAge /\ Creds' = Creds
  BY <1>4 DEF CredsAge, RowsAge, Ages, Stays, Creds
<1>6. /\ TasksFit' /\ HeldStay
      /\ working' \in [PageHandler -> {AtRest, Page} \cup RowTask
                            \cup PolicyRead \cup PolicyTask \cup IssueTask]
  BY <1>2, HandlersRest
<1>7. DeviceInv' /\ RowsAge
  <2>1. open' \in BOOLEAN /\ policy' \in Policy
    BY DEF DeviceInv, DeviceTypeOK
  <2>. QED  BY <1>1, <1>5, <1>6, <2>1, StayingKeeps
<1>8. OffAges
  BY <1>1, <1>4, <1>5 DEF OffAges, Off
<1>. QED  BY <1>5, <1>7, <1>8, NoneNew

-----------------------------------------------------------------------------
(* Every step *)

LEMMA DeviceStart ==
  ASSUME DeviceInit
  PROVE  DeviceInv
<1>1. /\ Campaigns = {} /\ Creds = {} /\ Len(campaigns) = 0 /\ Len(creds) = 0
      /\ campaigns \in Seq(Campaign) /\ creds \in Seq(Credential)
  BY DEF DeviceInit, Campaigns, Creds
<1>2. DeviceTypeOK
  BY <1>1, DeviceAssumption DEF DeviceTypeOK, DeviceInit, Policy, Creds, Campaigns
<1>3. \A h \in PageHandler : working[h] = AtRest
  BY DEF DeviceInit
<1>4. Held /\ TasksFit
  BY <1>3, TaskKinds DEF Held, TasksFit, Fit
<1>5. CampaignsKeepCount
  BY <1>1 DEF CampaignsKeepCount
<1>. QED  BY <1>2, <1>4, <1>5 DEF DeviceInv

LEMMA DeviceStep ==
  ASSUME DeviceInv, [DeviceNext]_deviceVars
  PROVE  Goes /\ (open /\ ~open' => Off')
<1>1. CASE UNCHANGED deviceVars
  <2>. USE <1>1 DEF deviceVars
  <2>1. /\ TasksFit' /\ HeldStay
        /\ working' \in [PageHandler -> {AtRest, Page} \cup RowTask
                            \cup PolicyRead \cup PolicyTask \cup IssueTask]
    BY HandlersRest
  <2>2. open' \in BOOLEAN /\ policy' \in Policy
    BY DEF DeviceInv, DeviceTypeOK
  <2>3. DeviceInv' /\ RowsAge
    BY <2>1, <2>2, NothingMoves, StayingKeeps
  <2>4. Creds' = Creds /\ OffAges
    BY DEF Creds, Campaigns, OffAges, Off
  <2>. QED  BY <2>3, <2>4, NoneNew
<1>2. CASE ArchiveDevices
  BY <1>2, ArchiveGoes
<1>3. CASE AtOnce
  BY <1>3, AtOnceGoes DEF AtOnce
<1>4. CASE ExtendAll
  BY <1>4, ExtendAllGoes DEF ExtendAll, FromPage
<1>5. CASE UnarchiveDevices
  BY <1>5, UnarchiveGoes DEF UnarchiveDevices
<1>6. CASE Restart
  BY <1>6, RestartGoes DEF Restart
<1>7. ASSUME NEW h \in PageHandler,
             Admit(h) \/ Quit(h) \/ Read(h) \/ Lock(h) \/ Finish(h)
      PROVE  Goes /\ open' = open
  <2>1. CASE Admit(h) \/ Quit(h) \/ Lock(h)
    BY <2>1, HandlerGoes DEF Admit, Quit, Lock
  <2>2. CASE Read(h)
    BY <2>2, ReadGoes DEF Read
  <2>3. CASE Finish(h)
    BY <2>3, FinishGoes DEF Finish
  <2>. QED  BY <1>7, <2>1, <2>2, <2>3
<1>8. CASE \/ \E limit \in Limits : CreateCampaign(limit)
           \/ \E c \in Campaigns : RevokeCampaign(c) \/ RenewCampaign(c)
  BY <1>8, CampaignGoes
  DEF CreateCampaign, RevokeCampaign, RenewCampaign, FromPage
<1>9. ASSUME NEW c \in Campaigns, IssueLate(c)
      PROVE  Goes /\ open' = open
  <2>1. open' = open
    BY <1>9 DEF IssueLate
  <2>. QED  BY <1>9, <2>1, IssueLateGoes
<1>. QED
  BY <1>1, <1>2, <1>3, <1>4, <1>5, <1>6, <1>7, <1>8, <1>9 DEF DeviceNext

LEMMA DeviceAlways == DeviceSpec => [](DeviceInv /\ DeviceTypeOK /\ CampaignsKeepCount)
<1>1. DeviceInit => DeviceInv
  BY DeviceStart
<1>2. DeviceInv /\ [DeviceNext]_deviceVars => DeviceInv'
  BY DeviceStep DEF Goes
<1>3. DeviceInv => DeviceTypeOK /\ CampaignsKeepCount
  BY DEF DeviceInv
<1>. QED  BY <1>1, <1>2, <1>3, PTL DEF DeviceSpec

-----------------------------------------------------------------------------
(* The theorems *)

\* The types.  Handlers that overlap put nothing into the rows of campaigns and
\* credentials that the store does not know, and no credential comes without
\* its campaign.
THEOREM DeviceTypeCorrect == DeviceSpec => []DeviceTypeOK
  BY DeviceAlways, PTL

\* Redemptions.  The lock on the campaign's row keeps issue_device_credential
\* from counting a use twice or beyond the limit, and create and renew leave
\* one QR valid at a time.
THEOREM CountsKept == DeviceSpec => []CampaignsKeepCount
  BY DeviceAlways, PTL

\* Retirement.  retire, replace, policies and new QR codes take a credential out
\* of use, and it comes back when an administrator blocks it or when a method
\* commits that had found it pending; issue, archive and initialize, which
\* write it too, never bring it back.
THEOREM RetiredStays == DeviceSpec => RetiredForGood
<1>1. DeviceInv /\ [DeviceNext]_deviceVars =>
        \A i \in Creds :
            ~Pending(creds[i]) /\ Pending(creds'[i]) => Revived(i)
  BY DeviceStep DEF Goes, RowsAge
<1>. QED  BY <1>1, DeviceAlways, PTL DEF DeviceSpec, RetiredForGood

\* One credential each.  issue_device_credential supersedes the installation's
\* earlier ones, so that two work or wait only if one of them is brought back,
\* or if those to make way changed between what it read and what it wrote.
THEOREM OneLive == DeviceSpec => OneLivePerInstallation
<1> DEFINE Same ==
        \A i, j \in DOMAIN creds' :
            Twins(i, j)' =>
                \/ /\ {i, j} \subseteq Creds
                   /\ Twins(i, j) \/ Revived(i) \/ Revived(j)
                \/ \E h \in PageHandler :
                    /\ Finish(h) /\ working[h] \in IssueTask
                    /\ working[h].ids # Earlier(working[h].of)
<1>1. DeviceInv /\ [DeviceNext]_deviceVars => Same
  <2>. SUFFICES ASSUME DeviceInv, [DeviceNext]_deviceVars,
                       NEW i \in DOMAIN creds', NEW j \in DOMAIN creds',
                       Twins(i, j)', i \in Creds, j \in Creds
                PROVE  Twins(i, j) \/ Revived(i) \/ Revived(j)
    BY DeviceStep DEF Goes, TwinsAge
  <2>1. /\ i < j /\ creds'[i].of = creds'[j].of
        /\ Pending(creds'[i]) /\ Pending(creds'[j])
    BY DEF Twins, Pending
  <2>2. RowsAge
    BY DeviceStep DEF Goes
  <2>. QED  BY <2>1, <2>2 DEF RowsAge, Stays, Twins
<1>. QED  BY <1>1, DeviceAlways, PTL DEF DeviceSpec, OneLivePerInstallation

\* Archival.  archive_organization revokes all that is active, and while it
\* lasts the store's methods, which never look at the lifecycle, turn something
\* on for a handler only that require_organization_user let in before.
THEOREM ArchivedOff == DeviceSpec => ArchivedIsOff
<1> DEFINE Same ==
        /\ open /\ ~open' => Off'
        /\ ~open /\ ~open' /\ Off =>
                Off' \/ \E h \in PageHandler : FromOpen(h)
<1>1. DeviceInv /\ [DeviceNext]_deviceVars => Same
  BY DeviceStep DEF Goes, OffAges
<1>. QED  BY <1>1, DeviceAlways, PTL DEF DeviceSpec, ArchivedIsOff

=============================================================================
