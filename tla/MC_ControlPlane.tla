--------------------------- MODULE MC_ControlPlane ---------------------------
(***************************************************************************)
(* Five components of the control plane, in one run.  Their variables are  *)
(* disjoint: what one does to another (archiving an organization revokes   *)
(* its devices) is an action of the one it is done to.  A behaviour has    *)
(* one of them running, chosen at the start, so the run checks each        *)
(* component's specification alone.                                        *)
(***************************************************************************)
EXTENDS MC_VideoRequests, Organizations, DeviceCredentials, ConfigReleases,
    WebhookDelivery

VARIABLE part    \* the component that runs

MCVars == <<part, vars, accountVars, deviceVars, configVars, webhookVars>>

MCInit ==
    /\ part \in {"video", "accounts", "devices", "config", "webhook"}
    /\ Init /\ AccountInit /\ DeviceInit /\ ConfigInit /\ WebhookInit

MCNext ==
    /\ UNCHANGED part
    /\ \/ part = "video" /\ Next
          /\ UNCHANGED <<accountVars, deviceVars, configVars, webhookVars>>
       \/ part = "accounts" /\ AccountNext
          /\ UNCHANGED <<vars, deviceVars, configVars, webhookVars>>
       \/ part = "devices" /\ DeviceNext
          /\ UNCHANGED <<vars, accountVars, configVars, webhookVars>>
       \/ part = "config" /\ ConfigNext
          /\ UNCHANGED <<vars, accountVars, deviceVars, webhookVars>>
       \/ part = "webhook" /\ WebhookNext
          /\ UNCHANGED <<vars, accountVars, deviceVars, configVars>>

MCSpec == MCInit /\ [][MCNext]_MCVars

\* Bound: methods for one credential overlap others while there is one
\* campaign.
FewOverlaps ==
    Len(campaigns) <= 1 \/ \A h \in PageHandler : working[h] \in {AtRest, Page}

\* Bound: one of the two requests has exchanges at a time.
OneExchanges ==
    \A q, r \in Request :
        /\ requests[q] # Nil /\ requests[r] # Nil
        /\ requests[q].probe # "none" \/ requests[q].media # "none"
        /\ requests[r].probe # "none" \/ requests[r].media # "none"
        => q = r

\* Ids of requests and of users are alike, and so are addresses; every property
\* is one of states or steps.
Alike ==
    Permutations(Request) \cup Permutations(User) \cup Permutations(Email)

=============================================================================
