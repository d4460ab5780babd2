# Verification of the r2c-tracker coordination server

TLA+ models of the tracker (`src/`, Python, FastAPI + SQLAlchemy), TLC runs on
small instances and TLAPS proofs for all instances.  `PROJECT.json` lists the
runs, the lines every definition stands for, the hazards of the code and the
properties that cover them, and what is proved.

    tlc -config hub_registry.cfg MC_R2CScenes   # a run
    tlapm R2CHubProofs.tla                      # the proofs

## 1. Inventory of the system

| Component | State | Operations | Hard because |
|---|---|---|---|
| **R2C hub** (`main.py` 1429-4645, driven by `serve_r2c_websocket` 12658) | in memory, under one asyncio lock: `_connections`, `_connections_by_device_credential_id`, `_zones_by_map`, `_owners`, `_confirmed_drones_by_map`, peer traffic | connect, hello, heartbeat, first_sighting, sighting, drone_confirmed, drone_lost, idle, receive timeout, disconnect, sweep | handlers of many sockets interleave at every await; a tablet's old and new socket overlap; leases; regrouping |
| **R2C SQL mirror** (`_upsert_*`, `_delete_*`, `_load_state`, `_cleanup_*`, 4171-4600) | zone, owner, confirmation and sighting rows | written after the lock is released; loaded by a start-up task; purged by a loop | writes reordered, load races with hellos, restart loses fields |
| **Broadcasts, relays, replay** (2136-2232, 4124-4169, 3762-4030) | nothing but replay keys and peer traffic | zone_update, owner_assigned, owner_expired, relay_sighting | two broadcasts interleave per recipient; relay target read before an await |
| **Managed video** (`control_plane.py` 7508-9500) | requests, preflight and media exchanges, active streams in SQL | advertise, request, preflight, decide, start media, stream, cancel, stop, expire | requester, device, viewer and expiry each in their own transaction |
| **Recording downloads** (`control_plane.py` 7873-8245, `main.py` 10347-10560, 1104-1165) | requests in SQL, spool files on disk | request, decide, upload, deliver, expire, clean up | two stores (rows and files), crash between them |
| **Device credentials** (`control_plane.py` 1900-2080, 4931, 6167-7290, `main.py` 11279-11504, 11644-11808) | campaigns, credentials, access policy | create, revoke, renew and redeem a QR, sign in, block, retire, extend, replace, repair at start-up | the QR is scanned again when its answer was lost; methods read one credential without a lock, and pages check the organization in another transaction |
| **Configuration proposals** (`control_plane.py` 7287-7508, `main.py` 2477-2516, 9116-9229) | one proposal, releases, current release | start, answer, approve, reject, restore | an answer crosses the tablet, an await and another request; the row is read without a lock and updated by key |
| **Organizations and members** (`control_plane.py` 2771-4860, `main.py` 6221-8841, 11047-11276, `enrollment.py`) | organization, users, reset tokens, mailed links | create, replace the administrator, archive, unarchive, invite, activate in three ways, update, delete, restore, reset a password | no method locks what it reads, a page's check is a transaction of its own, members' pages give out every role |
| **Billing** (`control_plane.py` 4985-5750, `main.py` 416-586) | allowances, notices, video switch; ledger, funding state | load the export, reconcile, list and mail notices | a worker per instance, each with its own copy of an export that is corrected |
| **Webhook deliveries** (`control_plane.py` 5876-5990, `main.py` 6421-6505) | a row per event | claim, mail, mark | calls are repeated while earlier ones are at work |
| **Logins**, **audit retention**, **flight uploads**, **FAA cache**, **TURN credentials**, **release guard**, **web pages** | see `PROJECT.json` | | not modelled, see 6 |

Components interact through the SQL store (all but the hub; archiving an
organization closes its accounts, campaigns and credentials at once), through the hub (video
and recording requests are sent to a device over its R2C socket, chosen with
`_connections_by_device_credential_id`), and through callbacks from the browser
(polling) and the tablet (socket messages).

What makes each correct, in a line: *hub* - registry, index and connections
agree, a drone has the owner the arbitration order says, confirmations live as
long as their tablet's presence, tenants are apart, silent tablets go;
*mirror* - the row follows an owner that keeps its lease, and goes with the last one; *video* - one approved or
streaming request per device, final states are final; *recordings* - ended
requests stay ended, what is ready can be fetched, and no copy outlives its
retention;
*credentials* - one live credential an installation, what was retired opens
nothing, campaigns are not overdrawn; *configuration* - what is published is what
the tablet sent and an administrator saw; *organizations* - an open one has its
administrator, an archived one admits nobody, nobody comes back with an old
password (each but for overlaps that the properties name); *billing* - video and notices follow the costs; *webhooks* - one call at
a time works on an event.

## 2. What is modelled now

| Module | Models | |
|---|---|---|
| `OwnerOrder` | `_pick_owner` | the order of claims |
| `R2CHub` | `R2CCoordinationHub`'s dictionaries and all handlers that change them | the core |
| `DroneOwnership` | what `R2C_PROTOCOL.md` 4, 6, 7 promise about a drone's owner | abstract specification |
| `R2CGrouping` | the grouping part of `R2CHub` alone | liveness |
| `R2CMirror` | one drone's owner in memory and its rows in SQL: write tails, load, clean-up, restart | liveness |
| `MC_R2CHub`, `MC_R2CScenes` | small instances of `R2CHub` | |
| `MC_Background` | small instances of `R2CGrouping` and `R2CMirror` | |
| `VideoRequests` | streams, video requests and their exchanges in SQL, and every handler that changes them | |
| `MC_VideoRequests` | small instances | |
| `MC_Deadlines` | small instances of `R2CHub` and `VideoRequests` under fairness | |
| `RecordingDownload` | recording requests in SQL, the spool's files, and every handler and clean-up that changes either | |
| `StoreRows` | what an UPDATE writes of a row that was read without a lock | |
| `Organizations` | one designator: organization, administrator, members, reset tokens; methods in a read and a write | |
| `DeviceCredentials` | one organization's campaigns and credentials; pages' checks, reads, writes | |
| `ConfigReleases` | one organization's proposal and releases; methods in a read and a write | |
| `Allowances` | one organization's monthly allowance, its notices and video switch, a worker per instance | |
| `WebhookDelivery` | one event of App Store Connect and the calls that bring it | |
| `MC_ControlPlane` | small instances of `VideoRequests` and of these but `Allowances` | |
| `R2CHubProofs` (with `OwnerOrder`), `R2CMirrorProofs`, `VideoRequestsProofs`, `RecordingDownloadProofs`, `OrganizationsProofs`, `DeviceCredentialsProofs`, `ConfigReleasesProofs`, `NotificationProofs` (`Allowances` and `WebhookDelivery`) | | theorems |

`DroneOwnership` <- (refinement) - `R2CHub` - EXTENDS -> `OwnerOrder`;
`R2CGrouping` EXTENDS `R2CHub` and takes a part of its actions.

### State and actions of `R2CHub`

| TLA+ | Code |
|---|---|
| `conn[s]` | the `R2CZoneConnection` of websocket `s` (key = `map_id`, reported = `reported_map_id`, mode, place = `lat`/`lng`, parked = `connection_state` is idle or standby, wired = `websocket is not None`, seen = age of `last_seen_ms`), quiet = how long `receive_text` has waited |
| `task[s]` | the serve loop of `s`: none, serving, closing (timed out or failed, `disconnect` is next), refused (returned without `disconnect`); `s` is in `_connections` unless "none" |
| `byDev` | `_connections_by_device_credential_id` |
| `zones` | `_zones_by_map`, as a function of organization, key and zone |
| `owners`, `confs` | `_owners`, `_confirmed_drones_by_map` |
| one action per handler | `Connect`, `Hello`, `RefuseHello`, `Heartbeat` / `HeartbeatRehomed` / `HeartbeatFailed`, `FirstSighting`, `Sighting`, `DroneConfirmed`, `DroneLost`, `Idle`, `SilenceTimeout`, `Disconnect`, `Sweep`; `OtherMessage` for every message that changes none of this state |

A handler is one action because its changes happen inside one `async with
self._lock` block; `_handle_heartbeat` awaits a query *inside* the block, so it
is one action as well, and the failing query is `HeartbeatFailed`.  The exception
handlers of the serve loop are `Disconnect`, which may follow any action.

Time is relative: leases count down, ages count up, both saturate just past
their limits, `Tick` moves all of them.  Where the unit does not matter a run
takes limit 0: the limit is then shorter than a tick, so a lease is either
running in this tick or has run out, and the silence timeout may come at any
moment - more behaviours than the code has, not fewer.

Abstractions: a tablet reports one zone id, equal to its guid, as the app does;
ids are ranks; a location is a place of a finite metric or one
`_has_usable_location` rejects; the persisted rows that
`_resolve_persisted_mapped_coordination_map_id` reads are any map a tablet
reports; handlers' SQL writes are in `R2CMirror`, sends are not modelled.

### State and actions of `R2CMirror`

| TLA+ | Code |
|---|---|
| `owner` | the drone's entry in `_owners`: of (`owner_guid`), confirmed (`source` is confirmation), left (ticks until `lease_expire_ms`) |
| `mirror[t]` | the row of `r2c_drone_owner_state` that a handler of `t` inserted: whose it is, and its lease; there may be several, as the index on its key is not unique |
| `tail[w]` | what a handler of tablet `w`, or the sweep, has still to write after it released the lock: an upsert (with the entry itself, `shared`, or a copy of it, as heartbeats and sightings take) or a delete; seen, was: the row its SELECT found, and whose it was |
| `expiring` | the task of `_expiry_loop` has not ended |
| `load` | `_load_state`: due, has read the rows, over |
| `doomed` | rows the daily clean-up has found and not yet deleted |
| `FirstSighting`, `Renew` (heartbeat, sighting by the owner's zone), `DroneConfirmed`, `DroneLost`, `Disconnect`, `Sweep` | what each does to the drone's entry under the lock |
| `Read`, then `Insert`, `Update` or `DeleteRow` | the two halves of `_upsert_owner_state` and `_delete_owner_state` |
| `Raises` | `MultipleResultsFound` of a SELECT that finds two rows, `StaleDataError` of an UPDATE whose row is gone: a tablet's serve loop disconnects it, the sweep's loop ends |
| `LoadRead`, `LoadTaken`, `LoadGivenUp`; `CleanUpFinds`, `CleanUpDeletes`, `CleanUpFails`; `Restart` | start-up, clean-up, a new process |

An UPDATE sets what differs from what was read: the lease, and the guid if another
was read (`was`).  Abstractions: which of two claims is better is `R2CHub`'s
matter, here either may be; a tablet's handlers follow one another (one socket);
a drone has one key.

### State and actions of `VideoRequests`

| TLA+ | Code |
|---|---|
| `streams[v]` | the `ActiveVideoStream` row with session id `v`: on (`state` is active), fresh (`expires_at` is not past), remote (`remote_control_enabled`) |
| `requests[r]` | the `VideoStreamRequest` row: state, remote (the flag when it was made), due and late (which deadline `expires_at` is, the answer's 60 seconds or the session's ten minutes, and how many of the two have passed), by (who approved); probe, media: its `VideoPreflightExchange` and `VideoMediaExchange` - none, with an offer, with an answer |
| `work[w]` | an open transaction: the handler, the columns it has read (`was`), the other rows it has read or locked (`others`, `of`) |
| `Read...(w, ...)`, then `Cancel(w)`, `StartPreflight(w)`, ... | the two halves of a handler; `Abandon` is a rollback |
| `Advertise`, `Lapse`, `Later` | one inventory entry; presence and deadlines running out |

The store is PostgreSQL at its default isolation: a handler reads rows, decides,
and its flush writes *the columns it assigned with a value that differs from the
one it read* (`Assigned`); only `with_for_update` keeps a row.  Two handlers
take such locks: `create_video_stream_request` on the stream, and
`record_video_stream_decision` on the device's other viewers and their streams.
`reconcile_device_video_streams` flushes the streams before it queries the
requests, so it holds the former too.  An insert of an exchange that another
transaction has inserted, and an update of one that has been deleted, fail
(`SameRow`).  Most handlers set `expired` on a request past its deadline before
they look at its state (`TimedOut`): a request that has ended may so become
expired, but stays ended.

Abstractions: the queries of a handler are one read, and an advertisement is
one step; bandwidth, quality choices and SDP are left out, as a decision that is
refused for them is an `Abandon`; organizations and roles are checked before
anything is written and do not change what is.

### State and actions of `RecordingDownload`

| TLA+ | Code |
|---|---|
| `rows[r]` | the `RecordingDownloadRequest` row: recording (`active_stream_id`), requester, state, late (`expires_at` is past), stored (`storage_relpath` is set) |
| `spool[v]` | the file of recording `v` below `recordings/`; old: its `mtime` is longer ago than the TTL |
| `parts[r]` | `.{request_id}.part` |
| `jobs[j]` | an HTTP request under way: what it does next, for which row |
| `sweep` | the paths the clean-up has got from `expire_recording_download_spools` and not yet removed |
| `Create`, `Decide` | one transaction each |
| `BeginUpload`, `MarkUploading`, `WriteChunk`, `ReplaceFile`, `CompleteUpload` | a PUT of the tablet: two transactions, the chunk, and with the last chunk the move of the file and a third transaction |
| `OpenCopy`, `Deliver`, `RemoveDelivered` | a browser's download: the file is opened, the last byte is sent and the row closed, the file is removed |
| `ReadLate`, `ExpireLate` | every reader of requests first expires those it finds overdue, without a lock |
| `ExpireSpools`, `RemoveExpired` | a round of the clean-up worker: rows, then files |
| `Abandon`, `AbandonSweep` | a handler is refused or breaks, an instance stops, between any two of these |

All transactions but the expiry lock the row (`with_for_update`), and so are one
step.  They take the time before they wait for that lock; `Noticed` lets a
deadline that passes meanwhile go unnoticed, for however long.  A consequence
that the model has, and that no document excludes: an *approved* request may get
its new deadline just after the requester, finding it overdue, has made another,
so what holds is stated of the questions that await an answer (`OneQuestion`).

Abstractions: a file's name is the recording's, as its path consists of the
stream session's id and the name the tablet gives it, which is external; a
file's bytes, and PUTs of one request that overlap, are left out.  The clean-up
compares the file's time of modification with the TTL, and a request's time runs
from its completion, a moment later: `Age` makes a copy old at any time after it
was moved and marked, its request being late or not.  What `Age` and `AgePart` do
exclude is that a file gets old between two steps of the handler that writes it (the
TTL is an hour unless configured).  That a recording is advertised when it is
requested is taken as given (it concerns `VideoRequests`' streams).

### Rows that are read without a lock (`StoreRows`)

Sessions work at PostgreSQL's default isolation.  `Organizations`, `ConfigReleases` and the
methods of `DeviceCredentials` for one credential read rows without `with_for_update`,
check what they have read, and change attributes; the flush updates *the columns
whose value differs from the one that was read*, by primary key, whatever was committed in
between (`Column`).  So a method is two actions: one that reads, checks and keeps the rows
(`saw`) in the handler's task, and one that writes.  Anything may come between the two.
What a method reads it reads at one moment: its queries follow one another without
a step of another handler in between.  A method that nothing overlaps is one action
(`Undisturbed`, `AtOnce`): the same read and write at once, so that a behaviour may have any
number of these beside the few handlers that are overlapped.

### State and actions of `Organizations`

| TLA+ | Code |
|---|---|
| `org` | the `Organization` row: life (`lifecycle_state`), prov (`provisioning_state`), from (`archived_from_provisioning_state`) |
| `contact` | `contact_email`, the primary administrator's address |
| `users[u]` | the `OrganizationUser` row: email, state, owner (has the role `organization_owner`), password (has a usable hash) |
| `tokens` | users with a live `OrganizationPasswordResetToken` |
| `tasks[w]` | a handler under way: "session" or "visit" (its page has found the organization open, in a transaction before the store's), "mail" (`MarkSent` follows), or a method with what it read: add, update, delete, restore, issue, reset, replace, archive, unarchive, activate (password), signin (Google, Microsoft) |
| `OpenMembers`, `Visit` | `require_organization_user` of a member's page; `get_organization` of a sign-in or forgotten-password page |
| `Select` | a method reads: one of `OfMembersPage`, `OfVisitors`, `OfOthers`; what each demands of the rows is in its definition |
| `Commit` | its write: `UserAdded`, `UserUpdated`, `AdministratorReplaced`, ..., and the unique key of the addresses, whose violation is a failed commit |
| `CreateOrganization`, `SendInvitation`, `MarkSent`, `ResetExpires`, `Fail` | one transaction each; a handler that stops |

`add_user` and `update_user` store any of `ROLE_NAMES`, `organization_owner` included
(`set_roles`, 431-438), and no page filters it: `AddMember` and `UpdateMember` choose `owner` freely.  Roles
are one column, so an update that sets them overwrites it if *any* role differs from what was
read (`MergedRoles`).  An archival writes its accounts, tokens and campaigns in update
statements after its flush has locked the organization's row: it counts as committed
at these statements, as what another handler commits before the archival's end
gives the same rows right after it.

Abstractions: no role but the owner's; links, nonces and their expiry (who is invited
may have a link that is good, and one that is not is refused without a change);
external identities, settings, names, subscriptions and audit events are left out.

### State and actions of `DeviceCredentials`

| TLA+ | Code |
|---|---|
| `campaigns[c]` | the `EnrollmentCampaign` rows in the order of their creation: state, used (`redemption_count`), limit (`max_redemptions`) |
| `creds[i]` | the `DeviceCredential` rows likewise: of (`installation_id`), campaign, state, member (`authorized_user_id`) |
| `policy`, `open` | `device_access_policy`, and whether the organization is archived |
| `working[h]` | a handler under way: let in by its page (`Admit`), or a method with the credential it has read and the state and member it will write; the policy, before and after its flush; an enrollment that holds its campaign |
| `Read`, `Lock`, `Finish`; `AtOnce` | a method for one credential, the policy or an enrollment reads, takes its lock, commits; or all at once |
| `CreateCampaign`, `RenewCampaign`, `RevokeCampaign`, `ExtendAll` | methods that lock all they work on, from a page that was let in before (`FromPage`) |
| `IssueLate`, `ArchiveDevices`, `UnarchiveDevices` | one transaction each, which waits for the locks |
| `Restart` | the repair in `init` of two active campaigns, of blocked and of duplicate credentials |

A page's check of the organization is in another transaction than the store's write, and no
method of the store looks at `lifecycle_state`, so the page of an organization
archived since still works.  `require_device_reauthentication` looks at no state (`Block`).
Who holds a row (`OrgFree`, `CampaignFree`) makes others wait: `with_for_update` on the
organization and the campaign, and the flush of a changed policy.

Abstractions: every app has an installation id; tablets are of one model;
expiry dates pass unseen and are found by the method that checks them
(`IssueLate`, `AuthenticateLate`).

### State and actions of `ConfigReleases`

| TLA+ | Code |
|---|---|
| `proposal`, `releases`, `current` | the `OrganizationConfigProposal` row, the `OrganizationConfigRelease` rows, `current_version_ms` |
| `made`, `asked`, `answers` | requests made; those that reached their tablet; what the tablets have sent, an answer any number of times |
| `doing[h]` | a handler between two steps: a method with the row it has read, or a request about to be delivered (`Reach`, `Unreachable`) |
| `Start`, `CommitStart`; `ReceiveAnswer`, `CompleteProposal`; `ApproveProposal`, `CommitApproval`; `RejectProposal`, `CommitRejection`; `RestoreRelease`, `CommitRestore` | read and write of each method |
| `now` | the clock in milliseconds, as far as `version_ms` tells it |

The row's key is the organization's, so an UPDATE finds whichever request the row has
by then (`Written`); a DELETE of a row that is gone only warns.

Abstractions: a snapshot is a value; its validation and its diff are left out.

### State and actions of `Allowances`

| TLA+ | Code |
|---|---|
| `bill` | the export: actual cost below the cutoff, from it to the allowance, above; over: the forecast is above the allowance |
| `allowance`, `off` | the `ExtendedBetaAllowance` row: costs entered last, `video_disabled_at` |
| `notices` | the month's `BillingNotification` rows |
| `viewing`, `overlapped` | live video requests; those that had passed the unlocked check (7753-7774) when video went off |
| `step`, `loaded`, `listed` | each instance's worker: next step, costs it has loaded, notices it has still to mail |

One month: a new month is a new row and starts afresh.

### State and actions of `WebhookDelivery`

`delivery` and `stale` are the row's state and whether its `updated_at` is five
minutes old, `told` whether the feedback was mailed, `calls[c]` how far call `c`
is: arrived, claimed, mailed, failing.  Each await of the handler is between two
actions, and `CallDies` may come at any.

## 3. Runs

| Run | Bounds | Shows |
|---|---|---|
| `arbitration` | 2 tablets, 3 sockets, 1 map, 1 drone, lease 1, silence 2, retention 2 ticks, 2 claims of different rank, labelled and unlabelled confirmations | `OwnershipPromise`: `R2CHub` implements `DroneOwnership`; `ConfirmedOwnerOnline`, `ConfirmerOnline`, `TypeOK` |
| `registry` | the states of two scenes (`InScene`, a CONSTRAINT): 2 tablets, 3 sockets, two of them of one tablet and open together, without a map, with and without location, refused hellos; or 2 tablets with or without a map that move, a drone, claims | `RegistryConsistent`, `DeviceIndex`; `OwnerOnlyImproves` |
| `deadlines` | the hub, or video, chosen at the start | under fairness, |
| - hub | 2 organizations with equal zone id, map and drone; messages before hello | `OneOrgPerStep`; while the sweep's loop lives, `SilentZoneForgotten` |
| - video | 1 request, 2 transactions at a time, four handlers and inventory, clock, expiry | `EndedStaysEnded`; `RequestsEnd`, `ProbesDiscarded` |
| `background` | grouping, or the mirror, chosen at the start | `MirrorTypeOK` and, under fairness, |
| - grouping | 3 tablets on a line, not equidistant, with and without location; the two at the ends also beyond the radius; with and without a map | `GroupsConverge` |
| - mirror | 2 tablets, the sweep, 1 drone, lease 1 tick; a load overlaps the handlers of one of the tablets | `Forgotten`, `RowCatchesUp` |
| `map_switch` (violation) | 2 maps | `ConfirmedOwnerConnected` fails |
| `absent_owner` (violation) | 1 map, fair | `AbsentOwnerReleased` fails, although the sweep goes on |
| `mirror_rows` (violation, `hub_mirror.cfg`) | the mirror without the bound on loads | `LeaseEnds` fails |
| `video_viewers` (violation) | 2 requests, 2 transactions, three handlers | `DisplacedIsDone` fails |
| `recordings` | 1 recording, 2 requests (one after the other, or overlapping at the first one's deadline), 2 HTTP requests at a time | `OneQuestion`, `EndedStaysEnded`, `TypeOK`; under fairness `CopiesGo`, `ReadyEnds` |
| `recordings_ready` (violation) | 1 recording, 2 users, 1 HTTP request at a time, the clean-up waits (`CleanupWaits`) | `ReadyHasFile` fails |
| `control_plane` | five components, one chosen at the start | type invariants and |
| - video | 1 device, 1 stream, 2 requests, with and without remote control; one transaction at a time | `ConsentGiven`, `OneViewerPerDevice` |
| - accounts | 2 users, 2 addresses, 1 overlapped handler beside any number that are one step | `OwnerStaysKnown`, `ArchivedIsClosed`, `NoOldPassword` |
| - devices | 2 installations, 1 member, 2 campaigns of limit 2, 2 credentials, 1 overlapped handler (`FewOverlaps`) beside any number that are one step | `OneLivePerInstallation`, `CampaignsKeepCount`, `ArchivedIsOff`, `RetiredForGood` |
| - config | 2 tablets, 2 handlers, 2 requests, 2 snapshots, 2 milliseconds | `SnapshotsWereSent`, `AnsweredByItsDevice`, `ReviewedStays` |
| - webhook | 3 calls | `OneAtATime` |
| `billing` | 2 workers, 1 viewer | `NoticesTrue`; under fairness `VideoFollowsBill` |

Video: what is claimed per device concerns two requests, so two are enough.
`control_plane` takes handlers one after another because one viewer a device does
need that: `video_viewers` shows one way in which it fails when handlers overlap, and two
approvals for one device that do not see one another are another.  A request that has ended stays ended
in `deadlines`, which has two transactions at a time and the handlers whose stale writes
bring a request back (`offer`, `result`, `approve`, `started`), the inventory, the clock and
the clean-up: what brings it
back is named by the property (`Overtaken`), and it ends all the same.  That a request under
review bars others of its device is claimed of no run: two first requests for two
streams do not wait for one another.  `Handlers` and `RemoteControl` are bounds of the instance only; `OneExchanges`
(a CONSTRAINT of `control_plane`) gives one of the two requests exchanges at a time, as what is claimed
of exchanges concerns one request.

Control plane: the five components have no variable in common, and
`MC_ControlPlane` runs one of them in each behaviour, chosen by `part`; what an
archival does to devices is an action of `DeviceCredentials`.  In accounts, devices and
configuration the code reads without locks, and much of what one would want to be invariant
is not: an overlap at the right moment breaks it.  The properties there are of steps.  Each
says that what is wanted is kept, or established, by every step but the commit of a
handler that was at work beside others, and names which methods these are (`Overlapped`, `Revived`,
`FromOpen`, `Belated`).  That the list is as short as it is, is what the run shows: no sequence of
methods that do not overlap breaks anything, but for the block of a credential, which checks no
state (`Block`), and no other method does even when it overlaps.
Each method named is needed: with one left out TLC finds the overlap, in this instance (but for
"signin" in `OwnerStaysKnown`, which takes two overlapped handlers).

What an account's properties relate is the administrator and one other account, who change
places; one overlapped handler beside methods that are one step gives
every pair of overlaps, and the theorems hold for any number.  Two credentials and two
campaigns give each pair that supersedes, counts or replaces; `FewOverlaps` (a
CONSTRAINT) has methods for one credential overlap others only while there is one campaign,
and a second campaign meets methods that are one step.  A first and a second request
give a late answer; two handlers of the proposal give a request and an answer, or two
answers, that cross in the database.  Symmetry (`Alike`) exchanges requests, users and
addresses, whose ids nothing compares but for equality; the run has no liveness property.

`Swift` is assumed: a webhook call that is not dead ends within five minutes; the mail
senders' timeouts are 15 seconds a step.  It is a CONSTANT, and with FALSE two calls work on one event at a time.

In `billing`, two workers give an old export that overtakes a new one.

Fairness in `Allowances` (`Rounds`): `billing_notification_worker` loops for ever
and catches exceptions; not every load of the export fails (strong, as `LoadFails` and
`Stop` come between), not every round ends before it is entered (strong); listing,
mailing and the wait are weak.  The viewers and the bill need do nothing.

Fairness in `VideoRequests`: time passes; a transaction that is open commits or
rolls back; the clean-up, which `_cleanup_loop` (4230-4237) calls every round through
`_cleanup_persisted_state_safe`, which catches every exception, gets its turn
again and again and does not fail each time.  Browsers and tablets need do
nothing.

Recordings: files are shared between requests for one recording only, so one
recording is enough, and every property concerns one or two requests.  Two jobs
give every overlap of a transfer with another, with an expiry and with the
worker.  Fairness in `RecordingDownload`: time passes; an HTTP request that is
under way goes on or breaks; the worker goes round again and again
(`recording_spool_cleanup_worker` catches every exception and loops), and not
every round is cut short before its files are removed.

Why the bounds of the hub's runs are enough: arbitration and confirmation concern one drone at
a time, and every comparison two claimants; a third tablet adds no new pair.
Overlap needs two sockets of one tablet and another tablet.  `registry` has more sockets
than drones' owners need, and two of one tablet only where nobody claims: `InScene`
keeps the two apart, states outside are checked and not left.  Grouping is where
three differ from two: with two tablets each is the other's nearest, with three
a chain of nearest neighbours appears.  The mirror needs two writers that are
tablets, for two inserts and for a late write of an owner that was replaced, and
the sweep; a lease of one tick is one that runs or has run out.  `LoadMeetsOne`
bounds the run to loads that overlap one tablet's handlers (and restarts, sweeps and
clean-ups); without it the same properties hold in a million states and four minutes.

The parts of `deadlines` and of `background` have no variable in common either, and a
behaviour runs one of them (`part`): each part's specification is checked as it is.

Fairness (`Fairness` in `R2CHub`): the clock advances, `wait_for` raises after the
silence time, and a serve loop on its way out reaches `disconnect` (its `close` is in a
try/finally).  The sweep has none: `_expiry_loop` (4298-4304) catches nothing but its
cancellation, so any exception of a sweep ends it for good (the run `mirror_rows` is one that
does).  That it goes on (`SweepsGoOn`) is the premise of `SilentZoneForgotten` and of
`AbsentOwnerReleased`, which fails in spite of it.  What ends the loop is in `R2CMirror`, whose
fairness is that of `Sweep`, which is enabled only while the loop lives
(`MirrorFairness`: besides, time passes, transactions end, the load ends one way or
the other, the clean-up comes round, and not every one of its rounds fails).
Nothing is assumed of tablets, except in `GroupingSpec`: connected tablets
heartbeat, which is what hello_ack's heartbeatSec asks of them, and a heartbeat
from where the tablet already was is answered without a map again and again.
`GroupsConverge` is stated for three tablets.  It is not a property of four: two
pairs that form apart and come near one another as pairs keep their two keys,
because each tablet's nearest neighbour is its partner.

### Disagreements between documents and code

* `map_switch`: confirmation-sourced owners are *not* cleared when the
  confirming zone has changed its map before it disconnects.
* `absent_owner`: the lease of an owner that has gone is renewed by every
  losing claim of a rival, so it need not expire.
* `video_viewers`: `mark_video_streaming` takes no row lock, so when a browser
  reports its first frame while the approval of another viewer commits, the
  displaced request becomes `streaming` again beside the approved one.
* `recordings_ready`: two users' requests for one recording share a spool file, so
  the first delivery deletes what the second request calls ready to download.

* `mirror_rows`: an owner that falls silent is not removed when its lease expires if
  the drone ever had two rows.  The first claims of two tablets may each insert one, as
  nothing makes the row's key unique; every later SELECT of it raises, and `_expiry_loop`
  catches nothing but its cancellation, so the hub's sweep has ended until the process
  does.  A tablet whose handler writes that row is disconnected each time, until the
  daily clean-up deletes the lapsed rows.  The rows themselves do go (`Forgotten`), and
  an owner that keeps its lease is back in the database (`RowCatchesUp`).

Also seen while modelling, without a sentence in the repository that they
contradict: a refused hello leaves a connection object behind (`RefuseHello`;
`is_device_connected` then answers yes for a closed socket until the process
ends), an idle tablet stays idle for its peers until its next hello, and a
rehomed tablet's confirmations stay under the old key.  After a restart a confirmed
owner is an ordinary one, as its source is not a column; `_load_state` replaces the
owners and clears the registry of tablets that have said hello before it.  Any
other error of the database in a sweep ends `_expiry_loop` as well.  In the control plane:

* The allowance is $20 and the cutoff $18 in the code (`control_plane.py` 153-154) and in
  `PLATFORM_ADMIN_DESIGN.md` 141-142, and $10 and $9 in `README.md` 60-63.
* An organization that is ready and whose new administrator let the invitation
  expire has no way to send another: `platform_admin_send_organization_invitation`
  mails the sign-in page when it is ready (`main.py` 7868), and the owner's
  invitation is not a member's to renew (`control_plane.py` 4075).  Archiving and
  unarchiving helps.
* `mark_organization_invitation_sent` sets "activation pending" whatever happened
  during the mail, also on an organization that was archived or became ready.
* A credential that waits for reauthentication, or has expired, survives an
  archival and its reversal.
* The members' pages give out the owner's role (`set_roles`, 431-438, called at 4628 and 4712,
  takes all of `ROLE_NAMES`), so an organization may have more owners than its contact.
* Handlers that found an organization open, and overlap its archival, leave it with an invited or
  active account, a reset token, an active campaign or credential; the invitation even
  opens it again.
* `require_device_reauthentication` (6707-6714) accepts a revoked or superseded credential
  and brings it back, beside its successor.
* An answer that overlaps a new request in the database puts the old tablet's snapshot under
  the new request; two answers that overlap replace a proposal under review.
* The handler that finds its tablet gone rejects whatever proposal is there, also a
  later one (`Unreachable`).
* A repeated webhook call that finds the event in work is answered with success;
  when the first then fails, Apple does not call again.
* A notice that was canceled since the bill was corrected is not mailed that month
  when the bill rises again.

## 4. Proofs

Every theorem is stated for all values of the constants, from the assumptions that the
modules name (`ConstantsAssumption`, `MirrorAssumption`, `NilAssumption`,
`DeviceAssumption`, ...: what the constants are and that `Nil` is none of them).  Two
theorems' hypotheses are about the outside (`OrderlyTablets` and `KeysKept` of tablets, `Swift` of
mail servers), where they are needed; those about overlaps of handlers assume nothing of
their order.

### R2C hub (`R2CHubProofs`)

Order of claims: the order is a strict total order, `PickOwner` returns the better of
two (`PickOwnerIsBest`), and the owner does not depend on the order in which claims
arrive, without an owner before or with one (`FirstClaimOrderIrrelevant`,
`RivalOrderIrrelevant`).

From `Spec` alone:

* `TypeCorrect`: `Spec => []TypeOK`.  `TypeOK` alone is not inductive: a rehoming
  heartbeat reads owners under the tablet's old key, so it needs
  `StandaloneKeyed` (a tablet in standalone mode has a key).
  `IInv == TypeOK /\ StandaloneKeyed /\ MappedStays` is.
* `MappedStaysAlways`, from `IInv`.
* `RegistryAlwaysConsistent`: needs `Wired` (a connected socket's connection still
  has its websocket), because a heartbeat re-enters a connection object that was
  created long before; `Enrolling` is the argument for hello and rehoming heartbeat
  alike: a connection in the registry at all is in it at its own slot, so removing
  that slot removes it altogether.
* `DeviceIndexAlwaysRight`: the crux is `ReplacementFound` - if a device has another
  connection, the maximum `disconnect` takes exists.  It rests on the
  well-foundedness of the natural numbers.
* `TenantsIsolated` and `OwnersImprove`: action properties, by action.

For tablets that behave as the app does (`OrderlyTablets`: one socket at a time, hello
before anything that names a drone, a zone id of its own in its organization) and keep
their key while connected (`SteadySpec == Spec /\ [][KeysKept]_vars`):

* `ConfirmedOwnersOnline`, `ConfirmersOnline`, `ConfirmedOwnersConnected`.  The
  invariant is `SteadyInv`: it adds that a tablet has one live socket (`Lone`) and that
  a connected tablet with a key is in the registry at its own slot (`AtHome`).  Then a
  zone leaves the registry only by its own disconnect, or by a sweep of a connection
  that has been silent, and both forget what the zone owns by confirmation and has
  confirmed *under the key it is registered with*.
* `OwnershipKept`: `R2CHub` implements `DroneOwnership`, action by action (each handler
  maps to a step of the promise or to a stutter), from the same invariant.

`KeysKept` is what makes these true: the run `map_switch` is a tablet that changes its map
and leaves a confirmed owner behind that is not connected.  It is a hypothesis on
behaviours and not on constants, as without a map grouping changes keys.  Where all
tablets report one map it is a theorem (`OneMapKeepsKeys`, over `OnMap`: every
connection that has a key has that map), so `OwnershipKeptOnOneMap` assumes nothing of the
hub's steps: it is the run `arbitration` for any numbers of tablets and drones.

### R2C SQL mirror (`R2CMirrorProofs`)

`MirrorTypeCorrect`: `MirrorSpec => []MirrorTypeOK`.  The types are not inductive: `Update`
and `DeleteRow` write the row that their SELECT found, and `Insert` the entry
that its handler kept.  `WriteInv` says that a found row is still there or no longer
counts as found, that what is to be stored has an owner, and that the sweep stores
nothing.

### Managed video (`VideoRequestsProofs`)

For any numbers of devices, streams, requests and overlapping transactions:
`VideoTypeCorrect` and `ConsentAlwaysGiven`.  A handler
writes on the strength of what it read earlier, so the invariant is about the
open transactions: `Reliable` says that the rows a transaction has found are
still there, that nobody else creates the request it is creating, and that an
approval it saw (an active state, a media exchange) has not been undone - no step
takes `by` back to nobody or changes the remote flag (`Keeps`).  Then each
handler's late write is harmless to consent, whatever was committed in between
(`SaveKeeps`, `GrantedInv`, `ClosingInv`).

`EndedRequestsStay`: `Spec => EndedStaysEnded`, for every overlap.  A step leaves a
request's state as it is, or is a handler's last (`Ends`), which ends the request or has
read it live and in time (`RowStep`, shown handler by handler); a step that is a handler's last
is its write, unless it gives up (`EndsByWriting`).  `EndedStep` puts these
together: what is left is `Overtaken`.

### Recording downloads (`RecordingDownloadProofs`)

For any numbers of requests, users, recordings and HTTP
requests under way: `RecordingTypeCorrect`, `RecordingEndedStaysEnded`,
`RecordingOneQuestion`.  `TypeOK` is not inductive, since a job writes the row it
read before; `IInv` adds `HasRow`, that the row exists.  All the rest follows from
one lemma about what a step may make of a row (`RowsStep`, with `MayBecome`): ended
rows may only expire, no row goes back to awaiting approval, and one that awaits
it has its deadline never put off.  `OneQuestion` then needs only that no other step than
`Create` makes a row (`CreateOnly`).

### Organizations (`OrganizationsProofs`)

For any numbers of users, addresses and handlers under way, from `AccountSpec` alone:
`AccountTypeCorrect`, `OwnerKept`, `ClosedWhileArchived`, `NoPasswordReturns`.
The inductive invariant is `AccountInv`: the types, that there is an organization and a contact
while there are accounts and handlers (`Known`), and that what a handler has in its task
are rows of the kind that its method reads, of accounts that still exist (`TasksFit`; rows
are never removed).  An archived organization
has no stronger invariant than this, as the overlaps break each; so the three properties are
shown of each step from what they say before it.  One lemma for each method says what it
leaves of the administrator, of closed accounts and of passwords, given any rows
that it may have read at any time before.

### Device credentials (`DeviceCredentialsProofs`)

For any numbers of campaigns, credentials and handlers, from `DeviceSpec` alone:
`DeviceTypeCorrect`, `CountsKept`, `ArchivedOff`, `OneLive`, `RetiredStays`.
The invariant is `DeviceInv == DeviceTypeOK /\ CampaignsKeepCount /\ Held /\ TasksFit`.
`Held` is why the counts survive overlaps: an enrollment between its reads and its
commit holds its campaign alone, with a use left, and `HeldStay` is shown of every other
handler's step.  `CountsKept` counts credentials: the one step that appends adds
one to the set of its campaign's indices (`FiniteSetTheorems`).
`OneLive` and `RetiredStays` look at one row in a step: most steps change one, or some to
"superseded", and whichever makes a row pending that was not is a `Revived`.

### Configuration, billing, webhooks

`ConfigReleasesProofs`, for any numbers of tablets, requests and handlers, from `ConfigSpec`
alone: `ConfigTypeCorrect`, `PublishedWereSent`, `PublishedAsAnswered`, `ReviewedKept`.  The
invariant `ConfigInv` says that a proposal is `Sound` (ready with a snapshot that was sent, or not
ready and without), that releases were sent, and of each handler under way that what it
has read was sound and passed the method's check (`Recalled`).  An UPDATE that changes some
columns of a row that another has meanwhile changed leaves a sound row: the methods
write state and snapshot together, and `SnapshotsWereSent` rests on that.

`NotificationProofs`, for any numbers of workers and calls: `AllowanceTypeCorrect`,
`NoticesAreTrue`; and `EventHandledOnce`, under `Swift`.  The invariants are the
properties with the workers' steps: a worker that is about to reconcile has loaded
costs.

### What is proved and what is only run

Every safety invariant and every action property of a passing run is a theorem, but
`OneViewerPerDevice`, which is a property of one transaction at a time and is left to TLC.
`ConsentGiven` is run with one transaction at a time and proved for any overlap.
Hypotheses are `OrderlyTablets` with `KeysKept`, or one map instead (`arbitration` has
these by its constants), and `Swift`.  Proved, and in no run: `MappedStays`, `AllowanceTypeOK`.

Only model-checked: liveness, as neither fairness (`ENABLED`) nor the well-founded
arguments over data that convergence needs are within the provers' reach:
`SilentZoneForgotten`, `RequestsEnd`, `ProbesDiscarded`, `GroupsConverge`, `Forgotten`,
`RowCatchesUp`, `CopiesGo`, `ReadyEnds`, `VideoFollowsBill`; and, as violated,
`AbsentOwnerReleased` and `LeaseEnds`.

## 5. What would come next

1. `R2CMirror`: the rows of zones and confirmations, a tablet's second socket, keys that
   change.
2. `VideoRequests`: one viewer a device stated as a property of steps that names the overlaps
   which break it, as for the control plane; two streams of a device, recordings taken over;
   composition with the hub's `byDev` for the delivery of requests and offers.
3. Composition of `Organizations` and `DeviceCredentials`: one transaction archives
   both, and a member who is deleted has tablets; links, their nonces and their expiry.
4. Proofs: `OwnershipPromise` with two sockets of a tablet that overlap; safety lemmas of
   `R2CMirror` on which the liveness rests (a row belongs to an owner there was);
   presence under a change of map in standalone mode, where ownership does move along.

## 6. Not modelled

* Of the hub's SQL mirror, the rows of zones, confirmations and recent sightings, and the
  registry that the load takes from the first; the hub's broadcasts, relays and replay,
  which change no state of the hub.
* Logins and throttles of every kind, and the platform administrator's account: counters
  and windows of time, in one transaction each.
* The ledger's sums, the payment provider's snapshots, subscriptions, daily usage, lifecycle deadlines and the mails about them, which are
  queued and never sent.
* Audit events and their retention, flight log upload, the FAA proxy's cache, TURN
  credentials, the release guard and deployment scripts: sequential code over one
  store or none.
* Operational device names; streams and recordings a replacement or an archival takes
  along; apps without an installation id.
* Presentation (templates, browser scripts), input parsing, mail and HTTP clients.
