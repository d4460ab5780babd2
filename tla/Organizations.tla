---------------------------- MODULE Organizations ----------------------------
(***************************************************************************)
(* One organization's designator over time: whether it is open, who its    *)
(* primary administrator is, and the accounts of its administrator and     *)
(* members.                                                                *)
(*                                                                         *)
(* No method of the store locks what it reads here.  A method reads some   *)
(* rows, checks what it has read and writes the columns it has changed;    *)
(* what it saw stays in its handler's task meanwhile, and others commit in *)
(* between.  A page's handler makes sure in a transaction before that the  *)
(* organization is open.  Methods nothing overlaps are one step.           *)
(*                                                                         *)
(* Links and their nonces are left out: who is invited may have a link     *)
(* that is good, and a link that is not is refused without a change.       *)
(***************************************************************************)
EXTENDS Integers, FiniteSets, StoreRows

CONSTANTS
    WebHandler,    \* requests that overlap others
    User,          \* ids of user rows
    Email,
    NoRow

ASSUME OrganizationsAssumption == NoRow \notin Email \cup User

VARIABLES
    org,        \* Organization row
    contact,    \* e-mail address of the primary administrator
    users,      \* OrganizationUser rows
    tokens,     \* users with a live token to reset the password
    tasks       \* [WebHandler -> what it is doing]

accountVars == <<org, contact, users, tokens, tasks>>

\* prov: pending stands for all states before the first activation.
OrgRow ==
    [life : {"extended_beta", "archived"}, prov : {"pending", "ready", "archived"},
     from : {"pending", "ready", "archived", ""}]
UserRow ==
    [email : Email, state : {"invited", "active", "archived", "disabled"},
     owner : BOOLEAN, password : BOOLEAN]

\* What a handler is doing: it has found the organization open, for an
\* administrator or for anyone; it mails the administrator's invitation; or a
\* method has read rows and is about to write.
Begun == [do : {"session", "visit", "mail"}]
UserTask ==
    [do : {"delete", "restore", "issue", "reset"}, user : User, saw : UserRow]
UpdateTask ==
    [do : {"update"}, user : User, saw : UserRow, email : Email, owner : BOOLEAN]
ActivateTask ==
    [do : {"activate", "signin"}, user : User, saw : UserRow, org : OrgRow]
AddTask == [do : {"add"}, email : Email, owner : BOOLEAN]
ReplaceTask ==
    [do : {"replace"}, old : User \cup {NoRow}, oldSaw : UserRow \cup {NoRow},
     user : User \cup {NoRow}, saw : UserRow \cup {NoRow}, email : Email]
ArchiveTask == [do : {"archive"}, org : OrgRow]
UnarchiveTask ==
    [do : {"unarchive"}, org : {o \in OrgRow : o.life = "archived"},
     user : User \cup {NoRow}, saw : UserRow \cup {NoRow}, email : Email]
Task ==
    Begun \cup UserTask \cup UpdateTask \cup ActivateTask \cup AddTask
        \cup ReplaceTask \cup ArchiveTask \cup UnarchiveTask

ASSUME RowAssumption == NoRow \notin OrgRow \cup UserRow \cup Task

AccountTypeOK ==
    /\ org \in OrgRow \cup {NoRow} /\ contact \in Email \cup {NoRow}
    /\ users \in [User -> UserRow \cup {NoRow}]
    /\ tokens \subseteq User
    /\ tasks \in [WebHandler -> Task \cup {NoRow}]

Exists(u) == users[u] # NoRow
With(e) == {u \in User : Exists(u) /\ users[u].email = e}
Having(states) == {u \in User : Exists(u) /\ users[u].state \in states}
IsOpen == org # NoRow /\ org.life # "archived"

\* The unique key of the user rows.
OnePerEmail(rows) ==
    \A u, v \in User :
        rows[u] # NoRow /\ rows[v] # NoRow /\ rows[u].email = rows[v].email => u = v

-----------------------------------------------------------------------------
(* Rows *)

\* Fault: the password stays.
InvitedKeepingPassword(row) == [row EXCEPT !.state = "invited"]

\* An account that is invited, again, gives up its password.
Invited(row) == [row EXCEPT !.state = "invited", !.password = FALSE]

Fresh(e, owner) ==
    [email |-> e, state |-> "invited", owner |-> owner, password |-> FALSE]

\* Fault: a member who becomes the administrator keeps the member's roles.
PromotedAsMember(row) == Invited(row)

\* The administrator that was a member already, or had been one.
Promoted(row) == [Invited(row) EXCEPT !.owner = TRUE]

\* The row of the administrator who is replaced; the live reset tokens stay.
Dismissed(row) ==
    [row EXCEPT !.state = "archived", !.owner = FALSE, !.password = FALSE]

Deleted(row) == [row EXCEPT !.state = "disabled", !.password = FALSE]

\* What becomes of a row that a method read as saw and has changed to new.
Merged(row, saw, new) ==
    [email |-> Column(saw.email, new.email, row.email),
     state |-> Column(saw.state, new.state, row.state),
     owner |-> Column(saw.owner, new.owner, row.owner),
     password |-> Column(saw.password, new.password, row.password)]

\* The same of a method that sets roles: they may have changed although both,
\* or neither, have the owner's among them.
MergedRoles(row, saw, new) ==
    {Merged(row, saw, new), [Merged(row, saw, new) EXCEPT !.owner = new.owner]}

\* _complete_organization_activation: the first one starts the extended beta.
Completed(saw) ==
    [life |-> IF saw.prov # "ready" THEN "extended_beta" ELSE saw.life,
     prov |-> "ready", from |-> saw.from]

Reopened(saw) ==
    [life |-> "extended_beta",
     prov |-> IF saw.from = "" THEN "ready" ELSE saw.from, from |-> saw.from]

\* Fault: one "archived_from" is taken for the other.
ClosedFromLife(saw) ==
    [life |-> "archived", prov |-> "archived", from |-> saw.life]

ClosedOrg(saw) == [life |-> "archived", prov |-> "archived", from |-> saw.prov]

MergedOrg(row, saw, new) ==
    [life |-> Column(saw.life, new.life, row.life),
     prov |-> Column(saw.prov, new.prov, row.prov),
     from |-> Column(saw.from, new.from, row.from)]

-----------------------------------------------------------------------------
AccountInit ==
    /\ org = NoRow /\ contact = NoRow /\ users = [u \in User |-> NoRow]
    /\ tokens = {} /\ tasks = [w \in WebHandler |-> NoRow]

\* create_organization, in simulation or not; the designator is taken for
\* good.
OrganizationCreated(u, e) ==
    /\ org = NoRow
    /\ org' = [life |-> "extended_beta", from |-> "", prov |-> "pending"]
    /\ contact' = e /\ users' = [users EXCEPT ![u] = Fresh(e, TRUE)]

CreateOrganization(w, u, e) ==
    /\ tasks[w] = NoRow /\ OrganizationCreated(u, e)
    /\ tasks' = [tasks EXCEPT ![w] = [do |-> "mail"]]
    /\ UNCHANGED tokens

\* require_organization_user lets in who has a session and may manage members.
OpenMembers(w) ==
    /\ tasks[w] = NoRow /\ IsOpen /\ Having({"active"}) # {}
    /\ tasks' = [tasks EXCEPT ![w] = [do |-> "session"]]
    /\ UNCHANGED <<org, contact, users, tokens>>

\* get_organization finds the organization open, for whoever signs in or has
\* forgotten the password.
Visit(w) ==
    /\ tasks[w] = NoRow /\ IsOpen
    /\ tasks' = [tasks EXCEPT ![w] = [do |-> "visit"]]
    /\ UNCHANGED <<org, contact, users, tokens>>

\* send-invitation to an organization that is not ready.
SendInvitation(w) ==
    /\ tasks[w] = NoRow /\ IsOpen /\ org.prov # "ready"
    /\ tasks' = [tasks EXCEPT ![w] = [do |-> "mail"]]
    /\ UNCHANGED <<org, contact, users, tokens>>

\* mark_organization_invitation_sent, whatever has become of the organization.
MarkSent(w) ==
    /\ tasks[w] = [do |-> "mail"]
    /\ org' = [org EXCEPT !.prov = "pending"]
    /\ tasks' = [tasks EXCEPT ![w] = NoRow]
    /\ UNCHANGED <<contact, users, tokens>>

\* A handler is refused, cannot send its mail, or is lost.
Fail(w) ==
    /\ tasks[w] # NoRow /\ tasks' = [tasks EXCEPT ![w] = NoRow]
    /\ UNCHANGED <<org, contact, users, tokens>>

-----------------------------------------------------------------------------
(* What methods read *)

\* Method do has read u.
OfUser(do, u) == [do |-> do, user |-> u, saw |-> users[u]]

\* The account with an address, if there is one, and its row.
Account(e) == IF With(e) = {} THEN NoRow ELSE CHOOSE u \in With(e) : TRUE
RowOf(u) == IF u = NoRow THEN NoRow ELSE users[u]

\* update_organization_administrator with another address.  (With the same
\* one it changes names only.)
ReplaceAdministrator ==
    {[do |-> "replace", email |-> e,
      old |-> Account(contact), oldSaw |-> RowOf(Account(contact)),
      user |-> Account(e), saw |-> RowOf(Account(e))] :
        e \in IF IsOpen THEN Email \ {contact} ELSE {}}

\* archive_organization.  Devices, campaigns and streams: in other modules.  Its
\* commit counts from its update of the accounts, when it holds the row of the
\* organization: what is committed until its end leaves the same right after.
Archive == IF IsOpen THEN {[do |-> "archive", org |-> org]} ELSE {}

\* unarchive_organization
Unarchive ==
    IF org # NoRow /\ ~IsOpen
    THEN {[do |-> "unarchive", org |-> org, email |-> contact,
           user |-> Account(contact), saw |-> RowOf(Account(contact))]}
    ELSE {}

\* add_user, with any roles
AddMember ==
    [do : {"add"}, email : {e \in Email : With(e) = {}}, owner : BOOLEAN]

\* Members whose row the members' page may change.
Members == {u \in User : Exists(u) /\ ~users[u].owner}

\* update_user, with any address and roles
UpdateMember ==
    {[do |-> "update", user |-> p[1], saw |-> users[p[1]], email |-> p[2],
      owner |-> p[3]] :
        p \in {q \in Members \X Email \X BOOLEAN : With(q[2]) \subseteq {q[1]}}}

\* delete_user
DeleteMember ==
    {OfUser("delete", u) : u \in Members \ Having({"disabled"})}

\* restore_user
RestoreMember ==
    {OfUser("restore", u) : u \in Members \cap Having({"disabled", "archived"})}

\* activate_owner sets a password; the two others verify the address.
ActivateWithPassword ==
    {[do |-> "activate", user |-> u, saw |-> users[u], org |-> org] :
        u \in Having({"invited"})}

\* authorize_google_user, and authorize_microsoft_user with a link
ActivateBySignIn ==
    {[do |-> "signin", user |-> u, saw |-> users[u], org |-> org] :
        u \in Having({"invited"})}

\* issue_organization_password_reset
IssueReset == {OfUser("issue", u) : u \in Having({"active"})}

\* set_organization_password_from_reset
ResetPassword == {OfUser("reset", u) : u \in tokens \cap Having({"active"})}

OfMembersPage == AddMember \cup UpdateMember \cup DeleteMember \cup RestoreMember
OfVisitors == ActivateBySignIn \cup IssueReset
OfOthers ==
    ReplaceAdministrator \cup Archive \cup Unarchive \cup ActivateWithPassword
        \cup ResetPassword

\* A method has read what it needs.
Select(w) ==
    LET Takes(readings) == \E task \in readings : tasks' = [tasks EXCEPT ![w] = task]
    IN
    /\ \/ tasks[w] = [do |-> "session"] /\ Takes(OfMembersPage)
       \/ tasks[w] = [do |-> "visit"] /\ Takes(OfVisitors)
       \/ tasks[w] = NoRow /\ Takes(OfOthers)
    /\ UNCHANGED <<org, contact, users, tokens>>

-----------------------------------------------------------------------------
(* What they write *)

\* The row user is changed to new(saw), or a new row is inserted.
Promotes(task, rows) ==
    IF task.user # NoRow
    THEN \E row \in MergedRoles(rows[task.user], task.saw, Promoted(task.saw)) :
            users' = [rows EXCEPT ![task.user] = row]
    ELSE \E u \in User : /\ ~Exists(u)
                         /\ users' = [rows EXCEPT ![u] = Fresh(task.email, TRUE)]

AdministratorReplaced(task) ==
    /\ task \in ReplaceTask /\ contact' = task.email
    /\ IF task.old = NoRow THEN Promotes(task, users)
       ELSE \E row \in MergedRoles(users[task.old], task.oldSaw,
                                   Dismissed(task.oldSaw)) :
                Promotes(task, [users EXCEPT ![task.old] = row])
    /\ UNCHANGED <<org, tokens>>

\* Fault: tokens sent before remain usable.
TokensKept == tokens

\* What an archival leaves of the accounts that are there now, and of the
\* tokens.
ClosedUsers ==
    [u \in User |-> IF Exists(u) THEN [users[u] EXCEPT !.state = "archived"]
                    ELSE NoRow]
TokensConsumed == {}

OrganizationArchived(task) ==
    /\ task \in ArchiveTask
    /\ org' = MergedOrg(org, task.org, ClosedOrg(task.org))
    /\ users' = ClosedUsers /\ tokens' = TokensConsumed /\ UNCHANGED contact

OrganizationUnarchived(task) ==
    /\ task \in UnarchiveTask
    /\ org' = MergedOrg(org, task.org, Reopened(task.org))
    /\ Promotes(task, users) /\ UNCHANGED <<contact, tokens>>

UserAdded(task) ==
    /\ task \in AddTask
    /\ \E u \in User :
        ~Exists(u) /\ users' = [users EXCEPT ![u] = Fresh(task.email, task.owner)]
    /\ UNCHANGED <<org, contact, tokens>>

UserUpdated(task) ==
    /\ task \in UpdateTask
    /\ \E row \in MergedRoles(users[task.user], task.saw,
            [task.saw EXCEPT !.email = task.email, !.owner = task.owner]) :
            users' = [users EXCEPT ![task.user] = row]
    /\ UNCHANGED <<org, contact, tokens>>

UserDeleted(task) ==
    /\ task \in UserTask /\ task.do = "delete"
    /\ users' = [users EXCEPT
            ![task.user] = Merged(@, task.saw, Deleted(task.saw))]
    /\ tokens' = tokens \ {task.user} /\ UNCHANGED <<org, contact>>

UserRestored(task) ==
    /\ task \in UserTask /\ task.do = "restore"
    /\ users' = [users EXCEPT
            ![task.user] = Merged(@, task.saw, Invited(task.saw))]
    /\ UNCHANGED <<org, contact, tokens>>

\* The account is active, and the organization is ready.  A password that is
\* set is always another one.
Activated(task) ==
    /\ task \in ActivateTask
    /\ users' = [users EXCEPT ![task.user].state = "active",
                              ![task.user].password = @ \/ task.do = "activate"]
    /\ org' = MergedOrg(org, task.org, Completed(task.org))
    /\ UNCHANGED <<contact, tokens>>

\* The user's earlier tokens are consumed.
ResetIssued(task) ==
    /\ task \in UserTask /\ task.do = "issue"
    /\ tokens' = tokens \cup {task.user} /\ UNCHANGED <<org, contact, users>>

\* Another token remains if two were issued at once.
PasswordReset(task) ==
    /\ task \in UserTask /\ task.do = "reset"
    /\ users' = [users EXCEPT ![task.user].password = TRUE]
    /\ tokens' \in {tokens, tokens \ {task.user}} /\ UNCHANGED <<org, contact>>

Saved(task) ==
    /\ \/ AdministratorReplaced(task) \/ OrganizationArchived(task)
       \/ OrganizationUnarchived(task) \/ UserAdded(task) \/ UserUpdated(task)
       \/ UserDeleted(task) \/ UserRestored(task) \/ Activated(task)
       \/ ResetIssued(task) \/ PasswordReset(task)
    /\ OnePerEmail(users')

Commit(w) == Saved(tasks[w]) /\ tasks' = [tasks EXCEPT ![w] = NoRow]

\* A method that nothing overlaps.
Undisturbed ==
    /\ \/ /\ IsOpen /\ Having({"active"}) # {}
          /\ \E task \in OfMembersPage : Saved(task)
       \/ IsOpen /\ \E task \in OfVisitors : Saved(task)
       \/ \E task \in OfOthers : Saved(task)
    /\ UNCHANGED tasks

\* A token lives 15 minutes.
ResetExpires(u) ==
    /\ u \in tokens /\ tokens' = tokens \ {u}
    /\ UNCHANGED <<org, contact, users, tasks>>

-----------------------------------------------------------------------------
AccountNext ==
    \/ Undisturbed
    \/ \E u \in User : ResetExpires(u)
    \/ \E w \in WebHandler :
        \/ OpenMembers(w) \/ Visit(w) \/ SendInvitation(w) \/ MarkSent(w)
        \/ Fail(w) \/ Select(w) \/ Commit(w)
        \/ \E u \in User, e \in Email : CreateOrganization(w, u, e)

AccountSpec == AccountInit /\ [][AccountNext]_accountVars

-----------------------------------------------------------------------------
(* Properties *)

\* A handler ends that was overlapped, or may have been.
Overlapped(methods) ==
    \E w \in WebHandler : Commit(w) /\ tasks[w].do \in methods

\* The contact of an open organization has an account with the owner's role,
\* invited or active.
OwnerKnown ==
    \E u \in With(contact) :
        users[u].owner /\ users[u].state \in {"invited", "active"}

\* Nobody can act in the organization, or be let in again by a link or a token
\* mailed before.
AllClosed == Having({"invited", "active"}) = {} /\ tokens = {}

\* An open organization keeps its administrator whatever additions, renamings,
\* deletions, replacements and restorations there are, with whatever roles, and
\* one that was closed has an administrator when it is opened.  What breaks
\* this was overlapped: a replacement, a member's renaming or a member's
\* deletion while it was open, and what opens it again later.
OwnerStaysKnown ==
    [][/\ IsOpen /\ IsOpen' /\ OwnerKnown =>
            OwnerKnown' \/ Overlapped({"replace", "update", "delete"})
       /\ ~IsOpen /\ IsOpen' /\ AllClosed =>
            OwnerKnown' \/ Overlapped({"unarchive", "activate", "signin"})
      ]_accountVars

\* An archival closes all accounts and tokens, and while the organization is
\* archived they stay closed: only handlers at work since before the archival
\* leave an account or a token in it.
ArchivedIsClosed ==
    [][/\ IsOpen /\ ~IsOpen' => AllClosed'
       /\ org # NoRow /\ ~IsOpen /\ ~IsOpen' /\ AllClosed =>
            \/ AllClosed'
            \/ Overlapped({"add", "restore", "replace", "activate", "signin",
                           "issue"})]_accountVars

\* Nobody who is invited has a password that worked before.
NoOldPasswords == \A u \in Having({"invited"}) : ~users[u].password

\* Who is invited, for the first time or again after a deletion, a replacement
\* or an archival, has no password that worked before; a reset, or another
\* invitation, that overlapped may leave one, and no other method.
NoOldPassword ==
    [][NoOldPasswords =>
        NoOldPasswords'
        \/ Overlapped({"reset", "restore", "replace", "unarchive"})]_accountVars

=============================================================================
