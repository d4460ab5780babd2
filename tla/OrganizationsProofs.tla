-------------------------- MODULE OrganizationsProofs --------------------------
(***************************************************************************)
(* What holds of an organization's designator, its administrator and its   *)
(* members, for every number of handlers, users and addresses, however the *)
(* handlers overlap.                                                       *)
(***************************************************************************)
EXTENDS Organizations, TLAPS

-----------------------------------------------------------------------------
(* The invariant *)

\* Nothing is there before the organization, and its contact is there with it.
Known ==
    /\ org = NoRow => /\ \A u \in User : ~Exists(u)
                      /\ \A w \in WebHandler : tasks[w] = NoRow
    /\ org # NoRow => contact \in Email

\* What a method has found: rows, which stay, and an organization that was
\* open.
Fits(t) ==
    /\ t.do \in {"delete", "restore", "issue", "reset", "update", "activate",
                 "signin"} => Exists(t.user)
    /\ t.do \in {"replace", "unarchive"} /\ t.user # NoRow =>
            Exists(t.user) /\ t.saw \in UserRow
    /\ t.do = "replace" /\ t.old # NoRow => Exists(t.old) /\ t.oldSaw \in UserRow
    /\ t.do = "archive" => t.org.life # "archived"

TasksFit == \A w \in WebHandler : tasks[w] # NoRow => Fits(tasks[w])

AccountInv == AccountTypeOK /\ Known /\ TasksFit

LEMMA Types ==
  ASSUME AccountInv
  PROVE  /\ tasks \in [WebHandler -> Task \cup {NoRow}]
         /\ users \in [User -> UserRow \cup {NoRow}] /\ tokens \subseteq User
         /\ \A u \in User : Exists(u) => users[u] \in UserRow /\ org # NoRow
         /\ org # NoRow => org \in OrgRow /\ contact \in Email
         /\ \A w \in WebHandler : tasks[w] # NoRow =>
                tasks[w] \in Task /\ Fits(tasks[w]) /\ org # NoRow
         /\ NoRow \notin OrgRow \cup UserRow \cup Task \cup Email \cup User
  BY RowAssumption, OrganizationsAssumption
  DEF AccountInv, AccountTypeOK, Known, TasksFit, Exists

-----------------------------------------------------------------------------
(* Rows *)

LEMMA InvitedRow ==
  ASSUME NEW row \in UserRow
  PROVE  /\ Invited(row) \in UserRow /\ Invited(row).email = row.email
         /\ Invited(row).state = "invited" /\ Invited(row).owner = row.owner
         /\ Invited(row).password = FALSE
  BY DEF Invited, UserRow

LEMMA PromotedRow ==
  ASSUME NEW row \in UserRow
  PROVE  /\ Promoted(row) \in UserRow /\ Promoted(row).email = row.email
         /\ Promoted(row).state = "invited" /\ Promoted(row).owner = TRUE
         /\ Promoted(row).password = FALSE
<1> DEFINE invited == Invited(row)
<1>1. /\ invited \in UserRow /\ invited.email = row.email
      /\ invited.state = "invited" /\ invited.password = FALSE
  BY InvitedRow
<1>2. Promoted(row) = [invited EXCEPT !.owner = TRUE]
  BY DEF Promoted
<1>. HIDE DEF invited
<1>. QED  BY <1>1, <1>2 DEF UserRow

LEMMA DismissedRow ==
  ASSUME NEW row \in UserRow
  PROVE  /\ Dismissed(row) \in UserRow /\ Dismissed(row).state = "archived"
         /\ Dismissed(row).password = FALSE
  BY DEF Dismissed, UserRow

LEMMA DeletedRow ==
  ASSUME NEW row \in UserRow
  PROVE  /\ Deleted(row) \in UserRow /\ Deleted(row).email = row.email
         /\ Deleted(row).state = "disabled" /\ Deleted(row).owner = row.owner
         /\ Deleted(row).password = FALSE
  BY DEF Deleted, UserRow

LEMMA FreshRow ==
  ASSUME NEW e \in Email, NEW owner \in BOOLEAN
  PROVE  /\ Fresh(e, owner) \in UserRow /\ Fresh(e, owner).email = e
         /\ Fresh(e, owner).state = "invited" /\ Fresh(e, owner).owner = owner
         /\ Fresh(e, owner).password = FALSE
  BY DEF Fresh, UserRow

\* A row that a method changes, whatever it has become meanwhile.
LEMMA MergedOne ==
  ASSUME NEW row \in UserRow, NEW saw \in UserRow, NEW new \in UserRow
  PROVE  LET merged == Merged(row, saw, new)
         IN  /\ merged \in UserRow
             /\ merged.email = Column(saw.email, new.email, row.email)
             /\ merged.state = Column(saw.state, new.state, row.state)
             /\ merged.owner = Column(saw.owner, new.owner, row.owner)
             /\ merged.password = Column(saw.password, new.password, row.password)
  BY DEF Merged, UserRow, Column

\* The same of a method that sets roles.
LEMMA MergedRow ==
  ASSUME NEW row \in UserRow, NEW saw \in UserRow, NEW new \in UserRow,
         NEW merged \in MergedRoles(row, saw, new)
  PROVE  /\ merged \in UserRow
         /\ merged.email = Column(saw.email, new.email, row.email)
         /\ merged.state = Column(saw.state, new.state, row.state)
         /\ merged.owner \in {Column(saw.owner, new.owner, row.owner), new.owner}
         /\ merged.password = Column(saw.password, new.password, row.password)
<1> DEFINE m == Merged(row, saw, new)
<1>1. /\ m \in UserRow /\ m.email = Column(saw.email, new.email, row.email)
      /\ m.state = Column(saw.state, new.state, row.state)
      /\ m.owner = Column(saw.owner, new.owner, row.owner)
      /\ m.password = Column(saw.password, new.password, row.password)
  BY MergedOne
<1>2. merged = m \/ merged = [m EXCEPT !.owner = new.owner]
  BY DEF MergedRoles
<1>. HIDE DEF m
<1>3. CASE merged = m
  BY <1>1, <1>3
<1>4. CASE merged = [m EXCEPT !.owner = new.owner]
  BY <1>1, <1>4 DEF UserRow
<1>. QED  BY <1>2, <1>3, <1>4

LEMMA MergedOrgRow ==
  ASSUME NEW row \in OrgRow, NEW saw \in OrgRow, NEW new \in OrgRow
  PROVE  /\ MergedOrg(row, saw, new) \in OrgRow
         /\ MergedOrg(row, saw, new).life = Column(saw.life, new.life, row.life)
  BY DEF MergedOrg, OrgRow, Column

LEMMA NewOrgRows ==
  ASSUME NEW row \in OrgRow
  PROVE  /\ Completed(row) \in OrgRow
         /\ Completed(row).life \in {"extended_beta", row.life}
         /\ Reopened(row) \in OrgRow /\ Reopened(row).life = "extended_beta"
         /\ ClosedOrg(row) \in OrgRow /\ ClosedOrg(row).life = "archived"
<1>1. /\ Completed(row) \in OrgRow
      /\ Completed(row).life \in {"extended_beta", row.life}
  BY DEF Completed, OrgRow
<1>2. Reopened(row) \in OrgRow /\ Reopened(row).life = "extended_beta"
  BY DEF Reopened, OrgRow
<1>3. ClosedOrg(row) \in OrgRow /\ ClosedOrg(row).life = "archived"
  BY DEF ClosedOrg, OrgRow
<1>. QED  BY <1>1, <1>2, <1>3

-----------------------------------------------------------------------------
(* What methods do to the rows *)

\* Rows stay rows, and none goes.
Keeps == /\ users' \in [User -> UserRow \cup {NoRow}]
         /\ \A u \in User : Exists(u) => Exists(u)'
         /\ tokens' \subseteq User /\ org' \in OrgRow /\ contact' \in Email

\* One row becomes another one, or is new.
OneRow(u, row) ==
    /\ u \in User /\ row \in UserRow
    /\ users' \in [User -> UserRow \cup {NoRow}] /\ users'[u] = row
    /\ \A v \in User : v # u => users'[v] = users[v]

LEMMA OneRowOf ==
  ASSUME AccountInv, NEW u \in User, NEW row \in UserRow,
         users' = [users EXCEPT ![u] = row]
  PROVE  OneRow(u, row)
  BY Types DEF OneRow

LEMMA OneRowKeeps ==
  ASSUME AccountInv, org # NoRow, NEW u, NEW row, OneRow(u, row),
         tokens' \subseteq User, org' \in OrgRow, contact' \in Email
  PROVE  Keeps
  BY Types DEF OneRow, Exists, Keeps

LEMMA Added ==
  ASSUME AccountInv, org # NoRow, NEW task \in AddTask, UserAdded(task)
  PROVE  /\ Keeps /\ UNCHANGED <<org, contact, tokens>>
         /\ \E u \in User :
                ~Exists(u) /\ OneRow(u, Fresh(task.email, task.owner))
<1>1. PICK u \in User :
        ~Exists(u) /\ users' = [users EXCEPT ![u] = Fresh(task.email, task.owner)]
  BY DEF UserAdded
<1>2. Fresh(task.email, task.owner) \in UserRow
  BY FreshRow DEF AddTask
<1>3. OneRow(u, Fresh(task.email, task.owner))
  BY <1>1, <1>2, OneRowOf
<1>4. UNCHANGED <<org, contact, tokens>>
  BY DEF UserAdded
<1>. QED  BY <1>1, <1>3, <1>4, OneRowKeeps, Types

LEMMA Updated ==
  ASSUME AccountInv, org # NoRow, NEW task \in UpdateTask, Fits(task),
         UserUpdated(task)
  PROVE  /\ Keeps /\ UNCHANGED <<org, contact, tokens>>
         /\ \E row \in UserRow :
                /\ OneRow(task.user, row)
                /\ row.state = users[task.user].state
                /\ row.password = users[task.user].password
<1> DEFINE new == [task.saw EXCEPT !.email = task.email, !.owner = task.owner]
<1>1. /\ task.user \in User /\ task.saw \in UserRow /\ task.email \in Email
      /\ task.owner \in BOOLEAN /\ task.do = "update"
  BY DEF UpdateTask
<1>2. users[task.user] \in UserRow
  BY <1>1, Types DEF Fits
<1>3. /\ new \in UserRow /\ new.state = task.saw.state
      /\ new.password = task.saw.password
  BY <1>1 DEF UserRow
<1>4. PICK row \in MergedRoles(users[task.user], task.saw, new) :
        users' = [users EXCEPT ![task.user] = row]
  BY DEF UserUpdated
<1>. HIDE DEF new
<1>5. /\ row \in UserRow /\ row.state = users[task.user].state
      /\ row.password = users[task.user].password
  BY <1>1, <1>2, <1>3, MergedRow DEF Column
<1>6. OneRow(task.user, row)
  BY <1>1, <1>4, <1>5, OneRowOf
<1>7. UNCHANGED <<org, contact, tokens>>
  BY DEF UserUpdated
<1>. QED  BY <1>5, <1>6, <1>7, OneRowKeeps, Types

LEMMA Removed ==
  ASSUME AccountInv, org # NoRow, NEW task \in UserTask, Fits(task),
         UserDeleted(task)
  PROVE  /\ Keeps /\ UNCHANGED <<org, contact>> /\ tokens' \subseteq tokens
         /\ \E row \in UserRow :
                /\ OneRow(task.user, row)
                /\ row.state \in {"disabled", users[task.user].state}
                /\ row.password \in {FALSE, users[task.user].password}
<1> DEFINE merged == Merged(users[task.user], task.saw, Deleted(task.saw))
<1>1. task.user \in User /\ task.saw \in UserRow /\ task.do = "delete"
  BY DEF UserTask, UserDeleted
<1>2. users[task.user] \in UserRow
  BY <1>1, Types DEF Fits
<1>3. /\ merged \in UserRow /\ merged.state \in {"disabled", users[task.user].state}
      /\ merged.password \in {FALSE, users[task.user].password}
  <2> DEFINE new == Deleted(task.saw)
  <2>1. new \in UserRow /\ new.state = "disabled" /\ new.password = FALSE
    BY <1>1, DeletedRow
  <2>. HIDE DEF new
  <2>2. merged = Merged(users[task.user], task.saw, new)
    BY DEF new
  <2>. HIDE DEF merged
  <2>3. /\ merged \in UserRow
        /\ merged.email = Column(task.saw.email, new.email, users[task.user].email)
        /\ merged.state = Column(task.saw.state, new.state, users[task.user].state)
        /\ merged.owner = Column(task.saw.owner, new.owner, users[task.user].owner)
        /\ merged.password =
                Column(task.saw.password, new.password, users[task.user].password)
    BY <1>1, <1>2, <2>1, <2>2, MergedOne
  <2>. QED  BY <2>1, <2>3 DEF Column
<1>4. users' = [users EXCEPT ![task.user] = merged]
  BY DEF UserDeleted
<1>. HIDE DEF merged
<1>5. OneRow(task.user, merged)
  BY <1>1, <1>3, <1>4, OneRowOf
<1>6. UNCHANGED <<org, contact>> /\ tokens' \subseteq tokens
  BY DEF UserDeleted
<1>. QED  BY <1>3, <1>5, <1>6, OneRowKeeps, Types

LEMMA Restored ==
  ASSUME AccountInv, org # NoRow, NEW task \in UserTask, Fits(task),
         UserRestored(task)
  PROVE  /\ Keeps /\ UNCHANGED <<org, contact, tokens>>
         /\ \E row \in UserRow :
                /\ OneRow(task.user, row)
                /\ row.email = users[task.user].email
                /\ row.owner = users[task.user].owner
                /\ row.state \in {"invited", users[task.user].state}
                /\ task.saw = users[task.user] => row.password = FALSE
<1> DEFINE merged == Merged(users[task.user], task.saw, Invited(task.saw))
<1>1. task.user \in User /\ task.saw \in UserRow /\ task.do = "restore"
  BY DEF UserTask, UserRestored
<1>2. users[task.user] \in UserRow
  BY <1>1, Types DEF Fits
<1>3. /\ merged \in UserRow /\ merged.email = users[task.user].email
      /\ merged.owner = users[task.user].owner
      /\ merged.state \in {"invited", users[task.user].state}
      /\ task.saw = users[task.user] => merged.password = FALSE
  <2> DEFINE new == Invited(task.saw)
  <2>1. /\ new \in UserRow /\ new.email = task.saw.email
        /\ new.owner = task.saw.owner /\ new.state = "invited"
        /\ new.password = FALSE
    BY <1>1, InvitedRow
  <2>. HIDE DEF new
  <2>2. merged = Merged(users[task.user], task.saw, new)
    BY DEF new
  <2>. HIDE DEF merged
  <2>3. /\ merged \in UserRow
        /\ merged.email = Column(task.saw.email, new.email, users[task.user].email)
        /\ merged.state = Column(task.saw.state, new.state, users[task.user].state)
        /\ merged.owner = Column(task.saw.owner, new.owner, users[task.user].owner)
        /\ merged.password =
                Column(task.saw.password, new.password, users[task.user].password)
    BY <1>1, <1>2, <2>1, <2>2, MergedOne
  <2>. QED  BY <2>1, <2>3 DEF Column
<1>4. users' = [users EXCEPT ![task.user] = merged]
  BY DEF UserRestored
<1>. HIDE DEF merged
<1>5. OneRow(task.user, merged)
  BY <1>1, <1>3, <1>4, OneRowOf
<1>6. UNCHANGED <<org, contact, tokens>>
  BY DEF UserRestored
<1>. QED  BY <1>3, <1>5, <1>6, OneRowKeeps, Types

LEMMA Activates ==
  ASSUME AccountInv, org # NoRow, NEW task \in ActivateTask, Fits(task),
         Activated(task)
  PROVE  /\ Keeps /\ UNCHANGED <<contact, tokens>>
         /\ org'.life \in {"extended_beta", org.life}
         /\ \E row \in UserRow :
                /\ OneRow(task.user, row)
                /\ row.email = users[task.user].email
                /\ row.owner = users[task.user].owner /\ row.state = "active"
<1> DEFINE old == users[task.user]
           live == [old EXCEPT !.state = "active"]
           row == [live EXCEPT !.password = old.password \/ task.do = "activate"]
<1>1. /\ task.user \in User /\ task.org \in OrgRow
      /\ task.do \in {"activate", "signin"}
  BY DEF ActivateTask
<1>2. old \in UserRow
  BY <1>1, Types DEF Fits
<1>3. /\ live \in UserRow /\ live.email = old.email /\ live.owner = old.owner
      /\ live.state = "active" /\ live.password = old.password
  BY <1>2 DEF UserRow
<1>4. users' = [users EXCEPT ![task.user] = row]
  BY DEF Activated
<1>. HIDE DEF old, live
<1>5. /\ row \in UserRow /\ row.email = old.email /\ row.owner = old.owner
      /\ row.state = "active"
  BY <1>3 DEF UserRow
<1>. HIDE DEF row
<1>6. OneRow(task.user, row)
  BY <1>1, <1>4, <1>5, OneRowOf
<1>7. /\ org' \in OrgRow /\ UNCHANGED <<contact, tokens>>
      /\ org'.life \in {"extended_beta", org.life}
  BY <1>1, NewOrgRows, MergedOrgRow, Types DEF Activated, Column
<1>. QED  BY <1>5, <1>6, <1>7, OneRowKeeps, Types DEF old

LEMMA Reset ==
  ASSUME AccountInv, org # NoRow, NEW task \in UserTask, Fits(task),
         PasswordReset(task)
  PROVE  /\ Keeps /\ UNCHANGED <<org, contact>> /\ tokens' \subseteq tokens
         /\ \E row \in UserRow :
                /\ OneRow(task.user, row)
                /\ row.email = users[task.user].email
                /\ row.owner = users[task.user].owner
                /\ row.state = users[task.user].state
<1> DEFINE old == users[task.user]
           row == [old EXCEPT !.password = TRUE]
<1>1. task.user \in User /\ task.do = "reset"
  BY DEF UserTask, PasswordReset
<1>2. old \in UserRow
  BY <1>1, Types DEF Fits
<1>3. /\ row \in UserRow /\ row.email = old.email /\ row.owner = old.owner
      /\ row.state = old.state
  BY <1>2 DEF UserRow
<1>4. users' = [users EXCEPT ![task.user] = row]
  BY DEF PasswordReset
<1>. HIDE DEF row
<1>5. OneRow(task.user, row)
  BY <1>1, <1>3, <1>4, OneRowOf
<1>6. UNCHANGED <<org, contact>> /\ tokens' \subseteq tokens
  BY DEF PasswordReset
<1>. QED  BY <1>3, <1>5, <1>6, OneRowKeeps, Types

LEMMA Issued ==
  ASSUME AccountInv, org # NoRow, NEW task \in UserTask, ResetIssued(task)
  PROVE  Keeps /\ UNCHANGED <<org, contact, users>>
<1>1. UNCHANGED <<org, contact, users>> /\ tokens' \subseteq User
  BY Types DEF ResetIssued, UserTask
<1>. QED  BY <1>1, Types DEF Keeps, Exists

LEMMA Archived ==
  ASSUME AccountInv, org # NoRow, NEW task \in ArchiveTask, Fits(task),
         OrganizationArchived(task)
  PROVE  /\ Keeps /\ UNCHANGED contact /\ org'.life = "archived" /\ tokens' = {}
         /\ \A u \in User : Exists(u)' => users'[u].state = "archived"
<1>1. task.org \in OrgRow /\ task.do = "archive" /\ task.org.life # "archived"
  BY DEF ArchiveTask, Fits
<1>2. org' \in OrgRow /\ org'.life = "archived"
  BY <1>1, NewOrgRows, MergedOrgRow, Types DEF OrganizationArchived, Column
<1>3. ASSUME NEW u \in User
      PROVE  /\ ~Exists(u) => users'[u] = NoRow
             /\ Exists(u) => /\ users'[u] \in UserRow
                             /\ users'[u].state = "archived"
  <2>1. users'[u] = IF Exists(u) THEN [users[u] EXCEPT !.state = "archived"]
                    ELSE NoRow
    BY DEF OrganizationArchived, ClosedUsers
  <2>2. Exists(u) => users[u] \in UserRow
    BY Types
  <2>. QED  BY <2>1, <2>2 DEF UserRow
<1>4. users' \in [User -> UserRow \cup {NoRow}]
  BY <1>3 DEF OrganizationArchived, ClosedUsers
<1>5. /\ \A u \in User : Exists(u) => Exists(u)'
      /\ \A u \in User : Exists(u)' => users'[u].state = "archived"
  BY <1>3, Types DEF Exists
<1>6. tokens' = {} /\ UNCHANGED contact
  BY DEF OrganizationArchived, TokensConsumed
<1>. QED  BY <1>2, <1>4, <1>5, <1>6, Types DEF Keeps

\* What the administrator's row is afterwards, whoever's it was before.
PromotedAs(task, rows, u, row) ==
    /\ row.state \in {"invited", rows[u].state}
    /\ task.user # NoRow =>
        /\ u = task.user /\ Exists(u) /\ row.email = rows[u].email
        /\ row.owner = TRUE \/ row.owner = rows[u].owner
        /\ task.saw = rows[u] => /\ row.owner = TRUE /\ row.state = "invited"
                                 /\ row.password = FALSE
    /\ task.user = NoRow => ~Exists(u) /\ row = Fresh(task.email, TRUE)

LEMMA Promotion ==
  ASSUME AccountInv, NEW rows \in [User -> UserRow \cup {NoRow}],
         \A u \in User : Exists(u) => rows[u] # NoRow,
         NEW task \in ReplaceTask \cup UnarchiveTask, Fits(task),
         Promotes(task, rows)
  PROVE  \E u \in User, row \in UserRow :
            users' = [rows EXCEPT ![u] = row] /\ PromotedAs(task, rows, u, row)
<1>1. /\ task.user \in User \cup {NoRow} /\ task.email \in Email
      /\ task.do \in {"replace", "unarchive"} /\ NoRow \notin User
  BY Types DEF ReplaceTask, UnarchiveTask
<1>2. CASE task.user = NoRow
  <2>1. PICK u \in User : ~Exists(u) /\ users' = [rows EXCEPT
                                                ![u] = Fresh(task.email, TRUE)]
    BY <1>2 DEF Promotes
  <2>2. Fresh(task.email, TRUE) \in UserRow /\ Fresh(task.email, TRUE).state = "invited"
    BY <1>1, FreshRow
  <2>3. PromotedAs(task, rows, u, Fresh(task.email, TRUE))
    BY <1>2, <2>1, <2>2 DEF PromotedAs
  <2>. QED  BY <2>1, <2>2, <2>3
<1>3. CASE task.user # NoRow
  <2> DEFINE new == Promoted(task.saw)
             old == rows[task.user]
  <2>1. /\ task.user \in User /\ Exists(task.user) /\ task.saw \in UserRow
        /\ old \in UserRow
    BY <1>1, <1>3 DEF Fits
  <2>2. /\ new \in UserRow /\ new.email = task.saw.email /\ new.owner = TRUE
        /\ new.state = "invited" /\ new.password = FALSE
    BY <2>1, PromotedRow
  <2>3. PICK merged \in MergedRoles(old, task.saw, new) :
            users' = [rows EXCEPT ![task.user] = merged]
    BY <1>3 DEF Promotes
  <2>. HIDE DEF new, old
  <2>4. /\ merged \in UserRow
        /\ merged.email = Column(task.saw.email, new.email, old.email)
        /\ merged.state = Column(task.saw.state, new.state, old.state)
        /\ merged.owner
                \in {Column(task.saw.owner, new.owner, old.owner), new.owner}
        /\ merged.password = Column(task.saw.password, new.password, old.password)
    BY <2>1, <2>2, MergedRow
  <2>5. /\ merged.email = old.email /\ merged.state \in {"invited", old.state}
        /\ merged.owner = TRUE \/ merged.owner = old.owner
        /\ task.saw = old => /\ merged.state = "invited" /\ merged.owner = TRUE
                            /\ merged.password = FALSE
    BY <2>2, <2>4 DEF Column
  <2>6. PromotedAs(task, rows, task.user, merged)
    BY <1>3, <2>1, <2>5 DEF PromotedAs, old
  <2>. QED  BY <2>1, <2>3, <2>4, <2>6
<1>. QED  BY <1>2, <1>3

LEMMA Unarchived ==
  ASSUME AccountInv, org # NoRow, NEW task \in UnarchiveTask, Fits(task),
         OrganizationUnarchived(task)
  PROVE  /\ Keeps /\ UNCHANGED <<contact, tokens>> /\ org'.life = "extended_beta"
         /\ \E u \in User, row \in UserRow :
                OneRow(u, row) /\ PromotedAs(task, users, u, row)
<1>1. PICK u \in User, row \in UserRow :
        users' = [users EXCEPT ![u] = row] /\ PromotedAs(task, users, u, row)
  <2>1. /\ users \in [User -> UserRow \cup {NoRow}]
        /\ \A u \in User : Exists(u) => users[u] # NoRow
        /\ Promotes(task, users)
    BY Types DEF OrganizationUnarchived, Exists
  <2>. QED  BY <2>1, Promotion
<1>2. OneRow(u, row)
  BY <1>1, OneRowOf
<1>3. task.org \in OrgRow /\ task.org.life = "archived"
  BY DEF UnarchiveTask
<1>4. /\ org' \in OrgRow /\ org'.life = "extended_beta"
      /\ UNCHANGED <<contact, tokens>>
  BY <1>3, NewOrgRows, MergedOrgRow, Types DEF OrganizationUnarchived, Column
<1>. QED  BY <1>1, <1>2, <1>4, OneRowKeeps, Types

\* Two rows change, or one.
LEMMA Replaced ==
  ASSUME AccountInv, org # NoRow, NEW task \in ReplaceTask, Fits(task),
         AdministratorReplaced(task)
  PROVE  /\ Keeps /\ UNCHANGED <<org, tokens>> /\ contact' = task.email
         /\ \E u \in User :
                /\ users'[u] \in UserRow
                /\ task.user # NoRow /\ task.user # task.old
                        /\ task.saw = users[u] =>
                    /\ u = task.user /\ users'[u].email = users[u].email
                    /\ users'[u].owner = TRUE /\ users'[u].state = "invited"
                    /\ users'[u].password = FALSE
                /\ task.user = NoRow => users'[u] = Fresh(task.email, TRUE)
                /\ task.user # NoRow => u = task.user
                /\ \A v \in User \ {u} :
                    \/ users'[v] = users[v]
                    \/ v = task.old /\ (task.oldSaw = users[v] =>
                                            users'[v].state = "archived")
<1>1. /\ task.old \in User \cup {NoRow} /\ task.email \in Email
      /\ task.do = "replace" /\ NoRow \notin User
      /\ users \in [User -> UserRow \cup {NoRow}]
  BY Types DEF ReplaceTask
<1>2. \E rows \in [User -> UserRow \cup {NoRow}] :
        /\ Promotes(task, rows)
        /\ \A u \in User : Exists(u) => rows[u] # NoRow
        /\ \A v \in User :
            \/ rows[v] = users[v]
            \/ v = task.old /\ (task.oldSaw = users[v] => rows[v].state = "archived")
  <2>1. CASE task.old = NoRow
    BY <1>1, <2>1 DEF AdministratorReplaced, Exists
  <2>2. CASE task.old # NoRow
    <3> DEFINE new == Dismissed(task.oldSaw)
               old == users[task.old]
    <3>1. /\ task.old \in User /\ task.oldSaw \in UserRow /\ old \in UserRow
      BY <1>1, <2>2, Types DEF Fits
    <3>2. new \in UserRow /\ new.state = "archived"
      BY <3>1, DismissedRow
    <3>3. PICK merged \in MergedRoles(old, task.oldSaw, new) :
            Promotes(task, [users EXCEPT ![task.old] = merged])
      BY <2>2 DEF AdministratorReplaced
    <3>. HIDE DEF new, old
    <3>4. /\ merged \in UserRow
          /\ merged.state = Column(task.oldSaw.state, new.state, old.state)
      BY <3>1, <3>2, MergedRow
    <3>5. task.oldSaw = old => merged.state = "archived"
      BY <3>2, <3>4 DEF Column
    <3> DEFINE rows == [users EXCEPT ![task.old] = merged]
    <3>6. /\ rows \in [User -> UserRow \cup {NoRow}] /\ rows[task.old] = merged
          /\ \A v \in User : v # task.old => rows[v] = users[v]
      BY <1>1, <3>1, <3>4
    <3>7. merged # NoRow
      BY <3>4, Types
    <3>. HIDE DEF rows
    <3>8. Promotes(task, rows)
      BY <3>3 DEF rows
    <3>. QED  BY <3>5, <3>6, <3>7, <3>8 DEF old, Exists
  <2>. QED  BY <2>1, <2>2
<1>3. PICK rows \in [User -> UserRow \cup {NoRow}] :
        /\ Promotes(task, rows)
        /\ \A u \in User : Exists(u) => rows[u] # NoRow
        /\ \A v \in User :
            \/ rows[v] = users[v]
            \/ v = task.old /\ (task.oldSaw = users[v] => rows[v].state = "archived")
  BY <1>2
<1>4. PICK u \in User, row \in UserRow :
        users' = [rows EXCEPT ![u] = row] /\ PromotedAs(task, rows, u, row)
  BY <1>3, Promotion
<1>5. /\ users'[u] = row /\ \A v \in User : v # u => users'[v] = rows[v]
      /\ users' \in [User -> UserRow \cup {NoRow}]
  BY <1>3, <1>4
<1>6. \A v \in User : Exists(v) => Exists(v)'
  BY <1>3, <1>5, Types DEF Exists
<1>7. UNCHANGED <<org, tokens>> /\ contact' = task.email
  BY DEF AdministratorReplaced
<1>8. Keeps
  BY <1>1, <1>5, <1>6, <1>7, Types DEF Keeps
<1>9. u # task.old => rows[u] = users[u]
  BY <1>3
<1>10. /\ task.user # NoRow /\ task.user # task.old /\ task.saw = users[u] =>
            /\ u = task.user /\ users'[u].email = users[u].email
            /\ users'[u].owner = TRUE /\ users'[u].state = "invited"
            /\ users'[u].password = FALSE
       /\ task.user = NoRow => users'[u] = Fresh(task.email, TRUE)
       /\ task.user # NoRow => u = task.user
  BY <1>4, <1>5, <1>9 DEF PromotedAs
<1>11. /\ users'[u] \in UserRow
       /\ \A v \in User \ {u} :
            \/ users'[v] = users[v]
            \/ v = task.old /\ (task.oldSaw = users[v] =>
                                    users'[v].state = "archived")
  BY <1>3, <1>5
<1>. QED  BY <1>7, <1>8, <1>10, <1>11

-----------------------------------------------------------------------------
(* Every step *)

LEMMA SavedKeeps ==
  ASSUME AccountInv, org # NoRow, NEW task \in Task, Fits(task), Saved(task)
  PROVE  Keeps
<1>1. CASE AdministratorReplaced(task)
  BY <1>1, Replaced DEF AdministratorReplaced
<1>2. CASE OrganizationArchived(task)
  BY <1>2, Archived DEF OrganizationArchived
<1>3. CASE OrganizationUnarchived(task)
  BY <1>3, Unarchived DEF OrganizationUnarchived
<1>4. CASE UserAdded(task)
  BY <1>4, Added DEF UserAdded
<1>5. CASE UserUpdated(task)
  BY <1>5, Updated DEF UserUpdated
<1>6. CASE UserDeleted(task)
  BY <1>6, Removed DEF UserDeleted
<1>7. CASE UserRestored(task)
  BY <1>7, Restored DEF UserRestored
<1>8. CASE Activated(task)
  BY <1>8, Activates DEF Activated
<1>9. CASE ResetIssued(task)
  BY <1>9, Issued DEF ResetIssued
<1>10. CASE PasswordReset(task)
  BY <1>10, Reset DEF PasswordReset
<1>. QED
  BY <1>1, <1>2, <1>3, <1>4, <1>5, <1>6, <1>7, <1>8, <1>9, <1>10 DEF Saved

LEMMA AccountOf ==
  ASSUME AccountInv, NEW e
  PROVE  /\ Account(e) \in User \cup {NoRow} /\ (Account(e) = NoRow <=> With(e) = {})
         /\ Account(e) # NoRow =>
                /\ Account(e) \in With(e) /\ Exists(Account(e))
                /\ users[Account(e)].email = e /\ users[Account(e)] \in UserRow
         /\ RowOf(Account(e)) \in UserRow \cup {NoRow}
         /\ Account(e) # NoRow => RowOf(Account(e)) = users[Account(e)]
  BY Types DEF Account, With, RowOf

\* What methods read, each of its page.
Readings == OfMembersPage \cup OfVisitors \cup OfOthers

\* What a method reads is typed, and there.
LEMMA ReadingsFit ==
  ASSUME AccountInv, NEW task \in Readings, task \in OfMembersPage => org # NoRow
  PROVE  /\ task \in Task /\ Fits(task) /\ org # NoRow
         /\ task.do \in {"update", "delete", "restore"} =>
                /\ task.saw = users[task.user] /\ ~users[task.user].owner
         /\ task.do \in {"add", "update", "delete", "restore"} =>
                task \in OfMembersPage
         /\ task.do = "replace" =>
                /\ IsOpen /\ task.email # contact
                /\ task.old = Account(contact) /\ task.oldSaw = RowOf(task.old)
                /\ task.user = Account(task.email) /\ task.saw = RowOf(task.user)
         /\ task.do = "archive" => IsOpen
         /\ task.do = "unarchive" =>
                /\ ~IsOpen /\ task.email = contact
                /\ task.user = Account(contact) /\ task.saw = RowOf(task.user)
         /\ task.do \in {"activate", "signin"} => task.user \in Having({"invited"})
         /\ task.do = "issue" => task.user \in Having({"active"})
         /\ task.do = "reset" => task.user \in tokens \cap Having({"active"})
<1>. USE Types
<1>1. CASE task \in AddMember
  BY <1>1 DEF AddMember, AddTask, Task, Fits, OfMembersPage
<1>2. CASE task \in UpdateMember
  BY <1>2 DEF UpdateMember, Members, UpdateTask, Task, Fits, OfMembersPage, Exists
<1>3. CASE task \in DeleteMember
  BY <1>3 DEF DeleteMember, Members, UserTask, OfUser, Task, Fits, OfMembersPage, Exists
<1>4. CASE task \in RestoreMember
  BY <1>4 DEF RestoreMember, Members, UserTask, OfUser, Task, Fits, OfMembersPage, Exists
<1>5. CASE task \in ActivateBySignIn \cup ActivateWithPassword
  BY <1>5 DEF ActivateBySignIn, ActivateWithPassword, Having, ActivateTask, Task, Fits
<1>6. CASE task \in IssueReset
  BY <1>6 DEF IssueReset, Having, UserTask, OfUser, Task, Fits
<1>7. CASE task \in ResetPassword
  BY <1>7 DEF ResetPassword, Having, UserTask, OfUser, Task, Fits
<1>8. CASE task \in ReplaceAdministrator
  <2>1. PICK e \in Email : /\ IsOpen /\ e # contact
            /\ task = [do |-> "replace", email |-> e,
                       old |-> Account(contact), oldSaw |-> RowOf(Account(contact)),
                       user |-> Account(e), saw |-> RowOf(Account(e))]
    BY <1>8 DEF ReplaceAdministrator
  <2>2. task \in ReplaceTask /\ Fits(task)
    BY <2>1, AccountOf DEF ReplaceTask, Fits
  <2>. QED  BY <2>1, <2>2 DEF Task, IsOpen
<1>9. CASE task \in Archive
  BY <1>9 DEF Archive, IsOpen, ArchiveTask, Task, Fits
<1>10. CASE task \in Unarchive
  <2>1. /\ org # NoRow /\ ~IsOpen /\ org \in OrgRow /\ contact \in Email
        /\ task = [do |-> "unarchive", org |-> org, email |-> contact,
                   user |-> Account(contact), saw |-> RowOf(Account(contact))]
    BY <1>10 DEF Unarchive
  <2>2. task \in UnarchiveTask /\ Fits(task)
    BY <2>1, AccountOf DEF UnarchiveTask, Fits, IsOpen
  <2>. QED  BY <2>1, <2>2 DEF Task
<1>. QED
  BY <1>1, <1>2, <1>3, <1>4, <1>5, <1>6, <1>7, <1>8, <1>9, <1>10
  DEF Readings, OfMembersPage, OfVisitors, OfOthers

\* What was read still fits when rows stay rows.
LEMMA FitsOn ==
  ASSUME NEW t \in Task, Fits(t), NoRow \notin User,
         \A u \in User : Exists(u) => Exists(u)'
  PROVE  Fits(t)'
<1>1. /\ t.do \in {"delete", "restore", "issue", "reset", "update", "activate",
                  "signin"} => t.user \in User
      /\ t.do \in {"replace", "unarchive"} => t.user \in User \cup {NoRow}
      /\ t.do = "replace" => t.old \in User \cup {NoRow}
  BY DEF Task, Begun, UserTask, UpdateTask, ActivateTask, AddTask, ReplaceTask,
         ArchiveTask, UnarchiveTask
<1>. QED  BY <1>1 DEF Fits

\* Handlers that go on, are done, or have read what fits.
LEMMA KeepsInv ==
  ASSUME AccountInv, org # NoRow, Keeps,
         tasks' \in [WebHandler -> Task \cup {NoRow}],
         \A w \in WebHandler :
            \/ tasks'[w] \in {tasks[w], NoRow}
            \/ \E t \in Task : tasks'[w] = t /\ Fits(t)
  PROVE  AccountInv'
<1>1. ASSUME NEW w \in WebHandler, tasks'[w] # NoRow
      PROVE  Fits(tasks[w])'
  <2>1. PICK t \in Task : tasks'[w] = t /\ Fits(t)
    BY <1>1, Types
  <2>2. Fits(t)'
    BY <2>1, Types, FitsOn DEF Keeps
  <2>. QED  BY <2>1, <2>2 DEF Fits
<1>2. Known'
  BY Types DEF Keeps, Known
<1>3. AccountTypeOK'
  BY DEF AccountTypeOK, Keeps
<1>. QED  BY <1>1, <1>2, <1>3 DEF AccountInv, TasksFit

LEMMA UsersStay ==
  ASSUME AccountInv, org # NoRow, UNCHANGED <<contact, users>>, tokens' \subseteq User,
         org' \in OrgRow
  PROVE  Keeps
  BY Types DEF Keeps, Exists

LEMMA CommitKeeps ==
  ASSUME AccountInv, NEW w \in WebHandler, Commit(w)
  PROVE  /\ AccountInv' /\ org # NoRow
         /\ tasks[w] \in Task /\ Fits(tasks[w]) /\ Saved(tasks[w])
<1>1. Saved(tasks[w]) /\ tasks' = [tasks EXCEPT ![w] = NoRow]
  BY DEF Commit
<1>2. tasks[w] # NoRow
  BY <1>1, Types
  DEF Saved, AdministratorReplaced, OrganizationArchived, OrganizationUnarchived,
      UserAdded, UserUpdated, UserDeleted, UserRestored, Activated, ResetIssued,
      PasswordReset, Task
<1>3. tasks[w] \in Task /\ Fits(tasks[w]) /\ org # NoRow
  BY <1>2, Types
<1>4. Keeps
  BY <1>1, <1>3, SavedKeeps
<1>5. /\ tasks' \in [WebHandler -> Task \cup {NoRow}]
      /\ \A v \in WebHandler : tasks'[v] \in {tasks[v], NoRow}
  BY <1>1, Types
<1>. QED  BY <1>1, <1>3, <1>4, <1>5, KeepsInv

\* A method's name tells which page it is of.
LEMMA PagesApart ==
  ASSUME NEW task \in Readings
  PROVE  /\ task \in OfVisitors \cup OfOthers => task \notin OfMembersPage
         /\ task \in OfOthers => task \notin OfVisitors
<1>1. task \in OfMembersPage => task.do \in {"add", "update", "delete", "restore"}
  BY DEF OfMembersPage, AddMember, UpdateMember, DeleteMember, RestoreMember, OfUser
<1>2. task \in OfVisitors => task.do \in {"signin", "issue"}
  BY DEF OfVisitors, ActivateBySignIn, IssueReset, OfUser
<1>3. task \in OfOthers =>
        task.do \in {"replace", "archive", "unarchive", "activate", "reset"}
  BY DEF OfOthers, ReplaceAdministrator, Archive, Unarchive, ActivateWithPassword,
         ResetPassword, OfUser
<1>. QED  BY <1>1, <1>2, <1>3

\* What a method that nothing overlaps has been let in by.
LEMMA LetIn ==
  ASSUME Undisturbed
  PROVE  \E task \in Readings :
            /\ task \in OfMembersPage \cup OfVisitors => IsOpen
            /\ task \in OfMembersPage => Having({"active"}) # {}
            /\ Saved(task)
<1>1. CASE /\ IsOpen /\ Having({"active"}) # {}
           /\ \E task \in OfMembersPage : Saved(task)
  BY <1>1 DEF Readings
<1>2. CASE IsOpen /\ \E task \in OfVisitors : Saved(task)
  BY <1>2, PagesApart DEF Readings
<1>3. CASE \E task \in OfOthers : Saved(task)
  BY <1>3, PagesApart DEF Readings
<1>. QED  BY <1>1, <1>2, <1>3 DEF Undisturbed

LEMMA UndisturbedKeeps ==
  ASSUME AccountInv, Undisturbed
  PROVE  AccountInv' /\ org # NoRow
<1>1. PICK task \in Readings :
        (task \in OfMembersPage \cup OfVisitors => IsOpen) /\ Saved(task)
  BY LetIn
<1>2. task \in Task /\ Fits(task) /\ org # NoRow
  BY <1>1, ReadingsFit DEF IsOpen
<1>3. Keeps
  BY <1>1, <1>2, SavedKeeps
<1>. QED  BY <1>2, <1>3, KeepsInv, Types DEF Undisturbed

LEMMA SelectKeeps ==
  ASSUME AccountInv, NEW w \in WebHandler, Select(w)
  PROVE  AccountInv' /\ org # NoRow
<1>1. PICK task \in Readings :
        /\ task \in OfMembersPage => tasks[w] # NoRow
        /\ tasks' = [tasks EXCEPT ![w] = task]
  <2>1. NoRow # [do |-> "session"]
    BY Types DEF Task, Begun
  <2>. QED  BY <2>1, PagesApart DEF Select, Readings
<1>2. task \in Task /\ Fits(task) /\ org # NoRow
  BY <1>1, Types, ReadingsFit
<1>3. /\ tasks' \in [WebHandler -> Task \cup {NoRow}] /\ tasks'[w] = task
      /\ \A v \in WebHandler : v # w => tasks'[v] = tasks[v]
  BY <1>1, <1>2, Types
<1>4. Keeps
  BY <1>2, UsersStay, Types DEF Select
<1>. QED  BY <1>2, <1>3, <1>4, KeepsInv

LEMMA CreationKeeps ==
  ASSUME AccountInv, NEW w \in WebHandler, NEW u \in User, NEW e \in Email,
         CreateOrganization(w, u, e)
  PROVE  /\ AccountInv' /\ org = NoRow /\ contact' = e
         /\ users'[u] = Fresh(e, TRUE) /\ \A v \in User \ {u} : users'[v] = NoRow
<1> DEFINE begun == [life |-> "extended_beta", from |-> "", prov |-> "pending"]
<1>1. /\ org = NoRow /\ org' = begun /\ contact' = e
      /\ users' = [users EXCEPT ![u] = Fresh(e, TRUE)]
      /\ tasks' = [tasks EXCEPT ![w] = [do |-> "mail"]] /\ UNCHANGED tokens
  BY DEF CreateOrganization, OrganizationCreated
<1>2. begun \in OrgRow /\ begun # NoRow
  <2>1. begun \in OrgRow
    BY DEF OrgRow
  <2>. QED  BY <2>1, Types
<1>. HIDE DEF begun
<1>3. \A v \in User : users[v] = NoRow
  BY <1>1 DEF AccountInv, Known, Exists
<1>4. \A v \in WebHandler : tasks[v] = NoRow
  BY <1>1 DEF AccountInv, Known
<1>5. Fresh(e, TRUE) \in UserRow
  BY FreshRow
<1>6. /\ users' \in [User -> UserRow \cup {NoRow}] /\ users'[u] = Fresh(e, TRUE)
      /\ \A v \in User \ {u} : users'[v] = NoRow
  BY <1>1, <1>3, <1>5, Types
<1>7. [do |-> "mail"] \in Task
  BY DEF Task, Begun
<1>8. /\ tasks' \in [WebHandler -> Task \cup {NoRow}]
      /\ \A v \in WebHandler : tasks'[v] \in {NoRow, [do |-> "mail"]}
  BY <1>1, <1>4, <1>7, Types
<1>9. AccountTypeOK'
  BY <1>1, <1>2, <1>6, <1>8, Types DEF AccountTypeOK
<1>10. TasksFit'
  BY <1>8 DEF TasksFit, Fits
<1>. QED  BY <1>1, <1>2, <1>6, <1>9, <1>10 DEF AccountInv, Known

\* Steps that leave the accounts alone.
LEMMA OthersKeep ==
  ASSUME AccountInv, NEW w \in WebHandler,
         OpenMembers(w) \/ Visit(w) \/ SendInvitation(w) \/ MarkSent(w) \/ Fail(w)
  PROVE  /\ AccountInv' /\ org # NoRow /\ UNCHANGED <<contact, users, tokens>>
         /\ org' \in OrgRow /\ org'.life = org.life
<1>1. /\ UNCHANGED <<contact, users, tokens>>
      /\ \E t \in {NoRow, [do |-> "session"], [do |-> "visit"], [do |-> "mail"]} :
            tasks' = [tasks EXCEPT ![w] = t]
  BY DEF OpenMembers, Visit, SendInvitation, MarkSent, Fail
<1>2. org # NoRow
  <2>1. NoRow # [do |-> "mail"]
    BY Types DEF Task, Begun
  <2>. QED  BY <2>1, Types DEF OpenMembers, Visit, SendInvitation, MarkSent, Fail, IsOpen
<1>3. org' \in OrgRow /\ org'.life = org.life
  <2>1. CASE MarkSent(w)
    <3>1. org \in OrgRow /\ org' = [org EXCEPT !.prov = "pending"]
      BY <1>2, <2>1, Types DEF MarkSent
    <3>. QED  BY <3>1 DEF OrgRow
  <2>2. CASE ~MarkSent(w)
    BY <1>2, <2>2, Types DEF OpenMembers, Visit, SendInvitation, Fail
  <2>. QED  BY <2>1, <2>2
<1>4. Keeps
  BY <1>1, <1>2, <1>3, UsersStay, Types
<1>5. PICK t \in {NoRow, [do |-> "session"], [do |-> "visit"], [do |-> "mail"]} :
        tasks' = [tasks EXCEPT ![w] = t]
  BY <1>1
<1>6. t = NoRow \/ (t \in Task /\ Fits(t))
  BY DEF Task, Begun, Fits
<1>7. tasks' \in [WebHandler -> Task \cup {NoRow}] /\ tasks'[w] = t
      /\ \A v \in WebHandler : v # w => tasks'[v] = tasks[v]
  BY <1>5, <1>6, Types
<1>8. \A v \in WebHandler : \/ tasks'[v] \in {tasks[v], NoRow}
                             \/ \E k \in Task : tasks'[v] = k /\ Fits(k)
  BY <1>6, <1>7
<1>. QED  BY <1>1, <1>2, <1>3, <1>4, <1>7, <1>8, KeepsInv

LEMMA ExpiryKeeps ==
  ASSUME AccountInv, NEW u \in User, ResetExpires(u)
  PROVE  AccountInv'
<1>1. AccountTypeOK' /\ UNCHANGED <<org, contact, users, tasks>>
  BY DEF ResetExpires, AccountInv, AccountTypeOK
<1>2. Known' /\ TasksFit'
  BY <1>1 DEF AccountInv, Known, TasksFit, Fits, Exists
<1>. QED  BY <1>1, <1>2 DEF AccountInv

LEMMA AccountStep ==
  ASSUME AccountInv, [AccountNext]_accountVars
  PROVE  AccountInv'
<1>1. CASE UNCHANGED accountVars
  BY <1>1
  DEF accountVars, AccountInv, AccountTypeOK, Known, TasksFit, Fits, Exists
<1>2. CASE Undisturbed
  BY <1>2, UndisturbedKeeps
<1>3. ASSUME NEW u \in User, ResetExpires(u) PROVE AccountInv'
  BY <1>3, ExpiryKeeps
<1>4. ASSUME NEW w \in WebHandler,
             \/ OpenMembers(w) \/ Visit(w) \/ SendInvitation(w) \/ MarkSent(w)
             \/ Fail(w) \/ Select(w) \/ Commit(w)
             \/ \E u \in User, e \in Email : CreateOrganization(w, u, e)
      PROVE  AccountInv'
  BY <1>4, OthersKeep, SelectKeeps, CommitKeeps, CreationKeeps
<1>. QED  BY <1>1, <1>2, <1>3, <1>4 DEF AccountNext

LEMMA AccountAlways == AccountSpec => []AccountInv
<1>1. AccountInit => AccountInv
  BY Types DEF AccountInit, AccountInv, AccountTypeOK, Known, TasksFit, Exists
<1>2. AccountInv /\ [AccountNext]_accountVars => AccountInv'
  BY AccountStep
<1>. QED  BY <1>1, <1>2, PTL DEF AccountSpec

-----------------------------------------------------------------------------
(* The administrator *)

\* The contact's account is as good as it was.
LEMMA OneRowKnown ==
  ASSUME AccountInv, OwnerKnown, UNCHANGED contact, NEW v, NEW row, OneRow(v, row),
         Exists(v) /\ users[v].owner =>
            /\ row.email = users[v].email /\ row.owner
            /\ row.state \in {"invited", "active", users[v].state}
  PROVE  OwnerKnown'
<1>1. PICK u \in With(contact) :
        users[u].owner /\ users[u].state \in {"invited", "active"}
  BY DEF OwnerKnown
<1>2. /\ u \in User /\ Exists(u) /\ users[u].email = contact
      /\ users[u] \in UserRow /\ NoRow \notin UserRow
  BY Types DEF With
<1>3. /\ users'[u] \in UserRow /\ users'[u].email = contact /\ users'[u].owner
      /\ users'[u].state \in {"invited", "active"}
  <2>1. CASE u = v
    BY <1>1, <1>2, <2>1 DEF OneRow
  <2>2. CASE u # v
    BY <1>1, <1>2, <2>2 DEF OneRow
  <2>. QED  BY <2>1, <2>2
<1>. QED  BY <1>2, <1>3 DEF OwnerKnown, With, Exists

\* An account of the administrator's is there now.
LEMMA NewOwnerKnown ==
  ASSUME AccountInv, NEW u \in User, users'[u] \in UserRow,
         users'[u].email = contact', users'[u].owner, users'[u].state = "invited"
  PROVE  OwnerKnown'
  BY Types DEF OwnerKnown, With, Exists

LEMMA ReplacedKnown ==
  ASSUME AccountInv, org # NoRow, NEW task \in ReplaceTask, Fits(task),
         AdministratorReplaced(task), task.email # contact,
         task.old = Account(contact), task.user = Account(task.email),
         task.saw = RowOf(task.user)
  PROVE  OwnerKnown'
<1>1. PICK u \in User :
        /\ users'[u] \in UserRow
        /\ task.user # NoRow /\ task.user # task.old /\ task.saw = users[u] =>
            /\ users'[u].email = users[u].email
            /\ users'[u].owner = TRUE /\ users'[u].state = "invited"
        /\ task.user = NoRow => users'[u] = Fresh(task.email, TRUE)
        /\ task.user # NoRow => u = task.user
  BY Replaced
<1>2. contact' = task.email
  BY Replaced
<1>3. CASE task.user = NoRow
  <2>1. task.email \in Email
    BY DEF ReplaceTask
  <2>. QED  BY <1>1, <1>2, <1>3, <2>1, FreshRow, NewOwnerKnown
<1>4. CASE task.user # NoRow
  <2>1. users[task.user].email = task.email /\ task.saw = users[task.user]
    BY <1>4, AccountOf
  <2>2. task.user # task.old
    BY <1>4, <2>1, AccountOf
  <2>. QED  BY <1>1, <1>2, <1>4, <2>1, <2>2, NewOwnerKnown
<1>. QED  BY <1>3, <1>4

\* No method that nothing overlaps, and only three that are, take an open
\* organization's administrator away.
LEMMA SavedKnown ==
  ASSUME AccountInv, org # NoRow, NEW task \in Task, Fits(task), Saved(task),
         IsOpen, IsOpen', OwnerKnown,
         task.do \in {"update", "delete"} => ~users[task.user].owner,
         task.do = "replace" =>
            /\ task.email # contact /\ task.old = Account(contact)
            /\ task.user = Account(task.email) /\ task.saw = RowOf(task.user)
  PROVE  OwnerKnown'
<1>1. CASE AdministratorReplaced(task)
  <2>1. task \in ReplaceTask /\ task.do = "replace"
    BY <1>1 DEF AdministratorReplaced, ReplaceTask
  <2>. QED  BY <1>1, <2>1, ReplacedKnown
<1>2. CASE OrganizationArchived(task)
  BY <1>2, Archived DEF OrganizationArchived, IsOpen
<1>3. CASE OrganizationUnarchived(task)
  <2>1. PICK u \in User, row \in UserRow :
            OneRow(u, row) /\ PromotedAs(task, users, u, row)
    BY <1>3, Unarchived DEF OrganizationUnarchived
  <2>2. UNCHANGED contact
    BY <1>3 DEF OrganizationUnarchived
  <2>. QED  BY <2>1, <2>2, OneRowKnown DEF PromotedAs
<1>4. CASE UserAdded(task)
  <2>1. PICK u \in User : ~Exists(u) /\ OneRow(u, Fresh(task.email, task.owner))
    BY <1>4, Added DEF UserAdded
  <2>. QED  BY <1>4, <2>1, OneRowKnown DEF UserAdded
<1>5. CASE UserUpdated(task)
  <2>1. task \in UpdateTask /\ task.do = "update"
    BY <1>5 DEF UserUpdated, UpdateTask
  <2>2. PICK row \in UserRow : OneRow(task.user, row)
    BY <1>5, <2>1, Updated
  <2>. QED  BY <1>5, <2>1, <2>2, OneRowKnown DEF UserUpdated
<1>6. CASE UserDeleted(task)
  <2>1. task \in UserTask /\ task.do = "delete"
    BY <1>6 DEF UserDeleted
  <2>2. PICK row \in UserRow : OneRow(task.user, row)
    BY <1>6, <2>1, Removed
  <2>. QED  BY <1>6, <2>1, <2>2, OneRowKnown DEF UserDeleted
<1>7. CASE UserRestored(task)
  <2>1. PICK row \in UserRow :
            /\ OneRow(task.user, row) /\ row.email = users[task.user].email
            /\ row.owner = users[task.user].owner
            /\ row.state \in {"invited", users[task.user].state}
    BY <1>7, Restored DEF UserRestored
  <2>. QED  BY <1>7, <2>1, OneRowKnown DEF UserRestored
<1>8. CASE Activated(task)
  <2>1. PICK row \in UserRow :
            /\ OneRow(task.user, row) /\ row.email = users[task.user].email
            /\ row.owner = users[task.user].owner /\ row.state = "active"
    BY <1>8, Activates DEF Activated
  <2>. QED  BY <1>8, <2>1, OneRowKnown DEF Activated
<1>9. CASE ResetIssued(task)
  BY <1>9 DEF ResetIssued, OwnerKnown, With, Exists
<1>10. CASE PasswordReset(task)
  <2>1. PICK row \in UserRow :
            /\ OneRow(task.user, row) /\ row.email = users[task.user].email
            /\ row.owner = users[task.user].owner
            /\ row.state = users[task.user].state
    BY <1>10, Reset DEF PasswordReset
  <2>. QED  BY <1>10, <2>1, OneRowKnown DEF PasswordReset
<1>. QED
  BY <1>1, <1>2, <1>3, <1>4, <1>5, <1>6, <1>7, <1>8, <1>9, <1>10 DEF Saved

\* An organization is opened for its administrator.
LEMMA SavedOpens ==
  ASSUME AccountInv, org # NoRow, NEW task \in Task, Fits(task), Saved(task),
         ~IsOpen, IsOpen', task.do \notin {"activate", "signin"},
         task.do = "unarchive" =>
            /\ task.email = contact /\ task.user = Account(contact)
            /\ task.saw = RowOf(task.user)
  PROVE  OwnerKnown'
<1>1. org' # org
  BY DEF IsOpen
<1>2. CASE OrganizationArchived(task)
  BY <1>2, Archived DEF OrganizationArchived, IsOpen
<1>3. CASE OrganizationUnarchived(task)
  <2>1. task \in UnarchiveTask /\ task.do = "unarchive" /\ contact' = contact
    BY <1>3 DEF OrganizationUnarchived, UnarchiveTask
  <2>2. PICK u \in User, row \in UserRow :
            OneRow(u, row) /\ PromotedAs(task, users, u, row)
    BY <1>3, <2>1, Unarchived
  <2>3. users'[u] = row
    BY <2>2 DEF OneRow
  <2>4. CASE task.user = NoRow
    <3>1. row = Fresh(contact, TRUE) /\ contact \in Email
      BY <2>1, <2>2, <2>4, Types DEF PromotedAs
    <3>2. /\ row \in UserRow /\ row.email = contact /\ row.owner
          /\ row.state = "invited"
      BY <3>1, FreshRow
    <3>. QED  BY <2>1, <2>3, <3>2, NewOwnerKnown
  <2>5. CASE task.user # NoRow
    <3>1. users[task.user].email = contact /\ task.saw = users[task.user]
      BY <2>1, <2>5, AccountOf
    <3>2. /\ row.email = contact /\ row.owner /\ row.state = "invited"
      BY <2>2, <2>5, <3>1 DEF PromotedAs
    <3>. QED  BY <2>1, <2>3, <3>2, NewOwnerKnown
  <2>. QED  BY <2>4, <2>5
<1>4. CASE Activated(task)
  BY <1>4 DEF Activated, ActivateTask
<1>. QED
  BY <1>1, <1>2, <1>3, <1>4
  DEF Saved, AdministratorReplaced, UserAdded, UserUpdated, UserDeleted,
      UserRestored, ResetIssued, PasswordReset

\* What a method has found that nothing overlaps.
JustRead(task) ==
    /\ task.do \in {"update", "delete", "restore"} =>
        task.saw = users[task.user] /\ ~users[task.user].owner
    /\ task.do \in {"add", "update", "delete", "restore"} => IsOpen
    /\ task.do = "replace" =>
        /\ IsOpen /\ task.email # contact
        /\ task.old = Account(contact) /\ task.oldSaw = RowOf(task.old)
        /\ task.user = Account(task.email) /\ task.saw = RowOf(task.user)
    /\ task.do = "unarchive" =>
        /\ ~IsOpen /\ task.email = contact
        /\ task.user = Account(contact) /\ task.saw = RowOf(task.user)
    /\ task.do \in {"activate", "signin"} => task.user \in Having({"invited"})
    /\ task.do \in {"issue", "reset"} => task.user \in Having({"active"})

LEMMA UndisturbedTask ==
  ASSUME AccountInv, Undisturbed
  PROVE  \E task \in Task :
            Fits(task) /\ Saved(task) /\ org # NoRow /\ JustRead(task)
<1>1. PICK task \in Readings :
        /\ task \in OfMembersPage \cup OfVisitors => IsOpen
        /\ task \in OfMembersPage => Having({"active"}) # {}
        /\ Saved(task)
  BY LetIn
<1>2. task \in OfMembersPage => org # NoRow
  BY <1>1 DEF IsOpen
<1>3. /\ task \in Task /\ Fits(task) /\ org # NoRow
      /\ task.do \in {"update", "delete", "restore"} =>
            /\ task.saw = users[task.user] /\ ~users[task.user].owner
      /\ task.do \in {"add", "update", "delete", "restore"} =>
            task \in OfMembersPage
      /\ task.do = "replace" =>
            /\ IsOpen /\ task.email # contact
            /\ task.old = Account(contact) /\ task.oldSaw = RowOf(task.old)
            /\ task.user = Account(task.email) /\ task.saw = RowOf(task.user)
      /\ task.do = "unarchive" =>
            /\ ~IsOpen /\ task.email = contact
            /\ task.user = Account(contact) /\ task.saw = RowOf(task.user)
      /\ task.do \in {"activate", "signin"} => task.user \in Having({"invited"})
      /\ task.do = "issue" => task.user \in Having({"active"})
      /\ task.do = "reset" => task.user \in tokens \cap Having({"active"})
  BY <1>1, <1>2, ReadingsFit
<1>4. task.do \in {"add", "update", "delete", "restore"} => IsOpen
  BY <1>1, <1>3
<1>5. JustRead(task)
  BY <1>3, <1>4 DEF JustRead
<1>. QED  BY <1>1, <1>3, <1>5

LEMMA OwnerStep ==
  ASSUME AccountInv, [AccountNext]_accountVars
  PROVE  /\ IsOpen /\ IsOpen' /\ OwnerKnown =>
                OwnerKnown' \/ Overlapped({"replace", "update", "delete"})
         /\ ~IsOpen /\ IsOpen' /\ AllClosed =>
                OwnerKnown' \/ Overlapped({"unarchive", "activate", "signin"})
<1> DEFINE Same == /\ IsOpen /\ IsOpen' /\ OwnerKnown =>
                        OwnerKnown' \/ Overlapped({"replace", "update", "delete"})
                   /\ ~IsOpen /\ IsOpen' /\ AllClosed =>
                        OwnerKnown'
                        \/ Overlapped({"unarchive", "activate", "signin"})
<1>1. CASE UNCHANGED accountVars
  BY <1>1 DEF accountVars, OwnerKnown, With, Exists, IsOpen
<1>2. CASE Undisturbed
  <2>1. PICK task \in Task :
            Fits(task) /\ Saved(task) /\ org # NoRow /\ JustRead(task)
    BY <1>2, UndisturbedTask
  <2>2. IsOpen /\ IsOpen' /\ OwnerKnown => OwnerKnown'
    BY <2>1, SavedKnown DEF JustRead
  <2>3. ~IsOpen /\ AllClosed => task.do \notin {"activate", "signin"}
    BY <2>1 DEF AllClosed, Having, JustRead
  <2>4. ~IsOpen /\ IsOpen' /\ AllClosed => OwnerKnown'
    BY <2>1, <2>3, SavedOpens DEF JustRead
  <2>. QED  BY <2>2, <2>4
<1>3. ASSUME NEW u \in User, ResetExpires(u) PROVE Same
  BY <1>3 DEF ResetExpires, OwnerKnown, With, Exists, IsOpen
<1>4. ASSUME NEW w \in WebHandler,
             OpenMembers(w) \/ Visit(w) \/ SendInvitation(w) \/ MarkSent(w) \/ Fail(w)
      PROVE  Same
  BY <1>4, OthersKeep DEF OwnerKnown, With, Exists, IsOpen
<1>5. ASSUME NEW w \in WebHandler, Select(w) PROVE Same
  BY <1>5 DEF Select, OwnerKnown, With, Exists, IsOpen
<1>6. ASSUME NEW w \in WebHandler, Commit(w) PROVE Same
  <2> DEFINE task == tasks[w]
  <2>1. org # NoRow /\ task \in Task /\ Fits(task) /\ Saved(task)
    BY <1>6, CommitKeeps
  <2>. HIDE DEF task
  <2>2. IsOpen /\ IsOpen' /\ OwnerKnown /\ task.do \notin {"replace", "update", "delete"}
            => OwnerKnown'
    BY <2>1, SavedKnown
  <2>3. ~IsOpen /\ IsOpen' /\ task.do \notin {"unarchive", "activate", "signin"}
            => OwnerKnown'
    BY <2>1, SavedOpens
  <2>. QED  BY <1>6, <2>2, <2>3 DEF Overlapped, task
<1>7. ASSUME NEW w \in WebHandler, NEW u \in User, NEW e \in Email,
             CreateOrganization(w, u, e)
      PROVE  Same
  <2>1. /\ org = NoRow /\ contact' = e /\ users'[u] = Fresh(e, TRUE)
    BY <1>7, CreationKeeps
  <2>2. /\ users'[u] \in UserRow /\ users'[u].email = e /\ users'[u].owner
        /\ users'[u].state = "invited"
    BY <2>1, FreshRow
  <2>3. OwnerKnown'
    BY <2>1, <2>2, NewOwnerKnown
  <2>. QED  BY <2>3
<1>. QED
  BY <1>1, <1>2, <1>3, <1>4, <1>5, <1>6, <1>7 DEF AccountNext

-----------------------------------------------------------------------------
(* What an archival closes *)

\* A row that was closed is closed, and the others are as they were.
LEMMA OneRowClosed ==
  ASSUME AccountInv, AllClosed, NEW v, NEW row, OneRow(v, row),
         row.state \in {"archived", "disabled"}, tokens' \subseteq tokens
  PROVE  AllClosed'
<1>1. \A u \in User : Exists(u)' => users'[u].state \notin {"invited", "active"}
  <2>1. ASSUME NEW u \in User, Exists(u)'
        PROVE  users'[u].state \notin {"invited", "active"}
    <3>1. CASE u = v
      BY <3>1 DEF OneRow
    <3>2. CASE u # v
      BY <2>1, <3>2 DEF OneRow, AllClosed, Having, Exists
    <3>. QED  BY <3>1, <3>2
  <2>. QED  BY <2>1
<1>2. tokens' = {}
  BY DEF AllClosed
<1>. QED  BY <1>1, <1>2 DEF AllClosed, Having

\* Closed rows have one of the two other states.
LEMMA ClosedStates ==
  ASSUME AccountInv, AllClosed, NEW u \in User, Exists(u)
  PROVE  users[u].state \in {"archived", "disabled"}
  BY Types DEF AllClosed, Having, UserRow

\* Only what an archival does closes an organization.
LEMMA SavedCloses ==
  ASSUME AccountInv, org # NoRow, NEW task \in Task, Fits(task), Saved(task),
         IsOpen, ~IsOpen'
  PROVE  AllClosed'
<1>1. org' \in OrgRow /\ org'.life = "archived"
  BY SavedKeeps, Types DEF Keeps, IsOpen
<1>2. org.life # "archived" /\ org' # org
  BY <1>1 DEF IsOpen
<1>3. CASE OrganizationArchived(task)
  BY <1>3, Archived DEF OrganizationArchived, AllClosed, Having
<1>4. CASE OrganizationUnarchived(task)
  BY <1>1, <1>4, Unarchived DEF OrganizationUnarchived
<1>5. CASE Activated(task)
  BY <1>1, <1>2, <1>5, Activates DEF Activated
<1>. QED
  BY <1>2, <1>3, <1>4, <1>5
  DEF Saved, AdministratorReplaced, UserAdded, UserUpdated, UserDeleted,
      UserRestored, ResetIssued, PasswordReset

\* What may leave an archived organization's account, or a token, in it.
LEMMA SavedClosed ==
  ASSUME AccountInv, org # NoRow, NEW task \in Task, Fits(task), Saved(task),
         ~IsOpen, ~IsOpen', AllClosed,
         task.do \notin {"add", "restore", "replace", "activate", "signin", "issue"}
  PROVE  AllClosed'
<1>1. org' \in OrgRow /\ org'.life = "archived"
  BY SavedKeeps, Types DEF Keeps, IsOpen
<1>2. CASE OrganizationArchived(task)
  BY <1>2, Archived DEF OrganizationArchived, AllClosed, Having
<1>3. CASE OrganizationUnarchived(task)
  BY <1>1, <1>3, Unarchived DEF OrganizationUnarchived
<1>4. CASE UserUpdated(task)
  <2>1. task \in UpdateTask /\ task.do = "update" /\ task.user \in User
    BY <1>4 DEF UserUpdated, UpdateTask
  <2>2. PICK row \in UserRow :
            OneRow(task.user, row) /\ row.state = users[task.user].state
    BY <1>4, <2>1, Updated
  <2>3. row.state \in {"archived", "disabled"}
    BY <2>1, <2>2, ClosedStates DEF Fits
  <2>. QED  BY <1>4, <2>2, <2>3, OneRowClosed DEF UserUpdated
<1>5. CASE UserDeleted(task)
  <2>1. task \in UserTask /\ task.do = "delete" /\ task.user \in User
    BY <1>5 DEF UserDeleted, UserTask
  <2>2. PICK row \in UserRow :
            /\ OneRow(task.user, row)
            /\ row.state \in {"disabled", users[task.user].state}
    BY <1>5, <2>1, Removed
  <2>3. row.state \in {"archived", "disabled"}
    BY <2>1, <2>2, ClosedStates DEF Fits
  <2>4. tokens' \subseteq tokens
    BY <1>5 DEF UserDeleted
  <2>. QED  BY <2>2, <2>3, <2>4, OneRowClosed
<1>6. CASE PasswordReset(task)
  <2>1. task \in UserTask /\ task.do = "reset" /\ task.user \in User
    BY <1>6 DEF PasswordReset, UserTask
  <2>2. PICK row \in UserRow :
            OneRow(task.user, row) /\ row.state = users[task.user].state
    BY <1>6, <2>1, Reset
  <2>3. row.state \in {"archived", "disabled"}
    BY <2>1, <2>2, ClosedStates DEF Fits
  <2>4. tokens' \subseteq tokens
    BY <1>6, <2>1, Reset
  <2>. QED  BY <2>2, <2>3, <2>4, OneRowClosed
<1>7. CASE AdministratorReplaced(task)
  BY <1>7 DEF AdministratorReplaced, ReplaceTask
<1>8. CASE UserAdded(task)
  BY <1>8 DEF UserAdded, AddTask
<1>9. CASE UserRestored(task)
  BY <1>9 DEF UserRestored
<1>10. CASE Activated(task)
  BY <1>10 DEF Activated, ActivateTask
<1>11. CASE ResetIssued(task)
  BY <1>11 DEF ResetIssued
<1>. QED
  BY <1>2, <1>3, <1>4, <1>5, <1>6, <1>7, <1>8, <1>9, <1>10, <1>11 DEF Saved

LEMMA ClosedStep ==
  ASSUME AccountInv, [AccountNext]_accountVars
  PROVE  /\ IsOpen /\ ~IsOpen' => AllClosed'
         /\ org # NoRow /\ ~IsOpen /\ ~IsOpen' /\ AllClosed =>
                \/ AllClosed'
                \/ Overlapped({"add", "restore", "replace", "activate", "signin",
                               "issue"})
<1> DEFINE Same ==
        /\ IsOpen /\ ~IsOpen' => AllClosed'
        /\ org # NoRow /\ ~IsOpen /\ ~IsOpen' /\ AllClosed =>
            \/ AllClosed'
            \/ Overlapped({"add", "restore", "replace", "activate", "signin",
                           "issue"})
<1>1. CASE UNCHANGED accountVars
  BY <1>1 DEF accountVars, AllClosed, Having, Exists, IsOpen
<1>2. CASE Undisturbed
  <2>1. PICK task \in Task :
            Fits(task) /\ Saved(task) /\ org # NoRow /\ JustRead(task)
    BY <1>2, UndisturbedTask
  <2>2. ~IsOpen /\ AllClosed => task.do
            \notin {"add", "restore", "replace", "activate", "signin", "issue"}
    BY <2>1 DEF AllClosed, Having, JustRead
  <2>. QED  BY <2>1, <2>2, SavedCloses, SavedClosed
<1>3. ASSUME NEW u \in User, ResetExpires(u) PROVE Same
  BY <1>3 DEF ResetExpires, AllClosed, Having, Exists, IsOpen
<1>4. ASSUME NEW w \in WebHandler,
             OpenMembers(w) \/ Visit(w) \/ SendInvitation(w) \/ MarkSent(w) \/ Fail(w)
      PROVE  Same
  BY <1>4, OthersKeep, Types DEF AllClosed, Having, Exists, IsOpen
<1>5. ASSUME NEW w \in WebHandler, Select(w) PROVE Same
  BY <1>5 DEF Select, AllClosed, Having, Exists, IsOpen
<1>6. ASSUME NEW w \in WebHandler, Commit(w) PROVE Same
  <2> DEFINE task == tasks[w]
  <2>1. org # NoRow /\ task \in Task /\ Fits(task) /\ Saved(task)
    BY <1>6, CommitKeeps
  <2>. HIDE DEF task
  <2>2. IsOpen /\ ~IsOpen' => AllClosed'
    BY <2>1, SavedCloses
  <2>3. ~IsOpen /\ ~IsOpen' /\ AllClosed /\ task.do \notin
            {"add", "restore", "replace", "activate", "signin", "issue"} => AllClosed'
    BY <2>1, SavedClosed
  <2>. QED  BY <1>6, <2>2, <2>3 DEF Overlapped, task
<1>7. ASSUME NEW w \in WebHandler, NEW u \in User, NEW e \in Email,
             CreateOrganization(w, u, e)
      PROVE  Same
  BY <1>7, CreationKeeps DEF IsOpen
<1>. QED
  BY <1>1, <1>2, <1>3, <1>4, <1>5, <1>6, <1>7 DEF AccountNext

-----------------------------------------------------------------------------
(* Passwords *)

LEMMA OneRowWithout ==
  ASSUME AccountInv, NoOldPasswords, NEW v, NEW row, OneRow(v, row),
         row.state = "invited" => ~row.password
  PROVE  NoOldPasswords'
<1>1. ASSUME NEW u \in User, Exists(u)', users'[u].state = "invited"
      PROVE  ~users'[u].password
  <2>1. CASE u = v
    BY <1>1, <2>1 DEF OneRow
  <2>2. CASE u # v
    BY <1>1, <2>2 DEF OneRow, NoOldPasswords, Having, Exists
  <2>. QED  BY <2>1, <2>2
<1>. QED  BY <1>1 DEF NoOldPasswords, Having

LEMMA ReplacedWithout ==
  ASSUME AccountInv, org # NoRow, NEW task \in ReplaceTask, Fits(task),
         AdministratorReplaced(task), JustRead(task), NoOldPasswords
  PROVE  NoOldPasswords'
<1>1. PICK u \in User :
        /\ task.user # NoRow /\ task.user # task.old /\ task.saw = users[u] =>
            users'[u].password = FALSE
        /\ task.user = NoRow => users'[u] = Fresh(task.email, TRUE)
        /\ task.user # NoRow => u = task.user
        /\ \A v \in User \ {u} :
            \/ users'[v] = users[v]
            \/ v = task.old /\ (task.oldSaw = users[v] =>
                                    users'[v].state = "archived")
  BY Replaced
<1>2. /\ task.old = Account(contact) /\ task.oldSaw = RowOf(task.old)
      /\ task.user = Account(task.email) /\ task.saw = RowOf(task.user)
      /\ task.email # contact /\ task.email \in Email /\ NoRow \notin User
  BY Types DEF JustRead, ReplaceTask
<1>3. ~users'[u].password
  <2>1. CASE task.user = NoRow
    BY <1>1, <1>2, <2>1, FreshRow
  <2>2. CASE task.user # NoRow
    <3>1. users[task.user].email = task.email /\ task.saw = users[task.user]
      BY <1>2, <2>2, AccountOf
    <3>2. task.user # task.old
      BY <1>2, <2>2, <3>1, AccountOf
    <3>. QED  BY <1>1, <2>2, <3>1, <3>2
  <2>. QED  BY <2>1, <2>2
<1>4. ASSUME NEW v \in User, v # u
      PROVE  users'[v] = users[v] \/ users'[v].state = "archived"
  BY <1>1, <1>2, <1>4, AccountOf
<1>. QED  BY <1>3, <1>4 DEF NoOldPasswords, Having, Exists

LEMMA SavedWithout ==
  ASSUME AccountInv, org # NoRow, NEW task \in Task, Fits(task), Saved(task),
         \/ JustRead(task)
         \/ task.do \notin {"reset", "restore", "replace", "unarchive"},
         NoOldPasswords
  PROVE  NoOldPasswords'
<1>1. CASE AdministratorReplaced(task)
  <2>1. task \in ReplaceTask /\ task.do = "replace"
    BY <1>1 DEF AdministratorReplaced, ReplaceTask
  <2>. QED  BY <1>1, <2>1, ReplacedWithout
<1>2. CASE OrganizationArchived(task)
  BY <1>2, Archived DEF OrganizationArchived, NoOldPasswords, Having
<1>3. CASE OrganizationUnarchived(task)
  <2>1. task \in UnarchiveTask /\ task.do = "unarchive"
    BY <1>3 DEF OrganizationUnarchived, UnarchiveTask
  <2>2. PICK u \in User, row \in UserRow :
            OneRow(u, row) /\ PromotedAs(task, users, u, row)
    BY <1>3, <2>1, Unarchived
  <2>3. ~row.password
    <3>1. CASE task.user = NoRow
      <4>1. row = Fresh(contact, TRUE) /\ contact \in Email
        BY <2>1, <2>2, <3>1, Types DEF PromotedAs, JustRead
      <4>. QED  BY <4>1, FreshRow
    <3>2. CASE task.user # NoRow
      <4>1. task.saw = users[task.user]
        BY <2>1, <3>2, AccountOf DEF JustRead
      <4>. QED  BY <2>2, <3>2, <4>1 DEF PromotedAs
    <3>. QED  BY <3>1, <3>2
  <2>. QED  BY <2>2, <2>3, OneRowWithout
<1>4. CASE UserAdded(task)
  <2>1. task \in AddTask /\ task.email \in Email /\ task.owner \in BOOLEAN
    BY <1>4 DEF UserAdded, AddTask
  <2>2. PICK u \in User : OneRow(u, Fresh(task.email, task.owner))
    BY <1>4, <2>1, Added
  <2>. QED  BY <2>1, <2>2, FreshRow, OneRowWithout
<1>5. CASE UserUpdated(task)
  <2>1. task \in UpdateTask /\ task.user \in User /\ task.do = "update"
    BY <1>5 DEF UserUpdated, UpdateTask
  <2>2. PICK row \in UserRow :
            /\ OneRow(task.user, row) /\ row.state = users[task.user].state
            /\ row.password = users[task.user].password
    BY <1>5, <2>1, Updated
  <2>3. row.state = "invited" => ~row.password
    BY <2>1, <2>2 DEF Fits, NoOldPasswords, Having
  <2>. QED  BY <2>2, <2>3, OneRowWithout
<1>6. CASE UserDeleted(task)
  <2>1. task \in UserTask /\ task.user \in User /\ task.do = "delete"
    BY <1>6 DEF UserDeleted, UserTask
  <2>2. PICK row \in UserRow :
            /\ OneRow(task.user, row)
            /\ row.state \in {"disabled", users[task.user].state}
            /\ row.password \in {FALSE, users[task.user].password}
    BY <1>6, <2>1, Removed
  <2>3. row.state = "invited" => ~row.password
    BY <2>1, <2>2 DEF Fits, NoOldPasswords, Having
  <2>. QED  BY <2>2, <2>3, OneRowWithout
<1>7. CASE UserRestored(task)
  <2>1. task \in UserTask /\ task.do = "restore"
    BY <1>7 DEF UserRestored
  <2>2. task.saw = users[task.user]
    BY <2>1 DEF JustRead
  <2>3. PICK row \in UserRow : OneRow(task.user, row) /\ row.password = FALSE
    BY <1>7, <2>1, <2>2, Restored
  <2>. QED  BY <2>3, OneRowWithout
<1>8. CASE Activated(task)
  <2>1. PICK row \in UserRow : OneRow(task.user, row) /\ row.state = "active"
    BY <1>8, Activates DEF Activated
  <2>. QED  BY <2>1, OneRowWithout
<1>9. CASE ResetIssued(task)
  BY <1>9 DEF ResetIssued, NoOldPasswords, Having, Exists
<1>10. CASE PasswordReset(task)
  <2>1. task \in UserTask /\ task.do = "reset"
    BY <1>10 DEF PasswordReset
  <2>2. users[task.user].state = "active"
    BY <2>1 DEF JustRead, Having
  <2>3. PICK row \in UserRow :
            OneRow(task.user, row) /\ row.state = users[task.user].state
    BY <1>10, <2>1, Reset
  <2>. QED  BY <2>2, <2>3, OneRowWithout
<1>. QED
  BY <1>1, <1>2, <1>3, <1>4, <1>5, <1>6, <1>7, <1>8, <1>9, <1>10 DEF Saved

LEMMA PasswordStep ==
  ASSUME AccountInv, [AccountNext]_accountVars, NoOldPasswords
  PROVE  \/ NoOldPasswords'
         \/ Overlapped({"reset", "restore", "replace", "unarchive"})
<1> DEFINE Same == \/ NoOldPasswords'
                   \/ Overlapped({"reset", "restore", "replace", "unarchive"})
<1>1. CASE UNCHANGED users
  BY <1>1 DEF NoOldPasswords, Having, Exists
<1>2. CASE Undisturbed
  BY <1>2, UndisturbedTask, SavedWithout
<1>3. ASSUME NEW w \in WebHandler, Commit(w) PROVE Same
  <2> DEFINE task == tasks[w]
  <2>1. org # NoRow /\ task \in Task /\ Fits(task) /\ Saved(task)
    BY <1>3, CommitKeeps
  <2>. HIDE DEF task
  <2>2. task.do \notin {"reset", "restore", "replace", "unarchive"} =>
            NoOldPasswords'
    BY <2>1, SavedWithout
  <2>. QED  BY <1>3, <2>2 DEF Overlapped, task
<1>4. ASSUME NEW w \in WebHandler, NEW u \in User, NEW e \in Email,
             CreateOrganization(w, u, e)
      PROVE  Same
  <2>1. users'[u] = Fresh(e, TRUE) /\ \A v \in User \ {u} : users'[v] = NoRow
    BY <1>4, CreationKeeps
  <2>2. ~users'[u].password
    BY <2>1, FreshRow
  <2>. QED  BY <2>1, <2>2 DEF NoOldPasswords, Having, Exists
<1>. QED
  BY <1>1, <1>2, <1>3, <1>4
  DEF AccountNext, accountVars, ResetExpires, OpenMembers, Visit, SendInvitation,
      MarkSent, Fail, Select

-----------------------------------------------------------------------------
(* The theorems *)

\* The types.  Handlers that overlap write columns of rows that have changed
\* since they were read, and what comes out are still accounts and an
\* organization the program knows.
THEOREM AccountTypeCorrect == AccountSpec => []AccountTypeOK
<1>1. AccountInv => AccountTypeOK
  BY DEF AccountInv
<1>. QED  BY <1>1, AccountAlways, PTL

\* The administrator: an open organization keeps one and is opened with one,
\* whatever roles the members' pages give; the methods that other handlers may
\* take it away from, because they lock no row, are named in the property.
THEOREM OwnerKept == AccountSpec => OwnerStaysKnown
<1>1. ASSUME AccountInv, [AccountNext]_accountVars
      PROVE  [/\ IsOpen /\ IsOpen' /\ OwnerKnown =>
                    OwnerKnown' \/ Overlapped({"replace", "update", "delete"})
              /\ ~IsOpen /\ IsOpen' /\ AllClosed =>
                    OwnerKnown' \/ Overlapped({"unarchive", "activate", "signin"})
             ]_accountVars
  BY <1>1, OwnerStep
<1>. QED  BY <1>1, AccountAlways, PTL DEF AccountSpec, OwnerStaysKnown

\* An archival: archive_organization closes every account and consumes every
\* token, and what can leave one afterwards are the named methods of handlers
\* that overlapped it.
THEOREM ClosedWhileArchived == AccountSpec => ArchivedIsClosed
<1>1. ASSUME AccountInv, [AccountNext]_accountVars
      PROVE  [/\ IsOpen /\ ~IsOpen' => AllClosed'
              /\ org # NoRow /\ ~IsOpen /\ ~IsOpen' /\ AllClosed =>
                    \/ AllClosed'
                    \/ Overlapped({"add", "restore", "replace", "activate", "signin",
                                   "issue"})]_accountVars
  BY <1>1, ClosedStep
<1>. QED  BY <1>1, AccountAlways, PTL DEF AccountSpec, ArchivedIsClosed

\* Passwords: an invitation, whether the first or one after a deletion, a
\* replacement or an archival, leaves none that worked before.
THEOREM NoPasswordReturns == AccountSpec => NoOldPassword
<1>1. ASSUME AccountInv, [AccountNext]_accountVars
      PROVE  [NoOldPasswords =>
                NoOldPasswords'
                \/ Overlapped({"reset", "restore", "replace", "unarchive"})
             ]_accountVars
  BY <1>1, PasswordStep
<1>. QED  BY <1>1, AccountAlways, PTL DEF AccountSpec, NoOldPassword

=============================================================================
