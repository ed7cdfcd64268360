---------------------------- MODULE Memberships ----------------------------
(***************************************************************************)
(* The members of one organization and the audit log:                      *)
(* domain/organizations/organization_service.py behind                     *)
(* api/routes/organization_routes.py, membership_repository.py, and        *)
(* domain/audit/audit_service.py.                                          *)
(*                                                                         *)
(* A mutating request reads twice before it writes: is_admin of the actor, *)
(* then the subject's row.  Other requests commit in between.  The write,  *)
(* the audit entry and the COMMIT are one step: two writers of one row     *)
(* are ordered by its lock, which is held until COMMIT, and each           *)
(* transaction writes one membership row.                                  *)
(***************************************************************************)
EXTENDS Naturals, Sequences

CONSTANTS
    Users,
    Founder,      \* the user who creates the organization
    Requests,     \* mutating requests that may be in flight together
    MaxAudit,     \* bound on the entries of the audit log
    NoUser        \* no actor, no owner or no subject

ASSUME MembershipAssumption ==
    /\ Founder \in Users
    /\ NoUser \notin Users
    /\ MaxAudit \in Nat

VARIABLES
    role,     \* committed role of each user's membership row, or "none"
    rowId,    \* which row that is: a user removed and added has a new one
    request,  \* what each request in flight has read
    audit     \* audit_log_entry, in order of occurred_at

memberVars == <<role, rowId>>
vars == <<role, rowId, request, audit>>

Roles == {"ADMIN", "MEMBER"}
Operations == {"add", "change", "remove"}
Idle == [step |-> "idle"]

\* owner is metadata_json["ownerUserId"], which only scan events carry.
Entry(action, actor, subject, r, owner) ==
    [action |-> action, actor |-> actor, subject |-> subject, role |-> r,
     owner |-> owner]

HasRoom == Len(audit) < MaxAudit
record(entry) == audit' = Append(audit, entry)

\* create_organization and its audit entry.
Init ==
    /\ role = [u \in Users |-> IF u = Founder THEN "ADMIN" ELSE "none"]
    /\ rowId = [u \in Users |-> IF u = Founder THEN 1 ELSE 0]
    /\ request = [r \in Requests |-> Idle]
    /\ audit = <<Entry("ORGANIZATION_CREATED", Founder, Founder, "ADMIN",
                       NoUser)>>

is_member(u) == role[u] # "none"
is_admin(u) == role[u] = "ADMIN"

\* Mutant: any member passes for an administrator.
CheckMember(r, actor, op, subject, new) ==
    /\ request[r].step = "idle"
    /\ is_member(actor)
    /\ request' = [request EXCEPT
            ![r] = [step |-> "checked", actor |-> actor, op |-> op,
                    subject |-> subject, role |-> new,
                    row |-> rowId[actor], was |-> role[actor]]]
    /\ UNCHANGED <<memberVars, audit>>

\* _is_admin, for the three mutating endpoints.  It loads the actor's row
\* into the session; anyone else is answered 403 and nothing changes.
CheckAdmin(r, actor, op, subject, new) ==
    /\ request[r].step = "idle"
    /\ is_admin(actor)
    /\ request' = [request EXCEPT
            ![r] = [step |-> "checked", actor |-> actor, op |-> op,
                    subject |-> subject, role |-> new,
                    row |-> rowId[actor], was |-> role[actor]]]
    /\ UNCHANGED <<memberVars, audit>>

\* What get_membership(subject) returns: the committed row, but with the
\* attributes already in the session when the actor's own row is reread.
Loaded(q) ==
    IF q.subject = q.actor /\ rowId[q.subject] = q.row THEN q.was
    ELSE role[q.subject]

\* get_membership of the subject; change_role and remove_member answer 404
\* when there is none.
LoadSubject(r) ==
    LET q == request[r] IN
    /\ q.step = "checked"
    /\ request' = [request EXCEPT
            ![r] = IF q.op # "add" /\ ~is_member(q.subject) THEN Idle
                   ELSE [step |-> "loaded", actor |-> q.actor, op |-> q.op,
                         subject |-> q.subject, role |-> q.role,
                         row |-> rowId[q.subject], was |-> Loaded(q)]]
    /\ UNCHANGED <<memberVars, audit>>

\* add_member of a present member returns it, and MEMBER_ADDED is recorded
\* with the role it has; else the INSERT meets uq_organization_membership.
AddMember(q) ==
    LET r == IF q.was = "none" THEN q.role ELSE q.was
    IN  /\ q.op = "add"
        /\ IF q.was = "none"
           THEN /\ ~is_member(q.subject)
                /\ role' = [role EXCEPT ![q.subject] = q.role]
                /\ rowId' = [rowId EXCEPT ![q.subject] = Len(audit) + 1]
           ELSE UNCHANGED memberVars
        /\ record(Entry("MEMBER_ADDED", q.actor, q.subject, r, NoUser))

\* Mutant: the entry carries the role before the change.
ChangeRoleRecordsOld(q) ==
    /\ q.op = "change"
    /\ IF q.role = q.was THEN UNCHANGED memberVars
       ELSE /\ rowId[q.subject] = q.row
            /\ role' = [role EXCEPT ![q.subject] = q.role]
            /\ UNCHANGED rowId
    /\ record(Entry("MEMBER_ROLE_CHANGED", q.actor, q.subject, q.was, NoUser))

\* The ORM issues an UPDATE only if the role differs from the one loaded; an
\* UPDATE of a row that is gone raises StaleDataError.
ChangeRole(q) ==
    /\ q.op = "change"
    /\ IF q.role = q.was THEN UNCHANGED memberVars
       ELSE /\ rowId[q.subject] = q.row
            /\ role' = [role EXCEPT ![q.subject] = q.role]
            /\ UNCHANGED rowId
    /\ record(Entry("MEMBER_ROLE_CHANGED", q.actor, q.subject, q.role, NoUser))

\* Mutant: the role is blanked and the row stays.
RemoveMemberKeepsRow(q) ==
    /\ q.op = "remove"
    /\ IF rowId[q.subject] = q.row
       THEN role' = [role EXCEPT ![q.subject] = "none"] /\ UNCHANGED rowId
       ELSE UNCHANGED memberVars
    /\ record(Entry("MEMBER_REMOVED", q.actor, q.subject, "none", NoUser))

\* A DELETE of a row that is gone only warns.
RemoveMember(q) ==
    /\ q.op = "remove"
    /\ IF rowId[q.subject] = q.row
       THEN /\ role' = [role EXCEPT ![q.subject] = "none"]
            /\ rowId' = [rowId EXCEPT ![q.subject] = 0]
       ELSE UNCHANGED memberVars
    /\ record(Entry("MEMBER_REMOVED", q.actor, q.subject, "none", NoUser))

CommitMembership(r) ==
    /\ request[r].step = "loaded"
    /\ HasRoom
    /\ \/ AddMember(request[r])
       \/ ChangeRole(request[r])
       \/ RemoveMember(request[r])
    /\ request' = [request EXCEPT ![r] = Idle]

\* The INSERT or UPDATE fails, or the COMMIT does: all of it is rolled back.
RollbackMembership(r) ==
    /\ request[r].step # "idle"
    /\ request' = [request EXCEPT ![r] = Idle]
    /\ UNCHANGED <<memberVars, audit>>

(***************************************************************************)
(* The audit log.                                                          *)
(***************************************************************************)

\* A worker records a scan event: no actor, the initiator as ownerUserId.
RecordScanEvent(owner) ==
    /\ HasRoom
    /\ record(Entry("SCAN_STATE_TRANSITION", NoUser, NoUser, "none", owner))
    /\ UNCHANGED <<memberVars, request>>

visible_to(entry, u) == entry.actor = u \/ entry.owner = u

Access(u) == Entry("AUDIT_LOG_ACCESSED", u, NoUser, "none", NoUser)

\* Every query leaves an entry of its own.  Its answer, the visible ones of
\* the newest entries, changes nothing.
query_entries(u) ==
    /\ HasRoom
    /\ record(Access(u))
    /\ UNCHANGED <<memberVars, request>>

\* An entry that is absent or not visible is answered 404, without a record.
get_entry(u, i) ==
    /\ HasRoom
    /\ i \in DOMAIN audit
    /\ visible_to(audit[i], u)
    /\ record(Access(u))
    /\ UNCHANGED <<memberVars, request>>

-----------------------------------------------------------------------------
Next ==
    \/ \E r \in Requests, actor, subject \in Users, op \in Operations,
          new \in Roles : CheckAdmin(r, actor, op, subject, new)
    \/ \E r \in Requests : \/ LoadSubject(r)
                           \/ CommitMembership(r)
                           \/ RollbackMembership(r)
    \/ \E u \in Users : RecordScanEvent(u)
    \/ \E u \in Users : query_entries(u)
    \/ \E u \in Users, i \in 1..MaxAudit : get_entry(u, i)

Spec == Init /\ [][Next]_vars

-----------------------------------------------------------------------------
RequestType ==
    [step : {"idle"}] \cup
    [step : {"checked", "loaded"}, actor : Users, op : Operations,
     subject : Users, role : Roles, row : Nat, was : Roles \cup {"none"}]

EntryType ==
    [action : {"ORGANIZATION_CREATED", "MEMBER_ADDED", "MEMBER_ROLE_CHANGED",
               "MEMBER_REMOVED", "SCAN_STATE_TRANSITION", "AUDIT_LOG_ACCESSED"},
     actor : Users \cup {NoUser}, subject : Users \cup {NoUser},
     role : Roles \cup {"none"}, owner : Users \cup {NoUser}]

\* Every variable holds a value of its kind; a user has a role if and only
\* if there is a row to hold it.
TypeOK ==
    /\ role \in [Users -> Roles \cup {"none"}]
    /\ rowId \in [Users -> Nat]
    /\ \A u \in Users : rowId[u] = 0 <=> role[u] = "none"
    /\ request \in [Requests -> RequestType]
    /\ audit \in Seq(EntryType)

\* Entry i gives u the ADMIN role.
Grants(i, u) ==
    /\ i \in DOMAIN audit
    /\ audit[i].subject = u
    /\ audit[i].role = "ADMIN"

\* The audit log alone justifies every administrator: whatever requests
\* raced, an ADMIN was given that role by an entry of the log, and the actor
\* of every membership entry had been given it by an earlier one
\* (organization_service.py checks, organization_routes.py records).
AdminsAreAudited ==
    /\ \A u \in Users : is_admin(u) => \E i \in DOMAIN audit : Grants(i, u)
    /\ \A i \in DOMAIN audit :
          i > 1 /\ audit[i].subject # NoUser =>
              \E j \in 1..(i - 1) : Grants(j, audit[i].actor)

\* No administrator is left and no request already checked is under way.
Orphaned ==
    /\ \A u \in Users : ~is_admin(u)
    /\ \A r \in Requests : request[r].step = "idle"

\* An organization whose last administrator is gone (nothing in change_role
\* or remove_member prevents it) stays so for good: nobody can add, change or
\* remove a member again, nor become an administrator.
OrphanedIsFrozen ==
    [][Orphaned => Orphaned' /\ UNCHANGED memberVars]_vars

=============================================================================
