------------------------- MODULE MembershipsProofs -------------------------
(***************************************************************************)
(* Proofs, for any users and any number of concurrent requests, that the   *)
(* audit log justifies every administrator, and that an organization       *)
(* without one stays as it is.                                             *)
(***************************************************************************)
EXTENDS Memberships, TLAPS

\* Some entry of the log gave u the ADMIN role.
Granted(u) == \E i \in DOMAIN audit : Grants(i, u)

\* The actor of a request under way was an administrator when it was
\* checked, so the log already justifies its entry.
ActorsAreGranted ==
    \A r \in Requests : request[r].step # "idle" => Granted(request[r].actor)

\* A role change or a removal that was not answered 404 has a row to act on.
LoadedRowsExist ==
    \A r \in Requests :
        request[r].step = "loaded" => request[r].op = "add" \/ request[r].row # 0

\* AdminsAreAudited alone is not inductive: the actor of a request may lose
\* the role between the check and the commit.
IndInv == TypeOK /\ AdminsAreAudited /\ ActorsAreGranted /\ LoadedRowsExist

\* Appending keeps the old entries, so a grant stays one, and every actor of
\* the new log is justified if the actor of the new entry is.
LEMMA AppendKeeps ==
    ASSUME NEW e \in EntryType, TypeOK, AdminsAreAudited, audit' = Append(audit, e),
           e.subject # NoUser => Granted(e.actor)
    PROVE  /\ audit' \in Seq(EntryType)
           /\ \A u : Granted(u) => Granted(u)'
           /\ e.role = "ADMIN" => Granted(e.subject)'
           /\ \A i \in DOMAIN audit' :
                 i > 1 /\ audit'[i].subject # NoUser =>
                     \E j \in 1..(i - 1) : Grants(j, audit[i].actor)'
  <1>1. /\ audit \in Seq(EntryType) /\ Len(audit) \in Nat
        /\ audit' \in Seq(EntryType)
        /\ Len(audit') = Len(audit) + 1
        /\ DOMAIN audit = 1..Len(audit) /\ DOMAIN audit' = 1..(Len(audit) + 1)
        /\ \A i \in 1..Len(audit) : audit'[i] = audit[i]
        /\ audit'[Len(audit) + 1] = e
    BY DEF TypeOK
  <1> HIDE DEF EntryType
  <1>2. ASSUME NEW i \in DOMAIN audit, NEW u, Grants(i, u)
        PROVE  i \in DOMAIN audit' /\ Grants(i, u)'
    BY <1>1, <1>2 DEF Grants
  <1>3. \A u : Granted(u) => Granted(u)'
    BY <1>2 DEF Granted
  <1>4. e.role = "ADMIN" => Granted(e.subject)'
    <2>1. PICK n \in DOMAIN audit' : audit'[n] = e
      BY <1>1
    <2>2. e.role = "ADMIN" => Grants(n, e.subject)'
      BY <2>1 DEF Grants
    <2> QED
      BY <2>1, <2>2 DEF Granted
  <1>5. ASSUME NEW i \in DOMAIN audit', i > 1, audit'[i].subject # NoUser
        PROVE  \E j \in 1..(i - 1) : Grants(j, audit[i].actor)'
    <2>1. CASE i \in DOMAIN audit
      <3>1. PICK j \in 1..(i - 1) : Grants(j, audit[i].actor)
        BY <1>1, <1>5, <2>1 DEF AdminsAreAudited
      <3> QED
        BY <1>1, <2>1, <3>1 DEF Grants
    <2>2. CASE i = Len(audit) + 1
      <3>1. PICK j \in DOMAIN audit : Grants(j, e.actor)
        BY <1>1, <1>5, <2>2 DEF Granted
      <3> QED
        BY <1>1, <2>2, <3>1 DEF Grants
    <2> QED
      BY <1>1, <1>5, <2>1, <2>2
  <1> QED
    BY <1>1, <1>3, <1>4, <1>5

\* A request that only reads, or is rolled back, changes neither the members
\* nor the log.
LEMMA ReadSteps ==
    ASSUME IndInv, NEW r \in Requests,
           \/ \E actor, subject \in Users, op \in Operations, new \in Roles :
                 CheckAdmin(r, actor, op, subject, new)
           \/ LoadSubject(r)
           \/ RollbackMembership(r)
    PROVE  IndInv'
  <1>1. UNCHANGED <<memberVars, audit>>
    BY DEF CheckAdmin, LoadSubject, RollbackMembership
  <1>2. TypeOK' /\ ActorsAreGranted' /\ LoadedRowsExist'
    <2>1. CASE \E actor, subject \in Users, op \in Operations, new \in Roles :
                  CheckAdmin(r, actor, op, subject, new)
      <3>1. PICK actor \in Users, subject \in Users, op \in Operations, new \in Roles :
                CheckAdmin(r, actor, op, subject, new)
        BY <2>1
      <3>2. request' \in [Requests -> RequestType]
        BY <3>1 DEF CheckAdmin, IndInv, TypeOK, RequestType
      <3>3. Granted(actor)
        BY <3>1 DEF IndInv, AdminsAreAudited, CheckAdmin, Granted
      <3>4. ActorsAreGranted'
        BY <1>1, <3>1, <3>3
           DEF CheckAdmin, IndInv, TypeOK, ActorsAreGranted, Granted, Grants
      <3>5. LoadedRowsExist'
        BY <3>1 DEF CheckAdmin, IndInv, TypeOK, LoadedRowsExist
      <3> QED
        BY <1>1, <3>2, <3>4, <3>5 DEF IndInv, TypeOK, memberVars
    <2>2. CASE LoadSubject(r)
      <3>1. request' \in [Requests -> RequestType]
        BY <2>2 DEF LoadSubject, Loaded, Idle, IndInv, TypeOK, RequestType
      <3>2. ActorsAreGranted'
        BY <1>1, <2>2
           DEF LoadSubject, Idle, IndInv, TypeOK, RequestType, ActorsAreGranted, Granted, Grants
      <3>3. LoadedRowsExist'
        BY <2>2 DEF LoadSubject, Idle, IndInv, TypeOK, RequestType, LoadedRowsExist, is_member
      <3> QED
        BY <1>1, <3>1, <3>2, <3>3 DEF IndInv, TypeOK, memberVars
    <2>3. CASE RollbackMembership(r)
      BY <1>1, <2>3
         DEF RollbackMembership, Idle, IndInv, TypeOK, RequestType, ActorsAreGranted, Granted,
             Grants, memberVars, LoadedRowsExist
    <2> QED
      BY <2>1, <2>2, <2>3
  <1>3. AdminsAreAudited'
    BY <1>1 DEF IndInv, AdminsAreAudited, Grants, is_admin, memberVars
  <1> QED
    BY <1>2, <1>3 DEF IndInv

\* The write, its entry and the COMMIT.
LEMMA CommitStep ==
    ASSUME IndInv, NEW r \in Requests, CommitMembership(r)
    PROVE  IndInv'
  <1> DEFINE q == request[r]
  <1>1. /\ q \in [step : {"checked", "loaded"}, actor : Users, op : Operations,
                  subject : Users, role : Roles, row : Nat, was : Roles \cup {"none"}]
        /\ Granted(q.actor)
        /\ request' = [request EXCEPT ![r] = Idle]
        /\ q.step = "loaded"
    BY DEF CommitMembership, IndInv, TypeOK, RequestType, ActorsAreGranted
  <1> DEFINE Written(e) ==
          /\ e \in EntryType /\ audit' = Append(audit, e)
          /\ e.actor = q.actor
          /\ role' \in [Users -> Roles \cup {"none"}]
          /\ rowId' \in [Users -> Nat]
          /\ \A u \in Users : rowId'[u] = 0 <=> role'[u] = "none"
          /\ \A u \in Users : role'[u] = "ADMIN" =>
                is_admin(u) \/ (u = e.subject /\ e.role = "ADMIN")
  <1>2. \E e : Written(e)
    <2>1. CASE AddMember(q)
      <3> DEFINE e == Entry("MEMBER_ADDED", q.actor, q.subject,
                            IF q.was = "none" THEN q.role ELSE q.was, NoUser)
      <3>1. e \in EntryType /\ e.actor = q.actor /\ e.subject = q.subject
        BY <1>1 DEF Entry, EntryType, Roles
      <3>2. audit' = Append(audit, e)
        BY <2>1 DEF AddMember, record
      <3>3. CASE q.was = "none"
        <4>1. Len(audit) \in Nat
          BY DEF IndInv, TypeOK
        <4>2. /\ role' = [role EXCEPT ![q.subject] = q.role]
              /\ rowId' = [rowId EXCEPT ![q.subject] = Len(audit) + 1]
          BY <2>1, <3>3 DEF AddMember
        <4>3. e.role = q.role
          BY <3>3 DEF Entry
        <4>4. /\ role' \in [Users -> Roles \cup {"none"}]
              /\ rowId' \in [Users -> Nat]
              /\ \A u \in Users : rowId'[u] = 0 <=> role'[u] = "none"
          BY <1>1, <4>1, <4>2 DEF IndInv, TypeOK, Roles
        <4>5. \A u \in Users : role'[u] = "ADMIN" =>
                  is_admin(u) \/ (u = e.subject /\ e.role = "ADMIN")
          BY <1>1, <3>1, <4>2, <4>3 DEF IndInv, TypeOK, is_admin
        <4> QED
          BY <3>1, <3>2, <4>4, <4>5
      <3>4. CASE q.was # "none"
        <4>1. UNCHANGED memberVars
          BY <2>1, <3>4 DEF AddMember
        <4> QED
          BY <3>1, <3>2, <4>1 DEF memberVars, IndInv, TypeOK, is_admin
      <3> QED
        BY <3>3, <3>4
    <2>2. CASE ChangeRole(q)
      <3> DEFINE e == Entry("MEMBER_ROLE_CHANGED", q.actor, q.subject, q.role, NoUser)
      <3>1. e \in EntryType /\ e.actor = q.actor /\ e.subject = q.subject /\ e.role = q.role
        BY <1>1 DEF Entry, EntryType, Roles
      <3>2. audit' = Append(audit, e)
        BY <2>2 DEF ChangeRole, record
      <3>3. CASE q.role = q.was
        BY <2>2, <3>1, <3>2, <3>3 DEF ChangeRole, memberVars, IndInv, TypeOK, is_admin
      <3>4. CASE q.role # q.was
        <4>1. /\ role' = [role EXCEPT ![q.subject] = q.role]
              /\ UNCHANGED rowId
              /\ rowId[q.subject] = q.row
          BY <2>2, <3>4 DEF ChangeRole
        <4>2. rowId[q.subject] # 0
          BY <1>1, <2>2, <4>1 DEF ChangeRole, IndInv, LoadedRowsExist
        <4> QED
          BY <1>1, <3>1, <3>2, <4>1, <4>2 DEF IndInv, TypeOK, is_admin, Roles
      <3> QED
        BY <3>3, <3>4
    <2>3. CASE RemoveMember(q)
      <3> DEFINE e == Entry("MEMBER_REMOVED", q.actor, q.subject, "none", NoUser)
      <3>1. e \in EntryType /\ e.actor = q.actor /\ e.subject = q.subject
        BY <1>1 DEF Entry, EntryType
      <3>2. audit' = Append(audit, e)
        BY <2>3 DEF RemoveMember, record
      <3>3. /\ role' \in [Users -> Roles \cup {"none"}]
            /\ rowId' \in [Users -> Nat]
            /\ \A u \in Users : rowId'[u] = 0 <=> role'[u] = "none"
            /\ \A u \in Users : role'[u] = "ADMIN" => is_admin(u)
        <4>1. CASE rowId[q.subject] = q.row
          <5>1. /\ role' = [role EXCEPT ![q.subject] = "none"]
                /\ rowId' = [rowId EXCEPT ![q.subject] = 0]
            BY <2>3, <4>1 DEF RemoveMember
          <5> QED
            BY <1>1, <5>1 DEF IndInv, TypeOK, is_admin
        <4>2. CASE rowId[q.subject] # q.row
          <5>1. UNCHANGED memberVars
            BY <2>3, <4>2 DEF RemoveMember
          <5> QED
            BY <5>1 DEF memberVars, IndInv, TypeOK, is_admin
        <4> QED
          BY <4>1, <4>2
      <3> QED
        BY <3>1, <3>2, <3>3
    <2> QED
      BY <2>1, <2>2, <2>3 DEF CommitMembership
  <1>3. PICK e : Written(e)
    BY <1>2
  <1>4. /\ audit' \in Seq(EntryType)
        /\ \A u : Granted(u) => Granted(u)'
        /\ e.role = "ADMIN" => Granted(e.subject)'
        /\ \A i \in DOMAIN audit' :
              i > 1 /\ audit'[i].subject # NoUser =>
                  \E j \in 1..(i - 1) : Grants(j, audit[i].actor)'
    BY <1>1, <1>3, AppendKeeps DEF IndInv
  <1>5. TypeOK'
    BY <1>1, <1>3, <1>4 DEF IndInv, TypeOK, Idle, RequestType
  <1>6. AdminsAreAudited'
    <2>1. \A u \in Users : is_admin(u)' => Granted(u)'
      BY <1>3, <1>4 DEF IndInv, AdminsAreAudited, Granted, is_admin
    <2> QED
      BY <1>4, <2>1 DEF AdminsAreAudited, Granted
  <1>7. ActorsAreGranted'
    BY <1>1, <1>4 DEF IndInv, TypeOK, ActorsAreGranted, Idle
  <1>8. LoadedRowsExist'
    BY <1>1 DEF IndInv, TypeOK, LoadedRowsExist, Idle
  <1> QED
    BY <1>5, <1>6, <1>7, <1>8 DEF IndInv

\* Scan events and the queries that the log records about itself carry no
\* subject.
LEMMA LogSteps ==
    ASSUME IndInv, NEW u \in Users,
           \/ RecordScanEvent(u)
           \/ query_entries(u)
           \/ \E i \in 1..MaxAudit : get_entry(u, i)
    PROVE  IndInv'
  <1>1. PICK e \in EntryType : audit' = Append(audit, e) /\ e.subject = NoUser
    BY DEF RecordScanEvent, query_entries, get_entry, record, Access, Entry, EntryType
  <1>2. UNCHANGED <<role, rowId, request>>
    BY DEF RecordScanEvent, query_entries, get_entry, memberVars
  <1>3. /\ audit' \in Seq(EntryType)
        /\ \A v : Granted(v) => Granted(v)'
        /\ \A i \in DOMAIN audit' :
              i > 1 /\ audit'[i].subject # NoUser =>
                  \E j \in 1..(i - 1) : Grants(j, audit[i].actor)'
    BY <1>1, AppendKeeps DEF IndInv
  <1>4. TypeOK'
    BY <1>2, <1>3 DEF IndInv, TypeOK
  <1>5. AdminsAreAudited'
    <2>1. \A v \in Users : is_admin(v)' => Granted(v)'
      BY <1>2, <1>3 DEF IndInv, AdminsAreAudited, Granted, is_admin
    <2> QED
      BY <1>3, <2>1 DEF AdminsAreAudited, Granted
  <1>6. ActorsAreGranted' /\ LoadedRowsExist'
    BY <1>2, <1>3 DEF IndInv, ActorsAreGranted, LoadedRowsExist
  <1> QED
    BY <1>4, <1>5, <1>6 DEF IndInv

\* Every step of the members and of the log keeps the invariant.
LEMMA NextStep == IndInv /\ [Next]_vars => IndInv'
  <1> SUFFICES ASSUME IndInv, [Next]_vars
               PROVE  IndInv'
    OBVIOUS
  <1>1. CASE Next
    BY <1>1, ReadSteps, CommitStep, LogSteps DEF Next
  <1>2. CASE UNCHANGED vars
    BY <1>2 DEF vars, IndInv, TypeOK, AdminsAreAudited, ActorsAreGranted, LoadedRowsExist,
                Granted, Grants, is_admin
  <1> QED
    BY <1>1, <1>2

\* The inductive invariant holds for any users, any number of requests in
\* flight and a log of any length.
THEOREM Invariance == Spec => []IndInv
  <1>1. Init => IndInv
    <2> SUFFICES ASSUME Init PROVE IndInv
      OBVIOUS
    <2>1. TypeOK
      BY MembershipAssumption DEF Init, TypeOK, Idle, RequestType, Entry, EntryType, Roles
    <2>2. AdminsAreAudited
      BY MembershipAssumption DEF Init, AdminsAreAudited, Grants, Entry, is_admin
    <2>3. ActorsAreGranted /\ LoadedRowsExist
      BY DEF Init, ActorsAreGranted, LoadedRowsExist, Idle
    <2> QED
      BY <2>1, <2>2, <2>3 DEF IndInv
  <1> QED
    BY <1>1, NextStep, PTL DEF Spec

\* A user has a role if and only if a row holds it, and the log has entries
\* of the known kinds only.
THEOREM TypeCorrect == Spec => []TypeOK
  <1>1. IndInv => TypeOK
    BY DEF IndInv
  <1> QED
    BY <1>1, Invariance, PTL

\* However role changes, removals and additions overlap, the log alone
\* justifies every administrator and every actor of a membership entry.
THEOREM AuditJustifiesAdmins == Spec => []AdminsAreAudited
  <1>1. IndInv => AdminsAreAudited
    BY DEF IndInv
  <1> QED
    BY <1>1, Invariance, PTL

\* Once the last administrator is gone and no request is under way, no step
\* gives the organization another or changes its members.
THEOREM OrphanedStaysFrozen == Spec => OrphanedIsFrozen
  <1>1. ASSUME [Next]_vars
        PROVE  [Orphaned => Orphaned' /\ UNCHANGED memberVars]_vars
    <2> SUFFICES ASSUME Next, Orphaned
                 PROVE  Orphaned' /\ UNCHANGED memberVars
      BY <1>1
    <2>1. UNCHANGED <<memberVars, request>>
      BY DEF Next, Orphaned, CheckAdmin, LoadSubject, CommitMembership, RollbackMembership,
             RecordScanEvent, query_entries, get_entry
    <2> QED
      BY <2>1 DEF Orphaned, memberVars, is_admin
  <1> QED
    BY <1>1, PTL DEF Spec, OrphanedIsFrozen
=============================================================================
