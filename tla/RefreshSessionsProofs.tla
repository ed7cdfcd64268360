----------------------- MODULE RefreshSessionsProofs -----------------------
(***************************************************************************)
(* Proofs, for any number of credentials and concurrent requests, that a   *)
(* family never has two live credentials, that nothing revoked comes back  *)
(* to life, that a credential which expired or whose account is inactive   *)
(* is never rotated, and that the rows implement LoginSessions.            *)
(***************************************************************************)
EXTENDS RefreshSessions, TLAPS

\* The clock, the administrator and the first statements of the requests.
LEMMA ReadSteps ==
    ASSUME IndInv,
           \/ Deactivate
           \/ \E t \in Tokens : Expire(t)
           \/ \E r \in Requests : authenticate(r) \/ ReadUser(r) \/ FindFamily(r)
           \/ \E r \in Requests, t \in Tokens :
                 ReadRotated(r, t) \/ ReadActive(r, t) \/ LogoutRead(r, t)
    PROVE  IndInv'
  <1> USE ConstantsAssumption DEF Goto, rows, requestVars
  <1>1. TypeOK'
    <2>1. CASE Deactivate \/ \E t \in Tokens : Expire(t)
      BY <2>1 DEF IndInv, TypeOK, Deactivate, Expire
    <2>2. CASE \E r \in Requests : authenticate(r)
      BY <2>2 DEF IndInv, TypeOK, authenticate, Steps, Creating
    <2>3. CASE \E r \in Requests : ReadUser(r)
      BY <2>3 DEF IndInv, TypeOK, ReadUser, Steps, Creating
    <2>4. CASE \E r \in Requests : FindFamily(r)
      BY <2>4 DEF IndInv, TypeOK, FindFamily, Family, Steps, Creating
    <2>5. CASE \E r \in Requests, t \in Tokens : ReadRotated(r, t) \/ LogoutRead(r, t)
      BY <2>5 DEF IndInv, TypeOK, ReadRotated, LogoutRead, Steps, Creating
    <2>6. CASE \E r \in Requests, t \in Tokens : ReadActive(r, t)
      BY <2>6 DEF IndInv, TypeOK, ReadActive, Steps, Creating
    <2> QED
      BY <2>1, <2>2, <2>3, <2>4, <2>5, <2>6
  <1>2. UNCHANGED <<rows, lock>>
    BY DEF Deactivate, Expire, authenticate, ReadUser, FindFamily, ReadRotated, ReadActive,
           LogoutRead
  <1>3. LocksAreRotations'
    BY <1>2 DEF IndInv, TypeOK, LocksAreRotations, Deactivate, Expire, authenticate, ReadUser,
                FindFamily, ReadRotated, ReadActive, LogoutRead
  <1>4. DrawnAreNew'
    BY <1>2 DEF IndInv, TypeOK, DrawnAreNew, Fresh, Family, Deactivate, Expire, authenticate, ReadUser,
                FindFamily, ReadRotated, ReadActive, LogoutRead
  <1>5. RowsHangTogether' /\ OneLiveCredential'
    BY <1>2 DEF IndInv, RowsHangTogether, OneLiveCredential
  <1> QED
    BY <1>1, <1>3, <1>4, <1>5 DEF IndInv

\* The conditional UPDATE takes the row's lock or finds nothing; a rollback
\* gives its lock back.
LEMMA LockSteps ==
    ASSUME IndInv, NEW r \in Requests, try_mark_rotated(r) \/ Rollback(r)
    PROVE  IndInv'
  <1> USE ConstantsAssumption DEF Goto, Done, rows, requestVars
  <1>1. TypeOK'
    <2>1. CASE try_mark_rotated(r)
      BY <2>1 DEF IndInv, TypeOK, try_mark_rotated, Steps, Creating
    <2>2. CASE Rollback(r)
      BY <2>2 DEF IndInv, TypeOK, Rollback, Steps, Creating
    <2> QED
      BY <2>1, <2>2
  <1>2. UNCHANGED <<rows>>
    BY DEF try_mark_rotated, Rollback
  <1>3. LocksAreRotations'
    <2>1. CASE try_mark_rotated(r)
      BY <1>2, <2>1 DEF IndInv, TypeOK, LocksAreRotations, try_mark_rotated
    <2>2. CASE Rollback(r)
      BY <1>2, <2>2 DEF IndInv, TypeOK, LocksAreRotations, Rollback
    <2> QED
      BY <2>1, <2>2
  <1>4. DrawnAreNew'
    BY <1>2 DEF IndInv, TypeOK, DrawnAreNew, try_mark_rotated, Rollback
  <1>5. RowsHangTogether' /\ OneLiveCredential'
    BY <1>2 DEF IndInv, RowsHangTogether, OneLiveCredential
  <1> QED
    BY <1>1, <1>3, <1>4, <1>5 DEF IndInv

\* A login inserts the first credential of a new family.
LEMMA LoginStep ==
    ASSUME IndInv, NEW r \in Requests, issue_family(r)
    PROVE  IndInv'
  <1>c. PICK c \in Tokens : c = child[r]
    BY DEF IndInv, TypeOK, issue_family, Creating
  <1>0. /\ TypeOK /\ pc[r] = "login" /\ status[c] = "absent" /\ child[r] = c
        /\ status' = [status EXCEPT ![c] = "ACTIVE"]
        /\ family' = [family EXCEPT ![c] = c]
        /\ pc' = [pc EXCEPT ![r] = "idle"]
        /\ presented' = [presented EXCEPT ![r] = NoToken]
        /\ child' = [child EXCEPT ![r] = NoToken]
        /\ found' = [found EXCEPT ![r] = {}]
        /\ UNCHANGED <<userActive, expired, parent, lock>>
    BY <1>c, ConstantsAssumption DEF IndInv, DrawnAreNew, issue_family, Done, Goto
  <1>1. TypeOK'
    BY <1>0 DEF TypeOK, SessionStatuses, Steps, Creating
  <1>2. LocksAreRotations'
    BY <1>0 DEF IndInv, TypeOK, LocksAreRotations
  <1>3. DrawnAreNew'
    BY <1>0, ConstantsAssumption DEF IndInv, TypeOK, DrawnAreNew
  <1>4. RowsHangTogether'
    BY <1>0 DEF IndInv, TypeOK, RowsHangTogether
  <1>5. OneLiveCredential'
    BY <1>0 DEF IndInv, TypeOK, RowsHangTogether, OneLiveCredential
  <1> QED
    BY <1>1, <1>2, <1>3, <1>4, <1>5 DEF IndInv

\* A rotation commits: the presented credential is replaced by its child.
LEMMA RotationStep ==
    ASSUME IndInv, NEW r \in Requests, CommitRotation(r)
    PROVE  IndInv'
  <1>c. PICK c \in Tokens : c = child[r]
    BY DEF IndInv, TypeOK, CommitRotation, Creating
  <1>t. PICK t \in Tokens : t = presented[r]
    BY DEF IndInv, TypeOK, CommitRotation
  <1>0. /\ TypeOK /\ pc[r] = "rotated" /\ status[c] = "absent" /\ child[r] = c
        /\ presented[r] = t /\ lock[t] = r /\ status[t] = "ACTIVE" /\ c # t
        /\ status' = [status EXCEPT ![t] = "ROTATED", ![c] = "ACTIVE"]
        /\ family' = [family EXCEPT ![c] = family[t]]
        /\ parent' = [parent EXCEPT ![c] = t]
        /\ lock' = [lock EXCEPT ![t] = NoRequest]
        /\ pc' = [pc EXCEPT ![r] = "idle"]
        /\ presented' = [presented EXCEPT ![r] = NoToken]
        /\ child' = [child EXCEPT ![r] = NoToken]
        /\ found' = [found EXCEPT ![r] = {}]
        /\ UNCHANGED <<userActive, expired>>
    BY <1>c, <1>t, ConstantsAssumption
       DEF IndInv, DrawnAreNew, LocksAreRotations, CommitRotation, Done, Goto
  <1>1. TypeOK'
    BY <1>0 DEF TypeOK, SessionStatuses, Steps, Creating
  <1>2. LocksAreRotations'
    BY <1>0, ConstantsAssumption DEF IndInv, TypeOK, LocksAreRotations
  <1>3. DrawnAreNew'
    BY <1>0, ConstantsAssumption DEF IndInv, TypeOK, DrawnAreNew
  <1>4. RowsHangTogether'
    BY <1>0, ConstantsAssumption DEF IndInv, TypeOK, RowsHangTogether
  <1>5. OneLiveCredential'
    <2>1. \A u \in Tokens : parent[u] # t
      BY <1>0, ConstantsAssumption DEF IndInv, RowsHangTogether
    <2>2. \A u, v \in Tokens :
            status'[u] = "ACTIVE" /\ status'[v] = "ACTIVE" /\ family'[u] = family'[v] => u = v
      BY <1>0 DEF IndInv, TypeOK, OneLiveCredential
    <2>3. \A u, v \in Tokens : parent'[u] # NoToken /\ parent'[u] = parent'[v] => u = v
      BY <1>0, <2>1 DEF IndInv, TypeOK, OneLiveCredential
    <2> QED
      BY <2>2, <2>3 DEF OneLiveCredential
  <1> QED
    BY <1>1, <1>2, <1>3, <1>4, <1>5 DEF IndInv

\* Revocations write REVOKED into existing, unlocked rows.
LEMMA RevocationSteps ==
    ASSUME IndInv, NEW r \in Requests, revoke_family(r) \/ revoke(r) \/ logout(r)
    PROVE  IndInv'
  <1>f. PICK gone \in SUBSET Tokens :
            /\ gone = IF pc[r] = "revokeFamily" THEN found[r] ELSE {presented[r]}
    BY DEF IndInv, TypeOK, revoke, logout, revoke_family
  <1>0. /\ TypeOK /\ pc[r] # "rotated"
        /\ \A u \in gone : lock[u] = NoRequest /\ status[u] # "absent"
        /\ status' = [u \in Tokens |-> IF u \in gone THEN "REVOKED" ELSE status[u]]
        /\ pc' = [pc EXCEPT ![r] = "idle"]
        /\ presented' = [presented EXCEPT ![r] = NoToken]
        /\ child' = [child EXCEPT ![r] = NoToken]
        /\ found' = [found EXCEPT ![r] = {}]
        /\ UNCHANGED <<userActive, expired, family, parent, lock>>
    BY <1>f DEF IndInv, TypeOK, DrawnAreNew, revoke, logout, revoke_family, RevokeRow, Done, Goto
  <1>1. TypeOK'
    BY <1>0 DEF TypeOK, SessionStatuses, Steps, Creating
  <1>2. LocksAreRotations'
    BY <1>0, ConstantsAssumption DEF IndInv, TypeOK, LocksAreRotations
  <1>3. DrawnAreNew'
    BY <1>0, ConstantsAssumption DEF IndInv, TypeOK, DrawnAreNew
  <1>4. RowsHangTogether'
    BY <1>0, ConstantsAssumption DEF IndInv, TypeOK, RowsHangTogether
  <1>5. OneLiveCredential'
    BY <1>0 DEF IndInv, TypeOK, OneLiveCredential
  <1> QED
    BY <1>1, <1>2, <1>3, <1>4, <1>5 DEF IndInv

-----------------------------------------------------------------------------
(* The invariant, and what follows from it.                                *)

\* Every step of the system preserves the invariant.
LEMMA NextStep ==
    ASSUME IndInv, [Next]_vars
    PROVE  IndInv'
  <1>1. CASE UNCHANGED vars
    BY <1>1 DEF vars, rows, requestVars, IndInv, TypeOK, LocksAreRotations, DrawnAreNew,
                RowsHangTogether, OneLiveCredential
  <1>2. CASE Next
    BY <1>2, ReadSteps, LockSteps, LoginStep, RotationStep, RevocationSteps DEF Next, Proceed
  <1> QED
    BY <1>1, <1>2

\* The inductive invariant holds in every reachable state.
THEOREM Invariance == Spec => []IndInv
  <1>1. Init => IndInv
    BY ConstantsAssumption DEF Init, IndInv, TypeOK, LocksAreRotations, DrawnAreNew,
       RowsHangTogether, OneLiveCredential, SessionStatuses, Steps, Creating
  <1>2. IndInv /\ [Next]_vars => IndInv'
    BY NextStep
  <1> QED
    BY <1>1, <1>2, PTL DEF Spec

\* Every row, lock and request of the refresh endpoint keeps its type.
THEOREM TypeCorrect == Spec => []TypeOK
  <1>1. IndInv => TypeOK
    BY DEF IndInv
  <1> QED
    BY <1>1, Invariance, PTL

\* However many requests rotate, reuse, revoke and log out at once, a family
\* has at most one live credential and a credential at most one successor.
THEOREM OneLive == Spec => []OneLiveCredential
  <1>1. IndInv => OneLiveCredential
    BY DEF IndInv
  <1> QED
    BY <1>1, Invariance, PTL

\* A revoked credential stays revoked and a rotated-out one is never live
\* again: rotation's row lock keeps an overlapping revocation from being lost.
THEOREM RevocationIsFinal == Spec => NoResurrection
  <1> DEFINE Keeps(t) == /\ status[t] = "REVOKED" => status'[t] = "REVOKED"
                         /\ status[t] = "ROTATED" => status'[t] \in {"ROTATED", "REVOKED"}
                         /\ status[t] # "absent" => family'[t] = family[t]
  <1>1. ASSUME IndInv, [Next]_vars, NEW t \in Tokens
        PROVE  Keeps(t)
    <2>1. CASE UNCHANGED rows
      BY <2>1 DEF rows
    <2>2. CASE \E r \in Requests : issue_family(r)
      BY <1>1, <2>2, ConstantsAssumption DEF IndInv, TypeOK, Creating, DrawnAreNew, issue_family
    <2>3. CASE \E r \in Requests : CommitRotation(r)
      BY <1>1, <2>3, ConstantsAssumption
         DEF IndInv, TypeOK, Creating, DrawnAreNew, LocksAreRotations, CommitRotation
    <2>4. CASE \E r \in Requests : revoke_family(r) \/ revoke(r) \/ logout(r)
      BY <1>1, <2>4 DEF IndInv, TypeOK, revoke_family, revoke, logout, RevokeRow
    <2> QED
      BY <1>1, <2>1, <2>2, <2>3, <2>4
         DEF Next, Proceed, Deactivate, Expire, authenticate, ReadRotated, ReadActive, ReadUser,
             try_mark_rotated, FindFamily, LogoutRead, Rollback, vars
  <1>2. IndInv /\ [Next]_vars => [\A t \in Tokens : Keeps(t)]_vars
    BY <1>1
  <1> QED
    BY <1>2, Invariance, PTL DEF Spec, NoResurrection

-----------------------------------------------------------------------------
(* Expiry and deactivation.                                                *)

\* What stays true of a credential from the moment it is ineligible: a request
\* that looks at it is never on its way to rotate it, and one that has yet to
\* read the account will find it inactive.
Barred(t) ==
    /\ status[t] \in {"ACTIVE", "REVOKED"}
    /\ expired[t] \/ ~userActive
    /\ \A r \in Requests : presented[r] = t =>
          /\ pc[r] \notin {"rotate", "rotated"}
          /\ pc[r] = "user" => ~userActive

LEMMA BarredStays ==
    ASSUME IndInv, NEW t \in Tokens, Barred(t), [Next]_vars
    PROVE  Barred(t)'
  <1> USE ConstantsAssumption DEF Goto, Done, rows, requestVars
  <1>1. TypeOK
    BY DEF IndInv
  <1>2. CASE Deactivate \/ \E u \in Tokens : Expire(u)
    BY <1>1, <1>2 DEF TypeOK, Barred, Deactivate, Expire
  <1>3. ASSUME NEW r \in Requests, authenticate(r) \/ FindFamily(r) \/ ReadUser(r) \/ try_mark_rotated(r)
        PROVE  Barred(t)'
    <2>1. UNCHANGED <<userActive, expired, status, presented>>
      BY <1>3 DEF authenticate, FindFamily, ReadUser, try_mark_rotated
    <2>2. presented[r] = t => pc'[r] \notin {"user", "rotate", "rotated"}
      BY <1>1, <1>3 DEF TypeOK, Barred, authenticate, FindFamily, ReadUser, try_mark_rotated
    <2>3. \A q \in Requests : q # r => pc'[q] = pc[q]
      BY <1>1, <1>3 DEF TypeOK, authenticate, FindFamily, ReadUser, try_mark_rotated
    <2> QED BY <2>1, <2>2, <2>3 DEF Barred
  <1>4. ASSUME NEW r \in Requests, NEW u \in Tokens, ReadRotated(r, u) \/ LogoutRead(r, u)
        PROVE  Barred(t)'
    BY <1>1, <1>4 DEF TypeOK, Barred, ReadRotated, LogoutRead
  <1>5. ASSUME NEW r \in Requests, NEW u \in Tokens, ReadActive(r, u)
        PROVE  Barred(t)'
    BY <1>1, <1>5 DEF TypeOK, Barred, ReadActive
  <1>6. ASSUME NEW r \in Requests, issue_family(r)
        PROVE  Barred(t)'
    <2>1. child[r] # t
      BY <1>6 DEF IndInv, TypeOK, DrawnAreNew, Barred, issue_family, Creating
    <2> QED BY <1>1, <1>6, <2>1 DEF TypeOK, Barred, issue_family
  <1>7. ASSUME NEW r \in Requests, CommitRotation(r)
        PROVE  Barred(t)'
    <2>1. child[r] # t /\ presented[r] # t
      BY <1>7 DEF IndInv, TypeOK, DrawnAreNew, Barred, CommitRotation, Creating
    <2> QED BY <1>1, <1>7, <2>1 DEF TypeOK, Barred, CommitRotation
  <1>8. ASSUME NEW r \in Requests, revoke_family(r) \/ revoke(r) \/ logout(r)
        PROVE  Barred(t)'
    BY <1>1, <1>8 DEF TypeOK, Barred, revoke_family, revoke, logout, RevokeRow
  <1>9. ASSUME NEW r \in Requests, Rollback(r)
        PROVE  Barred(t)'
    BY <1>1, <1>9 DEF TypeOK, Barred, Rollback
  <1>10. CASE UNCHANGED vars
    BY <1>10 DEF vars, Barred
  <1> QED BY <1>2, <1>3, <1>4, <1>5, <1>6, <1>7, <1>8, <1>9, <1>10 DEF Next, Proceed

\* A credential that nobody is busy with when its time passes or its account is
\* deactivated is never rotated again.
THEOREM NoBypass == Spec => IneligibleNeverRotates
  <1> SUFFICES ASSUME NEW t \in Tokens
               PROVE  Spec => [](Ineligible(t) => [](status[t] # "ROTATED"))
    BY DEF IneligibleNeverRotates
  <1>1. Ineligible(t) => Barred(t)
    BY DEF Ineligible, Barred
  <1>2. IndInv /\ Barred(t) /\ [Next]_vars => Barred(t)'
    BY BarredStays
  <1>3. Barred(t) => status[t] # "ROTATED"
    BY DEF Barred
  <1> QED BY <1>1, <1>2, <1>3, Invariance, PTL DEF Spec

-----------------------------------------------------------------------------
(* The rows as sessions.                                                   *)

\* What revoke_family found belongs to the family of the reused credential.
FoundInv ==
    \A r \in Requests :
        \A t \in found[r] : pc[r] = "revokeFamily" /\ family[t] = family[presented[r]]

LEMMA FoundStep ==
    ASSUME IndInv, FoundInv, [Next]_vars
    PROVE  FoundInv'
  <1> USE ConstantsAssumption DEF Goto, Done, rows, requestVars
  <1>1. TypeOK /\ DrawnAreNew
    BY DEF IndInv
  <1>2. CASE Deactivate \/ \E u \in Tokens : Expire(u)
    BY <1>1, <1>2 DEF FoundInv, Deactivate, Expire
  <1>3. ASSUME NEW r \in Requests, authenticate(r) \/ ReadUser(r) \/ try_mark_rotated(r)
        PROVE  FoundInv'
    <2>1. UNCHANGED <<family, presented, found>> /\ found[r] = {}
      BY <1>1, <1>3 DEF TypeOK, FoundInv, authenticate, ReadUser, try_mark_rotated
    <2>2. \A q \in Requests : q # r => pc'[q] = pc[q]
      BY <1>1, <1>3 DEF TypeOK, authenticate, ReadUser, try_mark_rotated
    <2> QED BY <2>1, <2>2 DEF FoundInv
  <1>4. ASSUME NEW r \in Requests, NEW u \in Tokens,
               ReadRotated(r, u) \/ LogoutRead(r, u) \/ ReadActive(r, u)
        PROVE  FoundInv'
    <2>1. UNCHANGED <<family, found>> /\ found[r] = {}
      BY <1>1, <1>4 DEF TypeOK, FoundInv, ReadRotated, LogoutRead, ReadActive
    <2>2. \A q \in Requests : q # r => pc'[q] = pc[q] /\ presented'[q] = presented[q]
      BY <1>1, <1>4 DEF TypeOK, ReadRotated, LogoutRead, ReadActive
    <2> QED BY <2>1, <2>2 DEF FoundInv
  <1>5. ASSUME NEW r \in Requests, FindFamily(r)
        PROVE  FoundInv'
    BY <1>1, <1>5 DEF TypeOK, FoundInv, FindFamily, Family
  <1>6. ASSUME NEW r \in Requests,
               \/ issue_family(r) \/ CommitRotation(r) \/ Rollback(r)
               \/ revoke_family(r) \/ revoke(r) \/ logout(r)
        PROVE  FoundInv'
    <2>1. found'[r] = {} /\ \A q \in Requests : q # r =>
             pc'[q] = pc[q] /\ presented'[q] = presented[q] /\ found'[q] = found[q]
      BY <1>1, <1>6 DEF TypeOK, issue_family, CommitRotation, Rollback, revoke_family, revoke,
                        logout, RevokeRow
    <2>2. \A t \in Tokens : status[t] # "absent" => family'[t] = family[t]
      BY <1>1, <1>6 DEF TypeOK, DrawnAreNew, Creating, issue_family, CommitRotation, Rollback,
                        revoke_family, revoke, logout, RevokeRow
    <2>3. \A q \in Requests : \A t \in found[q] :
             /\ t \in Tokens /\ presented[q] \in Tokens
             /\ status[t] # "absent" /\ status[presented[q]] # "absent"
      BY <1>1 DEF TypeOK, DrawnAreNew, FoundInv
    <2> QED BY <2>1, <2>2, <2>3 DEF FoundInv
  <1>7. CASE UNCHANGED vars
    BY <1>7 DEF vars, FoundInv
  <1> QED BY <1>2, <1>3, <1>4, <1>5, <1>6, <1>7 DEF Next, Proceed

\* The holder of a session is its live credential: there is no other.
LEMMA HolderIsLive ==
    ASSUME OneLiveCredential, NEW f \in Tokens
    PROVE  /\ \A u \in Tokens : LivesIn(u, f) => Holder(f) = u
           /\ (\A u \in Tokens : ~LivesIn(u, f)) => Holder(f) = NoToken
  <1>1. ASSUME NEW u \in Tokens, LivesIn(u, f)
        PROVE  Holder(f) = u
    <2>1. PICK v \in Tokens : v = (CHOOSE w \in Tokens : LivesIn(w, f)) /\ LivesIn(v, f)
      BY <1>1
    <2>2. v = u
      BY <1>1, <2>1 DEF OneLiveCredential, LivesIn
    <2> QED BY <1>1, <2>1, <2>2 DEF Holder
  <1> QED BY <1>1 DEF Holder

\* The same after a step.
LEMMA HolderIsLiveNext ==
    ASSUME OneLiveCredential', NEW f \in Tokens
    PROVE  /\ \A u \in Tokens : LivesIn(u, f)' => Holder(f)' = u
           /\ (\A u \in Tokens : ~LivesIn(u, f)') => Holder(f)' = NoToken
  <1>1. ASSUME NEW u \in Tokens, LivesIn(u, f)'
        PROVE  Holder(f)' = u
    <2>1. PICK v \in Tokens : v = (CHOOSE w \in Tokens : LivesIn(w, f)') /\ LivesIn(v, f)'
      BY <1>1
    <2>2. v = u
      BY <1>1, <2>1 DEF OneLiveCredential, LivesIn
    <2> QED BY <1>1, <2>1, <2>2 DEF Holder
  <1> QED BY <1>1 DEF Holder

\* The two variables of LoginSessions, and its steps.
Issued == {t \in Tokens : status[t] # "absent"}
Holders == [f \in Tokens |-> Holder(f)]

LEMMA SessionsByName ==
    ASSUME NEW f \in Tokens, NEW c \in Tokens
    PROVE  /\ Sessions!Open(f) <=>
                 /\ f \notin Issued /\ Issued' = Issued \cup {f}
                 /\ Holders' = [Holders EXCEPT ![f] = f]
           /\ Sessions!HandOver(f, c) <=>
                 /\ c \notin Issued /\ Issued' = Issued \cup {c}
                 /\ Holders[f] # NoToken /\ Holders' = [Holders EXCEPT ![f] = c]
           /\ Sessions!Close(f) <=>
                 /\ Issued' = Issued /\ Holders[f] # NoToken
                 /\ Holders' = [Holders EXCEPT ![f] = NoToken]
  BY DEF Sessions!Open, Sessions!HandOver, Sessions!Close, Issued, Holders

\* A session in which the same credentials are live has the same holder.
LEMMA SameHolder ==
    ASSUME OneLiveCredential, OneLiveCredential', NEW f \in Tokens,
           \A u \in Tokens : LivesIn(u, f)' <=> LivesIn(u, f)
    PROVE  Holder(f)' = Holder(f)
  BY HolderIsLive, HolderIsLiveNext

SessionsStep == [Sessions!Next]_(Sessions!vars)

\* A login opens a session nobody had.
LEMMA LoginOpens ==
    ASSUME IndInv, IndInv', NEW r \in Requests, issue_family(r)
    PROVE  SessionsStep
  <1>1. PICK c \in Tokens : c = child[r]
    BY DEF IndInv, TypeOK, issue_family, Creating
  <1>2. /\ status \in [Tokens -> SessionStatuses] /\ family \in [Tokens -> Tokens \cup {NoToken}]
        /\ status[c] = "absent"
        /\ status' = [status EXCEPT ![c] = "ACTIVE"]
        /\ family' = [family EXCEPT ![c] = c]
    BY <1>1, ConstantsAssumption DEF IndInv, TypeOK, DrawnAreNew, issue_family
  <1>3. OneLiveCredential /\ OneLiveCredential'
    BY DEF IndInv
  <1>4. c \notin Issued /\ Issued' = Issued \cup {c}
    BY <1>2 DEF Issued
  <1>5. Holder(c)' = c
    BY <1>2, <1>3, HolderIsLiveNext DEF LivesIn
  <1>6. ASSUME NEW f \in Tokens \ {c}
        PROVE  Holder(f)' = Holder(f)
    BY <1>2, <1>3, SameHolder DEF LivesIn
  <1>7. Holders' = [Holders EXCEPT ![c] = c]
    BY <1>5, <1>6 DEF Holders
  <1>8. Sessions!Open(c)
    BY <1>4, <1>7, SessionsByName
  <1> QED BY <1>8 DEF SessionsStep, Sessions!Next

\* A rotation hands a live session over to a credential never issued before.
LEMMA RotationHandsOver ==
    ASSUME IndInv, IndInv', NEW r \in Requests, CommitRotation(r)
    PROVE  SessionsStep
  <1>1. PICK c \in Tokens, t \in Tokens : c = child[r] /\ t = presented[r]
    BY DEF IndInv, TypeOK, CommitRotation, Creating
  <1>2. /\ status \in [Tokens -> SessionStatuses] /\ family \in [Tokens -> Tokens \cup {NoToken}]
        /\ status[c] = "absent" /\ status[t] = "ACTIVE" /\ c # t
        /\ status' = [status EXCEPT ![t] = "ROTATED", ![c] = "ACTIVE"]
        /\ family' = [family EXCEPT ![c] = family[t]]
    BY <1>1, ConstantsAssumption
       DEF IndInv, TypeOK, DrawnAreNew, LocksAreRotations, CommitRotation
  <1>3. OneLiveCredential /\ OneLiveCredential'
    BY DEF IndInv
  <1>4. PICK f \in Tokens : f = family[t]
    BY <1>2 DEF IndInv, RowsHangTogether
  <1>5. c \notin Issued /\ Issued' = Issued \cup {c}
    BY <1>2 DEF Issued
  <1>6. Holder(f) = t /\ Holder(f)' = c
    BY <1>2, <1>3, <1>4, HolderIsLive, HolderIsLiveNext DEF LivesIn
  <1>7. ASSUME NEW g \in Tokens \ {f}
        PROVE  Holder(g)' = Holder(g)
    <2>1. ASSUME NEW u \in Tokens
          PROVE  LivesIn(u, g)' <=> LivesIn(u, g)
      BY <1>2, <1>4 DEF LivesIn
    <2> QED BY <1>3, <2>1, SameHolder
  <1>8. Holders[f] # NoToken /\ Holders' = [Holders EXCEPT ![f] = c]
    BY <1>6, <1>7, ConstantsAssumption DEF Holders
  <1>9. Sessions!HandOver(f, c)
    BY <1>5, <1>8, SessionsByName
  <1> QED BY <1>9 DEF SessionsStep, Sessions!Next

\* A revocation closes the session of the presented credential, or changes
\* nothing of it: the live credential may be one its statement did not find.
LEMMA RevocationCloses ==
    ASSUME IndInv, IndInv', FoundInv, NEW r \in Requests,
           revoke_family(r) \/ revoke(r) \/ logout(r)
    PROVE  SessionsStep
  <1>1. PICK t \in Tokens : t = presented[r]
    BY DEF IndInv, TypeOK, revoke, logout, revoke_family
  <1>2. PICK gone \in SUBSET Tokens :
            gone = IF pc[r] = "revokeFamily" THEN found[r] ELSE {t}
    BY DEF IndInv, TypeOK
  <1>3. /\ status \in [Tokens -> SessionStatuses] /\ status[t] # "absent"
        /\ status' = [u \in Tokens |-> IF u \in gone THEN "REVOKED" ELSE status[u]]
        /\ family' = family
    BY <1>1, <1>2 DEF IndInv, TypeOK, DrawnAreNew, revoke, logout, revoke_family, RevokeRow
  <1>4. \A u \in gone : family[u] = family[t] /\ status[u] # "absent"
    BY <1>1, <1>2, <1>3 DEF FoundInv, IndInv, DrawnAreNew
  <1>5. OneLiveCredential /\ OneLiveCredential'
    BY DEF IndInv
  <1>6. PICK f \in Tokens : f = family[t]
    BY <1>3 DEF IndInv, RowsHangTogether
  <1>7. Issued' = Issued
    BY <1>3, <1>4 DEF Issued
  <1>8. ASSUME NEW g \in Tokens \ {f}
        PROVE  Holder(g)' = Holder(g)
    <2>1. ASSUME NEW u \in Tokens
          PROVE  LivesIn(u, g)' <=> LivesIn(u, g)
      BY <1>3, <1>4, <1>6 DEF LivesIn
    <2> QED BY <1>5, <2>1, SameHolder
  <1>9. CASE \E u \in gone : LivesIn(u, f)
    <2>1. PICK u \in gone : LivesIn(u, f)
      BY <1>9
    <2>2. Holder(f) = u
      BY <1>5, <2>1, HolderIsLive
    <2>3. \A v \in Tokens : ~LivesIn(v, f)'
      BY <1>3, <1>5, <2>1 DEF LivesIn, OneLiveCredential
    <2>4. Holder(f)' = NoToken
      BY <1>5, <2>3, HolderIsLiveNext
    <2>5. Holders[f] # NoToken /\ Holders' = [Holders EXCEPT ![f] = NoToken]
      BY <1>8, <2>2, <2>4, ConstantsAssumption DEF Holders
    <2>6. Sessions!Close(f)
      BY <1>7, <2>5, SessionsByName
    <2> QED BY <2>6 DEF SessionsStep, Sessions!Next
  <1>10. CASE \A u \in gone : ~LivesIn(u, f)
    <2>1. ASSUME NEW u \in Tokens
          PROVE  LivesIn(u, f)' <=> LivesIn(u, f)
      BY <1>3, <1>10 DEF LivesIn
    <2>2. Holder(f)' = Holder(f)
      BY <1>5, <2>1, SameHolder
    <2>3. Holders' = Holders
      BY <1>8, <2>2 DEF Holders
    <2> QED BY <1>7, <2>3 DEF SessionsStep, Sessions!vars, Issued, Holders
  <1> QED BY <1>9, <1>10

\* The rows of refresh_session implement LoginSessions for any number of
\* overlapping requests: a rotation is one hand-over although it is two
\* statements, and nothing reopens a session that a revocation closed.
THEOREM Refinement == Spec => SessionsSpec
  <1>1. Init => Sessions!Init
    <2> SUFFICES ASSUME Init PROVE Sessions!Init
      OBVIOUS
    <2>1. Issued = {}
      BY DEF Init, Issued
    <2>2. ASSUME NEW f \in Tokens PROVE Holder(f) = NoToken
      BY DEF Init, Holder, LivesIn
    <2>3. Holders = [f \in Tokens |-> NoToken]
      BY <2>2 DEF Holders
    <2> QED BY <2>1, <2>3 DEF Sessions!Init, Issued, Holders
  <1>2. IndInv /\ IndInv' /\ FoundInv /\ [Next]_vars => SessionsStep
    <2> SUFFICES ASSUME IndInv, IndInv', FoundInv, [Next]_vars PROVE SessionsStep
      OBVIOUS
    <2>1. CASE UNCHANGED rows
      <3>1. UNCHANGED <<status, family>>
        BY <2>1 DEF rows
      <3>2. Issued' = Issued
        BY <3>1 DEF Issued
      <3>3. Holders' = Holders
        BY <3>1 DEF Holders, Holder, LivesIn
      <3> QED BY <3>2, <3>3 DEF SessionsStep, Sessions!vars, Issued, Holders
    <2>2. CASE \E r \in Requests : issue_family(r)
      BY <2>2, LoginOpens
    <2>3. CASE \E r \in Requests : CommitRotation(r)
      BY <2>3, RotationHandsOver
    <2>4. CASE \E r \in Requests : revoke_family(r) \/ revoke(r) \/ logout(r)
      BY <2>4, RevocationCloses
    <2> QED
      BY <2>1, <2>2, <2>3, <2>4
         DEF Next, Proceed, Deactivate, Expire, authenticate, ReadRotated, ReadActive, ReadUser,
             try_mark_rotated, FindFamily, LogoutRead, Rollback, vars
  <1>3. Init => FoundInv
    BY DEF Init, FoundInv
  <1>4. IndInv /\ FoundInv /\ [Next]_vars => FoundInv'
    BY FoundStep
  <1> QED
    BY <1>1, <1>2, <1>3, <1>4, Invariance, PTL DEF Spec, SessionsSpec, Sessions!Spec, SessionsStep
=============================================================================
