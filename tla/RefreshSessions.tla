--------------------------- MODULE RefreshSessions ---------------------------
(***************************************************************************)
(* The refresh credentials of one account: domain/users/refresh_service.py *)
(* and refresh_session_repository.py as the login, refresh and logout      *)
(* routes of api/routes/auth_routes.py drive them, each request in its own *)
(* PostgreSQL transaction at READ COMMITTED.                               *)
(*                                                                         *)
(* status is what is committed.  An UPDATE looks for its rows in the       *)
(* snapshot its statement starts with, waits for the row locks of others   *)
(* and rewrites the rows it found as they are then; rows that commit after *)
(* the statement started are not found.  A rotation keeps its row locked   *)
(* until it commits; the revoking requests commit right after their UPDATE *)
(* (the routes do so before they raise), so for them both are one step.    *)
(***************************************************************************)
EXTENDS Naturals

CONSTANTS
    Tokens,      \* credentials (rows of refresh_session) ever created
    Requests,    \* requests that may be in progress at the same time
    MayFail,     \* whether a request may end in a rollback
    NoToken, NoRequest

ASSUME ConstantsAssumption ==
    /\ MayFail \in BOOLEAN
    /\ NoToken \notin Tokens
    /\ NoRequest \notin Requests

VARIABLES
    userActive,  \* is_active of the account
    status,      \* committed status of each credential
    expired,     \* expires_at has passed
    family,      \* family_id: the credential issued by the login
    parent,      \* the credential a rotation replaced by this one
    lock,        \* request whose open transaction has rotated the row
    pc,          \* what each request does next
    presented,   \* the credential in the request's cookie
    child,       \* the credential the request generates
    found        \* the rows revoke_family found when its statement started

rows == <<status, family, parent>>
requestVars == <<pc, presented, child, found>>
vars == <<userActive, expired, rows, lock, requestVars>>

SessionStatuses == {"absent", "ACTIVE", "ROTATED", "REVOKED"}

Steps == {"idle", "login", "user", "rotate", "rotated", "reuse", "revokeFamily",
          "revoke", "logout"}

\* The steps at which a request has a credential of its own to insert.
Creating == {"login", "user", "rotate", "rotated"}

\* Every variable holds a value of its kind; a busy request that looks at a
\* credential has one.
TypeOK ==
    /\ userActive \in BOOLEAN
    /\ status \in [Tokens -> SessionStatuses]
    /\ expired \in [Tokens -> BOOLEAN]
    /\ family \in [Tokens -> Tokens \cup {NoToken}]
    /\ parent \in [Tokens -> Tokens \cup {NoToken}]
    /\ lock \in [Tokens -> Requests \cup {NoRequest}]
    /\ pc \in [Requests -> Steps]
    /\ presented \in [Requests -> Tokens \cup {NoToken}]
    /\ child \in [Requests -> Tokens \cup {NoToken}]
    /\ found \in [Requests -> SUBSET Tokens]
    /\ \A r \in Requests :
          /\ pc[r] \notin {"idle", "login"} => presented[r] \in Tokens
          /\ pc[r] \in Creating => child[r] \in Tokens

Init ==
    /\ userActive = TRUE
    /\ status = [t \in Tokens |-> "absent"]
    /\ expired = [t \in Tokens |-> FALSE]
    /\ family = [t \in Tokens |-> NoToken]
    /\ parent = [t \in Tokens |-> NoToken]
    /\ lock = [t \in Tokens |-> NoRequest]
    /\ pc = [r \in Requests |-> "idle"]
    /\ presented = [r \in Requests |-> NoToken]
    /\ child = [r \in Requests |-> NoToken]
    /\ found = [r \in Requests |-> {}]

-----------------------------------------------------------------------------
(* Helpers.                                                                *)

\* A credential nobody has drawn yet (secrets.token_urlsafe never repeats).
Fresh(c) == status[c] = "absent" /\ \A r \in Requests : child[r] # c

Goto(r, step) == pc' = [pc EXCEPT ![r] = step]

\* The request is answered and its transaction is over.
Done(r) ==
    /\ Goto(r, "idle")
    /\ presented' = [presented EXCEPT ![r] = NoToken]
    /\ child' = [child EXCEPT ![r] = NoToken]
    /\ found' = [found EXCEPT ![r] = {}]

Family(t) == {u \in Tokens : status[u] # "absent" /\ family[u] = family[t]}

Live(t) == {u \in Family(t) : status[u] = "ACTIVE"}

-----------------------------------------------------------------------------
(* Outside the requests: the clock, and an administrator.                  *)

Expire(t) ==
    /\ status[t] # "absent"
    /\ ~expired[t]
    /\ expired' = [expired EXCEPT ![t] = TRUE]
    /\ UNCHANGED <<userActive, rows, lock, requestVars>>

Deactivate ==
    /\ userActive
    /\ userActive' = FALSE
    /\ UNCHANGED <<expired, rows, lock, requestVars>>

-----------------------------------------------------------------------------
(* POST /auth/login: the account is read, then issue_family inserts.       *)

\* Mutant: no credential is drawn.
authenticate_without_token(r) ==
    /\ pc[r] = "idle"
    /\ userActive
    /\ Goto(r, "login")
    /\ UNCHANGED <<userActive, expired, rows, lock, presented, child, found>>

authenticate(r) ==
    /\ pc[r] = "idle"
    /\ userActive
    /\ \E c \in Tokens : Fresh(c) /\ child' = [child EXCEPT ![r] = c]
    /\ Goto(r, "login")
    /\ UNCHANGED <<userActive, expired, rows, lock, presented, found>>

issue_family(r) ==
    LET c == child[r] IN
    /\ pc[r] = "login"
    /\ status' = [status EXCEPT ![c] = "ACTIVE"]
    /\ family' = [family EXCEPT ![c] = c]
    /\ Done(r)
    /\ UNCHANGED <<userActive, expired, parent, lock>>

-----------------------------------------------------------------------------
(* POST /auth/refresh.  A credential that is unknown or REVOKED is refused *)
(* without any effect, so that outcome is no step.                         *)

\* get_by_token_hash finds the row ROTATED.
ReadRotated(r, t) ==
    /\ pc[r] = "idle"
    /\ status[t] = "ROTATED"
    /\ presented' = [presented EXCEPT ![r] = t]
    /\ Goto(r, "reuse")
    /\ UNCHANGED <<userActive, expired, rows, lock, child, found>>

\* It finds the row ACTIVE: an expired one is to be revoked, for another one
\* the account is read next.
ReadActive(r, t) ==
    /\ pc[r] = "idle"
    /\ status[t] = "ACTIVE"
    /\ presented' = [presented EXCEPT ![r] = t]
    /\ \/ /\ expired[t]
          /\ Goto(r, "revoke")
          /\ UNCHANGED child
       \/ /\ ~expired[t]
          /\ \E c \in Tokens : Fresh(c) /\ child' = [child EXCEPT ![r] = c]
          /\ Goto(r, "user")
    /\ UNCHANGED <<userActive, expired, rows, lock, found>>

\* Mutant: is_active is not looked at.
ReadAnyUser(r) ==
    /\ pc[r] = "user"
    /\ Goto(r, "rotate")
    /\ UNCHANGED <<userActive, expired, rows, lock, presented, child, found>>

ReadUser(r) ==
    /\ pc[r] = "user"
    /\ Goto(r, IF userActive THEN "rotate" ELSE "revoke")
    /\ UNCHANGED <<userActive, expired, rows, lock, presented, child, found>>

\* Mutant: UPDATE ... WHERE id = t AND status <> REVOKED.
mark_rotated(r) ==
    LET t == presented[r] IN
    /\ pc[r] = "rotate"
    /\ \/ /\ status[t] # "REVOKED"
          /\ lock[t] = NoRequest
          /\ lock' = [lock EXCEPT ![t] = r]
          /\ Goto(r, "rotated")
       \/ /\ status[t] = "REVOKED"
          /\ Goto(r, "reuse")
          /\ UNCHANGED lock
    /\ UNCHANGED <<userActive, expired, rows, presented, child, found>>

\* UPDATE ... WHERE id = t AND status = ACTIVE.  It waits for a row it
\* matches; finding none is treated like reuse.
try_mark_rotated(r) ==
    LET t == presented[r] IN
    /\ pc[r] = "rotate"
    /\ \/ /\ status[t] = "ACTIVE"
          /\ lock[t] = NoRequest
          /\ lock' = [lock EXCEPT ![t] = r]
          /\ Goto(r, "rotated")
       \/ /\ status[t] # "ACTIVE"
          /\ Goto(r, "reuse")
          /\ UNCHANGED lock
    /\ UNCHANGED <<userActive, expired, rows, presented, child, found>>

\* Mutant: the transaction stays open and keeps its row lock.
CommitRotationKeepsLock(r) ==
    LET t == presented[r]
        c == child[r]
    IN
    /\ pc[r] = "rotated"
    /\ status' = [status EXCEPT ![t] = "ROTATED", ![c] = "ACTIVE"]
    /\ family' = [family EXCEPT ![c] = family[t]]
    /\ parent' = [parent EXCEPT ![c] = t]
    /\ Done(r)
    /\ UNCHANGED <<userActive, expired, lock>>

\* The route loads the account; the session inserts the child and commits.
CommitRotation(r) ==
    LET t == presented[r]
        c == child[r]
    IN
    /\ pc[r] = "rotated"
    /\ status' = [status EXCEPT ![t] = "ROTATED", ![c] = "ACTIVE"]
    /\ family' = [family EXCEPT ![c] = family[t]]
    /\ parent' = [parent EXCEPT ![c] = t]
    /\ lock' = [lock EXCEPT ![t] = NoRequest]
    /\ Done(r)
    /\ UNCHANGED <<userActive, expired>>

\* Mutant: WHERE user_id = ..., which finds the account's other sessions too.
FindAccount(r) ==
    /\ pc[r] = "reuse"
    /\ found' = [found EXCEPT ![r] = {u \in Tokens : status[u] # "absent"}]
    /\ Goto(r, "revokeFamily")
    /\ UNCHANGED <<userActive, expired, rows, lock, presented, child>>

\* revoke_family: the statement starts and finds the family's rows...
FindFamily(r) ==
    /\ pc[r] = "reuse"
    /\ found' = [found EXCEPT ![r] = Family(presented[r])]
    /\ Goto(r, "revokeFamily")
    /\ UNCHANGED <<userActive, expired, rows, lock, presented, child>>

\* Mutant: the route raises first and the session rolls the UPDATE back.
RaiseBeforeCommit(r) ==
    /\ pc[r] = "revokeFamily"
    /\ \A u \in found[r] : lock[u] = NoRequest
    /\ Done(r)
    /\ UNCHANGED <<userActive, expired, rows, lock>>

\* ... and has got every lock, rewrites those rows and is committed.
revoke_family(r) ==
    /\ pc[r] = "revokeFamily"
    /\ \A u \in found[r] : lock[u] = NoRequest
    /\ status' = [u \in Tokens |-> IF u \in found[r] THEN "REVOKED" ELSE status[u]]
    /\ Done(r)
    /\ UNCHANGED <<userActive, expired, family, parent, lock>>

\* Mutant: the row is rewritten under another transaction's lock.
RevokeLockedRow(r) ==
    /\ status' = [status EXCEPT ![presented[r]] = "REVOKED"]
    /\ Done(r)
    /\ UNCHANGED <<userActive, expired, family, parent, lock>>

\* UPDATE ... WHERE id = t, whatever the row holds by now.
RevokeRow(r) ==
    LET t == presented[r] IN
    /\ lock[t] = NoRequest
    /\ status' = [status EXCEPT ![t] = "REVOKED"]
    /\ Done(r)
    /\ UNCHANGED <<userActive, expired, family, parent, lock>>

revoke(r) == pc[r] = "revoke" /\ RevokeRow(r)

-----------------------------------------------------------------------------
(* POST /auth/logout acts on an ACTIVE credential only.                    *)

LogoutRead(r, t) ==
    /\ pc[r] = "idle"
    /\ status[t] = "ACTIVE"
    /\ presented' = [presented EXCEPT ![r] = t]
    /\ Goto(r, "logout")
    /\ UNCHANGED <<userActive, expired, rows, lock, child, found>>

logout(r) == pc[r] = "logout" /\ RevokeRow(r)

-----------------------------------------------------------------------------
\* An exception (or PostgreSQL breaking a lock cycle) rolls a request back.
Rollback(r) ==
    /\ MayFail
    /\ pc[r] # "idle"
    /\ lock' = [t \in Tokens |-> IF lock[t] = r THEN NoRequest ELSE lock[t]]
    /\ Done(r)
    /\ UNCHANGED <<userActive, expired, rows>>

\* What a request that has begun does next.
Proceed(r) ==
    \/ issue_family(r) \/ ReadUser(r) \/ try_mark_rotated(r) \/ CommitRotation(r)
    \/ FindFamily(r) \/ revoke_family(r) \/ revoke(r) \/ logout(r)

Next ==
    \/ Deactivate
    \/ \E t \in Tokens : Expire(t)
    \/ \E r \in Requests :
          \/ authenticate(r) \/ Proceed(r) \/ Rollback(r)
          \/ \E t \in Tokens : ReadRotated(r, t) \/ ReadActive(r, t) \/ LogoutRead(r, t)

Spec == Init /\ [][Next]_vars

\* A request that has begun goes on; clients owe nothing.
FairSpec == Spec /\ \A r \in Requests : WF_vars(Proceed(r))

-----------------------------------------------------------------------------
(* Properties.                                                             *)

\* refresh_service.py: concurrent requests can never produce two live
\* descendants from one credential.  No family ever has two ACTIVE
\* credentials, and no credential is replaced twice.
OneLiveCredential ==
    /\ \A t, u \in Tokens :
          status[t] = "ACTIVE" /\ status[u] = "ACTIVE" /\ family[t] = family[u] => t = u
    /\ \A t, u \in Tokens : parent[t] # NoToken /\ parent[t] = parent[u] => t = u

\* A row is locked exactly while its rotation is uncommitted, and is ACTIVE.
LocksAreRotations ==
    /\ \A t \in Tokens : \A r \in Requests :
          lock[t] = r <=> pc[r] = "rotated" /\ presented[r] = t
    /\ \A t \in Tokens : lock[t] # NoRequest => status[t] = "ACTIVE"

\* Drawn credentials are not inserted yet and differ; presented ones and
\* those a revocation found exist.
DrawnAreNew ==
    /\ \A r \in Requests : child[r] # NoToken => status[child[r]] = "absent"
    /\ \A r, q \in Requests : child[r] # NoToken /\ child[r] = child[q] => r = q
    /\ \A r \in Requests : pc[r] \notin {"idle", "login"} =>
          status[presented[r]] # "absent"
    /\ \A r \in Requests : \A t \in found[r] : status[t] # "absent"

\* A family's first credential exists, and a replaced one is not ACTIVE.
RowsHangTogether ==
    \A t \in Tokens :
        /\ status[t] = "absent" => parent[t] = NoToken
        /\ status[t] # "absent" =>
              family[t] \in Tokens /\ status[family[t]] # "absent"
        /\ parent[t] # NoToken => status[parent[t]] \in {"ROTATED", "REVOKED"}

\* What every step preserves: who holds which lock, which drawn credentials
\* are not inserted yet, how the rows of a family hang together, and the
\* property itself.
IndInv ==
    /\ TypeOK /\ LocksAreRotations /\ DrawnAreNew /\ RowsHangTogether
    /\ OneLiveCredential

\* refresh_session_repository.py: concurrent requests cannot resurrect what is
\* revoked.  A REVOKED row stays REVOKED, a ROTATED one is never live again,
\* and a committed row never moves to another family.
NoResurrection ==
    [][\A t \in Tokens :
          /\ status[t] = "REVOKED" => status'[t] = "REVOKED"
          /\ status[t] = "ROTATED" => status'[t] \in {"ROTATED", "REVOKED"}
          /\ status[t] # "absent" => family'[t] = family[t]]_vars

\* Credential u is the live one of the session that credential f opened, and
\* the credential with which a client can still use that session.
LivesIn(u, f) == status[u] = "ACTIVE" /\ family[u] = f

Holder(f) ==
    IF \E u \in Tokens : LivesIn(u, f) THEN CHOOSE u \in Tokens : LivesIn(u, f) ELSE NoToken

Sessions == INSTANCE LoginSessions WITH
    issued <- {t \in Tokens : status[t] # "absent"},
    holder <- [f \in Tokens |-> Holder(f)]

\* The committed rows implement LoginSessions: whatever requests overlap, a
\* rotation takes over a live session in one step, a session that was revoked
\* or logged out never lives again, and no request ends another session.
SessionsSpec == Sessions!Spec

\* No bypass of expiry or deactivation: from the moment a credential's time
\* has passed or its account is inactive, with no request busy with it, no
\* request ever rotates it.
Ineligible(t) ==
    /\ status[t] = "ACTIVE"
    /\ expired[t] \/ ~userActive
    /\ \A r \in Requests : presented[r] # t

IneligibleNeverRotates ==
    \A t \in Tokens : [](Ineligible(t) => [](status[t] # "ROTATED"))

\* No request waits for ever on the locks of others.
EveryRequestEnds == \A r \in Requests : (pc[r] # "idle") ~> (pc[r] = "idle")

\* The 401 does not undo it: once a refresh has recognised reuse, every row
\* revoke_family found, the reused credential's among them, ends REVOKED.
ReuseIsPunished ==
    \A r \in Requests, t \in Tokens : (t \in found[r]) ~> (status[t] = "REVOKED")

-----------------------------------------------------------------------------
(* What the documents say and the code does not do (a violation run).      *)

\* SRS chapter 5, section 2: reuse "revokes the entire token family".  A child
\* whose rotation is uncommitted when the UPDATE starts survives it.
ReuseKillsFamily ==
    [][\A r \in Requests : revoke_family(r) =>
          \A u \in found[r] : Live(u)' = {}]_vars
=============================================================================
