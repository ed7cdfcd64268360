---------------------------- MODULE LoginSessions ----------------------------
(***************************************************************************)
(* What an account is promised about its logins.  A session is named by    *)
(* the credential its login issued and is a single slot: it is opened by   *)
(* the login, its live credential is handed over to one never issued       *)
(* before, and once it is closed nothing opens it again.  A step concerns  *)
(* one session only.                                                       *)
(***************************************************************************)
CONSTANTS Tokens, NoToken

VARIABLES issued,   \* the credentials ever issued
          holder    \* the live credential of each session, or NoToken

vars == <<issued, holder>>

Init ==
    /\ issued = {}
    /\ holder = [f \in Tokens |-> NoToken]

Open(f) ==
    /\ f \notin issued
    /\ issued' = issued \cup {f}
    /\ holder' = [holder EXCEPT ![f] = f]

HandOver(f, c) ==
    /\ c \notin issued
    /\ issued' = issued \cup {c}
    /\ holder[f] # NoToken
    /\ holder' = [holder EXCEPT ![f] = c]

Close(f) ==
    /\ UNCHANGED issued
    /\ holder[f] # NoToken
    /\ holder' = [holder EXCEPT ![f] = NoToken]

Next ==
    \E f \in Tokens :
        Open(f) \/ Close(f) \/ \E c \in Tokens : HandOver(f, c)

Spec == Init /\ [][Next]_vars
=============================================================================
