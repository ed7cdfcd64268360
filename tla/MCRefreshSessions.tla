------------------------- MODULE MCRefreshSessions -------------------------
(***************************************************************************)
(* Instances of RefreshSessions for TLC.  Credentials and requests are     *)
(* model values nothing orders, so permuting them is a symmetry.           *)
(***************************************************************************)
EXTENDS RefreshSessions, TLC

CONSTANTS t1, t2, t3, t4, r1, r2, r3

ThreeTokens == {t1, t2, t3}
FourTokens == {t1, t2, t3, t4}
TwoRequests == {r1, r2}
ThreeRequests == {r1, r2, r3}

Symmetry == Permutations(Tokens) \cup Permutations(Requests)
=============================================================================
