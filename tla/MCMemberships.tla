--------------------------- MODULE MCMemberships ---------------------------
(* Instances of Memberships for TLC.                                       *)
EXTENDS Memberships, TLC

CONSTANTS a, b, r1, r2

\* Requests are alike; the founder and the other user are not.
Symmetries == Permutations({r1, r2})

=============================================================================
