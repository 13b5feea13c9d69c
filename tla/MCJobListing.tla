---------------------------- MODULE MCJobListing ----------------------------
(***************************************************************************)
(* A small instance of JobListing for TLC.                                 *)
(***************************************************************************)
EXTENDS JobListing

\* One job belongs to the second user.
MixedOwners == [k \in Jobs |-> IF k = 2 THEN "u2" ELSE "u1"]

\* An administrator and the first user.
AdminAndOwner == [r \in Readers |-> IF r = 1 THEN Admin ELSE "u1"]
=============================================================================
