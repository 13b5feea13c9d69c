---------------------------- MODULE MCJobCreation ----------------------------
(***************************************************************************)
(* Small instances of JobCreation for TLC, with one user.                  *)
(***************************************************************************)
EXTENDS JobCreation

\* Requests 1 and 2 are the same request sent twice, 3 reuses their key with
\* other content, 4 has a key of its own.
FourKeys == [r \in Requests |-> IF r = 4 THEN "k2" ELSE "k1"]
FourHashes == [r \in Requests |-> IF r = 3 THEN "h2" ELSE "h1"]

\* Requests 1 and 2 are the same request sent twice, 3 is unrelated.
ThreeKeys == [r \in Requests |-> IF r = 3 THEN "k2" ELSE "k1"]
SameHash == [r \in Requests |-> "h1"]

OneUser == [k \in Keys |-> CHOOSE u \in Users : TRUE]
=============================================================================
