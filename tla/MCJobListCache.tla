---------------------------- MODULE MCJobListCache ----------------------------
(***************************************************************************)
(* Small instances of JobListCache for TLC.                                *)
(***************************************************************************)
EXTENDS JobListCache

OneUser == [w \in Writers |-> CHOOSE u \in Users : TRUE]

\* The administrator lists, whose version every writer has to raise.
AdminReads == [r \in Readers |-> Admin]

\* All writers are workers; one whose invalidation fails is as silent as the
\* publisher.
AllWorkers == [w \in Writers |-> 1]
=============================================================================
