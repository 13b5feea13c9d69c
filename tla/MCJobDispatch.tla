---------------------------- MODULE MCJobDispatch ----------------------------
(***************************************************************************)
(* Small instances of JobDispatch for TLC.                                 *)
(***************************************************************************)
EXTENDS JobDispatch

\* One user owns every job.
SharedOwner == [j \in Jobs |-> CHOOSE u \in Users : TRUE]

\* One worker process runs every handler / each handler has a process of its own.
SharedProc == [s \in Slots |-> CHOOSE w \in Workers : TRUE]
OwnProc == CHOOSE f \in [Slots -> Workers] : \A r, s \in Slots : f[r] = f[s] => r = s

NoJobs == {}
OneJob == {CHOOSE j \in Jobs : TRUE}
=============================================================================
