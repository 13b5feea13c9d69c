--------------------------- MODULE MCTimedDispatch ---------------------------
(***************************************************************************)
(* Small instances of TimedDispatch for TLC.                               *)
(***************************************************************************)
EXTENDS TimedDispatch

SharedOwner == [j \in Jobs |-> CHOOSE u \in Users : TRUE]
SharedProc == [s \in Slots |-> CHOOSE w \in Workers : TRUE]
NoJobs == {}

\* Delays in units that keep the order of 5, 15 and 30 seconds.
ShortDelays == [n \in 1 .. 3 |-> n]

\* One job is new and the other one was cancelled before it was dispatched; its
\* event has been discarded.
OneJobLeft ==
    /\ \E old \in {CHOOSE j \in Jobs : TRUE} :
          job = [j \in Jobs |-> IF j = old THEN CancelPendingOrQueued(CreatePendingJob(NoRow))
                                ELSE NoRow]
    /\ outbox = [j \in Jobs |-> {}]
    /\ faults = 0

\* Both jobs have failed once, their only retry is due, and no fault will happen.
BothRetried ==
    /\ job = [j \in Jobs |-> [NoRow EXCEPT !.status = "queued", !.attempts = MaxTotal - 1]]
    /\ outbox = [j \in Jobs |-> {NewEvent({})}]
    /\ faults = MaxFaults

\* Nobody is in the middle of anything.
AtRest ==
    /\ ready = [j \in Jobs |-> 0]
    /\ slot = [s \in Slots |-> IdleSlot]
    /\ pub = [p \in Publishers |-> IdlePub]
    /\ rec = [w \in Workers |-> IdleRec]
    /\ userLock = [u \in Users |-> NoTxn]
    /\ jobLock = [j \in Jobs |-> NoTxn]
    /\ due = [j \in Jobs |-> [e \in Events |-> 0]]
    /\ tries = [j \in Jobs |-> [e \in Events |-> 0]]
    /\ claimed = [p \in Publishers |-> {}]
    /\ failure = [p \in Publishers |-> NoFailure]
    /\ owed = [j \in Jobs |-> 0]
    /\ leftover = [j \in Jobs |-> FALSE]

TimingInit == AtRest /\ (OneJobLeft \/ BothRetried)

\* TimedFairSpec from these two states.
TimingSpec == TimingInit /\ [][TimedNext]_timedVars /\ TimedFairness
=============================================================================
