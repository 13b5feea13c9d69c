------------------------------ MODULE StatusStream ------------------------------
(***************************************************************************)
(* GET /jobs/{id}/events for one job: the post-commit notifiers that       *)
(* publish status events through Redis, and the Server-Sent Events streams *)
(* that relay them.  Redis keeps nothing: an event reaches the streams     *)
(* subscribed at that moment.                                              *)
(*                                                                         *)
(* An event is abstracted to the status it carries.                        *)
(***************************************************************************)
EXTENDS JobState, Sequences

CONSTANTS
    Clients,     \* clients that watch the job
    MaxCommits,  \* bound on the commits that change the job
    MaxFaults    \* bound on lost events and failed receives

ASSUME StreamAssumption == MaxCommits \in Nat /\ MaxFaults \in Nat

VARIABLES
    status,    \* committed status of the job
    commits,   \* commits so far
    unsent,    \* events committed and not published yet, in no order: each
               \* belongs to the process that committed it; "unread": the API
               \* reads the job again before it announces a cancellation request
    stream,    \* the stream of each client
    seen,      \* the last status each client was told
    faults

vars == <<status, commits, unsent, stream, seen, faults>>

StreamState == [pc : {"off", "snapshot", "subscribe", "live", "ended", "closed"},
                snap : JobStatus, queue : Seq(JobStatus)]

NoStream == [pc |-> "off", snap |-> "pending", queue |-> <<>>]

Init ==
    /\ status = "pending"
    /\ commits = 0
    /\ unsent = {[commit |-> 0, status |-> "pending"]}
    /\ stream = [c \in Clients |-> NoStream]
    /\ seen = [c \in Clients |-> "none"]
    /\ faults = 0

Fault == /\ faults < MaxFaults
         /\ faults' = faults + 1

-----------------------------------------------------------------------------
(* The processes that change the job.  That their commits follow the domain *)
(* layer's transition table is what JobDispatch's refinement of JobLifecycle *)
(* shows.                                                                    *)

\* Every commit is announced except the publisher's, which has no notifier.
Notified(from, to) == ~(from = "pending" /\ to = "queued")

\* A deferral and a cancellation request commit without a change of status.
Targets == {s \in JobStatus :
               CanTransition(status, s) \/ (s = status /\ s \in {"queued", "running"})}

\* What the event of a commit carries, as far as it is known at the commit.
Announced(from, to) == IF from = "running" /\ to = "running" THEN "unread" ELSE to

\* Mutant of CommitStatus: the event goes out although the commit failed.
NotifyUncommitted ==
    \E to \in Targets :
        /\ commits < MaxCommits
        /\ commits' = commits + 1
        /\ unsent' = unsent \cup {[commit |-> commits + 1, status |-> to]}
        /\ UNCHANGED <<status, stream, seen, faults>>

CommitStatus ==
    \E to \in Targets :
        /\ commits < MaxCommits
        /\ status' = to
        /\ commits' = commits + 1
        /\ unsent' = IF Notified(status, to)
                     THEN unsent \cup {[commit |-> commits + 1, status |-> Announced(status, to)]}
                     ELSE unsent
        /\ UNCHANGED <<stream, seen, faults>>

\* _load_existing_job_by_id, in a transaction of its own: the job may have moved on.
Refresh(n) ==
    /\ n \in unsent
    /\ n.status = "unread"
    /\ unsent' = (unsent \ {n}) \cup {[n EXCEPT !.status = status]}
    /\ UNCHANGED <<status, commits, stream, seen, faults>>

\* Mutant of Publish: a cancellation request is announced before the job is read again.
PublishUnread(n) ==
    /\ n \in unsent
    /\ unsent' = unsent \ {n}
    /\ stream' = [c \in Clients |-> IF stream[c].pc = "live"
                                    THEN [stream[c] EXCEPT !.queue = Append(@, n.status)]
                                    ELSE stream[c]]
    /\ UNCHANGED <<status, commits, seen, faults>>

Publish(n) ==
    /\ n \in unsent
    /\ n.status # "unread"
    /\ unsent' = unsent \ {n}
    /\ stream' = [c \in Clients |-> IF stream[c].pc = "live"
                                    THEN [stream[c] EXCEPT !.queue = Append(@, n.status)]
                                    ELSE stream[c]]
    /\ UNCHANGED <<status, commits, seen, faults>>

\* The notifiers swallow every exception; a crash after the commit is the same.
PublishFails(n) ==
    /\ n \in unsent
    /\ Fault
    /\ unsent' = unsent \ {n}
    /\ UNCHANGED <<status, commits, stream, seen>>

-----------------------------------------------------------------------------
(* The stream of client c. *)

\* The job is read, and authorised, before the response starts.
Open(c) ==
    /\ stream[c].pc = "off"
    /\ stream' = [stream EXCEPT ![c] = [pc |-> "snapshot", snap |-> status, queue |-> <<>>]]
    /\ UNCHANGED <<status, commits, unsent, seen, faults>>

SendSnapshot(c) ==
    /\ stream[c].pc = "snapshot"
    /\ seen' = [seen EXCEPT ![c] = stream[c].snap]
    /\ stream' = [stream EXCEPT ![c].pc = IF stream[c].snap \in Terminal THEN "closed"
                                          ELSE "subscribe"]
    /\ UNCHANGED <<status, commits, unsent, faults>>

\* Events published since the snapshot was read have gone by.
Subscribe(c) ==
    /\ stream[c].pc = "subscribe"
    /\ stream' = [stream EXCEPT ![c].pc = "live"]
    /\ UNCHANGED <<status, commits, unsent, seen, faults>>

SendEvent(c) ==
    LET s == Head(stream[c].queue) IN
    /\ stream[c].pc = "live"
    /\ stream[c].queue # <<>>
    /\ seen' = [seen EXCEPT ![c] = s]
    /\ stream' = [stream EXCEPT ![c].pc = IF s \in Terminal THEN "closed" ELSE "live",
                                ![c].queue = IF s \in Terminal THEN <<>> ELSE Tail(@)]
    /\ UNCHANGED <<status, commits, unsent, faults>>

\* Mutant of KeepAlive: the stream stays open after a heartbeat.
KeepListening(c) ==
    /\ stream[c].pc = "live"
    /\ stream[c].queue = <<>>
    /\ UNCHANGED vars

\* SSE_HEARTBEAT_SECONDS without an event: the timeout cancels the pending
\* __anext__, which ends the iterator and its subscription; the keep-alive
\* comment is sent and the next __anext__ raises StopAsyncIteration.
KeepAlive(c) ==
    /\ stream[c].pc = "live"
    /\ stream[c].queue = <<>>
    /\ stream' = [stream EXCEPT ![c].pc = "ended"]
    /\ UNCHANGED <<status, commits, unsent, seen, faults>>

IteratorEnded(c) ==
    /\ stream[c].pc = "ended"
    /\ stream' = [stream EXCEPT ![c].pc = "closed"]
    /\ UNCHANGED <<status, commits, unsent, seen, faults>>

\* get_message raises: a reconnect hint is sent and the stream closes.  A subscribe
\* that raises ends the response without the hint.
ReceiveFails(c) ==
    /\ stream[c].pc \in {"subscribe", "live"}
    /\ Fault
    /\ stream' = [stream EXCEPT ![c].pc = "closed", ![c].queue = <<>>]
    /\ UNCHANGED <<status, commits, unsent, seen>>

\* The client leaves; is_disconnected is polled before every event.
Disconnect(c) ==
    /\ stream[c].pc \notin {"off", "closed"}
    /\ Fault
    /\ stream' = [stream EXCEPT ![c].pc = "closed", ![c].queue = <<>>]
    /\ UNCHANGED <<status, commits, unsent, seen>>

\* The client: a stream that closed before a terminal status is opened again.
Reconnect(c) ==
    /\ stream[c].pc = "closed"
    /\ seen[c] \notin Terminal
    /\ stream' = [stream EXCEPT ![c] = NoStream]
    /\ UNCHANGED <<status, commits, unsent, seen, faults>>

-----------------------------------------------------------------------------
StreamStep(c) ==
    \/ SendSnapshot(c)
    \/ Subscribe(c)
    \/ SendEvent(c)
    \/ KeepAlive(c)
    \/ IteratorEnded(c)

Next ==
    \/ CommitStatus
    \/ \E n \in unsent : Refresh(n) \/ Publish(n) \/ PublishFails(n)
    \/ \E c \in Clients :
          Open(c) \/ StreamStep(c) \/ ReceiveFails(c) \/ Disconnect(c) \/ Reconnect(c)

Spec == Init /\ [][Next]_vars

\* A stream does its next step and a client that was cut off comes back; nobody
\* has to publish.
FairSpec ==
    /\ Spec
    /\ \A c \in Clients : WF_vars(StreamStep(c)) /\ WF_vars(Open(c) \/ Reconnect(c))

TypeOK ==
    /\ status \in JobStatus
    /\ commits \in 0 .. MaxCommits
    /\ unsent \subseteq [commit : 0 .. MaxCommits, status : JobStatus \cup {"unread"}]
    /\ stream \in [Clients -> StreamState]
    /\ seen \in [Clients -> JobStatus \cup {"none"}]
    /\ faults \in 0 .. MaxFaults

-----------------------------------------------------------------------------
(* Properties. *)

\* A client that is told a terminal status, by a snapshot or by an event of
\* another process, is told the truth for good: events are published after their
\* commit and a terminal status is never left.
TerminalIsTrue ==
    \A c \in Clients : seen[c] \in Terminal => seen[c] = status

\* Once the job has stopped changing (MaxCommits sees to it that it does), a client
\* that reconnects ends up with its status, although events are lost, published
\* late or in another order than their commits, or fall between the snapshot and
\* the subscription.  It is the stream's end after a quiet heartbeat that makes
\* this so.
EventuallyTold == \A c \in Clients : <>[](seen[c] = status)

-----------------------------------------------------------------------------
(* The inductive invariant behind TerminalIsTrue. *)

\* A terminal status is the job's wherever it is under way: committed and not
\* published, copied into a snapshot, or queued for a client.
TrueIfTerminal(s) == s \in Terminal => s = status

OnlyTruthUnderWay ==
    /\ \A n \in unsent : TrueIfTerminal(n.status)
    /\ \A c \in Clients :
          /\ TrueIfTerminal(stream[c].snap)
          /\ \A i \in 1 .. Len(stream[c].queue) : TrueIfTerminal(stream[c].queue[i])

Inductive == TypeOK /\ OnlyTruthUnderWay /\ TerminalIsTrue
=============================================================================
