--------------------------- MODULE StatusStreamProofs ---------------------------
(***************************************************************************)
(* Proofs about StatusStream, for any number of clients, commits, lost     *)
(* events and failed receives.                                             *)
(***************************************************************************)
EXTENDS StatusStream, SequenceTheorems, TLAPS

\* The domain layer's table has no way out of a terminal status, and no commit
\* leaves one either.
LEMMA NoTargetsAfterEnd ==
    ASSUME status \in Terminal
    PROVE  Targets = {}
<1>1. AllowedTransitions[status] = {}
  BY DEF AllowedTransitions, Terminal, JobStatus
<1> QED BY <1>1 DEF Targets, CanTransition, Terminal

\* What a stream does to the queue of a client: an event at the end, or the first
\* one taken off.
LEMMA QueueEffects ==
    ASSUME NEW q \in Seq(JobStatus), NEW s \in JobStatus
    PROVE  /\ Append(q, s) \in Seq(JobStatus)
           /\ \A i \in 1 .. Len(Append(q, s)) :
                 Append(q, s)[i] = s \/ \E k \in 1 .. Len(q) : Append(q, s)[i] = q[k]
           /\ q # <<>> => /\ Head(q) \in JobStatus
                          /\ 1 \in 1 .. Len(q) /\ Head(q) = q[1]
                          /\ Tail(q) \in Seq(JobStatus)
                          /\ \A i \in 1 .. Len(Tail(q)) :
                                i + 1 \in 1 .. Len(q) /\ Tail(q)[i] = q[i + 1]
<1>1. /\ Append(q, s) \in Seq(JobStatus) /\ Len(Append(q, s)) = Len(q) + 1
      /\ \A i \in 1 .. Len(q) : Append(q, s)[i] = q[i]
      /\ Append(q, s)[Len(q) + 1] = s
  BY AppendProperties
<1>2. ASSUME q # <<>>
      PROVE  /\ Head(q) \in JobStatus
             /\ 1 \in 1 .. Len(q) /\ Head(q) = q[1]
             /\ Tail(q) \in Seq(JobStatus)
             /\ \A i \in 1 .. Len(Tail(q)) : i + 1 \in 1 .. Len(q) /\ Tail(q)[i] = q[i + 1]
  <2>1. /\ Head(q) \in JobStatus /\ Tail(q) \in Seq(JobStatus) /\ Len(Tail(q)) = Len(q) - 1
        /\ \A i \in 1 .. Len(Tail(q)) : Tail(q)[i] = q[i + 1]
    BY <1>2, HeadTailProperties
  <2>2. Len(q) \in Nat /\ Len(q) # 0
    BY <1>2, EmptySeq, LenProperties
  <2>3. Head(q) = q[1]
    BY <1>2
  <2> QED BY <2>1, <2>2, <2>3
<1>3. Len(q) \in Nat
  BY LenProperties
<1> QED BY <1>1, <1>2, <1>3

\* A status the job has, and a status under way, stay true until the next commit.
LEMMA StreamSet ==
    ASSUME Inductive, NEW c \in Clients, NEW new \in StreamState, NEW v \in JobStatus \cup {"none"},
           stream' = [stream EXCEPT ![c] = new],
           UNCHANGED <<status, commits>>,
           unsent' = unsent,
           seen' = [seen EXCEPT ![c] = v],
           faults' \in 0 .. MaxFaults,
           TrueIfTerminal(new.snap),
           \A i \in 1 .. Len(new.queue) : TrueIfTerminal(new.queue[i]),
           TrueIfTerminal(v)
    PROVE  Inductive'
<1>1. /\ stream'[c] = new /\ (\A d \in Clients : d # c => stream'[d] = stream[d])
      /\ stream' \in [Clients -> StreamState]
  BY DEF Inductive, TypeOK
<1>2. /\ seen'[c] = v /\ (\A d \in Clients : d # c => seen'[d] = seen[d])
      /\ seen' \in [Clients -> JobStatus \cup {"none"}]
  BY DEF Inductive, TypeOK
<1>3. TypeOK'
  BY <1>1, <1>2 DEF Inductive, TypeOK
<1>4. OnlyTruthUnderWay'
  <2>1. \A n \in unsent' : TrueIfTerminal(n.status)'
    BY DEF Inductive, OnlyTruthUnderWay, TrueIfTerminal
  <2>2. ASSUME NEW d \in Clients
        PROVE  /\ TrueIfTerminal(stream[d].snap)'
               /\ \A i \in 1 .. Len(stream'[d].queue) : TrueIfTerminal(stream[d].queue[i])'
    <3>1. CASE d = c
      BY <1>1, <3>1 DEF TrueIfTerminal
    <3>2. CASE d # c
      BY <1>1, <3>2 DEF Inductive, OnlyTruthUnderWay, TrueIfTerminal
    <3> QED BY <3>1, <3>2
  <2> QED BY <2>1, <2>2 DEF OnlyTruthUnderWay
<1>5. TerminalIsTrue'
  BY <1>2 DEF Inductive, TerminalIsTrue, TrueIfTerminal
<1> QED BY <1>3, <1>4, <1>5 DEF Inductive

\* A commit comes before its event, and none follows a terminal status.
LEMMA CommitKeepsTruth ==
    ASSUME Inductive, CommitStatus
    PROVE  Inductive'
<1>1. PICK to \in Targets :
         /\ commits < MaxCommits
         /\ status' = to
         /\ commits' = commits + 1
         /\ unsent' = IF Notified(status, to)
                      THEN unsent \cup {[commit |-> commits + 1, status |-> Announced(status, to)]}
                      ELSE unsent
         /\ UNCHANGED <<stream, seen, faults>>
  BY DEF CommitStatus
<1>2. status \notin Terminal
  BY <1>1, NoTargetsAfterEnd
<1>3. to \in JobStatus
  BY <1>1 DEF Targets
<1>4. Announced(status, to) \in JobStatus \cup {"unread"}
      /\ (Announced(status, to) \in Terminal => Announced(status, to) = to)
  BY <1>3 DEF Announced, Terminal
<1>5. commits' \in 0 .. MaxCommits
  BY <1>1, StreamAssumption DEF Inductive, TypeOK
<1>6. TypeOK'
  <2>1. [commit |-> commits + 1, status |-> Announced(status, to)]
          \in [commit : 0 .. MaxCommits, status : JobStatus \cup {"unread"}]
    BY <1>1, <1>4, <1>5
  <2>2. unsent' \subseteq [commit : 0 .. MaxCommits, status : JobStatus \cup {"unread"}]
    BY <1>1, <2>1 DEF Inductive, TypeOK
  <2> QED BY <1>1, <1>3, <1>5, <2>2 DEF Inductive, TypeOK
<1>7. OnlyTruthUnderWay'
  <2>1. \A n \in unsent' : n.status \in Terminal => n.status = to
    BY <1>1, <1>2, <1>4 DEF Inductive, OnlyTruthUnderWay, TrueIfTerminal
  <2>2. ASSUME NEW c \in Clients
        PROVE  /\ stream[c].snap \notin Terminal
               /\ \A i \in 1 .. Len(stream[c].queue) : stream[c].queue[i] \notin Terminal
    BY <1>2 DEF Inductive, OnlyTruthUnderWay, TrueIfTerminal
  <2> QED BY <1>1, <2>1, <2>2 DEF OnlyTruthUnderWay, TrueIfTerminal
<1>8. TerminalIsTrue'
  BY <1>1, <1>2 DEF Inductive, TerminalIsTrue
<1> QED BY <1>6, <1>7, <1>8 DEF Inductive

\* A notifier reads the job again, publishes, or fails.
LEMMA NotifierKeepsTruth ==
    ASSUME Inductive, NEW n \in unsent, Refresh(n) \/ Publish(n) \/ PublishFails(n)
    PROVE  Inductive'
<1>0. /\ TypeOK /\ TrueIfTerminal(n.status) /\ UNCHANGED <<status, commits, seen>>
      /\ n \in [commit : 0 .. MaxCommits, status : JobStatus \cup {"unread"}]
  BY DEF Inductive, OnlyTruthUnderWay, TypeOK, Refresh, Publish, PublishFails
<1>1. TerminalIsTrue'
  BY <1>0 DEF Inductive, TerminalIsTrue
<1>2. CASE Refresh(n)
  <2>1. PICK m : m = [n EXCEPT !.status = status]
    OBVIOUS
  <2>2. m.status = status /\ m \in [commit : 0 .. MaxCommits, status : JobStatus \cup {"unread"}]
    BY <1>0, <2>1 DEF TypeOK
  <2>3. unsent' = (unsent \ {n}) \cup {m} /\ UNCHANGED <<stream, faults>>
    BY <1>2, <2>1 DEF Refresh
  <2>4. TypeOK'
    BY <1>0, <2>2, <2>3 DEF TypeOK
  <2>5. OnlyTruthUnderWay'
    BY <1>0, <2>2, <2>3 DEF Inductive, OnlyTruthUnderWay, TrueIfTerminal
  <2> QED BY <1>1, <2>4, <2>5 DEF Inductive
<1>3. CASE Publish(n)
  <2>1. n.status \in JobStatus /\ unsent' \subseteq unsent /\ UNCHANGED faults
    BY <1>0, <1>3 DEF Publish
  <2>2. ASSUME NEW c \in Clients
        PROVE  /\ stream'[c] \in StreamState /\ stream'[c].snap = stream[c].snap
               /\ \/ stream'[c].queue = stream[c].queue
                  \/ stream'[c].queue = Append(stream[c].queue, n.status)
    <3>1. stream[c] \in StreamState
      BY <1>0 DEF TypeOK
    <3>2. Append(stream[c].queue, n.status) \in Seq(JobStatus)
      BY <2>1, <3>1, QueueEffects DEF StreamState
    <3>3. CASE stream[c].pc = "live"
      <4>1. stream'[c] = [stream[c] EXCEPT !.queue = Append(stream[c].queue, n.status)]
        BY <1>3, <3>1, <3>3 DEF Publish, StreamState
      <4> QED BY <3>1, <3>2, <4>1 DEF StreamState
    <3>4. CASE stream[c].pc # "live"
      BY <1>3, <3>1, <3>4 DEF Publish
    <3> QED BY <3>3, <3>4
  <2>3. stream' \in [Clients -> StreamState]
    BY <1>3, <2>2 DEF Publish
  <2>4. TypeOK'
    BY <1>0, <2>1, <2>3 DEF TypeOK
  <2>5. ASSUME NEW c \in Clients, NEW i \in 1 .. Len(stream'[c].queue)
        PROVE  TrueIfTerminal(stream'[c].queue[i])
    <3>1. PICK q \in Seq(JobStatus) : q = stream[c].queue
      BY <1>0 DEF TypeOK, StreamState
    <3>2. \A k \in 1 .. Len(q) : TrueIfTerminal(q[k])
      BY <3>1 DEF Inductive, OnlyTruthUnderWay
    <3>3. CASE stream'[c].queue = q
      BY <2>5, <3>2, <3>3
    <3>4. CASE stream'[c].queue = Append(q, n.status)
      <4>1. Append(q, n.status)[i] = n.status \/ \E k \in 1 .. Len(q) : Append(q, n.status)[i] = q[k]
        BY <2>1, <2>5, <3>4, QueueEffects
      <4> QED BY <1>0, <3>2, <3>4, <4>1
    <3> QED BY <2>2, <3>1, <3>3, <3>4
  <2>6. OnlyTruthUnderWay'
    BY <1>0, <2>1, <2>2, <2>5 DEF Inductive, OnlyTruthUnderWay, TrueIfTerminal
  <2> QED BY <1>1, <2>4, <2>6 DEF Inductive
<1>4. CASE PublishFails(n)
  <2>1. unsent' \subseteq unsent /\ UNCHANGED stream /\ faults' \in 0 .. MaxFaults
    BY <1>0, <1>4, StreamAssumption DEF PublishFails, Fault, TypeOK
  <2>2. TypeOK'
    BY <1>0, <2>1 DEF TypeOK
  <2>3. OnlyTruthUnderWay'
    BY <1>0, <2>1 DEF Inductive, OnlyTruthUnderWay, TrueIfTerminal
  <2> QED BY <1>1, <2>2, <2>3 DEF Inductive
<1> QED BY <1>2, <1>3, <1>4

\* A stream relays what it has read or received, and nothing else.
LEMMA StreamKeepsTruth ==
    ASSUME Inductive, NEW c \in Clients,
           Open(c) \/ StreamStep(c) \/ ReceiveFails(c) \/ Disconnect(c) \/ Reconnect(c)
    PROVE  Inductive'
<1>0. /\ TypeOK /\ stream[c] \in StreamState /\ stream[c].queue \in Seq(JobStatus)
      /\ stream[c].snap \in JobStatus /\ status \in JobStatus
      /\ seen[c] \in JobStatus \cup {"none"}
      /\ TrueIfTerminal(stream[c].snap) /\ TrueIfTerminal(seen[c]) /\ TrueIfTerminal(status)
      /\ \A i \in 1 .. Len(stream[c].queue) : TrueIfTerminal(stream[c].queue[i])
      /\ faults \in 0 .. MaxFaults
  BY DEF Inductive, OnlyTruthUnderWay, TerminalIsTrue, TrueIfTerminal, TypeOK, StreamState
<1>e. <<>> \in Seq(JobStatus) /\ \A i \in 1 .. Len(<<>>) : FALSE
  OBVIOUS
<1>s. seen = [seen EXCEPT ![c] = seen[c]]
  BY <1>0 DEF TypeOK
<1>1. CASE Open(c)
  <2>1. PICK new : new = [pc |-> "snapshot", snap |-> status, queue |-> <<>>]
    OBVIOUS
  <2>2. new \in StreamState /\ new.snap = status /\ new.queue = <<>>
    BY <1>0, <1>e, <2>1 DEF StreamState
  <2>3. stream' = [stream EXCEPT ![c] = new] /\ UNCHANGED <<status, commits, unsent, seen, faults>>
    BY <1>1, <2>1 DEF Open
  <2> QED BY <1>0, <1>e, <1>s, <2>2, <2>3, StreamSet
<1>2. CASE SendSnapshot(c)
  <2>1. PICK new : new = [stream[c] EXCEPT !.pc = IF stream[c].snap \in Terminal THEN "closed"
                                                  ELSE "subscribe"]
    OBVIOUS
  <2>2. new \in StreamState /\ new.snap = stream[c].snap /\ new.queue = stream[c].queue
    BY <1>0, <2>1 DEF StreamState
  <2>3. /\ stream' = [stream EXCEPT ![c] = new] /\ UNCHANGED <<status, commits, unsent, faults>>
        /\ seen' = [seen EXCEPT ![c] = stream[c].snap]
    BY <1>0, <1>2, <2>1 DEF SendSnapshot, TypeOK
  <2> QED BY <1>0, <2>2, <2>3, StreamSet
<1>3. ASSUME NEW x \in {"live", "ended", "closed"}, stream' = [stream EXCEPT ![c].pc = x],
             UNCHANGED <<status, commits, unsent, seen, faults>>
      PROVE  Inductive'
  <2>1. PICK new : new = [stream[c] EXCEPT !.pc = x]
    OBVIOUS
  <2>2. new \in StreamState /\ new.snap = stream[c].snap /\ new.queue = stream[c].queue
    BY <1>0, <2>1 DEF StreamState
  <2>3. stream' = [stream EXCEPT ![c] = new]
    BY <1>0, <1>3, <2>1 DEF TypeOK
  <2> QED BY <1>0, <1>3, <1>s, <2>2, <2>3, StreamSet
<1>4. CASE SendEvent(c)
  <2>0. PICK q \in Seq(JobStatus), s \in JobStatus : q = stream[c].queue /\ q # <<>> /\ s = Head(q)
    BY <1>0, <1>4, QueueEffects DEF SendEvent
  <2>1. TrueIfTerminal(s) /\ Tail(q) \in Seq(JobStatus)
        /\ \A i \in 1 .. Len(Tail(q)) : TrueIfTerminal(Tail(q)[i])
    BY <1>0, <2>0, QueueEffects
  <2>2. PICK rest : rest = IF s \in Terminal THEN <<>> ELSE Tail(q)
    OBVIOUS
  <2>3. rest \in Seq(JobStatus) /\ \A i \in 1 .. Len(rest) : TrueIfTerminal(rest[i])
    BY <1>e, <2>1, <2>2
  <2>4. PICK new : new = [stream[c] EXCEPT !.pc = IF s \in Terminal THEN "closed" ELSE "live",
                                           !.queue = rest]
    OBVIOUS
  <2>5. new \in StreamState /\ new.snap = stream[c].snap /\ new.queue = rest
    BY <1>0, <2>3, <2>4 DEF StreamState
  <2>6. /\ stream' = [stream EXCEPT ![c] = new] /\ UNCHANGED <<status, commits, unsent, faults>>
        /\ seen' = [seen EXCEPT ![c] = s]
    <3>1. UNCHANGED <<status, commits, unsent, faults>> /\ seen' = [seen EXCEPT ![c] = s]
      BY <1>4, <2>0 DEF SendEvent
    <3>2. stream' = [stream EXCEPT ![c] =
                       [stream[c] EXCEPT !.pc = IF s \in Terminal THEN "closed" ELSE "live",
                                         !.queue = IF s \in Terminal THEN <<>> ELSE Tail(q)]]
      BY <1>0, <1>4, <2>0 DEF SendEvent, TypeOK, StreamState
    <3>3. stream' = [stream EXCEPT ![c] = new]
      BY <2>2, <2>4, <3>2
    <3> QED BY <3>1, <3>3
  <2> QED BY <1>0, <2>1, <2>3, <2>5, <2>6, StreamSet
<1>5. CASE ReceiveFails(c) \/ Disconnect(c)
  <2>1. PICK new : new = [stream[c] EXCEPT !.pc = "closed", !.queue = <<>>]
    OBVIOUS
  <2>2. new \in StreamState /\ new.snap = stream[c].snap /\ new.queue = <<>>
    BY <1>0, <1>e, <2>1 DEF StreamState
  <2>3. stream' = [stream EXCEPT ![c] = new] /\ UNCHANGED <<status, commits, unsent, seen>>
    BY <1>0, <1>5, <2>1 DEF ReceiveFails, Disconnect, TypeOK, StreamState
  <2>4. faults' \in 0 .. MaxFaults
    BY <1>0, <1>5, StreamAssumption DEF ReceiveFails, Disconnect, Fault
  <2> QED BY <1>0, <1>e, <1>s, <2>2, <2>3, <2>4, StreamSet
<1>6. CASE Reconnect(c)
  <2>1. PICK new : new = NoStream
    OBVIOUS
  <2>2. new \in StreamState /\ new.snap = "pending" /\ new.queue = <<>>
    BY <1>e, <2>1 DEF NoStream, StreamState, JobStatus
  <2>3. stream' = [stream EXCEPT ![c] = new] /\ UNCHANGED <<status, commits, unsent, seen, faults>>
    BY <1>6, <2>1 DEF Reconnect
  <2>4. TrueIfTerminal("pending")
    BY DEF TrueIfTerminal, Terminal
  <2> QED BY <1>0, <1>e, <1>s, <2>2, <2>3, <2>4, StreamSet
<1> QED BY <1>1, <1>2, <1>3, <1>4, <1>5, <1>6
        DEF StreamStep, Subscribe, KeepAlive, IteratorEnded

-----------------------------------------------------------------------------
(* The theorems. *)

\* The inductive invariant of the status stream.
LEMMA StreamInvariant == Spec => []Inductive
<1>1. Init => Inductive
  <2> SUFFICES ASSUME Init PROVE Inductive
    OBVIOUS
  <2>0. status = "pending" /\ "pending" \in JobStatus /\ "pending" \notin Terminal
    BY DEF Init, JobStatus, Terminal
  <2>1. NoStream \in StreamState /\ NoStream.snap = "pending" /\ NoStream.queue = <<>>
    BY DEF NoStream, StreamState, JobStatus
  <2>2. TypeOK
    BY <2>0, <2>1, StreamAssumption DEF Init, TypeOK
  <2>3. OnlyTruthUnderWay
    BY <2>0, <2>1 DEF Init, OnlyTruthUnderWay, TrueIfTerminal
  <2>4. TerminalIsTrue
    BY DEF Init, TerminalIsTrue, Terminal
  <2> QED BY <2>2, <2>3, <2>4 DEF Inductive
<1>2. Inductive /\ [Next]_vars => Inductive'
  <2> SUFFICES ASSUME Inductive, [Next]_vars PROVE Inductive'
    OBVIOUS
  <2>1. CASE UNCHANGED vars
    BY <2>1 DEF vars, Inductive, TypeOK, OnlyTruthUnderWay, TerminalIsTrue, TrueIfTerminal
  <2> QED BY <2>1, CommitKeepsTruth, NotifierKeepsTruth, StreamKeepsTruth DEF Next
<1> QED BY <1>1, <1>2, PTL DEF Spec

\* Every variable of the stream model keeps its type: no client is ever sent an
\* event that is not a status of a job.
THEOREM StreamTypeCorrect == Spec => []TypeOK
BY StreamInvariant, PTL DEF Inductive

\* A client that is told a terminal status, by a snapshot or by an event, is told
\* the truth for good, for any number of processes that publish in any order.
THEOREM ToldTheTruth == Spec => []TerminalIsTrue
BY StreamInvariant, PTL DEF Inductive
=============================================================================
