------------------------------ MODULE HttpSink ------------------------------
(***************************************************************************)
(* The pipeline's sink (pkg/sink): numaflow streams a batch of messages to *)
(* HttpSink.Sink, which POSTs each one to the callback URL the message     *)
(* carries and reports the ids it forwarded.  numaflow acknowledges these, *)
(* and writes every other message of the batch again, until none is left.  *)
(*                                                                         *)
(* The two ends around the code are external: numaflow's sink vertex, and  *)
(* its SDK, which hands the stream to Sink over an unbuffered channel and  *)
(* answers numaflow only once every message was handed over.               *)
(***************************************************************************)
EXTENDS Naturals, FiniteSets

CONSTANTS
  NMessages,      \* messages reach the sink vertex as 1, 2, .., NMessages
  Undecodable,    \* the messages that do not unmarshal into an MLServeRequest
  ReadBatchSize,  \* how many numaflow reads at once; createPipelineSpec sets 1
  Flags,          \* the --retries and --dropIfError a sink may be started with
  MaxAborts       \* bound: calls cut short by the death of the container

Messages == 1..NMessages

ASSUME SinkAssumption ==
  /\ NMessages \in Nat
  /\ Undecodable \subseteq Messages
  /\ ReadBatchSize \in Nat \ {0}
  /\ Flags \subseteq [retries : Nat, drop : BOOLEAN]
  /\ MaxAborts \in Nat

VARIABLES
  flags,     \* the flags this sink was started with
  unread,    \* the first message numaflow has not read yet
  toWrite,   \* the batch numaflow is writing: what it read less what was acked
  acked,     \* the messages numaflow has acknowledged
  pc,        \* where the Sink call stands
  received,  \* the messages of toWrite the call has received from the channel
  datum,     \* the one it received last
  attempts,  \* failed attempts at the datum in hand, against backoff.Steps
  ok,        \* ids in the list ok
  failed,    \* ids in the list failed
  reported,  \* ids the call returned with success
  answered,  \* messages for which some POST got an HTTP response
  dropped,   \* messages logged with "Dropping messages due to failure"
  aborts

platform == <<unread, toWrite, acked>>
vars == <<flags, platform, pc, received, datum, attempts, ok, failed, reported, answered,
          dropped, aborts>>

TypeOK ==
  /\ flags \in Flags
  /\ unread \in 1..NMessages + 1
  /\ toWrite \subseteq Messages
  /\ acked \subseteq Messages
  /\ pc \in {"idle", "ranging", "backoff", "inFlight", "returned"}
  /\ received \subseteq toWrite
  /\ datum \in 0..NMessages
  /\ attempts \in 0..flags.retries
  /\ ok \subseteq Messages /\ failed \subseteq Messages
  /\ reported \subseteq Messages
  /\ answered \subseteq Messages
  /\ dropped \subseteq Messages
  /\ aborts \in 0..MaxAborts

Init ==
  /\ flags \in Flags
  /\ unread = 1 /\ toWrite = {} /\ acked = {}
  /\ pc = "idle" /\ received = {} /\ datum = 0 /\ attempts = 0
  /\ ok = {} /\ failed = {} /\ reported = {}
  /\ answered = {} /\ dropped = {}
  /\ aborts = 0

-----------------------------------------------------------------------------
(* numaflow's sink vertex *)

\* With nothing left to write, the next messages are read from the buffer.
ReadBatch ==
  /\ pc = "idle" /\ toWrite = {}
  /\ \E k \in 1..ReadBatchSize :
       /\ unread + k <= NMessages + 1
       /\ toWrite' = unread .. unread + k - 1
       /\ unread' = unread + k
  /\ UNCHANGED <<flags, acked, pc, received, datum, attempts, ok, failed,
                 reported, answered, dropped, aborts>>

\* The SinkFn call is made and Sink starts with two empty lists.
CallSink ==
  /\ pc = "idle" /\ toWrite # {}
  /\ pc' = "ranging"
  /\ received' = {} /\ attempts' = 0
  /\ ok' = {} /\ failed' = {} /\ reported' = {}
  /\ UNCHANGED <<flags, platform, datum, answered, dropped, aborts>>

\* SinkFn replies when its receiving loop, which blocks on the channel until
\* Sink takes each datum, has seen the end of the stream.  What is not reported
\* as forwarded is written again.
Reply ==
  /\ pc = "returned" /\ received = toWrite
  /\ acked' = acked \cup reported
  /\ toWrite' = toWrite \ reported
  /\ pc' = "idle" /\ received' = {}
  /\ UNCHANGED <<flags, unread, datum, attempts, ok, failed, reported, answered,
                 dropped, aborts>>

\* The sink's container dies in the middle of a call, and its goroutine with it:
\* numaflow sees an error and no report, and writes the whole batch again.  Where
\* only the stream breaks, the goroutine would finish its POST; that copy is not
\* kept here.
Abort ==
  /\ pc # "idle" /\ aborts < MaxAborts
  /\ aborts' = aborts + 1
  /\ pc' = "idle" /\ received' = {}
  /\ UNCHANGED <<flags, platform, datum, attempts, ok, failed, reported,
                 answered, dropped>>

-----------------------------------------------------------------------------
(* HttpSink.Sink *)

\* The datums arrive in the order of the buffer.
Receive(m) ==
  /\ pc = "ranging"
  /\ m \in toWrite \ received
  /\ \A n \in toWrite \ received : m <= n
  /\ received' = received \cup {m}
  /\ datum' = m

\* for datum := range datumStreamCh, and json.Unmarshal of its value.
ReceiveUndecodable ==
  /\ \E m \in Undecodable : Receive(m) /\ failed' = failed \cup {m}
  /\ UNCHANGED <<flags, platform, pc, attempts, ok, reported, answered,
                 dropped, aborts>>

ReceiveDecodable ==
  /\ \E m \in Messages \ Undecodable : Receive(m)
  /\ pc' = "backoff" /\ attempts' = 0
  /\ UNCHANGED <<flags, platform, ok, failed, reported, answered, dropped,
                 aborts>>

\* Mutant: one attempt more than --retries.
AttemptOnceMore ==
  /\ pc = "backoff" /\ attempts <= flags.retries
  /\ pc' = "inFlight"
  /\ UNCHANGED <<flags, platform, received, datum, attempts, ok, failed, reported,
                 answered, dropped, aborts>>

\* ExponentialBackoffWithContext with Steps = Retries makes Retries attempts in
\* all, the first without delay.
Attempt ==
  /\ pc = "backoff" /\ attempts < flags.retries
  /\ pc' = "inFlight"
  /\ UNCHANGED <<flags, platform, received, datum, attempts, ok, failed, reported,
                 answered, dropped, aborts>>

\* Mutant: the success is not recorded.
PostAnsweredUnrecorded ==
  /\ pc = "inFlight"
  /\ answered' = answered \cup {datum}
  /\ pc' = "ranging"
  /\ UNCHANGED <<flags, platform, received, datum, attempts, ok, failed, reported, dropped,
                 aborts>>

\* sendHTTPRequest returns nil: an HTTP response came, whatever its status.
PostAnswered ==
  /\ pc = "inFlight"
  /\ answered' = answered \cup {datum}
  /\ ok' = ok \cup {datum}
  /\ pc' = "ranging"
  /\ UNCHANGED <<flags, platform, received, datum, attempts, failed, reported, dropped,
                 aborts>>

\* A transport error or the client's timeout: the response is lost, and the
\* receiver may have acted on the request all the same.
PostFails ==
  /\ pc = "inFlight"
  /\ attempts' = attempts + 1
  /\ pc' = "backoff"
  /\ UNCHANGED <<flags, platform, received, datum, ok, failed, reported, answered, dropped,
                 aborts>>

\* Mutant: Sink returns at the first message it cannot forward.
RecordFailureAndReturn ==
  /\ pc = "backoff" /\ attempts = flags.retries /\ ~flags.drop
  /\ failed' = failed \cup {datum}
  /\ pc' = "returned"
  /\ UNCHANGED <<flags, platform, received, datum, attempts, ok, reported, answered,
                 dropped, aborts>>

\* The retries are used up.  The id goes to failed, and, as no continue follows,
\* to ok as well.
RecordFailure ==
  /\ pc = "backoff" /\ attempts = flags.retries /\ ~flags.drop
  /\ failed' = failed \cup {datum}
  /\ ok' = ok \cup {datum}
  /\ pc' = "ranging"
  /\ UNCHANGED <<flags, platform, received, datum, attempts, reported, answered, dropped,
                 aborts>>

\* With --dropIfError the function returns ok, as it stands, out of the loop.
Drop ==
  /\ pc = "backoff" /\ attempts = flags.retries /\ flags.drop
  /\ dropped' = dropped \cup {datum}
  /\ reported' = ok
  /\ pc' = "returned"
  /\ UNCHANGED <<flags, platform, received, datum, attempts, ok, failed, answered, aborts>>

\* Mutant: ok is returned whether or not anything failed.
EndOfStreamReturnsOk ==
  /\ pc = "ranging" /\ received = toWrite
  /\ reported' = ok
  /\ pc' = "returned"
  /\ UNCHANGED <<flags, platform, received, datum, attempts, ok, failed, answered, dropped,
                 aborts>>

\* The channel is closed: if any message failed only the failures are returned,
\* and none of the successes.
EndOfStream ==
  /\ pc = "ranging" /\ received = toWrite
  /\ reported' = IF failed = {} THEN ok ELSE {}
  /\ pc' = "returned"
  /\ UNCHANGED <<flags, platform, received, datum, attempts, ok, failed, answered, dropped,
                 aborts>>

Sink ==
  \/ ReceiveUndecodable \/ ReceiveDecodable
  \/ Attempt \/ PostAnswered \/ PostFails
  \/ RecordFailure \/ Drop \/ EndOfStream

Next == ReadBatch \/ CallSink \/ Reply \/ Abort \/ Sink

Spec == Init /\ [][Next]_vars

\* The vertex and the sink's goroutine run; an attempt ends within --timeout.
\* A receiver that is tried for ever answers in the end.
Fairness ==
  /\ WF_vars(ReadBatch) /\ WF_vars(CallSink) /\ WF_vars(Reply)
  /\ WF_vars(Sink)
  /\ SF_vars(PostAnswered)

FairSpec == Spec /\ Fairness

-----------------------------------------------------------------------------
(* Correctness *)

\* numaflow acknowledges a message only if one of its POSTs was answered: the
\* id that line 123 also puts in ok for a failed message never gets out, because
\* failed is then not empty (httpsink.go:115-129).
NoFalseAck == acked \subseteq answered

\* A call that returned while messages of its stream were left, so that the SDK
\* blocks on the channel and numaflow never hears of it, is one that dropped, and
\* its batch held more than what it dropped (httpsink.go:117-129).  The pipelines
\* the controller creates write messages one at a time.
OnlyDropBlocks ==
  pc = "returned" /\ received # toWrite
    => flags.drop /\ datum \in dropped /\ toWrite # {datum}

\* A call of Sink ends and its report reaches numaflow, unless --dropIfError
\* makes it return in the middle of a batch, which leaves the SDK blocked on the
\* channel nobody reads (httpsink.go:117-120).
CallReturns ==
  (pc = "ranging" /\ received = {} /\ (flags.drop => Cardinality(toWrite) = 1))
    ~> (pc = "idle")

\* A message that is written alone, as in the pipelines the controller creates,
\* is acknowledged in the end, --dropIfError or not.
WrittenAloneIsAcked ==
  \A m \in Messages \ Undecodable :
    (toWrite = {m} /\ flags.retries > 0) ~> (m \in acked)

\* What commands/sink.go:35 says of --dropIfError, "Messages will drop after
\* retry": a message that was dropped is not attempted again.
DroppedStaysDropped ==
  pc = "inFlight" => datum \notin dropped

=============================================================================
