---------------------------- MODULE RequestPath ----------------------------
(***************************************************************************)
(* The way of a request through the whole system: frontline pod, source,   *)
(* predictor, sink, and back into the frontline pod as a callback.         *)
(*                                                                         *)
(* Frontline, Predictor and HttpSink are composed as they are.  What this  *)
(* module adds is what joins them: an accepted Post puts a message into    *)
(* the predictor's buffer, the i-th message at the sink is arrived[i], and *)
(* a POST of the sink is a callback goroutine of the pod.  Buffers neither *)
(* lose nor repeat a message.                                              *)
(***************************************************************************)
EXTENDS Naturals, Sequences, FiniteSets

CONSTANTS
  Requests,
  Pods, Poisonable,  \* as in Predictor
  Retries,           \* --retries of the sink
  MaxFaults          \* bound: disruptions of the predictor, calls of Sink cut
                     \* short and POSTs given up on after they were delivered

\* A message needs one callback, and another for each fault.
Callbacks == 1..Cardinality(Requests) + MaxFaults

ASSUME PathAssumption ==
  /\ IsFiniteSet(Requests)
  /\ Retries \in Nat \ {0} /\ MaxFaults \in Nat

VARIABLES
  pc, requestQueue, written, backend, cbPc, cbReq, cbData,
  poison, inBuffer, podPc, model, hand, arrived, disruptions,
  flags, unread, toWrite, acked, sinkPc, received, datum, attempts, ok, failed,
  reported, answered, dropped, aborts,
  call,   \* the callback that serves the POST in flight: at most one
  lost    \* POSTs given up on after the pod had them

frontline == <<pc, requestQueue, written, backend, cbPc, cbReq, cbData>>
predictor == <<poison, inBuffer, podPc, model, hand, arrived, disruptions>>
sink == <<flags, unread, toWrite, acked, sinkPc, received, datum, attempts, ok,
          failed, reported, answered, dropped, aborts>>
vars == <<frontline, predictor, sink, call, lost>>

Pod == INSTANCE Frontline

Vertex == INSTANCE Predictor WITH MaxDisruptions <- MaxFaults

\* The controller creates the sink with no argument but its name, and reads in
\* batches of one.  What exec returns always decodes.
Sink == INSTANCE HttpSink WITH
  NMessages <- Cardinality(Requests), Undecodable <- {}, ReadBatchSize <- 1,
  Flags <- {[retries |-> Retries, drop |-> FALSE]}, MaxAborts <- MaxFaults,
  pc <- sinkPc

Init ==
  /\ Pod!Init /\ cbReq = [c \in Callbacks |-> CHOOSE r \in Requests : TRUE]
  /\ Vertex!Init
  /\ Sink!Init
  /\ call = {} /\ lost = 0

-----------------------------------------------------------------------------
(* The frontline pod *)

PodAlone == UNCHANGED <<predictor, sink, call, lost>>

\* A body is cut short only if the sink no longer waits for the reply.
ReadBody(c) ==
  /\ Pod!ReadBody(c)
  /\ c \in call => cbData'[c] = "answer"

HandleCallback(c) ==
  /\ Pod!TakeSession(c) \/ Pod!SessionNotFound(c) \/ ReadBody(c) \/ Pod!HandOver(c)
  /\ PodAlone

HandleRequest(r) == Pod!Handler(r) /\ PodAlone

\* The source vertex replies; a request it accepts is a message.
SourceReplies(r) ==
  /\ Pod!BackendDecides(r)
  /\ inBuffer' = IF backend'[r] = "accepted" THEN Append(inBuffer, r) ELSE inBuffer
  /\ UNCHANGED <<sink, call, lost, poison, podPc, model, hand, arrived, disruptions>>

MayFail == aborts + disruptions + lost < MaxFaults

\* The sink gives up on its POST, if one was delivered.
LoseCall ==
  /\ call' = {}
  /\ IF call = {} THEN UNCHANGED lost ELSE MayFail /\ lost' = lost + 1

\* With the process goes the connection of the callback it was serving.
PodDies ==
  /\ Pod!MapRace \/ Pod!PodKilled
  /\ LoseCall
  /\ IF call = {} THEN UNCHANGED sink ELSE Sink!PostFails
  /\ UNCHANGED predictor

-----------------------------------------------------------------------------
(* The predictor *)

Predict(p) ==
  /\ Vertex!InitContainer(p) \/ Vertex!Work(p)
  /\ UNCHANGED <<frontline, sink, call, lost>>

Disturb(p) ==
  /\ MayFail
  /\ Vertex!Restart(p) \/ Vertex!Evict(p)
  /\ UNCHANGED <<frontline, sink, call, lost>>

-----------------------------------------------------------------------------
(* The sink *)

ReadMessage == Sink!ReadBatch /\ unread <= Len(arrived)

SinkSteps ==
  /\ \/ ReadMessage \/ Sink!CallSink \/ Sink!Reply
     \/ Sink!ReceiveDecodable \/ Sink!Attempt \/ Sink!RecordFailure
     \/ Sink!EndOfStream
  /\ UNCHANGED <<frontline, predictor, call, lost>>

\* Mutant: the callback goes to the sender of the newest message.
DeliverNewest ==
  LET idle == {c \in Callbacks : cbPc[c] = "idle"} IN
  /\ sinkPc = "inFlight" /\ call = {}
  /\ \E c \in idle :
       /\ \A d \in idle : c <= d
       /\ Pod!CallBack(c, arrived[Len(arrived)])
       /\ call' = {c}
  /\ UNCHANGED <<predictor, sink, lost>>

\* The POST reaches the pod that GetDestination names, and a goroutine of
\* handleResponse starts.
Deliver ==
  LET idle == {c \in Callbacks : cbPc[c] = "idle"} IN
  /\ sinkPc = "inFlight" /\ call = {}
  /\ \E c \in idle :
       /\ \A d \in idle : c <= d
       /\ Pod!CallBack(c, arrived[datum])
       /\ call' = {c}
  /\ UNCHANGED <<predictor, sink, lost>>

\* handleResponse replied, or returned and net/http replied for it.
ReplyArrives ==
  /\ \E c \in call : cbPc[c] \in {"replied", "notFound"}
  /\ Sink!PostAnswered
  /\ call' = {}
  /\ UNCHANGED <<frontline, predictor, lost>>

\* No connection, or no reply before --timeout.  The goroutine of the callback
\* does not notice.
PostFails ==
  /\ Sink!PostFails
  /\ LoseCall
  /\ UNCHANGED <<frontline, predictor>>

SinkDies ==
  /\ MayFail
  /\ Sink!Abort
  /\ call' = {}
  /\ UNCHANGED <<frontline, predictor, lost>>

-----------------------------------------------------------------------------
Next ==
  \/ \E r \in Requests : HandleRequest(r) \/ SourceReplies(r)
  \/ \E c \in Callbacks : HandleCallback(c)
  \/ PodDies
  \/ \E p \in Pods : Predict(p) \/ Disturb(p)
  \/ SinkSteps \/ Deliver \/ ReplyArrives \/ PostFails \/ SinkDies

Spec == Init /\ [][Next]_vars

\* What can run is run: the pod's callbacks, the predictor's containers, the
\* sink.  (Of each no more than one at a time is asked for; none can go on for
\* ever.)  A pod that is tried for ever is reached in the end.  Nothing is assumed
\* of clients, of the source vertex or of Post, which has no timeout.
Fairness ==
  /\ WF_vars(\E c \in Callbacks : HandleCallback(c))
  /\ WF_vars(\E p \in Pods : Predict(p))
  /\ WF_vars(SinkSteps \/ ReplyArrives)
  /\ SF_vars(Deliver)

FairSpec == Spec /\ Fairness

-----------------------------------------------------------------------------
(* Correctness *)

IsAt(r, places) == \E c \in Callbacks : cbReq[c] = r /\ cbPc[c] \in places

Elements(s) == {s[i] : i \in 1..Len(s)}
Distinct(s) == \A i, j \in 1..Len(s) : s[i] = s[j] => i = j

\* What is read, delivered and called is what the predictor has sent on.
JointTypes ==
  /\ unread \in Nat /\ unread > 0 /\ unread <= Len(arrived) + 1
  /\ toWrite \subseteq 1..unread - 1
  /\ sinkPc \in {"backoff", "inFlight"} => datum \in toWrite
  /\ call # {} => sinkPc = "inFlight" /\ \E c \in Callbacks : call = {c}
  /\ lost \in Nat

InHand(p, r) == hand[p] = <<r>>

\* An accepted request is one message, in one place, and there is no other.
OneMessage ==
  /\ Distinct(inBuffer) /\ Distinct(arrived)
  /\ Elements(inBuffer) \cap Elements(arrived) = {}
  /\ \A p \in Pods, r \in Requests : InHand(p, r) =>
       /\ r \notin Elements(inBuffer) \cup Elements(arrived)
       /\ \A q \in Pods : InHand(q, r) => q = p
  /\ \A r \in Requests :
       backend[r] = "accepted" <=> \/ r \in Elements(inBuffer) \cup Elements(arrived)
                                   \/ \E p \in Pods : InHand(p, r)

TypeOK == Pod!TypeOK /\ Vertex!TypeOK /\ Sink!TypeOK /\ JointTypes /\ OneMessage

Status(r) ==
  CASE pc[r] = "idle" -> "idle"
    [] pc[r] = "done" -> "answered"
    [] pc[r] = "dead" -> "lost"
    [] OTHER          -> "open"

Service == INSTANCE InferenceService WITH
  status   <- [r \in Requests |-> Status(r)],
  computed <- Elements(arrived),
  replies  <- written

\* Sessions, retries and callbacks together keep the promise of
\* InferenceService: at most one answer to a call, as the last thing it gets, and
\* none that the pipeline did not compute, whatever is lost, repeated or restarted
\* on the way (handle.go:18-78, httpsink.go:54-130).
KeepsPromise == Service!Spec

\* The client was given what was computed, or a callback for it found no session.
Closed(r) == Pod!LastWritten(r, "answer") \/ IsAt(r, {"notFound"})

\* When numaflow forgets a message, its client was given the answer, or a callback
\* found no session to give it to.  What is forgotten cannot be delivered any
\* more, so no failed attempt, no callback that is still on its way and no body
\* that was cut short may lead to it (httpsink.go:115-129, handle.go:62-75).
ForgottenIsCalled == \A m \in acked : Closed(arrived[m])

\* The message of r waits to be read, is in a pod's hands, or is at the sink.
OnTheWay(r) ==
  \/ r \in Elements(inBuffer)
  \/ \E p \in Pods : InHand(p, r)
  \/ \E m \in 1..Len(arrived) : arrived[m] = r /\ (m >= unread \/ m \in toWrite)

\* No accepted request drops out on the way, whatever is retried, restarted or
\* lost: until its client has the answer, or its callback was turned away, it is
\* in a buffer, in some pod's hands or with the sink (httpsink.go:54-130,
\* udf.py:39-59).
NothingLost ==
  \A r \in Requests : backend[r] = "accepted" => OnTheWay(r) \/ Closed(r)

\* A request that the source accepted and exec can compute does not stay on the
\* way for ever, through restarts and lost calls, unless all of the predictor's
\* pods are left stuck: with a message they can never finish, which numaflow has
\* them try for ever (udf.py:43-46), or without a model (s3.go:40-43).
AcceptedIsWorkedOff ==
  \A r \in Requests :
    ~<>[](/\ backend[r] = "accepted" /\ r \notin poison
          /\ \A m \in acked : arrived[m] # r
          /\ \E p \in Pods : ~Vertex!Stuck(p))

\* Nor does its client wait for ever, under the same proviso, unless the answer
\* came before the session was registered and was turned away (FrontlineLost):
\* no retry, late reply or answer to somebody else uses up its session.
WaiterIsAnswered ==
  \A r \in Requests :
    ~<>[](/\ pc[r] = "waiting"
          /\ backend[r] = "accepted" /\ r \notin poison
          /\ IsAt(r, {"notFound"}) => IsAt(r, {"reading", "sending"})
          /\ \E p \in Pods : ~Vertex!Stuck(p))

=============================================================================
