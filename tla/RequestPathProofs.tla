------------------------- MODULE RequestPathProofs -------------------------
(***************************************************************************)
(* The whole request path implements InferenceService, for any number of   *)
(* clients, predictor pods, retries and faults.                            *)
(*                                                                         *)
(* Frontline and HttpSink keep what was proved of each alone, because      *)
(* every step of the composition is a step, or none, of either; what the   *)
(* promise needs beyond that is that messages stay what they are between   *)
(* the two.                                                                *)
(***************************************************************************)
EXTENDS RequestPath, FiniteSetTheorems, TLAPS

PodProofs == INSTANCE FrontlineProofs

SinkProofs == INSTANCE HttpSinkProofs WITH
  NMessages <- Cardinality(Requests), Undecodable <- {}, ReadBatchSize <- 1,
  Flags <- {[retries |-> Retries, drop |-> FALSE]}, MaxAborts <- MaxFaults,
  pc <- sinkPc

-----------------------------------------------------------------------------
(* Sequences of messages *)

\* What one more message does to a buffer, at either end.
LEMMA OneMore ==
  ASSUME NEW S, NEW s \in Seq(S), NEW r \in S,
         NEW t \in {<<r>> \o s, s \o <<r>>, Append(s, r)}
  PROVE  /\ t \in Seq(S) /\ Len(t) = Len(s) + 1
         /\ Elements(t) = Elements(s) \cup {r}
         /\ Distinct(s) /\ r \notin Elements(s) => Distinct(t)
<1>1. Len(s) \in Nat /\ t \in Seq(S) /\ Len(t) = Len(s) + 1
  <2>1. <<r>> \in Seq(S) /\ Len(<<r>>) = 1
    OBVIOUS
  <2>2. CASE t = <<r>> \o s
    BY <2>1, <2>2
  <2>3. CASE t = s \o <<r>>
    BY <2>1, <2>3
  <2>4. CASE t = Append(s, r)
    BY <2>4
  <2> QED
    BY <2>2, <2>3, <2>4
<1>2. CASE t = <<r>> \o s
  <2>1. t[1] = r /\ \A i \in 1..Len(s) : t[i + 1] = s[i]
    BY <1>2
  <2>2. \A i \in 1..Len(t) : i = 1 \/ (i - 1 \in 1..Len(s) /\ t[i] = s[i - 1])
    BY <1>1, <2>1
  <2>3. 1 \in 1..Len(t) /\ \A i \in 1..Len(s) : i + 1 \in 1..Len(t)
    BY <1>1
  <2>4. Elements(t) \subseteq Elements(s) \cup {r}
    <3>1. ASSUME NEW i \in 1..Len(t) PROVE t[i] \in Elements(s) \cup {r}
      BY <2>1, <2>2 DEF Elements
    <3> QED
      BY <3>1 DEF Elements
  <2>5. Elements(s) \cup {r} \subseteq Elements(t)
    <3>1. r \in Elements(t)
      BY <2>1, <2>3 DEF Elements
    <3>2. ASSUME NEW i \in 1..Len(s) PROVE s[i] \in Elements(t)
      BY <2>1, <2>3 DEF Elements
    <3> QED
      BY <3>1, <3>2 DEF Elements
  <2>6. ASSUME Distinct(s), r \notin Elements(s), NEW i \in 1..Len(t), NEW j \in 1..Len(t),
               t[i] = t[j]
        PROVE  i = j
    <3>1. \A k \in 1..Len(s) : s[k] # r
      BY <2>6 DEF Elements
    <3>2. CASE i = 1 \/ j = 1
      BY <2>1, <2>2, <2>6, <3>1, <3>2
    <3>3. CASE i # 1 /\ j # 1
      <4>1. i - 1 \in 1..Len(s) /\ j - 1 \in 1..Len(s) /\ s[i - 1] = s[j - 1]
        BY <2>2, <2>6, <3>3
      <4>2. i - 1 = j - 1
        BY <2>6, <4>1 DEF Distinct
      <4> QED
        BY <4>2
    <3> QED
      BY <3>2, <3>3
  <2>7. Distinct(s) /\ r \notin Elements(s) => Distinct(t)
    BY <2>6 DEF Distinct
  <2> QED
    BY <1>1, <2>4, <2>5, <2>7
<1>3. CASE t = s \o <<r>> \/ t = Append(s, r)
  <2>1. t[Len(s) + 1] = r /\ \A i \in 1..Len(s) : t[i] = s[i]
    BY <1>3
  <2>2. 1..Len(t) = 1..Len(s) \cup {Len(s) + 1}
    BY <1>1
  <2>3. Elements(t) = Elements(s) \cup {r}
    BY <2>1, <2>2 DEF Elements
  <2>4. Distinct(s) /\ r \notin Elements(s) => Distinct(t)
    BY <2>1, <2>2 DEF Distinct, Elements
  <2> QED
    BY <1>1, <2>3, <2>4
<1> QED
  BY <1>2, <1>3

\* What reading the first message does to a buffer.
LEMMA OneLess ==
  ASSUME NEW S, NEW s \in Seq(S), s # <<>>
  PROVE  /\ Head(s) \in S /\ Tail(s) \in Seq(S)
         /\ Elements(s) = Elements(Tail(s)) \cup {Head(s)}
         /\ Distinct(s) => Distinct(Tail(s)) /\ Head(s) \notin Elements(Tail(s))
<1> DEFINE t == Tail(s)
<1>1. /\ Len(s) \in Nat /\ Len(s) > 0 /\ Head(s) = s[1] /\ Head(s) \in S
      /\ t \in Seq(S) /\ Len(t) = Len(s) - 1
  OBVIOUS
<1>2. \A i \in 1..Len(t) : t[i] = s[i + 1] /\ i + 1 \in 1..Len(s)
  BY <1>1
<1> HIDE DEF t
<1>3. \A i \in 1..Len(s) : i = 1 \/ (i - 1 \in 1..Len(t) /\ s[i] = t[i - 1])
  BY <1>1, <1>2
<1>4. 1 \in 1..Len(s)
  BY <1>1
<1>5. Elements(s) = Elements(t) \cup {Head(s)}
  <2>1. Elements(s) \subseteq Elements(t) \cup {Head(s)}
    BY <1>1, <1>3 DEF Elements
  <2>2. Elements(t) \subseteq Elements(s) /\ Head(s) \in Elements(s)
    BY <1>1, <1>2, <1>4 DEF Elements
  <2> HIDE DEF Elements
  <2> QED
    BY <2>1, <2>2, Zenon
<1>6. ASSUME Distinct(s)
      PROVE  Distinct(t) /\ Head(s) \notin Elements(t)
  <2>1. ASSUME NEW i \in 1..Len(t), NEW j \in 1..Len(t), t[i] = t[j]
        PROVE  i = j
    <3>1. i + 1 = j + 1
      BY <1>2, <1>6, <2>1 DEF Distinct
    <3> QED
      BY <3>1
  <2>2. ASSUME NEW i \in 1..Len(t), t[i] = Head(s)
        PROVE  FALSE
    <3>1. i + 1 = 1
      BY <1>1, <1>2, <1>4, <1>6, <2>2 DEF Distinct
    <3> QED
      BY <3>1
  <2> QED
    BY <2>1, <2>2 DEF Distinct, Elements
<1> QED
  BY <1>1, <1>5, <1>6 DEF t

-----------------------------------------------------------------------------
(* What joins the components *)

JointInv == Vertex!TypeOK /\ JointTypes

\* A step that leaves arrived alone keeps the types if it keeps those of the
\* predictor and of the sink's side.
LEMMA QuietJoints ==
  ASSUME JointInv, UNCHANGED <<sink, call, lost>>, arrived' = arrived, Vertex!TypeOK'
  PROVE  JointInv'
BY DEF JointInv, JointTypes, sink

\* Predictor's types, for every step of it.
LEMMA PredictorTypes ==
  ASSUME Vertex!TypeOK, NEW p \in Pods,
         Vertex!InitContainer(p) \/ Vertex!Work(p) \/ Vertex!Restart(p) \/ Vertex!Evict(p)
  PROVE  /\ Vertex!TypeOK'
         /\ ~Vertex!Infer(p) => arrived' = arrived
         /\ Vertex!Infer(p) => Len(arrived') = Len(arrived) + 1
<1> USE DEF Vertex!TypeOK
<1>0. \A r \in Requests : <<r>> # <<>>
  OBVIOUS
<1>1. CASE Vertex!ListFails(p)
  BY <1>1 DEF Vertex!ListFails, Vertex!GoTo, Vertex!Infer
<1>2. CASE Vertex!Download(p)
  BY <1>2 DEF Vertex!Download, Vertex!GoTo, Vertex!Infer
<1>3. CASE Vertex!Load(p)
  BY <1>3 DEF Vertex!Load, Vertex!GoTo, Vertex!Infer
<1>4. CASE Vertex!Read(p)
  <2>1. Head(inBuffer) \in Requests /\ Tail(inBuffer) \in Seq(Requests)
    BY <1>4, OneLess DEF Vertex!Read
  <2>2. <<Head(inBuffer)>> \in {<<>>} \cup {<<r>> : r \in Requests}
    BY <2>1
  <2> QED
    BY <1>4, <2>1, <2>2 DEF Vertex!Read, Vertex!Infer
<1>5. CASE Vertex!Infer(p)
  <2>1. PICK r \in Requests : hand[p] = <<r>>
    BY <1>5 DEF Vertex!Infer
  <2>2. arrived' = arrived \o <<r>>
    BY <1>5, <2>1 DEF Vertex!Infer
  <2>3. arrived' \in Seq(Requests) /\ Len(arrived') = Len(arrived) + 1
    BY <2>2, OneMore
  <2> QED
    BY <1>5, <2>3 DEF Vertex!Infer
<1>6. CASE Vertex!Restart(p)
  BY <1>6 DEF Vertex!Restart, Vertex!GoTo, Vertex!Disrupt, Vertex!Infer
<1>7. CASE Vertex!Evict(p)
  <2>1. inBuffer' \in Seq(Requests)
    <3>1. CASE hand[p] = <<>>
      <4>1. <<>> \o inBuffer = inBuffer /\ inBuffer \o <<>> = inBuffer
        OBVIOUS
      <4> QED
        BY <1>7, <3>1, <4>1 DEF Vertex!Evict
    <3>2. ASSUME NEW r \in Requests, hand[p] = <<r>> PROVE inBuffer' \in Seq(Requests)
      <4>1. /\ <<r>> \o inBuffer \in Seq(Requests)
            /\ inBuffer \o <<r>> \in Seq(Requests)
        BY OneMore
      <4> QED
        BY <1>7, <3>2, <4>1 DEF Vertex!Evict
    <3> QED
      BY <3>1, <3>2
  <2> QED
    BY <1>7, <2>1 DEF Vertex!Evict, Vertex!GoTo, Vertex!Disrupt, Vertex!Infer
<1> QED
  BY <1>1, <1>2, <1>3, <1>4, <1>5, <1>6, <1>7 DEF Vertex!InitContainer, Vertex!Work

\* The steps of the sink's side never point at a message the predictor has not
\* sent on.
LEMMA SinkJoints ==
  ASSUME JointInv, ReadMessage \/ Sink!CallSink \/ Sink!Reply \/ Sink!ReceiveDecodable
                     \/ Sink!Attempt \/ Sink!RecordFailure \/ Sink!EndOfStream,
         UNCHANGED <<frontline, predictor, call, lost>>
  PROVE  JointInv'
<1> USE DEF JointInv, JointTypes, predictor, Sink!platform
<1>0. Vertex!TypeOK'
  BY DEF Vertex!TypeOK
<1>1. CASE ReadMessage
  <2>1. /\ toWrite' = unread .. unread + 1 - 1 /\ unread' = unread + 1
        /\ unread <= Len(arrived) /\ sinkPc = "idle" /\ sinkPc' = "idle"
    BY <1>1 DEF ReadMessage, Sink!ReadBatch
  <2>2. Len(arrived) \in Nat
    BY DEF Vertex!TypeOK
  <2> QED
    BY <1>0, <2>1, <2>2
<1>2. CASE Sink!CallSink
  BY <1>0, <1>2 DEF Sink!CallSink
<1>3. CASE Sink!Reply
  BY <1>0, <1>3 DEF Sink!Reply
<1>4. CASE Sink!ReceiveDecodable
  BY <1>0, <1>4 DEF Sink!ReceiveDecodable, Sink!Receive
<1>5. CASE Sink!Attempt
  BY <1>0, <1>5 DEF Sink!Attempt
<1>6. CASE Sink!RecordFailure
  BY <1>0, <1>6 DEF Sink!RecordFailure
<1>7. CASE Sink!EndOfStream
  BY <1>0, <1>7 DEF Sink!EndOfStream
<1> QED
  BY <1>1, <1>2, <1>3, <1>4, <1>5, <1>6, <1>7

\* What is read, delivered and called is what the predictor has sent on, through
\* every loss and repetition (httpsink.go:54-130, installer.go:570-574).
THEOREM Joints == Spec => []JointInv
<1>1. Init => JointInv
  <2> SUFFICES ASSUME Init PROVE JointInv
    OBVIOUS
  <2>1. Vertex!TypeOK
    BY DEF Init, Vertex!Init, Vertex!TypeOK
  <2>2. JointTypes
    <3>1. arrived = <<>> /\ Len(<<>>) = 0
      BY DEF Init, Vertex!Init
    <3> QED
      BY <3>1 DEF Init, Sink!Init, JointTypes
  <2> QED
    BY <2>1, <2>2 DEF JointInv
<1>2. JointInv /\ [Next]_vars => JointInv'
  <2> SUFFICES ASSUME JointInv, [Next]_vars PROVE JointInv'
    OBVIOUS
  <2>0. Vertex!TypeOK /\ JointTypes
    BY DEF JointInv
  <2>1. ASSUME NEW r \in Requests, HandleRequest(r) PROVE JointInv'
    BY <2>0, <2>1, QuietJoints DEF HandleRequest, PodAlone, predictor, Vertex!TypeOK
  <2>2. ASSUME NEW r \in Requests, SourceReplies(r) PROVE JointInv'
    <3>1. inBuffer' \in Seq(Requests)
      BY <2>0, <2>2, OneMore DEF SourceReplies, Vertex!TypeOK
    <3> QED
      BY <2>0, <2>2, <3>1, QuietJoints DEF SourceReplies, Vertex!TypeOK
  <2>3. ASSUME NEW c \in Callbacks, HandleCallback(c) PROVE JointInv'
    BY <2>0, <2>3, QuietJoints DEF HandleCallback, PodAlone, predictor, Vertex!TypeOK
  <2>4. CASE PodDies
    <3>1. UNCHANGED predictor /\ call' = {} /\ lost' \in Nat
      BY <2>0, <2>4 DEF PodDies, LoseCall, JointTypes
    <3>2. CASE UNCHANGED sink
      BY <2>0, <3>1, <3>2 DEF predictor, sink, JointInv, JointTypes, Vertex!TypeOK
    <3>3. CASE Sink!PostFails
      BY <2>0, <3>1, <3>3 DEF Sink!PostFails, Sink!platform, predictor,
         JointInv, JointTypes, Vertex!TypeOK
    <3> QED
      BY <2>4, <3>2, <3>3 DEF PodDies
  <2>5. ASSUME NEW p \in Pods, Predict(p) \/ Disturb(p) PROVE JointInv'
    <3>1. Vertex!InitContainer(p) \/ Vertex!Work(p) \/ Vertex!Restart(p) \/ Vertex!Evict(p)
      BY <2>5 DEF Predict, Disturb
    <3>2. UNCHANGED <<frontline, sink, call, lost>>
      BY <2>5 DEF Predict, Disturb
    <3>3. Vertex!TypeOK' /\ (arrived' = arrived \/ Len(arrived') = Len(arrived) + 1)
      BY <2>0, <3>1, PredictorTypes
    <3>4. Len(arrived) \in Nat
      BY <2>0 DEF Vertex!TypeOK
    <3> QED
      BY <2>0, <3>2, <3>3, <3>4 DEF JointInv, JointTypes, sink
  <2>6. CASE SinkSteps
    BY <2>6, SinkJoints DEF SinkSteps
  <2>7. CASE Deliver
    BY <2>0, <2>7 DEF Deliver, JointInv, JointTypes, predictor, sink, Vertex!TypeOK
  <2>8. CASE ReplyArrives
    BY <2>0, <2>8 DEF ReplyArrives, Sink!PostAnswered, Sink!platform, predictor,
       JointInv, JointTypes, Vertex!TypeOK
  <2>9. CASE PostFails
    BY <2>0, <2>9 DEF PostFails, LoseCall, Sink!PostFails, Sink!platform, predictor,
       JointInv, JointTypes, Vertex!TypeOK
  <2>10. CASE SinkDies
    BY <2>0, <2>10 DEF SinkDies, Sink!Abort, Sink!platform, predictor,
       JointInv, JointTypes, Vertex!TypeOK
  <2>11. CASE UNCHANGED vars
    BY <2>0, <2>11, QuietJoints DEF vars, predictor, Vertex!TypeOK
  <2> QED
    BY <2>1, <2>2, <2>3, <2>4, <2>5, <2>6, <2>7, <2>8, <2>9, <2>10, <2>11 DEF Next
<1> QED
  BY <1>1, <1>2, PTL DEF Spec

-----------------------------------------------------------------------------
(* The components in the composition *)

\* The frontline pod of the composition is the one of Frontline: clients, source
\* and sink do to it nothing that module does not allow for.
THEOREM PodInPath == Spec => Pod!Spec
<1>1. Init => Pod!Init
  BY DEF Init
<1>2. JointInv /\ [Next]_vars => [Pod!Next]_(Pod!vars)
  <2> SUFFICES ASSUME JointInv, [Next]_vars PROVE [Pod!Next]_(Pod!vars)
    OBVIOUS
  <2>1. ASSUME NEW r \in Requests, HandleRequest(r) PROVE Pod!Next
    BY <2>1 DEF HandleRequest, Pod!Next
  <2>2. ASSUME NEW r \in Requests, SourceReplies(r) PROVE Pod!Next
    BY <2>2 DEF SourceReplies, Pod!Next
  <2>3. ASSUME NEW c \in Callbacks, HandleCallback(c) PROVE Pod!Next
    BY <2>3 DEF HandleCallback, ReadBody, Pod!CallbackHandler, Pod!Next
  <2>4. CASE PodDies
    BY <2>4 DEF PodDies, Pod!Next
  <2>5. CASE Deliver
    <3>1. arrived \in Seq(Requests) /\ Len(arrived) \in Nat
      BY DEF JointInv, Vertex!TypeOK
    <3>2. arrived[datum] \in Requests
      <4>1. datum \in 1..unread - 1 /\ unread \in Nat /\ unread <= Len(arrived) + 1
        BY <2>5 DEF Deliver, JointInv, JointTypes
      <4>2. datum \in 1..Len(arrived)
        BY <3>1, <4>1
      <4> QED
        BY <3>1, <4>2
    <3> QED
      BY <2>5, <3>2 DEF Deliver, Pod!Next
  <2>6. CASE UNCHANGED frontline
    BY <2>6 DEF frontline, Pod!vars
  <2> QED
    BY <2>1, <2>2, <2>3, <2>4, <2>5, <2>6
    DEF Next, vars, Predict, Disturb, SinkSteps, ReplyArrives, PostFails, SinkDies
<1> QED
  BY <1>1, <1>2, Joints, PTL DEF Spec, Pod!Spec

\* Nor does the composition do to the sink anything HttpSink does not allow for.
THEOREM SinkInPath == Spec => Sink!Spec
<1>1. Init => Sink!Init
  BY DEF Init
<1>2. [Next]_vars => [Sink!Next]_(Sink!vars)
  <2> SUFFICES ASSUME [Next]_vars PROVE [Sink!Next]_(Sink!vars)
    OBVIOUS
  <2>1. CASE SinkSteps
    BY <2>1 DEF SinkSteps, ReadMessage, Sink!Sink, Sink!Next
  <2>2. CASE PodDies
    BY <2>2 DEF PodDies, Sink!Sink, Sink!Next, sink, Sink!vars, Sink!platform
  <2>3. CASE ReplyArrives \/ PostFails \/ SinkDies
    BY <2>3 DEF ReplyArrives, PostFails, SinkDies, Sink!Sink, Sink!Next
  <2>4. CASE UNCHANGED sink
    BY <2>4 DEF sink, Sink!vars, Sink!platform
  <2> QED
    BY <2>1, <2>2, <2>3, <2>4
    DEF Next, vars, HandleRequest, HandleCallback, PodAlone, SourceReplies, Predict,
        Disturb, Deliver
<1> QED
  BY <1>1, <1>2, PTL DEF Spec, Sink!Spec

-----------------------------------------------------------------------------
(* What was proved of each of them alone *)

\* The pod of the composition is the one FrontlineProofs is about.
LEMMA SamePod == Pod!Spec => PodProofs!Spec
<1>1. Pod!Init => PodProofs!Init
  BY DEF Pod!Init, PodProofs!Init
<1>2. [Pod!Next]_(Pod!vars) => [PodProofs!Next]_(PodProofs!vars)
  BY DEF Pod!Next, PodProofs!Next, Pod!vars, PodProofs!vars,
     Pod!Handler, PodProofs!Handler, Pod!CallbackHandler, PodProofs!CallbackHandler,
     Pod!Predict, PodProofs!Predict, Pod!Printed, PodProofs!Printed,
     Pod!PostReturns, PodProofs!PostReturns, Pod!PostFails, PodProofs!PostFails,
     Pod!Register, PodProofs!Register, Pod!TakeSession, PodProofs!TakeSession,
     Pod!SessionNotFound, PodProofs!SessionNotFound, Pod!ReadBody, PodProofs!ReadBody,
     Pod!HandOver, PodProofs!HandOver, Pod!BackendDecides, PodProofs!BackendDecides,
     Pod!CallBack, PodProofs!CallBack, Pod!MapRace, PodProofs!MapRace,
     Pod!PodKilled, PodProofs!PodKilled, Pod!Crash, PodProofs!Crash,
     Pod!AboutToWriteMap, PodProofs!AboutToWriteMap, Pod!GoTo, PodProofs!GoTo,
     Pod!CbGoTo, PodProofs!CbGoTo, Pod!Answers, PodProofs!Answers
<1> QED
  BY <1>1, <1>2, PTL DEF Pod!Spec, PodProofs!Spec

\* And so is the sink.
LEMMA SameSink == Sink!Spec => SinkProofs!Spec
<1>1. Sink!Init => SinkProofs!Init
  BY DEF Sink!Init, SinkProofs!Init
<1>2. [Sink!Next]_(Sink!vars) => [SinkProofs!Next]_(SinkProofs!vars)
  BY DEF Sink!Next, SinkProofs!Next, Sink!vars, SinkProofs!vars,
     Sink!platform, SinkProofs!platform, Sink!Sink, SinkProofs!Sink,
     Sink!ReadBatch, SinkProofs!ReadBatch, Sink!CallSink, SinkProofs!CallSink,
     Sink!Reply, SinkProofs!Reply, Sink!Abort, SinkProofs!Abort,
     Sink!Receive, SinkProofs!Receive, Sink!ReceiveUndecodable, SinkProofs!ReceiveUndecodable,
     Sink!ReceiveDecodable, SinkProofs!ReceiveDecodable, Sink!Attempt, SinkProofs!Attempt,
     Sink!PostAnswered, SinkProofs!PostAnswered, Sink!PostFails, SinkProofs!PostFails,
     Sink!RecordFailure, SinkProofs!RecordFailure, Sink!Drop, SinkProofs!Drop,
     Sink!EndOfStream, SinkProofs!EndOfStream, Sink!Messages, SinkProofs!Messages
<1> QED
  BY <1>1, <1>2, PTL DEF Sink!Spec, SinkProofs!Spec

LEMMA PodTypes == Spec => []Pod!TypeOK
<1>1. PodProofs!TypeOK => Pod!TypeOK
  BY DEF PodProofs!TypeOK, Pod!TypeOK, PodProofs!HandlerPcs, Pod!HandlerPcs,
     PodProofs!CallbackPcs, Pod!CallbackPcs, PodProofs!Bodies, Pod!Bodies,
     PodProofs!Answers, Pod!Answers
<1> QED
  BY <1>1, PodInPath, SamePod, PodProofs!Typing, PTL

\* The pod's sessions are in order behind the pipeline, too: no callback blocks,
\* no waiting request is out of reach, and each answer is the only one and took
\* one callback, however the sink retries and pods die (handle.go:47-76,
\* session.go:13-25).
THEOREM PodIsSafeInPath ==
  Spec => []( /\ Pod!SenderHasReceiver /\ Pod!WaitingIsReachable
              /\ Pod!AnsweredOnce /\ Pod!OneCallbackPerAnswer)
<1>1. /\ PodProofs!SenderHasReceiver <=> Pod!SenderHasReceiver
      /\ PodProofs!WaitingIsReachable <=> Pod!WaitingIsReachable
  BY DEF PodProofs!SenderHasReceiver, Pod!SenderHasReceiver, PodProofs!Holding,
     Pod!Holding, PodProofs!WaitingIsReachable, Pod!WaitingIsReachable
<1>2. PodProofs!AnsweredOnce <=> Pod!AnsweredOnce
  BY DEF PodProofs!AnsweredOnce, Pod!AnsweredOnce, PodProofs!AnswersAt, Pod!AnswersAt,
     PodProofs!Answers, Pod!Answers
<1>3. PodProofs!OneCallbackPerAnswer <=> Pod!OneCallbackPerAnswer
  BY DEF PodProofs!OneCallbackPerAnswer, Pod!OneCallbackPerAnswer,
     PodProofs!LastWritten, Pod!LastWritten
<1> QED
  BY <1>1, <1>2, <1>3, PodInPath, SamePod, PodProofs!SenderAlwaysHasReceiver,
     PodProofs!WaitingAlwaysReachable, PodProofs!AnsweredAtMostOnce,
     PodProofs!OneCallbackEach, PTL

\* A message the sink has read is being written or is acknowledged.
Kept == 1..unread - 1 \subseteq toWrite \cup acked

LEMMA SinkTypes == Spec => [](Sink!TypeOK /\ acked \subseteq answered /\ Kept)
<1>1. SinkProofs!TypeOK /\ SinkProofs!NoFalseAck /\ SinkProofs!KeptOrAcked
        => Sink!TypeOK /\ acked \subseteq answered /\ Kept
  BY DEF SinkProofs!TypeOK, Sink!TypeOK, SinkProofs!Messages, Sink!Messages,
     SinkProofs!NoFalseAck, SinkProofs!KeptOrAcked, Kept
<1>2. SinkProofs!SinkAssumption
  BY PathAssumption, FS_CardinalityType DEF SinkProofs!SinkAssumption, SinkProofs!Messages
<1>3. SinkProofs!Spec => /\ []SinkProofs!TypeOK /\ []SinkProofs!NoFalseAck
                         /\ []SinkProofs!KeptOrAcked
  BY <1>2, SinkProofs!SinkTyping, SinkProofs!AckMeansAnswered, SinkProofs!NothingDropsOut
<1> QED
  BY <1>1, SinkInPath, SameSink, <1>3, PTL

-----------------------------------------------------------------------------
(* One message for each accepted request *)

\* A request that was not put on the wire is unknown to the pipeline, and nothing
\* is written to its client before Post has returned (handle.go:31-43).
Early ==
  \A r \in Requests :
    /\ pc[r] \in {"idle", "printing"} => backend[r] = "unseen"
    /\ pc[r] \in {"idle", "printing", "posting"} => written[r] = <<>>

\* The sink calls back only for a result that reached it (httpsink.go:88-103).
CalledHasArrived ==
  \A c \in Callbacks : cbPc[c] # "idle" => cbReq[c] \in Elements(arrived)

PathInv == JointInv /\ Pod!TypeOK /\ OneMessage /\ Early /\ CalledHasArrived

\* A step keeps the messages if it moves none and no request is accepted in it.
LEMMA SameMessages ==
  ASSUME OneMessage, inBuffer' = inBuffer, hand' = hand, arrived' = arrived,
         \A r \in Requests : backend'[r] = "accepted" <=> backend[r] = "accepted"
  PROVE  OneMessage'
BY DEF OneMessage, InHand

\* What a pod has in hand after it has read, and after it has let go of it.
LEMMA Hands ==
  ASSUME Vertex!TypeOK, NEW p \in Pods, NEW r \in Requests
  PROVE  /\ hand' = [hand EXCEPT ![p] = <<r>>] /\ hand[p] = <<>> =>
              \A q \in Pods, s \in Requests :
                InHand(q, s)' <=> InHand(q, s) \/ (q = p /\ s = r)
         /\ hand' = [hand EXCEPT ![p] = <<>>] /\ hand[p] = <<r>> =>
              \A q \in Pods, s \in Requests :
                InHand(q, s)' <=> InHand(q, s) /\ ~(q = p /\ s = r)
<1>1. \A s \in Requests : <<s>> # <<>> /\ (<<s>> = <<r>> => s = r)
  <2> TAKE s \in Requests
  <2>1. <<s>> # <<>> /\ <<s>>[1] = s /\ <<r>>[1] = r
    OBVIOUS
  <2> QED
    BY <2>1
<1>2. ASSUME NEW q \in Pods, NEW s \in Requests, NEW v,
             hand' = [hand EXCEPT ![p] = v]
      PROVE  InHand(q, s)' <=> (q = p /\ v = <<s>>) \/ (q # p /\ InHand(q, s))
  BY <1>2 DEF Vertex!TypeOK, InHand
<1> QED
  BY <1>1, <1>2 DEF InHand

\* A step of the predictor passes a message on, or leaves it where it is.
LEMMA MessagePassed ==
  ASSUME Vertex!TypeOK, OneMessage, backend' = backend, NEW p \in Pods,
         Vertex!InitContainer(p) \/ Vertex!Work(p) \/ Vertex!Restart(p) \/ Vertex!Evict(p)
  PROVE  OneMessage'
<1>0. /\ inBuffer \in Seq(Requests) /\ arrived \in Seq(Requests)
      /\ Distinct(inBuffer) /\ Distinct(arrived)
  BY DEF Vertex!TypeOK, OneMessage
<1>1. CASE UNCHANGED <<inBuffer, hand, arrived>>
  BY <1>1, SameMessages
<1>2. CASE Vertex!Read(p)
  <2>1. PICK r : r = Head(inBuffer)
    OBVIOUS
  <2>2. /\ r \in Requests /\ Elements(inBuffer) = Elements(inBuffer') \cup {r}
        /\ Distinct(inBuffer') /\ r \notin Elements(inBuffer')
    BY <1>0, <1>2, <2>1, OneLess DEF Vertex!Read
  <2>3. hand[p] = <<>> /\ hand' = [hand EXCEPT ![p] = <<r>>] /\ arrived' = arrived
    BY <1>2, <2>1 DEF Vertex!Read
  <2>4. \A q \in Pods, s \in Requests :
          InHand(q, s)' <=> InHand(q, s) \/ (q = p /\ s = r)
    BY <2>2, <2>3, Hands
  <2> QED
    BY <2>2, <2>3, <2>4 DEF OneMessage
<1>3. CASE Vertex!Infer(p)
  <2>1. PICK r \in Requests : hand[p] = <<r>>
    BY <1>3 DEF Vertex!Infer, Vertex!TypeOK
  <2>2. /\ arrived' = arrived \o <<r>> /\ hand' = [hand EXCEPT ![p] = <<>>]
        /\ inBuffer' = inBuffer
    BY <1>3, <2>1 DEF Vertex!Infer
  <2>3. InHand(p, r) /\ r \notin Elements(arrived)
    BY <2>1 DEF OneMessage, InHand
  <2>4. Elements(arrived') = Elements(arrived) \cup {r} /\ Distinct(arrived')
    BY <1>0, <2>2, <2>3, OneMore
  <2>5. \A q \in Pods, s \in Requests :
          InHand(q, s)' <=> InHand(q, s) /\ ~(q = p /\ s = r)
    BY <2>1, <2>2, Hands
  <2> QED
    BY <2>2, <2>3, <2>4, <2>5 DEF OneMessage
<1>4. CASE Vertex!Evict(p)
  <2>1. CASE hand[p] = <<>>
    <3>1. <<>> \o inBuffer = inBuffer /\ inBuffer \o <<>> = inBuffer
      BY <1>0
    <3>2. inBuffer' = inBuffer /\ arrived' = arrived /\ hand' = hand
      BY <1>4, <2>1, <3>1 DEF Vertex!Evict, Vertex!TypeOK
    <3> QED
      BY <3>2, SameMessages
  <2>2. ASSUME NEW r \in Requests, hand[p] = <<r>> PROVE OneMessage'
    <3>1. /\ inBuffer' \in {<<r>> \o inBuffer, inBuffer \o <<r>>}
          /\ hand' = [hand EXCEPT ![p] = <<>>] /\ arrived' = arrived
      BY <1>4, <2>2 DEF Vertex!Evict
    <3>2. InHand(p, r) /\ r \notin Elements(inBuffer)
      BY <2>2 DEF OneMessage, InHand
    <3>3. Elements(inBuffer') = Elements(inBuffer) \cup {r} /\ Distinct(inBuffer')
      <4>1. CASE inBuffer' = <<r>> \o inBuffer
        BY <1>0, <3>2, <4>1, OneMore
      <4>2. CASE inBuffer' = inBuffer \o <<r>>
        BY <1>0, <3>2, <4>2, OneMore
      <4> QED
        BY <3>1, <4>1, <4>2
    <3>4. \A q \in Pods, s \in Requests :
            InHand(q, s)' <=> InHand(q, s) /\ ~(q = p /\ s = r)
      BY <2>2, <3>1, Hands
    <3> QED
      BY <3>1, <3>2, <3>3, <3>4 DEF OneMessage
  <2> QED
    BY <2>1, <2>2 DEF Vertex!TypeOK
<1> QED
  BY <1>1, <1>2, <1>3, <1>4 DEF Vertex!InitContainer, Vertex!Work, Vertex!ListFails,
     Vertex!Download, Vertex!Load, Vertex!Restart

\* A step of the pod that is neither a request on the wire nor a callback keeps
\* what is said of early handlers and of callbacks.
LEMMA PodQuiet ==
  ASSUME PathInv, arrived' = arrived, UNCHANGED <<backend, cbReq>>,
         \A r \in Requests : pc'[r] \in {"idle", "printing", "posting"} =>
           (pc'[r] = pc[r] \/ (pc[r] = "idle" /\ pc'[r] = "printing")) /\ written'[r] = written[r],
         \A c \in Callbacks : cbPc'[c] # "idle" => cbPc[c] # "idle"
  PROVE  Early' /\ CalledHasArrived'
BY DEF PathInv, Early, CalledHasArrived, Elements

\* Every accepted request is one message in one place, until it is delivered and
\* after it, across restarts of the predictor's pods and of the frontline's.
THEOREM Messages == Spec => [](OneMessage /\ Early /\ CalledHasArrived)
<1>1. Init => OneMessage /\ Early /\ CalledHasArrived
  <2> SUFFICES ASSUME Init PROVE OneMessage /\ Early /\ CalledHasArrived
    OBVIOUS
  <2>1. Elements(<<>>) = {} /\ Distinct(<<>>)
    BY DEF Elements, Distinct
  <2>2. \A r : <<>> # <<r>>
    OBVIOUS
  <2>3. OneMessage
    BY <2>1, <2>2 DEF Init, Pod!Init, Vertex!Init, OneMessage, InHand
  <2> QED
    BY <2>3 DEF Init, Pod!Init, Early, CalledHasArrived
<1>2. PathInv /\ [Next]_vars => OneMessage' /\ Early' /\ CalledHasArrived'
  <2> SUFFICES ASSUME PathInv, [Next]_vars PROVE OneMessage' /\ Early' /\ CalledHasArrived'
    OBVIOUS
  <2>0. JointInv /\ Vertex!TypeOK /\ JointTypes /\ Pod!TypeOK /\ OneMessage /\ Early
        /\ CalledHasArrived
    BY DEF PathInv, JointInv
  <2>1. ASSUME NEW r \in Requests, HandleRequest(r)
        PROVE OneMessage' /\ Early' /\ CalledHasArrived'
    <3>1. UNCHANGED <<inBuffer, hand, arrived, cbPc, cbReq>>
      BY <2>1 DEF HandleRequest, PodAlone, predictor, Pod!Handler, Pod!Predict, Pod!Printed,
         Pod!PostReturns, Pod!PostFails, Pod!Register
    <3>2. CASE Pod!Predict(r) \/ Pod!Printed(r)
      <4>1. \A s \in Requests : backend'[s] = "accepted" <=> backend[s] = "accepted"
        BY <2>0, <3>2 DEF Pod!Predict, Pod!Printed, Pod!TypeOK, Early
      <4>2. Early'
        BY <2>0, <3>2 DEF Pod!Predict, Pod!Printed, Pod!GoTo, Pod!TypeOK, Early
      <4>3. CalledHasArrived'
        BY <2>0, <3>1 DEF CalledHasArrived
      <4> QED
        BY <2>0, <3>1, <4>1, <4>2, <4>3, SameMessages
    <3>3. CASE Pod!PostReturns(r) \/ Pod!PostFails(r) \/ Pod!Register(r)
      <4>1. Early'
        BY <2>0, <3>3 DEF Pod!PostReturns, Pod!PostFails, Pod!Register, Pod!GoTo, Pod!TypeOK,
           Early
      <4>2. CalledHasArrived'
        BY <2>0, <3>1 DEF CalledHasArrived
      <4>3. backend' = backend
        BY <3>3 DEF Pod!PostReturns, Pod!PostFails, Pod!Register
      <4> QED
        BY <2>0, <3>1, <4>1, <4>2, <4>3, SameMessages
    <3> QED
      BY <2>1, <3>2, <3>3 DEF HandleRequest, Pod!Handler
  <2>2. ASSUME NEW r \in Requests, SourceReplies(r)
        PROVE OneMessage' /\ Early' /\ CalledHasArrived'
    <3>1. /\ backend[r] = "sent" /\ UNCHANGED <<pc, written, cbPc, cbReq, hand, arrived>>
          /\ \E verdict \in {"accepted", "rejected"} :
               backend' = [backend EXCEPT ![r] = verdict]
      BY <2>2 DEF SourceReplies, Pod!BackendDecides
    <3>2. Early' /\ CalledHasArrived'
      BY <2>0, <3>1 DEF Early, CalledHasArrived, Pod!TypeOK
    <3>3. CASE backend'[r] = "accepted"
      <4>1. inBuffer' = inBuffer \o <<r>> /\ inBuffer \in Seq(Requests)
        <5>1. inBuffer' = Append(inBuffer, r) /\ inBuffer \in Seq(Requests)
          BY <2>0, <2>2, <3>3 DEF SourceReplies, Vertex!TypeOK
        <5>2. Append(inBuffer, r) = inBuffer \o <<r>>
          BY <5>1
        <5> QED
          BY <5>1, <5>2
      <4>2. /\ r \notin Elements(inBuffer) /\ r \notin Elements(arrived)
            /\ \A p \in Pods : ~InHand(p, r)
            /\ Distinct(inBuffer)
        BY <2>0, <3>1 DEF OneMessage
      <4>3. Elements(inBuffer') = Elements(inBuffer) \cup {r} /\ Distinct(inBuffer')
        BY <4>1, <4>2, OneMore
      <4>4. \A s \in Requests : backend'[s] = "accepted" <=> (backend[s] = "accepted" \/ s = r)
        BY <2>0, <3>1, <3>3 DEF Pod!TypeOK
      <4>5. \A p \in Pods, s \in Requests : InHand(p, s)' <=> InHand(p, s)
        BY <3>1 DEF InHand
      <4>6. OneMessage'
        BY <2>0, <3>1, <4>2, <4>3, <4>4, <4>5 DEF OneMessage
      <4> QED
        BY <3>2, <4>6
    <3>4. CASE backend'[r] # "accepted"
      <4>1. inBuffer' = inBuffer
        BY <2>2, <3>4 DEF SourceReplies
      <4>2. \A s \in Requests : backend'[s] = "accepted" <=> backend[s] = "accepted"
        BY <2>0, <3>1, <3>4 DEF Pod!TypeOK
      <4> QED
        BY <2>0, <3>1, <3>2, <4>1, <4>2, SameMessages
    <3> QED
      BY <3>3, <3>4
  <2>3. ASSUME NEW c \in Callbacks, HandleCallback(c)
        PROVE OneMessage' /\ Early' /\ CalledHasArrived'
    <3>1. UNCHANGED <<inBuffer, hand, arrived, backend, cbReq>>
      BY <2>3 DEF HandleCallback, PodAlone, predictor, ReadBody, Pod!TakeSession,
         Pod!SessionNotFound, Pod!ReadBody, Pod!HandOver
    <3>2. \A d \in Callbacks : cbPc'[d] # "idle" => cbPc[d] # "idle"
      BY <2>0, <2>3 DEF HandleCallback, ReadBody, Pod!TakeSession, Pod!SessionNotFound,
         Pod!ReadBody, Pod!HandOver, Pod!CbGoTo, Pod!TypeOK
    <3>3. \A r \in Requests : pc'[r] \in {"idle", "printing", "posting"} =>
            pc'[r] = pc[r] /\ written'[r] = written[r]
      <4>1. CASE Pod!HandOver(c)
        BY <2>0, <4>1 DEF Pod!HandOver, Pod!GoTo, Pod!TypeOK
      <4>2. CASE UNCHANGED <<pc, written>>
        BY <4>2
      <4> QED
        BY <2>3, <4>1, <4>2 DEF HandleCallback, ReadBody, Pod!TakeSession,
           Pod!SessionNotFound, Pod!ReadBody
    <3> QED
      BY <2>0, <3>1, <3>2, <3>3, SameMessages, PodQuiet
  <2>4. CASE PodDies
    <3>1. Pod!Crash /\ UNCHANGED <<inBuffer, hand, arrived>>
      BY <2>4 DEF PodDies, Pod!MapRace, Pod!PodKilled, predictor
    <3>2. UNCHANGED <<backend, cbReq, written>>
      BY <3>1 DEF Pod!Crash
    <3>3. \A r \in Requests : pc'[r] \in {"idle", "printing", "posting"} => pc'[r] = pc[r]
      BY <2>0, <3>1 DEF Pod!Crash, Pod!TypeOK
    <3>4. \A d \in Callbacks : cbPc'[d] # "idle" => cbPc[d] # "idle"
      BY <2>0, <3>1 DEF Pod!Crash, Pod!TypeOK
    <3> QED
      BY <2>0, <3>1, <3>2, <3>3, <3>4, SameMessages, PodQuiet
  <2>5. ASSUME NEW p \in Pods, Predict(p) \/ Disturb(p)
        PROVE OneMessage' /\ Early' /\ CalledHasArrived'
    <3>1. /\ Vertex!InitContainer(p) \/ Vertex!Work(p) \/ Vertex!Restart(p) \/ Vertex!Evict(p)
          /\ UNCHANGED <<pc, written, backend, cbPc, cbReq>>
      BY <2>5 DEF Predict, Disturb, frontline
    <3>2. OneMessage'
      BY <2>0, <3>1, MessagePassed
    <3>3. Elements(arrived) \subseteq Elements(arrived')
      <4>1. CASE arrived' = arrived
        BY <4>1
      <4>2. CASE Vertex!Infer(p)
        <5>1. PICK r \in Requests : hand[p] = <<r>>
          BY <2>0, <4>2 DEF Vertex!Infer, Vertex!TypeOK
        <5>2. arrived' = arrived \o <<r>> /\ arrived \in Seq(Requests)
          BY <2>0, <4>2, <5>1 DEF Vertex!Infer, Vertex!TypeOK
        <5> QED
          BY <5>2, OneMore
      <4> QED
        BY <2>0, <3>1, <4>1, <4>2, PredictorTypes
    <3>4. Early' /\ CalledHasArrived'
      BY <2>0, <3>1, <3>3 DEF Early, CalledHasArrived
    <3> QED
      BY <3>2, <3>4
  <2>6. CASE Deliver
    <3>1. PICK c \in Callbacks : Pod!CallBack(c, arrived[datum])
      BY <2>6 DEF Deliver
    <3>2. UNCHANGED <<pc, written, backend, inBuffer, hand, arrived>>
      BY <2>6, <3>1 DEF Deliver, Pod!CallBack, predictor
    <3>3. arrived[datum] \in Elements(arrived)
      <4>1. Len(arrived) \in Nat
        BY <2>0 DEF Vertex!TypeOK
      <4>2. datum \in 1..unread - 1 /\ unread \in Nat /\ unread <= Len(arrived) + 1
        BY <2>0, <2>6 DEF Deliver, JointTypes
      <4>3. datum \in 1..Len(arrived)
        BY <4>1, <4>2
      <4> QED
        BY <4>3 DEF Elements
    <3>4. CalledHasArrived'
      BY <2>0, <3>1, <3>2, <3>3 DEF Pod!CallBack, Pod!CbGoTo, Pod!TypeOK, CalledHasArrived
    <3>5. Early'
      BY <2>0, <3>2 DEF Early
    <3> QED
      BY <2>0, <3>2, <3>4, <3>5, SameMessages
  <2>7. CASE UNCHANGED <<frontline, predictor>>
    BY <2>0, <2>7, SameMessages DEF frontline, predictor, Early, CalledHasArrived
  <2> QED
    BY <2>1, <2>2, <2>3, <2>4, <2>5, <2>6, <2>7
    DEF Next, vars, SinkSteps, ReplyArrives, PostFails, SinkDies
<1> QED
  BY <1>1, <1>2, Joints, PodTypes, PTL DEF Spec, PathInv

\* Variables keep their types, and every accepted request is one message in one
\* place, for any number of clients, pods, retries and faults.
THEOREM PathTyping == Spec => []TypeOK
<1>1. JointInv /\ Pod!TypeOK /\ Sink!TypeOK /\ OneMessage => TypeOK
  BY DEF JointInv, TypeOK
<1> QED
  BY <1>1, Joints, PodTypes, SinkTypes, Messages, PTL

-----------------------------------------------------------------------------
(* The promise *)

\* A step of the pod that changes neither where a call stands nor what was
\* written is none for the client.
LEMMA StatusStays ==
  ASSUME \A r \in Requests : Status(r)' = Status(r), written' = written,
         Elements(arrived)' = Elements(arrived)
  PROVE  UNCHANGED Service!vars
<1>1. [r \in Requests |-> Status(r)]' = [r \in Requests |-> Status(r)]
  OBVIOUS
<1> QED
  BY <1>1 DEF Service!vars

\* What moving one handler does to the statuses.
LEMMA StatusMoves ==
  ASSUME Pod!TypeOK, NEW r \in Requests, NEW place, pc' = [pc EXCEPT ![r] = place]
  PROVE  /\ \A s \in Requests \ {r} : Status(s)' = Status(s)
         /\ place \notin {"idle", "done", "dead"} => Status(r)' = "open"
         /\ place = "done" => Status(r)' = "answered"
<1>1. pc'[r] = place /\ \A s \in Requests \ {r} : pc'[s] = pc[s]
  BY DEF Pod!TypeOK
<1> QED
  BY <1>1 DEF Status

\* A call whose handler only goes on stays open.
LEMMA OpenStays ==
  ASSUME NEW r \in Requests,
         pc[r] \in {"printing", "posting", "registering"},
         pc'[r] \in {"posting", "registering", "waiting"},
         \A s \in Requests \ {r} : pc'[s] = pc[s]
  PROVE  \A s \in Requests : Status(s)' = Status(s)
<1> TAKE s \in Requests
<1>1. CASE s = r
  BY <1>1 DEF Status
<1>2. CASE s # r
  BY <1>2 DEF Status
<1> QED
  BY <1>1, <1>2

\* Sessions, retries and callbacks together keep the promise of InferenceService:
\* at most one answer to a call, the last thing its client gets, never before the
\* pipeline has computed it, whatever is lost, repeated or restarted on the way
\* (handle.go:18-78, httpsink.go:54-130, udf.py:32-46).
THEOREM PromiseKept == Spec => KeepsPromise
<1> DEFINE status == [r \in Requests |-> Status(r)]
<1>1. Init => Service!Init
  <2> SUFFICES ASSUME Init PROVE Service!Init
    OBVIOUS
  <2>1. status = [r \in Requests |-> "idle"]
    BY DEF Init, Pod!Init, Status
  <2>2. Elements(arrived) = {}
    BY DEF Init, Vertex!Init, Elements
  <2>3. written = [r \in Requests |-> <<>>]
    BY DEF Init, Pod!Init
  <2> QED
    BY <2>1, <2>2, <2>3 DEF Service!Init
<1>2. PathInv /\ [Next]_vars => [Service!Next]_(Service!vars)
  <2> SUFFICES ASSUME PathInv, [Next]_vars PROVE [Service!Next]_(Service!vars)
    OBVIOUS
  <2>0. JointInv /\ Vertex!TypeOK /\ JointTypes /\ Pod!TypeOK /\ OneMessage /\ Early
        /\ CalledHasArrived
    BY DEF PathInv, JointInv
  <2>1. ASSUME NEW r \in Requests, HandleRequest(r) PROVE [Service!Next]_(Service!vars)
    <3>1. Elements(arrived)' = Elements(arrived)
      BY <2>1 DEF HandleRequest, PodAlone, predictor
    <3>2. CASE Pod!Predict(r)
      <4>1. pc[r] = "idle" /\ written' = written
            /\ \E place \in {"posting", "printing"} : pc' = [pc EXCEPT ![r] = place]
        BY <3>2 DEF Pod!Predict, Pod!GoTo
      <4>2. Status(r) = "idle"
        BY <4>1 DEF Status
      <4>3. Status(r)' = "open" /\ \A s \in Requests \ {r} : Status(s)' = Status(s)
        BY <2>0, <4>1, StatusMoves
      <4>4. status' = [status EXCEPT ![r] = "open"]
        BY <4>3
      <4>5. Service!Call(r)
        BY <3>1, <4>1, <4>2, <4>4 DEF Service!Call
      <4> QED
        BY <4>5 DEF Service!Next
    <3>3. CASE Pod!Printed(r) \/ Pod!PostReturns(r) \/ Pod!Register(r)
      <4>1. /\ pc[r] \in {"printing", "posting", "registering"} /\ written' = written
            /\ pc'[r] \in {"posting", "registering", "waiting"}
            /\ \A s \in Requests \ {r} : pc'[s] = pc[s]
        BY <2>0, <3>3
        DEF Pod!Printed, Pod!PostReturns, Pod!Register, Pod!GoTo, Pod!TypeOK
      <4>2. \A s \in Requests : Status(s)' = Status(s)
        BY <4>1, OpenStays
      <4> QED
        BY <3>1, <4>1, <4>2, StatusStays
    <3>4. CASE Pod!PostFails(r)
      <4>1. /\ pc[r] = "posting" /\ pc' = [pc EXCEPT ![r] = "registering"]
            /\ written' = [written EXCEPT ![r] = Append(@, "error500")]
        BY <3>4 DEF Pod!PostFails, Pod!GoTo
      <4>2. written[r] = <<>> /\ Append(<<>>, "error500") = <<"error500">>
        BY <2>0, <4>1 DEF Early
      <4>3. written' = [written EXCEPT ![r] = <<"error500">>]
        BY <4>1, <4>2
      <4>4. Status(r) = "open"
        BY <4>1 DEF Status
      <4>5. pc'[r] = "registering" /\ \A s \in Requests \ {r} : pc'[s] = pc[s]
        BY <2>0, <4>1 DEF Pod!TypeOK
      <4>6. status' = status
        BY <4>1, <4>5, OpenStays
      <4>7. Service!Excuse(r)
        BY <3>1, <4>2, <4>3, <4>4, <4>6 DEF Service!Excuse
      <4> QED
        BY <4>7 DEF Service!Next
    <3> QED
      BY <2>1, <3>2, <3>3, <3>4 DEF HandleRequest, Pod!Handler
  <2>2. ASSUME NEW c \in Callbacks, HandleCallback(c) PROVE [Service!Next]_(Service!vars)
    <3>1. Elements(arrived)' = Elements(arrived)
      BY <2>2 DEF HandleCallback, PodAlone, predictor
    <3>2. CASE Pod!HandOver(c)
      <4>0. PICK r : r = cbReq[c]
        OBVIOUS
      <4>1. /\ pc[r] = "waiting" /\ pc' = [pc EXCEPT ![r] = "done"]
            /\ cbPc[c] = "sending"
            /\ written' = [written EXCEPT ![r] = Append(@, cbData[c])]
        BY <3>2, <4>0 DEF Pod!HandOver, Pod!GoTo
      <4>2. r \in Requests /\ cbData[c] \in {"answer", "zero"} /\ r \in Elements(arrived)
        BY <2>0, <4>0, <4>1 DEF Pod!TypeOK, Pod!Answers, CalledHasArrived
      <4>3. Status(r) = "open"
        BY <4>1 DEF Status
      <4>4. Status(r)' = "answered" /\ \A s \in Requests \ {r} : Status(s)' = Status(s)
        BY <2>0, <4>1, <4>2, StatusMoves
      <4>5. status' = [status EXCEPT ![r] = "answered"]
        BY <4>4
      <4>6. Service!Answer(r)
        BY <3>1, <4>1, <4>2, <4>3, <4>5 DEF Service!Answer
      <4> QED
        BY <4>2, <4>6 DEF Service!Next
    <3>3. CASE UNCHANGED <<pc, written>>
      BY <3>1, <3>3, StatusStays DEF Status
    <3> QED
      BY <2>2, <3>2, <3>3 DEF HandleCallback, ReadBody, Pod!TakeSession,
         Pod!SessionNotFound, Pod!ReadBody
  <2>3. CASE PodDies
    <3>1. Pod!Crash /\ Elements(arrived)' = Elements(arrived)
      BY <2>3 DEF PodDies, Pod!MapRace, Pod!PodKilled, predictor
    <3>2. \A r \in Requests :
            Status(r)' = IF Status(r) = "open" THEN "lost" ELSE Status(r)
      BY <2>0, <3>1 DEF Pod!Crash, Status, Pod!TypeOK
    <3>3. status' = [r \in Requests |-> IF status[r] = "open" THEN "lost" ELSE status[r]]
      BY <3>2
    <3>4. written' = written
      BY <3>1 DEF Pod!Crash
    <3>5. Service!Lose
      BY <3>1, <3>3, <3>4 DEF Service!Lose
    <3> QED
      BY <3>5 DEF Service!Next
  <2>4. ASSUME NEW p \in Pods, Predict(p) \/ Disturb(p) PROVE [Service!Next]_(Service!vars)
    <3>1. /\ Vertex!InitContainer(p) \/ Vertex!Work(p) \/ Vertex!Restart(p) \/ Vertex!Evict(p)
          /\ UNCHANGED <<pc, written>>
      BY <2>4 DEF Predict, Disturb, frontline
    <3>2. \A r \in Requests : Status(r)' = Status(r)
      BY <3>1 DEF Status
    <3>3. CASE arrived' = arrived
      BY <3>1, <3>2, <3>3, StatusStays
    <3>4. CASE Vertex!Infer(p)
      <4>1. PICK r \in Requests : hand[p] = <<r>>
        BY <2>0, <3>4 DEF Vertex!Infer, Vertex!TypeOK
      <4>2. arrived' = arrived \o <<r>> /\ arrived \in Seq(Requests)
        BY <2>0, <3>4, <4>1 DEF Vertex!Infer, Vertex!TypeOK
      <4>3. Elements(arrived)' = Elements(arrived) \cup {r}
        BY <4>2, OneMore
      <4>4. r \notin Elements(arrived) /\ backend[r] = "accepted"
        BY <2>0, <4>1 DEF OneMessage, InHand
      <4>5. Status(r) # "idle"
        BY <2>0, <4>4 DEF Early, Status
      <4>6. status' = status
        BY <3>2
      <4>7. Service!Compute(r)
        BY <3>1, <4>3, <4>4, <4>5, <4>6 DEF Service!Compute
      <4> QED
        BY <4>7 DEF Service!Next
    <3> QED
      BY <2>0, <3>1, <3>3, <3>4, PredictorTypes
  <2>5. CASE UNCHANGED <<pc, written, arrived>>
    BY <2>5, StatusStays DEF Status
  <2> QED
    BY <2>1, <2>2, <2>3, <2>4, <2>5
    DEF Next, vars, frontline, predictor, SourceReplies, Pod!BackendDecides, Deliver,
        Pod!CallBack, SinkSteps, ReplyArrives, PostFails, SinkDies
<1> QED
  BY <1>1, <1>2, Joints, PodTypes, Messages, PTL DEF Spec, PathInv, KeepsPromise, Service!Spec

-----------------------------------------------------------------------------
(* What numaflow forgets *)

Ended == {"replied", "notFound"}

\* A callback that has replied handed over what was computed.
Whole(c) == cbPc[c] \in {"sending", "replied"} => cbData[c] = "answer"

\* Some callback for r ran to its end with the whole body.
Served(r) == \E c \in Callbacks : cbReq[c] = r /\ cbPc[c] \in Ended /\ Whole(c)

\* The callback in flight is for the message in hand and has the whole body once
\* it has read it; for each message that a POST was answered for, such a callback
\* has run to its end.
CallInv ==
  /\ \A c \in call : /\ c \in Callbacks /\ cbPc[c] # "idle"
                     /\ cbReq[c] = arrived[datum] /\ Whole(c)
  /\ \A m \in answered : m \in 1..Len(arrived) /\ Served(arrived[m])

\* A step that keeps ended callbacks, and what arrived, keeps what they ended.
LEMMA EndedStay ==
  ASSUME CallInv, Vertex!TypeOK, Vertex!TypeOK', answered' = answered,
         arrived' = arrived \/ \E r \in Requests : arrived' = arrived \o <<r>>,
         \A c \in Callbacks : cbPc[c] \in Ended =>
           cbPc'[c] = cbPc[c] /\ cbReq'[c] = cbReq[c] /\ cbData'[c] = cbData[c]
  PROVE  \A m \in answered' : m \in 1..Len(arrived') /\ Served(arrived[m])'
<1> TAKE m \in answered'
<1>1. m \in 1..Len(arrived) /\ Served(arrived[m])
  BY DEF CallInv
<1>2. m \in 1..Len(arrived') /\ arrived'[m] = arrived[m]
  <2>1. CASE arrived' = arrived
    BY <1>1, <2>1
  <2>2. ASSUME NEW r \in Requests, arrived' = arrived \o <<r>>
        PROVE  m \in 1..Len(arrived') /\ arrived'[m] = arrived[m]
    <3>1. arrived \in Seq(Requests) /\ <<r>> \in Seq(Requests) /\ Len(<<r>>) = 1
      BY DEF Vertex!TypeOK
    <3>2. Len(arrived') = Len(arrived) + 1 /\ Len(arrived) \in Nat
      BY <2>2, <3>1
    <3> QED
      BY <1>1, <2>2, <3>1, <3>2
  <2> QED
    BY <2>1, <2>2
<1>3. PICK c \in Callbacks : cbReq[c] = arrived[m] /\ cbPc[c] \in Ended /\ Whole(c)
  BY <1>1 DEF Served
<1>4. cbReq'[c] = arrived'[m] /\ cbPc'[c] \in Ended /\ Whole(c)'
  BY <1>2, <1>3 DEF Whole
<1> QED
  BY <1>2, <1>4 DEF Served

\* numaflow forgets a message only when its client was given what the pipeline
\* computed, or a callback found no session to give it to: a POST counts as
\* answered only while the sink waits for it, and so only if the pod had the whole
\* body (httpsink.go:115-129, handle.go:62-75).
THEOREM NothingForgottenUncalled == Spec => []ForgottenIsCalled
<1> DEFINE Inv == JointInv /\ Pod!TypeOK /\ CallInv
<1>1. Init => CallInv
  BY DEF Init, Sink!Init, CallInv
<1>2. Inv /\ JointInv' /\ [Next]_vars => CallInv'
  <2> SUFFICES ASSUME Inv, JointInv', [Next]_vars PROVE CallInv'
    OBVIOUS
  <2>0. /\ Vertex!TypeOK /\ Vertex!TypeOK' /\ JointTypes /\ Pod!TypeOK /\ CallInv
    BY DEF JointInv
  <2>1. ASSUME NEW r \in Requests, HandleRequest(r) \/ SourceReplies(r) PROVE CallInv'
    <3>1. UNCHANGED <<cbPc, cbReq, cbData, arrived, answered, call, datum>>
      BY <2>1 DEF HandleRequest, PodAlone, predictor, sink, Pod!Handler, Pod!Predict,
         Pod!Printed, Pod!PostReturns, Pod!PostFails, Pod!Register, SourceReplies,
         Pod!BackendDecides
    <3> QED
      BY <2>0, <3>1 DEF CallInv, Served, Whole
  <2>2. ASSUME NEW c \in Callbacks, HandleCallback(c) PROVE CallInv'
    <3>1. /\ UNCHANGED <<cbReq, arrived, answered, call, datum>>
          /\ cbPc[c] \notin Ended \cup {"idle"}
          /\ \E place \in {"reading", "sending"} \cup Ended : cbPc' = [cbPc EXCEPT ![c] = place]
      BY <2>2 DEF HandleCallback, PodAlone, predictor, sink, ReadBody, Pod!TakeSession,
         Pod!SessionNotFound, Pod!ReadBody, Pod!HandOver, Pod!CbGoTo, Ended
    <3>2. \A d \in Callbacks : /\ d # c => cbPc'[d] = cbPc[d]
                               /\ cbPc[d] \in Ended => d # c
                               /\ cbPc[d] # "idle" => cbPc'[d] # "idle"
      BY <2>0, <3>1 DEF Pod!TypeOK, Ended
    <3>3. \A d \in Callbacks : d # c => cbData'[d] = cbData[d]
      BY <2>0, <2>2 DEF HandleCallback, ReadBody, Pod!TakeSession, Pod!SessionNotFound,
         Pod!ReadBody, Pod!HandOver, Pod!TypeOK
    <3>4. c \in call => Whole(c)'
      <4> SUFFICES ASSUME c \in call PROVE Whole(c)'
        OBVIOUS
      <4>1. Whole(c)
        BY <2>0 DEF CallInv
      <4>2. CASE ReadBody(c)
        BY <4>2 DEF ReadBody, Whole
      <4>3. CASE Pod!TakeSession(c) \/ Pod!SessionNotFound(c)
        <5>1. cbPc'[c] \in {"reading", "notFound"}
          BY <2>0, <4>3 DEF Pod!TakeSession, Pod!SessionNotFound, Pod!CbGoTo, Pod!TypeOK
        <5> QED
          BY <5>1 DEF Whole
      <4>4. CASE Pod!HandOver(c)
        BY <4>1, <4>4 DEF Pod!HandOver, Whole
      <4> QED
        BY <2>2, <4>2, <4>3, <4>4 DEF HandleCallback
    <3>5. \A m \in answered' : m \in 1..Len(arrived') /\ Served(arrived[m])'
      BY <2>0, <3>1, <3>2, <3>3, EndedStay
    <3>6. \A d \in call : d \in Callbacks /\ Whole(d)'
      BY <2>0, <3>2, <3>3, <3>4 DEF CallInv, Whole
    <3>7. \A d \in call' : /\ d \in Callbacks /\ cbPc'[d] # "idle"
                           /\ cbReq'[d] = arrived'[datum'] /\ Whole(d)'
      BY <2>0, <3>1, <3>2, <3>6 DEF CallInv
    <3> QED
      BY <3>5, <3>7 DEF CallInv
  <2>3. CASE PodDies
    <3>1. call' = {} /\ answered' = answered /\ arrived' = arrived /\ Pod!Crash
      BY <2>3 DEF PodDies, LoseCall, predictor, sink, Sink!PostFails, Pod!MapRace, Pod!PodKilled
    <3>2. \A d \in Callbacks : cbPc[d] \in Ended =>
            cbPc'[d] = cbPc[d] /\ cbReq'[d] = cbReq[d] /\ cbData'[d] = cbData[d]
      BY <2>0, <3>1 DEF Pod!Crash, Pod!TypeOK, Ended
    <3>3. \A m \in answered' : m \in 1..Len(arrived') /\ Served(arrived[m])'
      BY <2>0, <3>1, <3>2, EndedStay
    <3> QED
      BY <3>1, <3>3 DEF CallInv
  <2>4. ASSUME NEW p \in Pods, Predict(p) \/ Disturb(p) PROVE CallInv'
    <3>1. /\ Vertex!InitContainer(p) \/ Vertex!Work(p) \/ Vertex!Restart(p) \/ Vertex!Evict(p)
          /\ UNCHANGED <<cbPc, cbReq, cbData, answered, call, datum>>
      BY <2>4 DEF Predict, Disturb, frontline, sink
    <3>2. arrived' = arrived \/ \E r \in Requests : arrived' = arrived \o <<r>>
      <4>1. CASE Vertex!Infer(p)
        <5>1. PICK r \in Requests : hand[p] = <<r>>
          BY <2>0, <4>1 DEF Vertex!Infer, Vertex!TypeOK
        <5>2. arrived' = arrived \o <<r>>
          BY <4>1, <5>1 DEF Vertex!Infer
        <5> QED
          BY <5>2
      <4> QED
        BY <2>0, <3>1, <4>1, PredictorTypes
    <3>3. \A m \in answered' : m \in 1..Len(arrived') /\ Served(arrived[m])'
      BY <2>0, <3>1, <3>2, EndedStay
    <3>4. \A d \in call' : arrived'[datum'] = arrived[datum]
      <4>1. CASE arrived' = arrived
        BY <3>1, <4>1
      <4>2. ASSUME NEW r \in Requests, arrived' = arrived \o <<r>>, call # {}
            PROVE  arrived'[datum] = arrived[datum]
        <5>1. arrived \in Seq(Requests) /\ Len(arrived) \in Nat
          BY <2>0 DEF Vertex!TypeOK
        <5>2. datum \in 1..unread - 1 /\ unread \in Nat /\ unread <= Len(arrived) + 1
          BY <2>0, <4>2 DEF JointTypes
        <5>3. datum \in 1..Len(arrived)
          BY <5>1, <5>2
        <5> QED
          BY <4>2, <5>1, <5>3
      <4> QED
        BY <3>1, <3>2, <4>1, <4>2
    <3>5. \A d \in call' : /\ d \in Callbacks /\ cbPc'[d] # "idle"
                           /\ cbReq'[d] = arrived'[datum'] /\ Whole(d)'
      BY <2>0, <3>1, <3>4 DEF CallInv, Whole
    <3> QED
      BY <3>3, <3>5 DEF CallInv
  <2>5. CASE SinkSteps
    <3>1. call = {}
      BY <2>0, <2>5 DEF SinkSteps, JointTypes, ReadMessage, Sink!ReadBatch, Sink!CallSink,
         Sink!Reply, Sink!ReceiveDecodable, Sink!Receive, Sink!Attempt, Sink!RecordFailure,
         Sink!EndOfStream
    <3>2. UNCHANGED <<cbPc, cbReq, cbData, arrived, answered, call>>
      BY <2>5 DEF SinkSteps, frontline, predictor, ReadMessage, Sink!ReadBatch, Sink!CallSink,
         Sink!Reply, Sink!ReceiveDecodable, Sink!Attempt, Sink!RecordFailure, Sink!EndOfStream
    <3> QED
      BY <2>0, <3>1, <3>2 DEF CallInv, Served, Whole
  <2>6. CASE Deliver
    <3>1. PICK c \in Callbacks : /\ cbPc[c] = "idle" /\ call' = {c}
                                 /\ cbPc' = [cbPc EXCEPT ![c] = "lookup"]
                                 /\ cbReq' = [cbReq EXCEPT ![c] = arrived[datum]]
                                 /\ cbData' = cbData
      BY <2>6 DEF Deliver, Pod!CallBack, Pod!CbGoTo
    <3>2. UNCHANGED <<arrived, answered, datum>>
      BY <2>6 DEF Deliver, predictor, sink
    <3>3. \A d \in Callbacks : cbPc[d] \in Ended =>
            cbPc'[d] = cbPc[d] /\ cbReq'[d] = cbReq[d] /\ cbData'[d] = cbData[d]
      BY <2>0, <3>1 DEF Ended, Pod!TypeOK
    <3>4. \A m \in answered' : m \in 1..Len(arrived') /\ Served(arrived[m])'
      BY <2>0, <3>2, <3>3, EndedStay
    <3>5. cbPc'[c] = "lookup" /\ cbReq'[c] = arrived[datum]
      BY <2>0, <3>1 DEF Pod!TypeOK
    <3> QED
      BY <3>1, <3>2, <3>4, <3>5 DEF CallInv, Whole
  <2>7. CASE ReplyArrives
    <3>1. /\ call' = {} /\ answered' = answered \cup {datum} /\ sinkPc = "inFlight"
          /\ UNCHANGED <<cbPc, cbReq, cbData, arrived>>
      BY <2>7 DEF ReplyArrives, Sink!PostAnswered, frontline, predictor
    <3>2. PICK c \in call : cbPc[c] \in Ended
      BY <2>7 DEF ReplyArrives, Ended
    <3>3. Served(arrived[datum])
      BY <2>0, <3>2 DEF CallInv, Served
    <3>4. datum \in 1..Len(arrived)
      <4>1. Len(arrived) \in Nat
        BY <2>0 DEF Vertex!TypeOK
      <4>2. datum \in 1..unread - 1 /\ unread \in Nat /\ unread <= Len(arrived) + 1
        BY <2>0, <3>1 DEF JointTypes
      <4> QED
        BY <4>1, <4>2
    <3> QED
      BY <2>0, <3>1, <3>3, <3>4 DEF CallInv, Served, Whole
  <2>8. CASE PostFails \/ SinkDies
    <3>1. call' = {} /\ UNCHANGED <<cbPc, cbReq, cbData, arrived, answered>>
      BY <2>8 DEF PostFails, SinkDies, LoseCall, Sink!PostFails, Sink!Abort, frontline, predictor
    <3> QED
      BY <2>0, <3>1 DEF CallInv, Served, Whole
  <2>9. CASE UNCHANGED vars
    BY <2>0, <2>9 DEF vars, frontline, predictor, sink, CallInv, Served, Whole
  <2> QED
    BY <2>1, <2>2, <2>3, <2>4, <2>5, <2>6, <2>7, <2>8, <2>9 DEF Next
<1>3. CallInv /\ Pod!TypeOK /\ Vertex!TypeOK /\ acked \subseteq answered
        /\ Pod!OneCallbackPerAnswer => ForgottenIsCalled
  <2> SUFFICES ASSUME CallInv, Pod!TypeOK, Vertex!TypeOK, acked \subseteq answered,
                      Pod!OneCallbackPerAnswer, NEW m \in acked
               PROVE  Closed(arrived[m])
    BY DEF ForgottenIsCalled
  <2>1. PICK c \in Callbacks : cbReq[c] = arrived[m] /\ cbPc[c] \in Ended /\ Whole(c)
    BY DEF CallInv, Served
  <2>2. arrived[m] \in Requests
    BY <2>1 DEF Pod!TypeOK
  <2>3. CASE cbPc[c] = "replied"
    <3>1. PICK d \in Callbacks :
            /\ {e \in Callbacks : cbPc[e] = "replied" /\ cbReq[e] = arrived[m]} = {d}
            /\ Pod!LastWritten(arrived[m], cbData[d])
      BY <2>1, <2>2, <2>3 DEF Pod!OneCallbackPerAnswer
    <3>2. c = d
      BY <2>1, <2>3, <3>1
    <3>3. cbData[c] = "answer"
      BY <2>1, <2>3 DEF Whole
    <3> QED
      BY <3>1, <3>2, <3>3 DEF Closed
  <2>4. CASE cbPc[c] = "notFound"
    BY <2>1, <2>4 DEF Closed, IsAt
  <2> QED
    BY <2>1, <2>3, <2>4 DEF Ended
<1>4. JointInv => Vertex!TypeOK
  BY DEF JointInv
<1> QED
  BY <1>1, <1>2, <1>3, <1>4, Joints, PodTypes, PodIsSafeInPath, SinkTypes, PTL DEF Spec

\* An accepted request is in a buffer, in some pod's hands or with the sink until
\* its client was given what was computed for it, or a callback for it was turned
\* away.  Nothing on the way lets go of a message before the next has it, and
\* numaflow forgets only what was answered for (httpsink.go:54-130, udf.py:39-59).
THEOREM NothingLostOnTheWay == Spec => []NothingLost
<1>1. OneMessage /\ Kept /\ JointTypes /\ Vertex!TypeOK /\ ForgottenIsCalled => NothingLost
  <2> SUFFICES ASSUME OneMessage, Kept, JointTypes, Vertex!TypeOK, ForgottenIsCalled,
                      NEW r \in Requests, backend[r] = "accepted"
               PROVE  OnTheWay(r) \/ Closed(r)
    BY DEF NothingLost
  <2>1. \/ r \in Elements(inBuffer) \cup Elements(arrived)
        \/ \E p \in Pods : InHand(p, r)
    BY DEF OneMessage
  <2>2. CASE r \in Elements(arrived)
    <3>1. PICK m \in 1..Len(arrived) : arrived[m] = r
      BY <2>2 DEF Elements
    <3>2. m >= unread \/ m \in 1..unread - 1
      <4>1. Len(arrived) \in Nat /\ unread \in Nat
        BY DEF Vertex!TypeOK, JointTypes
      <4> QED
        BY <4>1
    <3>3. CASE m >= unread \/ m \in toWrite
      BY <3>1, <3>3 DEF OnTheWay
    <3>4. CASE m \in acked
      BY <3>1, <3>4 DEF ForgottenIsCalled
    <3> QED
      BY <3>2, <3>3, <3>4 DEF Kept
  <2> QED
    BY <2>1, <2>2 DEF OnTheWay
<1>2. JointInv => JointTypes /\ Vertex!TypeOK
  BY DEF JointInv
<1> QED
  BY <1>1, <1>2, Joints, Messages, SinkTypes, NothingForgottenUncalled, PTL

=============================================================================
