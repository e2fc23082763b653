--------------------------- MODULE HttpSinkProofs ---------------------------
(***************************************************************************)
(* The sink never has a message acknowledged that no receiver answered,    *)
(* for every number of messages, batch size, setting of the flags and      *)
(* number of crashes.                                                      *)
(***************************************************************************)
EXTENDS HttpSink, TLAPS

\* What the two lists say while a call runs: an id in ok was answered, or it is
\* in failed as well and the call does not drop (httpsink.go:115-123); so what
\* is returned with success was answered.
Lists ==
  /\ \A m \in ok : m \in answered \/ (m \in failed /\ ~flags.drop)
  /\ reported \subseteq answered
  /\ acked \subseteq answered

\* The datum in hand is one the call received, and an attempt is under way only
\* while retries are left.
TypeInv ==
  /\ TypeOK
  /\ pc \in {"backoff", "inFlight"} => datum \in received
  /\ pc = "inFlight" => attempts < flags.retries

LEMMA TypeInvariant == Spec => []TypeInv
<1> USE SinkAssumption
<1>1. Init => TypeInv
  BY DEF Init, TypeInv, TypeOK, Messages
<1>2. TypeInv /\ [Next]_vars => TypeInv'
  <2> SUFFICES ASSUME TypeInv, [Next]_vars PROVE TypeInv'
    OBVIOUS
  <2> USE DEF TypeInv, TypeOK, platform
  <2>0. flags.retries \in Nat /\ flags.drop \in BOOLEAN
    OBVIOUS
  <2>1. CASE ReadBatch
    <3>1. PICK k \in 1..ReadBatchSize :
            /\ unread + k <= NMessages + 1
            /\ toWrite' = unread .. unread + k - 1
            /\ unread' = unread + k
      BY <2>1 DEF ReadBatch
    <3>2. toWrite' \subseteq Messages /\ unread' \in 1..NMessages + 1
      BY <3>1 DEF Messages
    <3>3. received' = received /\ received = {}
      BY <2>1 DEF ReadBatch
    <3> QED
      BY <2>1, <3>2, <3>3 DEF ReadBatch
  <2>2. CASE CallSink
    BY <2>0, <2>2 DEF CallSink
  <2>3. CASE Reply
    BY <2>3 DEF Reply
  <2>4. CASE Abort
    BY <2>4 DEF Abort
  <2>5. CASE ReceiveUndecodable
    BY <2>5 DEF ReceiveUndecodable, Receive, Messages
  <2>6. CASE ReceiveDecodable
    BY <2>0, <2>6 DEF ReceiveDecodable, Receive, Messages
  <2>7. CASE Attempt
    BY <2>7 DEF Attempt
  <2>8. CASE PostAnswered
    BY <2>8 DEF PostAnswered, Messages
  <2>9. CASE PostFails
    BY <2>0, <2>9 DEF PostFails
  <2>10. CASE RecordFailure
    BY <2>10 DEF RecordFailure, Messages
  <2>11. CASE Drop
    BY <2>11 DEF Drop, Messages
  <2>12. CASE EndOfStream
    BY <2>12 DEF EndOfStream
  <2>13. CASE UNCHANGED vars
    BY <2>13 DEF vars
  <2> QED
    BY <2>1, <2>2, <2>3, <2>4, <2>5, <2>6, <2>7, <2>8, <2>9, <2>10, <2>11,
       <2>12, <2>13 DEF Next, Sink
<1> QED
  BY <1>1, <1>2, PTL DEF Spec

\* Every variable keeps its type; in particular a datum is attempted at most
\* --retries times in one call (httpsink.go:102-107).
THEOREM SinkTyping == Spec => []TypeOK
<1>1. TypeInv => TypeOK
  BY DEF TypeInv
<1> QED
  BY <1>1, TypeInvariant, PTL

\* numaflow acknowledges no message of which every POST failed
\* (httpsink.go:115-129).
THEOREM AckMeansAnswered == Spec => []NoFalseAck
<1>1. Init => Lists
  BY DEF Init, Lists
<1>2. TypeInv /\ Lists /\ [Next]_vars => Lists'
  <2> SUFFICES ASSUME TypeInv, Lists, [Next]_vars PROVE Lists'
    OBVIOUS
  <2> USE DEF Lists, platform
  <2>1. CASE CallSink
    BY <2>1 DEF CallSink
  <2>2. CASE Reply
    BY <2>2 DEF Reply
  <2>3. CASE ReadBatch \/ Abort \/ Attempt \/ PostFails
    BY <2>3 DEF ReadBatch, Abort, Attempt, PostFails
  <2>4. CASE ReceiveUndecodable
    BY <2>4 DEF ReceiveUndecodable
  <2>5. CASE ReceiveDecodable
    BY <2>5 DEF ReceiveDecodable
  <2>6. CASE PostAnswered
    BY <2>6 DEF PostAnswered
  <2>7. CASE RecordFailure
    BY <2>7 DEF RecordFailure
  <2>8. CASE Drop
    BY <2>8 DEF Drop
  <2>9. CASE EndOfStream
    BY <2>9 DEF EndOfStream
  <2>10. CASE UNCHANGED vars
    BY <2>10 DEF vars
  <2> QED
    BY <2>1, <2>2, <2>3, <2>4, <2>5, <2>6, <2>7, <2>8, <2>9, <2>10
    DEF Next, Sink
<1>3. Lists => NoFalseAck
  BY DEF Lists, NoFalseAck
<1> QED
  BY <1>1, <1>2, <1>3, TypeInvariant, PTL DEF Spec

\* A message that was read is being written until it is acknowledged: no report,
\* failed call or restart has numaflow lose it (httpsink.go:115-130).
KeptOrAcked == 1..unread - 1 \subseteq toWrite \cup acked

THEOREM NothingDropsOut == Spec => []KeptOrAcked
<1>1. Init => KeptOrAcked
  BY DEF Init, KeptOrAcked
<1>2. TypeInv /\ KeptOrAcked /\ [Next]_vars => KeptOrAcked'
  <2> SUFFICES ASSUME TypeInv, KeptOrAcked, [Next]_vars PROVE KeptOrAcked'
    OBVIOUS
  <2>1. CASE UNCHANGED platform
    BY <2>1 DEF platform, KeptOrAcked
  <2>2. CASE ReadBatch
    <3>1. PICK k \in 1..ReadBatchSize :
            /\ toWrite = {} /\ toWrite' = unread .. unread + k - 1
            /\ unread' = unread + k /\ acked' = acked
      BY <2>2 DEF ReadBatch
    <3>2. unread \in Nat /\ k \in Nat
      BY SinkAssumption DEF TypeInv, TypeOK
    <3>3. 1..unread' - 1 \subseteq 1..unread - 1 \cup toWrite'
      BY <3>1, <3>2
    <3> QED
      BY <3>1, <3>3 DEF KeptOrAcked
  <2>3. CASE Reply
    BY <2>3 DEF Reply, KeptOrAcked
  <2>4. CASE CallSink \/ Abort
    BY <2>1, <2>4 DEF CallSink, Abort
  <2>5. CASE Sink
    BY <2>1, <2>5 DEF Sink, ReceiveUndecodable, ReceiveDecodable, Attempt, PostAnswered,
       PostFails, RecordFailure, Drop, EndOfStream
  <2>6. CASE UNCHANGED vars
    BY <2>1, <2>6 DEF vars
  <2> QED
    BY <2>2, <2>3, <2>4, <2>5, <2>6 DEF Next
<1> QED
  BY <1>1, <1>2, TypeInvariant, PTL DEF Spec

\* Only a call that drops, and only in a batch of several messages, leaves the SDK
\* waiting for a stream nobody reads (httpsink.go:117-129).
THEOREM OthersReadToTheEnd == Spec => []OnlyDropBlocks
<1>1. Init => OnlyDropBlocks
  BY DEF Init, OnlyDropBlocks
<1>2. TypeInv /\ OnlyDropBlocks /\ [Next]_vars => OnlyDropBlocks'
  <2> SUFFICES ASSUME TypeInv, OnlyDropBlocks, [Next]_vars PROVE OnlyDropBlocks'
    OBVIOUS
  <2>1. CASE ReadBatch \/ CallSink \/ Reply \/ Abort
    BY <2>1 DEF ReadBatch, CallSink, Reply, Abort, OnlyDropBlocks
  <2>2. CASE ReceiveUndecodable \/ ReceiveDecodable
    BY <2>2 DEF ReceiveUndecodable, ReceiveDecodable, Receive, OnlyDropBlocks
  <2>3. CASE Attempt \/ PostAnswered \/ PostFails \/ RecordFailure
    BY <2>3 DEF Attempt, PostAnswered, PostFails, RecordFailure, OnlyDropBlocks
  <2>4. CASE Drop
    <3>1. received # toWrite => toWrite # {datum}
      BY <2>4 DEF Drop, TypeInv, TypeOK
    <3>2. flags' = flags /\ datum' = datum /\ received' = received
          /\ toWrite' = toWrite /\ dropped' = dropped \cup {datum} /\ flags.drop
      BY <2>4 DEF Drop, platform
    <3> QED
      BY <3>1, <3>2 DEF OnlyDropBlocks
  <2>5. CASE EndOfStream
    BY <2>5 DEF EndOfStream, platform, OnlyDropBlocks
  <2>6. CASE UNCHANGED vars
    BY <2>6 DEF vars, platform, OnlyDropBlocks
  <2> QED
    BY <2>1, <2>2, <2>3, <2>4, <2>5, <2>6 DEF Next, Sink
<1> QED
  BY <1>1, <1>2, TypeInvariant, PTL DEF Spec

=============================================================================
