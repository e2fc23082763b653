-------------------------- MODULE FrontlineProofs --------------------------
(***************************************************************************)
(* The safety of one frontline pod, for every number of clients and of     *)
(* callbacks.  The argument is about sessions: a session is in the map or  *)
(* in the hands of one callback, never both, and exactly while its request *)
(* waits.                                                                  *)
(***************************************************************************)
EXTENDS Frontline, TLAPS

\* A session in the map belongs to a request that waits, and no callback holds
\* it: the map never offers a session a second time (handle.go:47-49, 58-61).
QueuedIsWaiting ==
  \A r \in requestQueue :
    pc[r] = "waiting" /\ \A c \in Callbacks : Holding(c) => cbReq[c] # r

SessionInv ==
  /\ TypeOK
  /\ QueuedIsWaiting
  /\ SenderHasReceiver
  /\ WaitingIsReachable

-----------------------------------------------------------------------------
\* Every variable keeps its type, whatever the interleaving of handlers,
\* callbacks and crashes (pkg/frontline).
THEOREM Typing == Spec => []TypeOK
<1> USE DEF TypeOK, HandlerPcs, CallbackPcs, Answers, Bodies
<1>1. Init => TypeOK
  BY DEF Init
<1>2. TypeOK /\ [Next]_vars => TypeOK'
  <2> SUFFICES ASSUME TypeOK, [Next]_vars
               PROVE  TypeOK'
    OBVIOUS
  <2>1. ASSUME NEW r \in Requests, Handler(r) PROVE TypeOK'
    <3>1. CASE Predict(r)
      BY <3>1 DEF Predict, GoTo
    <3>2. CASE Printed(r)
      BY <3>2 DEF Printed, GoTo
    <3>3. CASE PostReturns(r)
      BY <3>3 DEF PostReturns, GoTo
    <3>4. CASE PostFails(r)
      BY <3>4 DEF PostFails, GoTo
    <3>5. CASE Register(r)
      BY <3>5 DEF Register, GoTo
    <3> QED
      BY <2>1, <3>1, <3>2, <3>3, <3>4, <3>5 DEF Handler
  <2>2. ASSUME NEW r \in Requests, BackendDecides(r) PROVE TypeOK'
    BY <2>2 DEF BackendDecides
  <2>3. ASSUME NEW c \in Callbacks, CallbackHandler(c) PROVE TypeOK'
    <3>1. CASE TakeSession(c)
      BY <3>1 DEF TakeSession, CbGoTo
    <3>2. CASE SessionNotFound(c)
      BY <3>2 DEF SessionNotFound, CbGoTo
    <3>3. CASE ReadBody(c)
      BY <3>3 DEF ReadBody, CbGoTo
    <3>4. CASE HandOver(c)
      BY <3>4 DEF HandOver, CbGoTo, GoTo
    <3> QED
      BY <2>3, <3>1, <3>2, <3>3, <3>4 DEF CallbackHandler
  <2>4. ASSUME NEW c \in Callbacks, NEW r \in Requests, CallBack(c, r)
        PROVE TypeOK'
    BY <2>4 DEF CallBack, CbGoTo
  <2>5. ASSUME Crash PROVE TypeOK'
    BY <2>5 DEF Crash
  <2>6. CASE UNCHANGED vars
    BY <2>6 DEF vars
  <2> QED
    BY <2>1, <2>2, <2>3, <2>4, <2>5, <2>6 DEF Next, MapRace, PodKilled
<1> QED
  BY <1>1, <1>2, PTL DEF Spec

-----------------------------------------------------------------------------
\* A step that moves no request into or out of "waiting", no callback into or
\* out of holding, and leaves the map and the held requests alone, keeps the
\* facts about sessions.
LEMMA QuietStep ==
  ASSUME SessionInv, TypeOK',
         requestQueue' = requestQueue,
         \A r \in Requests : pc'[r] = "waiting" <=> pc[r] = "waiting",
         \A c \in Callbacks : Holding(c)' <=> Holding(c),
         \A c \in Callbacks : Holding(c) => cbReq'[c] = cbReq[c]
  PROVE  SessionInv'
<1> USE DEF SessionInv
<1>1. QueuedIsWaiting'
  BY DEF QueuedIsWaiting, TypeOK
<1>2. SenderHasReceiver'
  BY DEF SenderHasReceiver, TypeOK
<1>3. WaitingIsReachable'
  BY DEF WaitingIsReachable, TypeOK
<1> QED
  BY <1>1, <1>2, <1>3

\* The session invariant, at every step of every goroutine and across a crash.
THEOREM Sessions == Spec => []SessionInv
<1>1. Init => SessionInv
  <2> SUFFICES ASSUME Init PROVE SessionInv
    OBVIOUS
  <2>1. TypeOK
    BY DEF Init, TypeOK, HandlerPcs, CallbackPcs, Answers, Bodies
  <2>2. QueuedIsWaiting /\ SenderHasReceiver /\ WaitingIsReachable
    BY DEF Init, QueuedIsWaiting, SenderHasReceiver, WaitingIsReachable, Holding
  <2> QED
    BY <2>1, <2>2 DEF SessionInv
<1>2. SessionInv /\ TypeOK' /\ [Next]_vars => SessionInv'
  <2> SUFFICES ASSUME SessionInv, TypeOK', [Next]_vars
               PROVE  SessionInv'
    OBVIOUS
  <2> USE DEF SessionInv
  <2>1. ASSUME NEW r \in Requests, Handler(r) PROVE SessionInv'
    <3>1. CASE Register(r)
      <4>1. /\ pc[r] = "registering" /\ pc' = [pc EXCEPT ![r] = "waiting"]
            /\ requestQueue' = requestQueue \cup {r}
            /\ cbPc' = cbPc /\ cbReq' = cbReq
        BY <3>1 DEF Register, GoTo
      <4>2. \A c \in Callbacks : Holding(c) => cbReq[c] # r
        BY <4>1 DEF SenderHasReceiver
      <4>3. QueuedIsWaiting'
        BY <4>1, <4>2 DEF QueuedIsWaiting, TypeOK, Holding
      <4>4. SenderHasReceiver'
        BY <4>1, <4>2 DEF SenderHasReceiver, TypeOK, Holding
      <4>5. WaitingIsReachable'
        BY <4>1, <4>2 DEF WaitingIsReachable, TypeOK, Holding
      <4> QED
        BY <4>3, <4>4, <4>5
    <3>2. CASE Predict(r) \/ Printed(r) \/ PostReturns(r) \/ PostFails(r)
      <4>1. /\ requestQueue' = requestQueue /\ cbPc' = cbPc /\ cbReq' = cbReq
            /\ pc[r] # "waiting"
            /\ \E p \in HandlerPcs : p # "waiting" /\ pc' = [pc EXCEPT ![r] = p]
        BY <3>2 DEF Predict, Printed, PostReturns, PostFails, GoTo, HandlerPcs
      <4> QED
        BY <4>1, QuietStep DEF TypeOK, Holding
    <3> QED
      BY <2>1, <3>1, <3>2 DEF Handler
  <2>2. ASSUME NEW r \in Requests, BackendDecides(r) PROVE SessionInv'
    BY <2>2, QuietStep DEF BackendDecides, Holding
  <2>3. ASSUME NEW c \in Callbacks, CallbackHandler(c) PROVE SessionInv'
    <3>1. CASE TakeSession(c)
      <4>1. /\ cbPc[c] = "lookup" /\ cbPc' = [cbPc EXCEPT ![c] = "reading"]
            /\ cbReq[c] \in requestQueue
            /\ requestQueue' = requestQueue \ {cbReq[c]}
            /\ pc' = pc /\ cbReq' = cbReq
        BY <3>1 DEF TakeSession, CbGoTo
      <4>2. pc[cbReq[c]] = "waiting"
            /\ \A d \in Callbacks : Holding(d) => cbReq[d] # cbReq[c]
        BY <4>1 DEF QueuedIsWaiting
      <4>3. \A d \in Callbacks : Holding(d)' <=> Holding(d) \/ d = c
        BY <4>1 DEF Holding, TypeOK
      <4>4. QueuedIsWaiting'
        BY <4>1, <4>3 DEF QueuedIsWaiting
      <4>5. SenderHasReceiver'
        BY <4>1, <4>2, <4>3 DEF SenderHasReceiver
      <4>6. WaitingIsReachable'
        BY <4>1, <4>2, <4>3 DEF WaitingIsReachable
      <4> QED
        BY <4>4, <4>5, <4>6
    <3>2. CASE SessionNotFound(c)
      BY <3>2, QuietStep DEF SessionNotFound, CbGoTo, Holding, TypeOK
    <3>3. CASE ReadBody(c)
      BY <3>3, QuietStep DEF ReadBody, CbGoTo, Holding, TypeOK
    <3>4. CASE HandOver(c)
      <4> DEFINE r == cbReq[c]
      <4>1. /\ cbPc[c] = "sending" /\ cbPc' = [cbPc EXCEPT ![c] = "replied"]
            /\ pc[r] = "waiting" /\ pc' = [pc EXCEPT ![r] = "done"]
            /\ requestQueue' = requestQueue /\ cbReq' = cbReq
        BY <3>4 DEF HandOver, CbGoTo, GoTo
      <4>2. r \in Requests /\ Holding(c)
        BY <4>1 DEF TypeOK, Holding
      <4>3. \A d \in Callbacks : Holding(d)' <=> Holding(d) /\ d # c
        BY <4>1 DEF Holding, TypeOK
      <4>4. r \notin requestQueue
            /\ \A d \in Callbacks : Holding(d) /\ d # c => cbReq[d] # r
        BY <4>2 DEF QueuedIsWaiting, SenderHasReceiver
      <4>5. \A q \in Requests : pc'[q] = IF q = r THEN "done" ELSE pc[q]
        BY <4>1 DEF TypeOK
      <4> HIDE DEF r
      <4>6. QueuedIsWaiting'
        BY <4>1, <4>3, <4>4, <4>5 DEF QueuedIsWaiting, TypeOK
      <4>7. SenderHasReceiver'
        BY <4>1, <4>3, <4>4, <4>5 DEF SenderHasReceiver, TypeOK
      <4>8. WaitingIsReachable'
        BY <4>1, <4>3, <4>4, <4>5 DEF WaitingIsReachable, TypeOK, r
      <4> QED
        BY <4>6, <4>7, <4>8
    <3> QED
      BY <2>3, <3>1, <3>2, <3>3, <3>4 DEF CallbackHandler
  <2>4. ASSUME NEW c \in Callbacks, NEW r \in Requests, CallBack(c, r)
        PROVE SessionInv'
    BY <2>4, QuietStep DEF CallBack, CbGoTo, Holding, TypeOK
  <2>5. ASSUME Crash PROVE SessionInv'
    <3>1. /\ requestQueue' = {}
          /\ \A r \in Requests : pc'[r] # "waiting"
          /\ \A c \in Callbacks : ~Holding(c)'
      BY <2>5 DEF Crash, Holding
    <3> QED
      BY <3>1 DEF QueuedIsWaiting, SenderHasReceiver, WaitingIsReachable
  <2>6. CASE UNCHANGED vars
    BY <2>6, QuietStep DEF vars, Holding
  <2> QED
    BY <2>1, <2>2, <2>3, <2>4, <2>5, <2>6 DEF Next, MapRace, PodKilled
<1> QED
  BY <1>1, <1>2, Typing, PTL DEF Spec

\* No callback goroutine is ever stuck in Received, and none can take a session
\* another one still holds (handle.go:58-61, session.go:17-19).
THEOREM SenderAlwaysHasReceiver == Spec => []SenderHasReceiver
<1>1. SessionInv => SenderHasReceiver
  BY DEF SessionInv
<1> QED
  BY <1>1, Sessions, PTL

\* No waiting request loses its session: it stays in the map, or in the hands of
\* one callback, until it is answered or the process dies.
THEOREM WaitingAlwaysReachable == Spec => []WaitingIsReachable
<1>1. SessionInv => WaitingIsReachable
  BY DEF SessionInv
<1> QED
  BY <1>1, Sessions, PTL

-----------------------------------------------------------------------------
\* What one more ctx.JSON does to the positions that hold answers.
LEMMA AppendAnswers ==
  ASSUME NEW s \in Seq(Bodies), NEW x \in Bodies
  PROVE  /\ Len(Append(s, x)) = Len(s) + 1
         /\ x \in Answers => AnswersAt(Append(s, x)) = AnswersAt(s) \cup {Len(s) + 1}
         /\ x \notin Answers => AnswersAt(Append(s, x)) = AnswersAt(s)
<1>1. Len(s) \in Nat /\ Len(Append(s, x)) = Len(s) + 1
  OBVIOUS
<1>2. \A i \in 1..Len(s) + 1 :
        Append(s, x)[i] = IF i = Len(s) + 1 THEN x ELSE s[i]
  OBVIOUS
<1>3. 1..Len(s) + 1 = (1..Len(s)) \cup {Len(s) + 1}
  BY <1>1
<1>4. Len(s) + 1 \notin 1..Len(s)
  BY <1>1
<1> DEFINE t == Append(s, x)
<1>5. AnswersAt(t) = {i \in 1..Len(s) + 1 : t[i] \in Answers}
  BY <1>1 DEF AnswersAt
<1>6. \A i \in 1..Len(s) : t[i] = s[i] /\ i \in 1..Len(s) + 1
  BY <1>1, <1>2
<1>7. t[Len(s) + 1] = x /\ Len(s) + 1 \in 1..Len(s) + 1
  BY <1>1, <1>2
<1> HIDE DEF t
<1>8. \A i : i \in AnswersAt(t) <=>
               i \in AnswersAt(s) \/ (i = Len(s) + 1 /\ x \in Answers)
  BY <1>3, <1>4, <1>5, <1>6, <1>7 DEF AnswersAt
<1>9. x \in Answers => AnswersAt(t) = AnswersAt(s) \cup {Len(s) + 1}
  BY <1>8
<1>10. x \notin Answers => AnswersAt(t) = AnswersAt(s)
  <2> SUFFICES ASSUME x \notin Answers PROVE AnswersAt(t) = AnswersAt(s)
    OBVIOUS
  <2>1. AnswersAt(t) \subseteq AnswersAt(s) /\ AnswersAt(s) \subseteq AnswersAt(t)
    BY <1>8
  <2> QED
    BY <2>1
<1> QED
  BY <1>1, <1>9, <1>10 DEF t

\* A step that writes nothing and ends no handler keeps the answers in place.
LEMMA SilentStep ==
  ASSUME AnsweredOnce, written' = written,
         \A r \in Requests : pc'[r] = "done" <=> pc[r] = "done"
  PROVE  AnsweredOnce'
BY DEF AnsweredOnce

\* A client gets at most one answer, last, exactly when its handler returns,
\* however many callbacks come and whenever the process crashes
\* (handle.go:51, session.go:20-25).
THEOREM AnsweredAtMostOnce == Spec => []AnsweredOnce
<1>1. Init => AnsweredOnce
  <2>1. Len(<<>>) = 0 /\ 1..0 = {}
    OBVIOUS
  <2>2. AnswersAt(<<>>) = {}
    BY <2>1 DEF AnswersAt
  <2>3. ASSUME Init, NEW r \in Requests
        PROVE  pc[r] # "done" /\ AnswersAt(written[r]) = {}
    <3>1. pc[r] = "idle" /\ written[r] = <<>>
      BY <2>3 DEF Init
    <3> QED
      BY <2>2, <3>1
  <2> QED
    BY <2>3 DEF AnsweredOnce
<1>2. TypeOK /\ AnsweredOnce /\ [Next]_vars => AnsweredOnce'
  <2> SUFFICES ASSUME TypeOK, AnsweredOnce, [Next]_vars
               PROVE  AnsweredOnce'
    OBVIOUS
  <2>1. ASSUME NEW r \in Requests, Handler(r) PROVE AnsweredOnce'
    <3>1. CASE PostFails(r)
      <4>1. /\ pc[r] = "posting" /\ pc' = [pc EXCEPT ![r] = "registering"]
            /\ written' = [written EXCEPT ![r] = Append(@, "error500")]
        BY <3>1 DEF PostFails, GoTo
      <4>2. written[r] \in Seq(Bodies) /\ "error500" \in Bodies
            /\ "error500" \notin Answers
        BY DEF TypeOK, Bodies, Answers
      <4>3. AnswersAt(Append(written[r], "error500")) = AnswersAt(written[r])
        BY <4>2, AppendAnswers
      <4>4. AnswersAt(written[r]) = {}
        BY <4>1 DEF AnsweredOnce
      <4> QED
        BY <4>1, <4>3, <4>4 DEF AnsweredOnce, TypeOK
    <3>2. CASE Predict(r) \/ Printed(r) \/ PostReturns(r) \/ Register(r)
      <4>1. /\ written' = written /\ pc[r] # "done"
            /\ \E p \in HandlerPcs : p # "done" /\ pc' = [pc EXCEPT ![r] = p]
        BY <3>2 DEF Predict, Printed, PostReturns, Register, GoTo, HandlerPcs
      <4> QED
        BY <4>1, SilentStep DEF TypeOK
    <3> QED
      BY <2>1, <3>1, <3>2 DEF Handler
  <2>2. ASSUME NEW r \in Requests, BackendDecides(r) PROVE AnsweredOnce'
    BY <2>2, SilentStep DEF BackendDecides
  <2>3. ASSUME NEW c \in Callbacks, CallbackHandler(c) PROVE AnsweredOnce'
    <3>1. CASE HandOver(c)
      <4> DEFINE r == cbReq[c]
      <4>1. /\ pc[r] = "waiting" /\ pc' = [pc EXCEPT ![r] = "done"]
            /\ written' = [written EXCEPT ![r] = Append(@, cbData[c])]
        BY <3>1 DEF HandOver, GoTo
      <4>2. r \in Requests /\ cbData[c] \in Answers /\ cbData[c] \in Bodies
            /\ written[r] \in Seq(Bodies)
        BY DEF TypeOK, Bodies
      <4>3. /\ Len(Append(written[r], cbData[c])) = Len(written[r]) + 1
            /\ AnswersAt(Append(written[r], cbData[c]))
                 = AnswersAt(written[r]) \cup {Len(written[r]) + 1}
        BY <4>2, AppendAnswers
      <4>4. AnswersAt(written[r]) = {}
        BY <4>1, <4>2 DEF AnsweredOnce
      <4> QED
        BY <4>1, <4>2, <4>3, <4>4 DEF AnsweredOnce, TypeOK
    <3>2. CASE TakeSession(c) \/ SessionNotFound(c) \/ ReadBody(c)
      BY <3>2, SilentStep DEF TakeSession, SessionNotFound, ReadBody
    <3> QED
      BY <2>3, <3>1, <3>2 DEF CallbackHandler
  <2>4. ASSUME NEW c \in Callbacks, NEW r \in Requests, CallBack(c, r)
        PROVE AnsweredOnce'
    BY <2>4, SilentStep DEF CallBack
  <2>5. ASSUME Crash PROVE AnsweredOnce'
    BY <2>5, SilentStep DEF Crash
  <2>6. CASE UNCHANGED vars
    BY <2>6, SilentStep DEF vars
  <2> QED
    BY <2>1, <2>2, <2>3, <2>4, <2>5, <2>6 DEF Next, MapRace, PodKilled
<1> QED
  BY <1>1, <1>2, Typing, PTL DEF Spec

-----------------------------------------------------------------------------
\* A callback that delivered an answer to r.
Spent(c, r) == cbPc[c] = "replied" /\ cbReq[c] = r

SpentInv ==
  /\ \A r \in Requests : pc[r] = "done" <=> \E c \in Callbacks : Spent(c, r)
  /\ \A r \in Requests, c, d \in Callbacks : Spent(c, r) /\ Spent(d, r) => c = d
  /\ \A r \in Requests, c \in Callbacks : Spent(c, r) => LastWritten(r, cbData[c])

\* A step that ends no handler, lets no callback deliver and leaves what was
\* delivered alone keeps the pairs of requests and callbacks.
LEMMA NothingSpent ==
  ASSUME SpentInv, \A r \in Requests : pc'[r] = "done" <=> pc[r] = "done",
         \A r \in Requests, c \in Callbacks : Spent(c, r)' <=> Spent(c, r),
         \A r \in Requests, c \in Callbacks :
           Spent(c, r) => written'[r] = written[r] /\ cbData'[c] = cbData[c]
  PROVE  SpentInv'
BY DEF SpentInv, LastWritten

\* Every answered request used up exactly one callback and got what it had
\* decoded; the others for it were told 200 and delivered nothing
\* (handle.go:58-76, session.go:13-25).
THEOREM OneCallbackEach == Spec => []OneCallbackPerAnswer
<1>1. Init => SpentInv
  BY DEF Init, SpentInv, Spent
<1>2. TypeOK /\ SpentInv /\ [Next]_vars => SpentInv'
  <2> SUFFICES ASSUME TypeOK, SpentInv, [Next]_vars PROVE SpentInv'
    OBVIOUS
  <2>1. ASSUME NEW r \in Requests, Handler(r) PROVE SpentInv'
    <3>1. /\ UNCHANGED <<cbPc, cbReq, cbData>> /\ pc[r] # "done"
          /\ \E p \in HandlerPcs : p # "done" /\ pc' = [pc EXCEPT ![r] = p]
      BY <2>1 DEF Handler, Predict, Printed, PostReturns, PostFails, Register, GoTo,
         HandlerPcs
    <3>2. \A s \in Requests : pc'[s] = "done" <=> pc[s] = "done"
      BY <3>1 DEF TypeOK
    <3>3. \A s \in Requests \ {r} : written'[s] = written[s]
      BY <2>1 DEF Handler, Predict, Printed, PostReturns, PostFails, Register, TypeOK
    <3>4. \A c \in Callbacks : ~Spent(c, r)
      BY <3>1 DEF SpentInv
    <3>5. \A s \in Requests, c \in Callbacks : Spent(c, s)' <=> Spent(c, s)
      BY <3>1 DEF Spent
    <3> QED
      BY <3>1, <3>2, <3>3, <3>4, <3>5, NothingSpent
  <2>2. ASSUME NEW r \in Requests, BackendDecides(r) PROVE SpentInv'
    BY <2>2, NothingSpent DEF BackendDecides, Spent
  <2>3. ASSUME NEW c \in Callbacks, CallbackHandler(c) PROVE SpentInv'
    <3>1. CASE HandOver(c)
      <4>1. PICK r \in Requests : r = cbReq[c]
        BY DEF TypeOK
      <4>2. /\ pc[r] = "waiting" /\ pc' = [pc EXCEPT ![r] = "done"]
            /\ cbPc[c] = "sending" /\ cbPc' = [cbPc EXCEPT ![c] = "replied"]
            /\ cbReq' = cbReq /\ cbData' = cbData
            /\ written' = [written EXCEPT ![r] = Append(@, cbData[c])]
        BY <3>1, <4>1 DEF HandOver, GoTo, CbGoTo
      <4>3. \A d \in Callbacks : ~Spent(d, r)
        BY <4>2 DEF SpentInv
      <4>4. \A d \in Callbacks, s \in Requests :
              Spent(d, s)' <=> Spent(d, s) \/ (d = c /\ s = r)
        BY <4>1, <4>2 DEF Spent, TypeOK
      <4>5. \A s \in Requests : pc'[s] = "done" <=> pc[s] = "done" \/ s = r
        BY <4>2 DEF TypeOK
      <4>6. LastWritten(r, cbData[c])'
        <5>1. written[r] \in Seq(Bodies) /\ cbData[c] \in Bodies
          BY DEF TypeOK, Bodies
        <5>2. written'[r] = Append(written[r], cbData[c])
          BY <4>2 DEF TypeOK
        <5>3. \A s \in Seq(Bodies), b \in Bodies :
                Append(s, b) # <<>> /\ Append(s, b)[Len(Append(s, b))] = b
          OBVIOUS
        <5> QED
          BY <4>2, <5>1, <5>2, <5>3 DEF LastWritten
      <4>7. \A s \in Requests \ {r} : written'[s] = written[s]
        BY <4>2 DEF TypeOK
      <4>8. \A d \in Callbacks, s \in Requests :
              Spent(d, s)' => LastWritten(s, cbData[d])'
        <5> SUFFICES ASSUME NEW d \in Callbacks, NEW s \in Requests, Spent(d, s)'
                     PROVE  LastWritten(s, cbData[d])'
          OBVIOUS
        <5>1. CASE d = c /\ s = r
          BY <4>6, <5>1
        <5>2. CASE Spent(d, s)
          <6>1. s # r
            BY <4>3, <5>2
          <6> QED
            BY <4>2, <4>7, <5>2, <6>1 DEF SpentInv, LastWritten
        <5> QED
          BY <4>4, <5>1, <5>2
      <4> QED
        BY <4>3, <4>4, <4>5, <4>8 DEF SpentInv
    <3>2. CASE TakeSession(c) \/ SessionNotFound(c) \/ ReadBody(c)
      <4>1. /\ UNCHANGED <<pc, cbReq>> /\ cbPc[c] # "replied"
            /\ \E p \in CallbackPcs : p # "replied" /\ cbPc' = [cbPc EXCEPT ![c] = p]
            /\ written' = written
        BY <3>2 DEF TakeSession, SessionNotFound, ReadBody, CbGoTo, CallbackPcs
      <4>2. \A s \in Requests, d \in Callbacks : Spent(d, s)' <=> Spent(d, s)
        BY <4>1 DEF TypeOK, Spent
      <4>3. \A d \in Callbacks \ {c} : cbData'[d] = cbData[d]
        BY <3>2 DEF TakeSession, SessionNotFound, ReadBody, TypeOK
      <4>4. \A s \in Requests : ~Spent(c, s)
        BY <4>1 DEF Spent
      <4> QED
        BY <4>1, <4>2, <4>3, <4>4, NothingSpent
    <3> QED
      BY <2>3, <3>1, <3>2 DEF CallbackHandler
  <2>4. ASSUME NEW c \in Callbacks, NEW r \in Requests, CallBack(c, r) PROVE SpentInv'
    <3>1. /\ cbPc[c] = "idle" /\ cbPc' = [cbPc EXCEPT ![c] = "lookup"]
          /\ cbReq' = [cbReq EXCEPT ![c] = r] /\ pc' = pc
          /\ UNCHANGED <<written, cbData>>
      BY <2>4 DEF CallBack, CbGoTo
    <3>2. \A s \in Requests, d \in Callbacks : Spent(d, s)' <=> Spent(d, s)
      BY <3>1 DEF TypeOK, Spent
    <3> QED
      BY <3>1, <3>2, NothingSpent
  <2>5. ASSUME Crash PROVE SpentInv'
    <3>1. \A s \in Requests : pc'[s] = "done" <=> pc[s] = "done"
      BY <2>5 DEF Crash
    <3>2. \A s \in Requests, d \in Callbacks : Spent(d, s)' <=> Spent(d, s)
      BY <2>5 DEF Crash, Spent
    <3> QED
      BY <2>5, <3>1, <3>2, NothingSpent DEF Crash
  <2>6. CASE UNCHANGED vars
    BY <2>6, NothingSpent DEF vars, Spent
  <2> QED
    BY <2>1, <2>2, <2>3, <2>4, <2>5, <2>6 DEF Next, MapRace, PodKilled
<1>3. SpentInv => OneCallbackPerAnswer
  <2> SUFFICES ASSUME SpentInv, NEW r \in Requests
               PROVE  LET used == {c \in Callbacks : cbPc[c] = "replied" /\ cbReq[c] = r}
                      IN  IF pc[r] = "done"
                          THEN \E c \in Callbacks : used = {c} /\ LastWritten(r, cbData[c])
                          ELSE used = {}
    BY DEF OneCallbackPerAnswer
  <2> DEFINE used == {c \in Callbacks : Spent(c, r)}
  <2>1. CASE pc[r] = "done"
    <3>1. PICK c \in Callbacks : Spent(c, r)
      BY <2>1 DEF SpentInv
    <3>2. used = {c} /\ LastWritten(r, cbData[c])
      BY <3>1 DEF SpentInv
    <3> QED
      BY <2>1, <3>2 DEF Spent
  <2>2. CASE pc[r] # "done"
    <3>1. used = {}
      BY <2>2 DEF SpentInv
    <3> QED
      BY <2>2, <3>1 DEF Spent
  <2> QED
    BY <2>1, <2>2
<1> QED
  BY <1>1, <1>2, <1>3, Typing, PTL DEF Spec

=============================================================================
