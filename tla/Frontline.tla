------------------------------ MODULE Frontline ------------------------------
(***************************************************************************)
(* One frontline pod (pkg/frontline).  A client POSTs /predict and its     *)
(* handler, synchandle, forwards the body to the pipeline's http source,   *)
(* registers a session under a fresh uuid and blocks until the answer      *)
(* comes back.  The answer arrives as another HTTP call, made by the       *)
(* pipeline's sink: POST /callback/<uuid>, served by handleResponse, which *)
(* takes the session out of the map and hands the answer over an           *)
(* unbuffered channel.                                                     *)
(*                                                                         *)
(* Every handler is a goroutine; the map is written under rwlock, but read *)
(* without it by the Println at the top of synchandle.                     *)
(***************************************************************************)
EXTENDS Naturals, Sequences

CONSTANTS
  Requests,   \* the calls of /predict; a request also stands for its uuid and session
  Callbacks   \* the calls of /callback/:reqId the pod receives over its life

VARIABLES
  pc,            \* where the synchandle goroutine of each request stands
  requestQueue,  \* the uuids that have a session in fs.requestQueue
  written,       \* what each synchandle wrote with ctx.JSON, in order
  backend,       \* what the pipeline made of each forwarded request
  cbPc,          \* where each handleResponse goroutine stands
  cbReq,         \* the :reqId of each callback
  cbData         \* the MLServeResponse each callback decoded

vars == <<pc, requestQueue, written, backend, cbPc, cbReq, cbData>>

HandlerPcs == {"idle", "printing", "posting", "registering", "waiting",
               "done", "dead"}
CallbackPcs == {"idle", "lookup", "reading", "sending", "replied", "notFound",
                "dead"}

\* What a handler may write: the 500 of a failed Post, an answer the pipeline
\* computed, or the zero MLServeResponse of a body that does not unmarshal.
Answers == {"answer", "zero"}
Bodies == Answers \cup {"error500"}

\* The positions of a handler's writes that hold an answer.
AnswersAt(s) == {i \in 1..Len(s) : s[i] \in Answers}

TypeOK ==
  /\ pc \in [Requests -> HandlerPcs]
  /\ requestQueue \subseteq Requests
  /\ written \in [Requests -> Seq(Bodies)]
  /\ backend \in [Requests -> {"unseen", "sent", "accepted", "rejected"}]
  /\ cbPc \in [Callbacks -> CallbackPcs]
  /\ cbReq \in [Callbacks -> Requests]
  /\ cbData \in [Callbacks -> Answers]

\* The process starts with an empty map.  cbReq and cbData mean something only
\* once a callback has arrived, and has decoded its body.
Init ==
  /\ pc = [r \in Requests |-> "idle"]
  /\ requestQueue = {}
  /\ written = [r \in Requests |-> <<>>]
  /\ backend = [r \in Requests |-> "unseen"]
  /\ cbPc = [c \in Callbacks |-> "idle"]
  /\ cbReq \in [Callbacks -> Requests]
  /\ cbData = [c \in Callbacks |-> "zero"]

-----------------------------------------------------------------------------
(* synchandle *)

GoTo(r, place) == pc' = [pc EXCEPT ![r] = place]

\* A client's call is dispatched: a uuid and a session are made, and Println
\* starts to iterate the map.  The runtime returns at once from an empty map.
Predict(r) ==
  /\ pc[r] = "idle"
  /\ GoTo(r, IF requestQueue = {} THEN "posting" ELSE "printing")
  /\ backend' = [backend EXCEPT ![r] = IF requestQueue = {} THEN "sent" ELSE @]
  /\ UNCHANGED <<requestQueue, written, cbPc, cbReq, cbData>>

\* The iteration ends without meeting a writer and client.Post puts the request
\* on the wire.
Printed(r) ==
  /\ pc[r] = "printing"
  /\ GoTo(r, "posting")
  /\ backend' = [backend EXCEPT ![r] = "sent"]
  /\ UNCHANGED <<requestQueue, written, cbPc, cbReq, cbData>>

\* Post returns with an HTTP response, of whatever status: the check of
\* rsp.StatusCode is commented out.
PostReturns(r) ==
  /\ pc[r] = "posting"
  /\ backend[r] \in {"accepted", "rejected"}
  /\ GoTo(r, "registering")
  /\ UNCHANGED <<requestQueue, written, backend, cbPc, cbReq, cbData>>

\* Post returns a transport error, before or after the pipeline took the
\* request.  The handler writes a 500 and carries on: there is no return.
PostFails(r) ==
  /\ pc[r] = "posting"
  /\ GoTo(r, "registering")
  /\ written' = [written EXCEPT ![r] = Append(@, "error500")]
  /\ UNCHANGED <<requestQueue, backend, cbPc, cbReq, cbData>>

\* The session enters the map under the lock, and wait starts to receive on its
\* channel; nothing bounds that wait.
Register(r) ==
  /\ pc[r] = "registering"
  /\ requestQueue' = requestQueue \cup {r}
  /\ GoTo(r, "waiting")
  /\ UNCHANGED <<written, backend, cbPc, cbReq, cbData>>

-----------------------------------------------------------------------------
(* handleResponse *)

CbGoTo(c, place) == cbPc' = [cbPc EXCEPT ![c] = place]

\* Mutant: the session is looked up and never deleted.
TakeSessionKept(c) ==
  /\ cbPc[c] = "lookup"
  /\ cbReq[c] \in requestQueue
  /\ CbGoTo(c, "reading")
  /\ UNCHANGED <<pc, requestQueue, written, backend, cbReq, cbData>>

\* The lookup and the delete, in one critical section: the session is taken, or
\* the callback is answered with an empty 200.
TakeSession(c) ==
  /\ cbPc[c] = "lookup"
  /\ cbReq[c] \in requestQueue
  /\ requestQueue' = requestQueue \ {cbReq[c]}
  /\ CbGoTo(c, "reading")
  /\ UNCHANGED <<pc, written, backend, cbReq, cbData>>

SessionNotFound(c) ==
  /\ cbPc[c] = "lookup"
  /\ cbReq[c] \notin requestQueue
  /\ CbGoTo(c, "notFound")
  /\ UNCHANGED <<pc, requestQueue, written, backend, cbReq, cbData>>

\* Mutant: a body that does not decode ends the callback with the session taken.
ReadBodyReturnsOnError(c) ==
  /\ cbPc[c] = "reading"
  /\ cbData' = [cbData EXCEPT ![c] = "answer"]
  /\ \E place \in {"sending", "notFound"} : CbGoTo(c, place)
  /\ UNCHANGED <<pc, requestQueue, written, backend, cbReq>>

\* Mutant: a failed read is handed to the client as an error of its own.
ReadBodySendsError(c) ==
  /\ cbPc[c] = "reading"
  /\ \E d \in Bodies : cbData' = [cbData EXCEPT ![c] = d]
  /\ CbGoTo(c, "sending")
  /\ UNCHANGED <<pc, requestQueue, written, backend, cbReq>>

\* ReadAll's error is dropped and Unmarshal's only logged: a body cut short
\* leaves the zero response, which is sent on all the same.
ReadBody(c) ==
  /\ cbPc[c] = "reading"
  /\ \E d \in Answers : cbData' = [cbData EXCEPT ![c] = d]
  /\ CbGoTo(c, "sending")
  /\ UNCHANGED <<pc, requestQueue, written, backend, cbReq>>

\* Mutant: wait keeps receiving, its loop without the break.
HandOverNoBreak(c) ==
  LET r == cbReq[c] IN
  /\ cbPc[c] = "sending"
  /\ pc[r] = "waiting"
  /\ written' = [written EXCEPT ![r] = Append(@, cbData[c])]
  /\ CbGoTo(c, "replied")
  /\ UNCHANGED <<pc, requestQueue, backend, cbReq, cbData>>

\* Received meets wait on the unbuffered channel.  synchandle writes the answer
\* and returns; handleResponse replies 200.
HandOver(c) ==
  LET r == cbReq[c] IN
  /\ cbPc[c] = "sending"
  /\ pc[r] = "waiting"
  /\ written' = [written EXCEPT ![r] = Append(@, cbData[c])]
  /\ GoTo(r, "done")
  /\ CbGoTo(c, "replied")
  /\ UNCHANGED <<requestQueue, backend, cbReq, cbData>>

-----------------------------------------------------------------------------
(* The process *)

\* Every goroutine dies with the process; the restarted one has an empty map.
\* What a handler wrote and had not returned stays in net/http's buffer.
Crash ==
  /\ pc' = [r \in Requests |->
             IF pc[r] \in {"idle", "done"} THEN pc[r] ELSE "dead"]
  /\ cbPc' = [c \in Callbacks |->
               IF cbPc[c] \in {"idle", "replied", "notFound"} THEN cbPc[c]
                                                              ELSE "dead"]
  /\ requestQueue' = {}
  /\ UNCHANGED <<written, backend, cbReq, cbData>>

\* Some goroutine is about to write the map: an insertion, or a delete of a map
\* that is not empty.
AboutToWriteMap ==
  \/ \E r \in Requests : pc[r] = "registering"
  \/ requestQueue # {} /\ \E c \in Callbacks : cbPc[c] = "lookup"

\* The unlocked iteration overlaps a locked write, and the runtime detects it:
\* "fatal error: concurrent map iteration and map write".
MapRace ==
  /\ \E r \in Requests : pc[r] = "printing"
  /\ AboutToWriteMap
  /\ Crash

\* The pod is evicted or killed; ListenAndServe has no graceful shutdown.
PodKilled == Crash

-----------------------------------------------------------------------------
(* The pipeline, seen from the pod *)

BackendDecides(r) ==
  /\ backend[r] = "sent"
  /\ \E verdict \in {"accepted", "rejected"} :
       backend' = [backend EXCEPT ![r] = verdict]
  /\ UNCHANGED <<pc, requestQueue, written, cbPc, cbReq, cbData>>

\* The sink calls back for a request the pipeline accepted, as often as it
\* thinks it must, whether or not the client's goroutine still lives.
CallBack(c, r) ==
  /\ cbPc[c] = "idle"
  /\ backend[r] = "accepted"
  /\ CbGoTo(c, "lookup")
  /\ cbReq' = [cbReq EXCEPT ![c] = r]
  /\ UNCHANGED <<pc, requestQueue, written, backend, cbData>>

-----------------------------------------------------------------------------
Handler(r) ==
  Predict(r) \/ Printed(r) \/ PostReturns(r) \/ PostFails(r) \/ Register(r)

CallbackHandler(c) ==
  TakeSession(c) \/ SessionNotFound(c) \/ ReadBody(c) \/ HandOver(c)

Next ==
  \/ \E r \in Requests : Handler(r) \/ BackendDecides(r)
  \/ \E c \in Callbacks : CallbackHandler(c) \/ \E r \in Requests : CallBack(c, r)
  \/ MapRace
  \/ PodKilled

Spec == Init /\ [][Next]_vars

\* Goroutines that can run are run.  ReadBody ends because the sink's client
\* gives up after its --timeout and closes the connection.  Nothing is assumed
\* of Post, which has no timeout, nor of the pipeline.
Fairness ==
  /\ \A r \in Requests : WF_vars(Printed(r)) /\ WF_vars(Register(r))
  /\ \A c \in Callbacks : WF_vars(CallbackHandler(c))

FairSpec == Spec /\ Fairness

-----------------------------------------------------------------------------
(* Correctness *)

\* A callback goroutine that has taken the session of its request.
Holding(c) == cbPc[c] \in {"reading", "sending"}

\* The channel is unbuffered and nobody closes it, so a callback that holds a
\* session blocks for ever in Received unless its request is still waiting and
\* no other callback holds the same session (handle.go:58-61, session.go:17).
SenderHasReceiver ==
  \A c \in Callbacks : Holding(c) =>
    /\ pc[cbReq[c]] = "waiting"
    /\ \A d \in Callbacks : Holding(d) /\ cbReq[d] = cbReq[c] => d = c

\* A request that waits can still be answered: its session is in the map or a
\* callback has it in hand, and never both, else a second answer would find a
\* session nobody receives on.
WaitingIsReachable ==
  \A r \in Requests : pc[r] = "waiting" =>
    LET held == \E c \in Callbacks : Holding(c) /\ cbReq[c] = r
    IN  /\ r \in requestQueue \/ held
        /\ ~(r \in requestQueue /\ held)

\* However often the sink calls back, a client gets at most one answer, it is
\* the last thing written, and the handler returns with it and not before.
AnsweredOnce ==
  \A r \in Requests :
    AnswersAt(written[r]) = IF pc[r] = "done" THEN {Len(written[r])} ELSE {}

\* The last thing a client was given is s.
LastWritten(r, s) == written[r] # <<>> /\ written[r][Len(written[r])] = s

\* Every answered request used up exactly one callback, and got what that one had
\* decoded; all the other callbacks for it are told 200 without having delivered
\* anything (handle.go:58-76, session.go:13-25).
OneCallbackPerAnswer ==
  \A r \in Requests :
    LET used == {c \in Callbacks : cbPc[c] = "replied" /\ cbReq[c] = r}
    IN  IF pc[r] = "done"
        THEN \E c \in Callbacks : used = {c} /\ LastWritten(r, cbData[c])
        ELSE used = {}

\* A request that waits when a callback for it arrives gets an answer, unless
\* the process dies first.
CallbackAnswersWaiter ==
  \A r \in Requests, c \in Callbacks :
    (cbPc[c] = "lookup" /\ cbReq[c] = r /\ pc[r] = "waiting")
      ~> (pc[r] \in {"done", "dead"})

\* What handle.go:63 logs: a callback turned away with "request is not found" is
\* not for a request whose handler is still on its way to wait for it.
NotFoundIsNotLive ==
  [][\A c \in Callbacks :
       SessionNotFound(c) => pc[cbReq[c]] \notin {"posting", "registering"}]_vars

=============================================================================
