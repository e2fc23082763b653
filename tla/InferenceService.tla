-------------------------- MODULE InferenceService --------------------------
(***************************************************************************)
(* What numaserve promises a client of POST /predict, without frontline,   *)
(* buffers, sink or sessions: a call gets at most one answer, it is the    *)
(* last thing it gets, and only after the pipeline has computed it; before *)
(* it there may be one error.  A call that is open when its frontline pod  *)
(* goes may be lost, and then is never answered.                           *)
(***************************************************************************)
EXTENDS Sequences

CONSTANT Requests

VARIABLES
  status,    \* where each call stands
  computed,  \* the requests the pipeline has computed an answer for
  replies    \* what each client was given, in order

vars == <<status, computed, replies>>

Init ==
  /\ status = [r \in Requests |-> "idle"]
  /\ computed = {}
  /\ replies = [r \in Requests |-> <<>>]

Call(r) ==
  /\ status[r] = "idle"
  /\ status' = [status EXCEPT ![r] = "open"]
  /\ UNCHANGED <<computed, replies>>

\* The pipeline may work on a request whose client is gone, but on no other
\* twice and on none that was not called.
Compute(r) ==
  /\ status[r] # "idle" /\ r \notin computed
  /\ computed' = computed \cup {r}
  /\ UNCHANGED <<status, replies>>

\* The request could not be forwarded, or so it seems; the call stays open.
Excuse(r) ==
  /\ status[r] = "open" /\ replies[r] = <<>>
  /\ replies' = [replies EXCEPT ![r] = <<"error500">>]
  /\ UNCHANGED <<status, computed>>

\* The answer may be the empty one: a client can be given less than was computed.
Answer(r) ==
  /\ status[r] = "open" /\ r \in computed
  /\ status' = [status EXCEPT ![r] = "answered"]
  /\ \E a \in {"answer", "zero"} : replies' = [replies EXCEPT ![r] = Append(@, a)]
  /\ UNCHANGED computed

\* A pod takes all its open calls with it.
Lose ==
  /\ status' = [r \in Requests |-> IF status[r] = "open" THEN "lost" ELSE status[r]]
  /\ UNCHANGED <<computed, replies>>

Next ==
  \/ \E r \in Requests : Call(r) \/ Excuse(r) \/ Compute(r) \/ Answer(r)
  \/ Lose

Spec == Init /\ [][Next]_vars

=============================================================================
