----------------------------- MODULE Predictor -----------------------------
(***************************************************************************)
(* The predictor vertex of a pipeline: pods whose init container           *)
(* (pkg/init) puts the model on a volume of the pod, and whose main        *)
(* container (serve/) loads it and maps one message after the other.       *)
(*                                                                         *)
(* External: numaflow, which has every pod read one message at a time,     *)
(* calls the map until it succeeds, and gives the message of a lost pod to *)
(* another; and kubelet, which restarts a failed init container, and a     *)
(* failed main container without running the init container again.         *)
(***************************************************************************)
EXTENDS Naturals, Sequences

CONSTANTS
  Requests,        \* messages are named by the request they carry
  Pods,            \* the pods of the vertex; the controller asks for at least one
  Poisonable,      \* the requests whose payload exec may be unable to use
  MaxDisruptions   \* bound: restarts of main containers and losses of pods

VARIABLES
  poison,      \* the requests that make exec raise
  inBuffer,    \* the messages no pod has read
  podPc,       \* where each pod stands
  model,       \* whether the model file is on its volume
  hand,        \* the message it has read and not finished, if any
  arrived,     \* the results, in the order in which they reach the sink
  disruptions

vars == <<poison, inBuffer, podPc, model, hand, arrived, disruptions>>

\* A pod serves only with a model, and has a message only after it has started.
TypeOK ==
  /\ poison \subseteq Poisonable
  /\ inBuffer \in Seq(Requests) /\ arrived \in Seq(Requests)
  /\ podPc \in [Pods -> {"init", "loading", "serving"}]
  /\ model \in [Pods -> BOOLEAN]
  /\ hand \in [Pods -> {<<>>} \cup {<<r>> : r \in Requests}]
  /\ \A p \in Pods : podPc[p] = "serving" => model[p]
  /\ \A p \in Pods : podPc[p] = "init" => ~model[p] /\ hand[p] = <<>>
  /\ disruptions \in Nat

\* A new pipeline: no pod has run its init container.
Init ==
  /\ poison \in SUBSET Poisonable
  /\ inBuffer = <<>>
  /\ podPc = [p \in Pods |-> "init"]
  /\ model = [p \in Pods |-> FALSE]
  /\ hand = [p \in Pods |-> <<>>]
  /\ arrived = <<>>
  /\ disruptions = 0

GoTo(p, place) == podPc' = [podPc EXCEPT ![p] = place]

-----------------------------------------------------------------------------
(* DownloadModel.  A failed download is log.Fatalln, and init runs again: no *)
(* step.                                                                     *)

\* The bucket cannot be listed: DownloadModel returns, the container ends with
\* status 0 and the main one is started, without a model.  (The secret key is
\* read from SECRETACCESSKEY, and createPipelineSpec sets SECRETKEYACCESS: the
\* store is asked anonymously, so a private bucket fails here every time.)
ListFails(p) ==
  /\ podPc[p] = "init"
  /\ GoTo(p, "loading")
  /\ UNCHANGED <<poison, inBuffer, model, hand, arrived, disruptions>>

Download(p) ==
  /\ podPc[p] = "init"
  /\ model' = [model EXCEPT ![p] = TRUE]
  /\ GoTo(p, "loading")
  /\ UNCHANGED <<poison, inBuffer, hand, arrived, disruptions>>

-----------------------------------------------------------------------------
(* serve and InferenceUDF *)

\* onnx.load of a file that is not there raises, and kubelet starts the
\* container again: no step.
Load(p) ==
  /\ podPc[p] = "loading" /\ model[p]
  /\ GoTo(p, "serving")
  /\ UNCHANGED <<poison, inBuffer, model, hand, arrived, disruptions>>

Read(p) ==
  /\ podPc[p] = "serving" /\ hand[p] = <<>> /\ inBuffer # <<>>
  /\ hand' = [hand EXCEPT ![p] = <<Head(inBuffer)>>]
  /\ inBuffer' = Tail(inBuffer)
  /\ UNCHANGED <<poison, podPc, model, arrived, disruptions>>

\* Mutant: exec returns no message, in place of an exception.
InferOrSkip(p) ==
  /\ podPc[p] = "serving" /\ hand[p] # <<>>
  /\ \/ arrived' = arrived \o hand[p]
     \/ UNCHANGED arrived
  /\ hand' = [hand EXCEPT ![p] = <<>>]
  /\ UNCHANGED <<poison, inBuffer, podPc, model, disruptions>>

\* Mutant: the result goes on before the message is done with, and again after.
InferTwice(p) ==
  /\ podPc[p] = "serving" /\ hand[p] # <<>>
  /\ hand[p][1] \notin poison
  /\ arrived' = arrived \o hand[p] \o hand[p]
  /\ hand' = [hand EXCEPT ![p] = <<>>]
  /\ UNCHANGED <<poison, inBuffer, podPc, model, disruptions>>

\* exec replaces the payload and keeps the metadata.  For a payload it cannot
\* decode or use it raises, and is called again with the same message: no step.
Infer(p) ==
  /\ podPc[p] = "serving" /\ hand[p] # <<>>
  /\ hand[p][1] \notin poison
  /\ arrived' = arrived \o hand[p]
  /\ hand' = [hand EXCEPT ![p] = <<>>]
  /\ UNCHANGED <<poison, inBuffer, podPc, model, disruptions>>

-----------------------------------------------------------------------------
(* kubelet *)

Disrupt == disruptions < MaxDisruptions /\ disruptions' = disruptions + 1

\* The main container dies; volume and message stay with the pod.
Restart(p) ==
  /\ podPc[p] = "serving"
  /\ GoTo(p, "loading")
  /\ Disrupt
  /\ UNCHANGED <<poison, inBuffer, model, hand, arrived>>

\* The pod is lost and replaced, with an empty volume; the message it had is
\* delivered again, ahead of the others or behind them.
Evict(p) ==
  /\ podPc[p] # "init"
  /\ GoTo(p, "init")
  /\ model' = [model EXCEPT ![p] = FALSE]
  /\ hand' = [hand EXCEPT ![p] = <<>>]
  /\ inBuffer' \in {hand[p] \o inBuffer, inBuffer \o hand[p]}
  /\ Disrupt
  /\ UNCHANGED <<poison, arrived>>

-----------------------------------------------------------------------------
InitContainer(p) == ListFails(p) \/ Download(p)
Work(p) == Load(p) \/ Read(p) \/ Infer(p)

Next == \E p \in Pods : InitContainer(p) \/ Work(p) \/ Restart(p) \/ Evict(p)

\* A pod that will take no further message, as things stand: it has no model, or
\* a message it cannot finish.
Stuck(p) ==
  \/ podPc[p] = "loading" /\ ~model[p]
  \/ podPc[p] = "serving" /\ hand[p] # <<>> /\ hand[p][1] \in poison

=============================================================================
