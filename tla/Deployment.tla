----------------------------- MODULE Deployment -----------------------------
(***************************************************************************)
(* What the deployment of pipelines promises, without the passes, reads,   *)
(* goroutines and restarts it is made of: the versions of an MLInference   *)
(* go live in their order and once each, and one is given up only after a  *)
(* newer one went live, so the newest of them always stands.               *)
(***************************************************************************)
EXTENDS Naturals

CONSTANTS
  Namespaces,  \* of the MLInferences: one in each
  Versions     \* of their specs: numbers from 1

VARIABLES
  newest,   \* the newest version of each that went live, 0 if none did
  standing  \* the pipelines, pairs of a namespace and a version, not given up

Init == newest = [n \in Namespaces |-> 0] /\ standing = {}

Deploy(n, v) ==
  /\ v > newest[n]
  /\ newest' = [newest EXCEPT ![n] = v]
  /\ standing' = standing \cup {<<n, v>>}

Retire(n, v) ==
  /\ <<n, v>> \in standing /\ v < newest[n]
  /\ standing' = standing \ {<<n, v>>}
  /\ UNCHANGED newest

Next == \E n \in Namespaces, v \in Versions : Deploy(n, v) \/ Retire(n, v)

Spec == Init /\ [][Next]_<<newest, standing>>

=============================================================================
