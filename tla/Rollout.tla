------------------------------ MODULE Rollout ------------------------------
(***************************************************************************)
(* The controller's rollout of pipelines (pkg/controller/installer.go):    *)
(* reconcilePipeline, which turns the spec of an MLInference into a        *)
(* numaflow Pipeline named after a hash of its vertices, and RolloutModel, *)
(* the goroutine it starts to scale the previous pipeline down and delete  *)
(* it.                                                                     *)
(*                                                                         *)
(* Both read through the manager's cache, which lags the API server, and   *)
(* write to the API server.  What numaflow does with the pipelines is      *)
(* external: it makes and scales their http-in vertex, and removes what    *)
(* was deleted, in its own time.                                           *)
(***************************************************************************)
EXTENDS Integers, FiniteSetsExt

CONSTANTS
  Namespaces,   \* the namespaces that hold an MLInference of one given name
  NVersions,    \* bound: the specs a user gives an MLInference are 1..NVersions
  Reverts,      \* whether a user may go back to an earlier spec
  Rollouts,     \* bound: the RolloutModel goroutines ever started
  MaxReplicas,  \* numaflow's default for a nil Scale.Max
  MaxGen,       \* bound: how often a pipeline of one name is created
  MaxEdits,     \* bound: changes of spec
  MaxFaults,    \* bound: failed API calls
  MaxCrashes    \* bound: restarts of the controller

Versions == 1..NVersions

\* A pipeline's name is <name>-pipeline-<hash>, so the namespace and the version
\* identify it; the six digits of the hash are taken to tell versions apart.
Pipelines == Namespaces \X Versions

ASSUME RolloutAssumption ==
  /\ Namespaces # {} /\ IsFiniteSet(Namespaces)
  /\ NVersions \in Nat \ {0}
  /\ Reverts \in BOOLEAN
  /\ MaxReplicas \in Nat /\ MaxReplicas > 1
  /\ MaxGen \in Nat /\ MaxEdits \in Nat
  /\ MaxFaults \in Nat /\ MaxCrashes \in Nat

VARIABLES
  desired,   \* the spec of the MLInference of each namespace
  pipe,      \* the Pipeline objects on the API server
  cache,     \* the Pipeline objects as the informers last saw them
  vertex,    \* status.replicas of the http-in Vertex of each pipeline, as the
             \* informers show it
  rPc,       \* where each RolloutModel goroutine stands
  rOld,      \* the pipeline it is to replace: oldPipeline
  rCopy,     \* its local variable pipeline: what it read, and what it changed
  rDelete,   \* its local variable canDeletePipeline
  edits, faults, crashes

controller == <<rPc, rOld, rCopy, rDelete>>
bounds == <<edits, faults, crashes>>
vars == <<desired, pipe, cache, vertex, controller, bounds>>

NoVertex == -1

\* Scale.Min and Scale.Max of http-in.  numaflow reads a nil Max as its default
\* and what is below zero as zero.
Scales == [min : 0..2, max : 0..MaxReplicas]
NewScale == [min |-> 2, max |-> MaxReplicas]

\* gen counts the objects created under a name, and so stands for the UID.
Phases == {"absent", "standing", "deleting"}
Objects == [phase : Phases, gen : 0..MaxGen, scale : Scales]
NoObject == [phase |-> "absent", gen |-> 0, scale |-> NewScale]

\* loaded: some Get succeeded; read and scale: Scale as read, and as changed.
Copies == [loaded : BOOLEAN, gen : 0..MaxGen, read : Scales, scale : Scales]
NoCopy == [loaded |-> FALSE, gen |-> 0, read |-> NewScale, scale |-> NewScale]

TypeOK ==
  /\ desired \in [Namespaces -> Versions]
  /\ pipe \in [Pipelines -> Objects]
  /\ cache \in [Pipelines -> Objects]
  /\ vertex \in [Pipelines -> {NoVertex} \cup 0..MaxReplicas]
  /\ rPc \in [Rollouts -> {"off", "looping", "updating", "deleting",
                           "done", "lost"}]
  /\ rOld \in [Rollouts -> Pipelines]
  /\ rCopy \in [Rollouts -> Copies]
  /\ rDelete \in [Rollouts -> BOOLEAN]
  /\ edits \in 0..MaxEdits /\ faults \in 0..MaxFaults /\ crashes \in 0..MaxCrashes

\* Each namespace has just been given its MLInference; rOld is set when a
\* goroutine starts.
Init ==
  /\ desired = [n \in Namespaces |-> 1]
  /\ pipe = [p \in Pipelines |-> NoObject]
  /\ cache = [p \in Pipelines |-> NoObject]
  /\ vertex = [p \in Pipelines |-> NoVertex]
  /\ rPc = [g \in Rollouts |-> "off"]
  /\ rOld = [g \in Rollouts |-> CHOOSE p \in Pipelines : TRUE]
  /\ rCopy = [g \in Rollouts |-> NoCopy]
  /\ rDelete = [g \in Rollouts |-> FALSE]
  /\ edits = 0 /\ faults = 0 /\ crashes = 0

Exists(object) == object.phase # "absent"
Standing(object) == object.phase = "standing"

Fault == faults < MaxFaults /\ faults' = faults + 1

-----------------------------------------------------------------------------
(* The user and the informers *)

EditSpec(n, v) ==
  /\ edits < MaxEdits /\ edits' = edits + 1
  /\ v # desired[n] /\ (Reverts \/ v > desired[n])
  /\ desired' = [desired EXCEPT ![n] = v]
  /\ UNCHANGED <<pipe, cache, vertex, controller, faults, crashes>>

\* The watch catches up.
SyncCache ==
  /\ cache # pipe
  /\ cache' = pipe
  /\ UNCHANGED <<desired, pipe, vertex, controller, bounds>>

-----------------------------------------------------------------------------
(* reconcilePipeline.  Any event of the MLInference or of what it owns, and   *)
(* the informers' periodic resync, may have it run at any time.  It changes   *)
(* nothing when more than one pipeline was found, when the hash is the same,  *)
(* or when Create or a step of Reconcile before it fails: the error is logged *)
(* and the request is not queued again (controller.go:76-83).                 *)

\* client.List by the label mlinference=<name>; no namespace is given.
Found == {p \in Pipelines : Exists(cache[p])}

\* createPipelineSpec always sets Min to 2 and leaves Max nil, so the hashes of
\* the vertices agree when the versions do and no rollout has rescaled http-in.
SameHash(n, p) == p[2] = desired[n] /\ cache[p].scale = NewScale

\* client.Create succeeds unless the name is taken.
CreatePipeline(n) ==
  LET p == <<n, desired[n]>> IN
  /\ ~Exists(pipe[p])
  /\ pipe[p].gen < MaxGen
  /\ pipe' = [pipe EXCEPT ![p] = [phase |-> "standing", gen |-> @.gen + 1,
                                  scale |-> NewScale]]

\* numFound == 0
CreateFirst(n) ==
  /\ Found = {}
  /\ CreatePipeline(n)
  /\ UNCHANGED <<desired, cache, vertex, controller, bounds>>

\* The error of List is not looked at: the list it leaves is empty.
CreateAfterListError(n) ==
  /\ Fault
  /\ CreatePipeline(n)
  /\ UNCHANGED <<desired, cache, vertex, controller, edits, crashes>>

\* Mutant: the rollout starts whether or not Create succeeded.
RollOutRegardless(n) ==
  /\ Cardinality(Found) = 1
  /\ \E old \in Found, g \in Rollouts :
       /\ ~SameHash(n, old)
       /\ CreatePipeline(n) \/ UNCHANGED pipe
       /\ rPc[g] = "off"
       /\ rPc' = [rPc EXCEPT ![g] = "looping"]
       /\ rOld' = [rOld EXCEPT ![g] = old]
  /\ UNCHANGED <<desired, cache, vertex, rCopy, rDelete, bounds>>

\* numFound == 1 with another hash: the new pipeline is created, and then the
\* goroutine that retires the one that was found is started.  (It sleeps for a
\* minute first, which is one way of not being scheduled.)
CreateAndRollOut(n) ==
  /\ Cardinality(Found) = 1
  /\ \E old \in Found, g \in Rollouts :
       /\ ~SameHash(n, old)
       /\ CreatePipeline(n)
       /\ rPc[g] = "off"
       /\ rPc' = [rPc EXCEPT ![g] = "looping"]
       /\ rOld' = [rOld EXCEPT ![g] = old]
  /\ UNCHANGED <<desired, cache, vertex, rCopy, rDelete, bounds>>

ReconcilePipeline(n) ==
  CreateFirst(n) \/ CreateAfterListError(n) \/ CreateAndRollOut(n)

-----------------------------------------------------------------------------
(* RolloutModel *)

RGoTo(g, place) == rPc' = [rPc EXCEPT ![g] = place]

\* client.List by the labels pipeline-name and vertex-name; no namespace.
Vertices(g) ==
  {p \in Pipelines : p[2] = rOld[g][2] /\ vertex[p] # NoVertex}

\* client.Get: when it fails the variable keeps what it had.
Fetched(g) ==
  LET object == cache[rOld[g]] IN
  IF Exists(object)
  THEN [loaded |-> TRUE, gen |-> object.gen, read |-> object.scale,
        scale |-> object.scale]
  ELSE rCopy[g]

\* What numaflow makes of a bound below zero.
NotNegative(i) == IF i < 0 THEN 0 ELSE i

\* Mutant: Max is set to one more than the replicas.
LowerOneMore(copy, replicas) ==
  IF copy.scale.max > 1
  THEN [copy EXCEPT !.scale = [min |-> NotNegative(copy.scale.min - 1),
                               max |-> replicas + 1]]
  ELSE copy

\* One turn of the loop for http-in, given the replicas of Items[0]: Min is
\* lowered by one and Max to one less than the replicas, while Max is nil or
\* above one.
Lower(copy, replicas) ==
  IF copy.scale.max > 1
  THEN [copy EXCEPT !.scale = [min |-> NotNegative(copy.scale.min - 1),
                               max |-> NotNegative(replicas - 1)]]
  ELSE copy

\* Mutant: that one replica is left is only looked at while Max can be lowered.
ScaleDownOrDecide(g) ==
  /\ rPc[g] = "looping"
  /\ \E p \in Vertices(g) :
       IF Fetched(g).loaded
       THEN /\ rCopy' = [rCopy EXCEPT ![g] = Lower(Fetched(g), vertex[p])]
            /\ rDelete' = [rDelete EXCEPT
                             ![g] = @ \/ (Fetched(g).scale.max > 1 /\ vertex[p] = 1)]
       ELSE UNCHANGED <<rCopy, rDelete>>
  /\ RGoTo(g, "updating")
  /\ UNCHANGED <<desired, pipe, cache, vertex, rOld, bounds>>

ScaleDown(g) ==
  /\ rPc[g] = "looping"
  /\ \E p \in Vertices(g) :
       IF Fetched(g).loaded
       THEN /\ rCopy' = [rCopy EXCEPT ![g] = Lower(Fetched(g), vertex[p])]
            /\ rDelete' = [rDelete EXCEPT ![g] = @ \/ vertex[p] = 1]
       ELSE UNCHANGED <<rCopy, rDelete>>
  /\ RGoTo(g, "updating")
  /\ UNCHANGED <<desired, pipe, cache, vertex, rOld, bounds>>

\* No vertex is left: break.  A List that fails leaves an empty list, too.
EndRollout(g) ==
  /\ rPc[g] = "looping"
  /\ IF Vertices(g) = {} THEN UNCHANGED faults ELSE Fault
  /\ RGoTo(g, "done")
  /\ rCopy' = [rCopy EXCEPT ![g] = NoCopy]
  /\ rDelete' = [rDelete EXCEPT ![g] = FALSE]
  /\ UNCHANGED <<desired, pipe, cache, vertex, rOld, edits, crashes>>

\* Mutant: the bounds are written over whatever is there, as a patch would.
RescaleBlindly(g) ==
  LET p == rOld[g] IN
  /\ rPc[g] = "updating"
  /\ rCopy[g].loaded
  /\ Exists(pipe[p]) /\ pipe[p].gen = rCopy[g].gen
  /\ pipe' = [pipe EXCEPT ![p].scale = rCopy[g].scale]
  /\ rCopy' = [rCopy EXCEPT ![g].read = rCopy[g].scale]
  /\ RGoTo(g, IF rDelete[g] THEN "deleting" ELSE "looping")
  /\ UNCHANGED <<desired, cache, vertex, rOld, rDelete, bounds>>

\* time.Sleep(20 * time.Second) and client.Update: accepted if the object is
\* still the one that was read, unchanged.
Rescale(g) ==
  LET p == rOld[g] IN
  /\ rPc[g] = "updating"
  /\ rCopy[g].loaded
  /\ Exists(pipe[p]) /\ pipe[p].gen = rCopy[g].gen
  /\ pipe[p].scale = rCopy[g].read
  /\ pipe' = [pipe EXCEPT ![p].scale = rCopy[g].scale]
  /\ rCopy' = [rCopy EXCEPT ![g].read = rCopy[g].scale]
  /\ RGoTo(g, IF rDelete[g] THEN "deleting" ELSE "looping")
  /\ UNCHANGED <<desired, cache, vertex, rOld, rDelete, bounds>>

\* Update fails, for a conflict with any other write, numaflow's status
\* included, or because the object is gone.  The error is logged.
RescaleFails(g) ==
  /\ rPc[g] = "updating"
  /\ RGoTo(g, IF rDelete[g] THEN "deleting" ELSE "looping")
  /\ UNCHANGED <<desired, pipe, cache, vertex, rOld, rCopy, rDelete,
                 bounds>>

\* Mutant: the goroutine returns after Delete, whatever its error.
DeleteAndReturn(g) ==
  LET p == rOld[g] IN
  /\ rPc[g] = "deleting"
  /\ \/ /\ Standing(pipe[p])
        /\ pipe' = [pipe EXCEPT ![p].phase = "deleting"]
        /\ UNCHANGED faults
     \/ ~Standing(pipe[p]) /\ UNCHANGED <<pipe, faults>>
     \/ Fault /\ UNCHANGED pipe
  /\ RGoTo(g, "done")
  /\ UNCHANGED <<desired, cache, vertex, rOld, rCopy, rDelete, edits, crashes>>

\* client.Delete goes by the name alone; its error is dropped.
DeletePipeline(g) ==
  LET p == rOld[g] IN
  /\ rPc[g] = "deleting"
  /\ \/ /\ Standing(pipe[p])
        /\ pipe' = [pipe EXCEPT ![p].phase = "deleting"]
        /\ UNCHANGED faults
     \/ ~Standing(pipe[p]) /\ UNCHANGED <<pipe, faults>>
     \/ Fault /\ UNCHANGED pipe
  /\ RGoTo(g, "looping")
  /\ UNCHANGED <<desired, cache, vertex, rOld, rCopy, rDelete, edits,
                 crashes>>

RolloutModel(g) ==
  \/ ScaleDown(g) \/ EndRollout(g)
  \/ Rescale(g) \/ RescaleFails(g) \/ DeletePipeline(g)

\* The controller restarts.  Its goroutines are gone for good; the informers
\* list everything again.
Crash ==
  /\ crashes < MaxCrashes /\ crashes' = crashes + 1
  /\ rPc' = [g \in Rollouts |->
              IF rPc[g] \in {"off", "done"} THEN rPc[g] ELSE "lost"]
  /\ rCopy' = [g \in Rollouts |-> NoCopy]
  /\ rDelete' = [g \in Rollouts |-> FALSE]
  /\ cache' = pipe
  /\ UNCHANGED <<desired, pipe, vertex, rOld, edits, faults>>

-----------------------------------------------------------------------------
(* numaflow *)

\* The finalizer is removed.
Finalize(p) ==
  /\ pipe[p].phase = "deleting"
  /\ pipe' = [pipe EXCEPT ![p].phase = "absent"]
  /\ UNCHANGED <<desired, cache, vertex, controller, bounds>>

SetVertex(p, replicas) ==
  /\ vertex[p] # replicas
  /\ vertex' = [vertex EXCEPT ![p] = replicas]
  /\ UNCHANGED <<desired, pipe, cache, controller, bounds>>

CreateVertex(p) ==
  /\ Standing(pipe[p]) /\ vertex[p] = NoVertex
  /\ SetVertex(p, pipe[p].scale.min)

\* The autoscaler picks any number of replicas within the bounds, and the informers
\* show it late: the bounds may have come down since.
Scale(p) ==
  LET lowest == IF pipe[p].scale.min <= pipe[p].scale.max THEN pipe[p].scale.min
                                                          ELSE pipe[p].scale.max
  IN  /\ Standing(pipe[p]) /\ vertex[p] # NoVertex
      /\ \E n \in lowest..MaxReplicas : SetVertex(p, n)

\* The vertex of a deleted pipeline is collected.
CollectVertex(p) ==
  /\ ~Standing(pipe[p]) /\ vertex[p] # NoVertex
  /\ SetVertex(p, NoVertex)

Numaflow(p) ==
  Finalize(p) \/ CreateVertex(p) \/ Scale(p) \/ CollectVertex(p)

-----------------------------------------------------------------------------
Next ==
  \/ \E n \in Namespaces : (\E v \in Versions : EditSpec(n, v)) \/ ReconcilePipeline(n)
  \/ SyncCache
  \/ \E g \in Rollouts : RolloutModel(g)
  \/ \E p \in Pipelines : Numaflow(p)
  \/ Crash

Spec == Init /\ [][Next]_vars

\* The rollout goroutines run, the informers catch up, and numaflow collects the
\* vertices of what was deleted.  Nothing is assumed of the autoscaler or of new
\* pods.
Fairness ==
  /\ \A g \in Rollouts : WF_vars(RolloutModel(g))
  /\ WF_vars(SyncCache)
  /\ \A p \in Pipelines : WF_vars(CollectVertex(p))

FairSpec == Spec /\ Fairness

-----------------------------------------------------------------------------
(* Correctness *)

\* Once an MLInference has a pipeline, it always has one that stands: the old one
\* is retired only after its successor was created, through stale reads, failed
\* calls and crashes of the controller (installer.go:119-139, 269-272).
AlwaysAPipeline ==
  \A n \in Namespaces :
    (\E v \in Versions : pipe[<<n, v>>].gen > 0)
      => \E v \in Versions : Standing(pipe[<<n, v>>])

\* The newest version of which there ever was a pipeline, and the pipelines that
\* stand.
NewestCreated ==
  [n \in Namespaces |-> Max({0} \cup {v \in Versions : pipe[<<n, v>>].gen > 0})]
StandingPipelines == {p \in Pipelines : Standing(pipe[p])}

Plan == INSTANCE Deployment WITH
          newest <- NewestCreated, standing <- StandingPipelines

\* Versions go live in order and once each, whatever lists a reconciliation went
\* by, and each rollout gives up a pipeline that was succeeded, even if it outlives
\* other rollouts (installer.go:119-139, 269-272).
DeploysInOrder == Plan!Spec

\* Goroutines that work on one pipeline, and stale reads, do not undo each other:
\* Update is refused unless the object is as it was read, so Min never rises and
\* a Max of at most one is final (installer.go:246-265).  Max itself may rise
\* again: the replicas it is computed from may have grown past it, up to an
\* earlier Max, before Update brought it down.
ScaleSettles ==
  [][\A p \in Pipelines :
       Exists(pipe[p]) /\ pipe'[p].gen = pipe[p].gen
         => /\ pipe'[p].scale.min <= pipe[p].scale.min
            /\ pipe[p].scale.max <= 1 => pipe'[p].scale = pipe[p].scale]_vars

\* A rollout that decided to delete its pipeline gets it deleted, whatever
\* updates fail on the way and although no Delete is checked, and ends.  A crash is
\* one way out; the other takes two failed calls, the Delete and then the List that
\* is to show whether a vertex is left (installer.go:237-244, 269-272).
RolloutFinishes ==
  \A g \in Rollouts :
    (rPc[g] = "deleting") ~>
      \/ rPc[g] = "lost"
      \/ rPc[g] = "done" /\ (~Standing(pipe[rOld[g]]) \/ faults > 1)

\* A rollout ends if its pipeline comes down to one replica and stays there: the
\* bounds it set, its earlier polls, what it read before the pipeline was in the
\* cache and updates that fail do not keep it from seeing the one.  Whether the
\* number ever is one between two polls is left to numaflow, and if it goes from
\* two to none the rollout goes on for ever (installer.go:242-272).
OneReplicaIsEnough ==
  \A g \in Rollouts :
    ~<>[](rPc[g] \in {"looping", "updating", "deleting"} /\ vertex[rOld[g]] = 1)

\* What installer.go:29 says of the objects a reconciliation looks at, "(in the
\* same namespace)": it retires no pipeline of another MLInference.
RetiresOwnPipeline ==
  [][\A n \in Namespaces, g \in Rollouts :
       CreateAndRollOut(n) /\ rPc'[g] # rPc[g] => rOld'[g][1] = n]_vars

=============================================================================
