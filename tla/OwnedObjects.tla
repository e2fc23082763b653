---------------------------- MODULE OwnedObjects ----------------------------
(***************************************************************************)
(* The objects the controller keeps for one MLInference                    *)
(* (pkg/controller): an InterStepBufferService, the first Pipeline with    *)
(* its Service, the frontline's Service and its StatefulSet.  Reconcile    *)
(* takes them one after the other; the first error ends the pass, and      *)
(* since MLInferenceReconciler.Reconcile returns none, nothing is retried. *)
(*                                                                         *)
(* What is read comes from the manager's cache; what is written goes to    *)
(* the API server, where others write as well.  Pipelines after the first  *)
(* are the subject of Rollout.                                             *)
(***************************************************************************)
EXTENDS Naturals

CONSTANTS
  Valid,       \* the specs that Validate accepts
  NVersions,   \* bound: the user gives the MLInference the specs 1..NVersions in turn
  Finalized,   \* the kinds whose objects do not go before a finalizer is removed
  MaxFaults,   \* bound: failed API calls
  MaxOutside,  \* bound: writes and deletions by others
  MaxCrashes   \* bound: restarts of the controller

Versions == 1..NVersions

Kinds == {"isbsvc", "pipeline", "pipelineService", "service", "application"}

\* SetupWithManager: whose changes have the MLInference reconciled.  Services
\* are not among them.
Owned == {"isbsvc", "pipeline", "application"}

\* What is read, and so is in the cache.
Read == Kinds \ {"pipelineService"}

ASSUME OwnedAssumption ==
  /\ NVersions \in Nat \ {0} /\ Valid \subseteq Versions
  /\ Finalized \subseteq Kinds
  /\ MaxFaults \in Nat /\ MaxOutside \in Nat /\ MaxCrashes \in Nat

VARIABLES
  desired,  \* the spec of the MLInference
  seen,     \* that spec in the cache
  object,   \* the objects on the API server
  cached,   \* the kinds, of those read, that have an object in the cache
  current,  \* the kinds, of those read, of which it holds what the API server does
  queued,   \* whether the MLInference is in the workqueue
  stage,    \* the kind the pass is at, or "idle"
  call,     \* the API call that is next for it
  spec,     \* mlInferenceObj.Spec of the pass
  found,    \* whether the object Get returned is still the one on the API server
  faults, outside, crashes

mlinference == <<desired, seen>>
cluster == <<object, cached, current>>
pass == <<stage, call, spec, found>>
bounds == <<faults, outside, crashes>>
vars == <<mlinference, cluster, queued, pass, bounds>>

\* spec is that of the MLInference the object was made for, 0 if its kind does
\* not depend on it (or, of a pipeline, is not looked at here).
Objects == [phase : {"absent", "live", "deleting"}, spec : 0..NVersions]
NoObject == [phase |-> "absent", spec |-> 0]

TypeOK ==
  /\ desired \in Versions /\ seen \in Versions
  /\ object \in [Kinds -> Objects]
  /\ cached \subseteq Read /\ current \subseteq Read
  /\ queued \in BOOLEAN
  /\ stage \in Kinds \cup {"idle"}
  /\ call \in {"get", "update", "delete", "create"}
  /\ spec \in Versions /\ found \in BOOLEAN
  /\ faults \in 0..MaxFaults /\ outside \in 0..MaxOutside
  /\ crashes \in 0..MaxCrashes

\* An MLInference has just been created.
Init ==
  /\ desired = 1 /\ seen = 1
  /\ object = [k \in Kinds |-> NoObject]
  /\ cached = {} /\ current = Read
  /\ queued = TRUE
  /\ stage = "idle" /\ call = "get" /\ spec = 1 /\ found = FALSE
  /\ faults = 0 /\ outside = 0 /\ crashes = 0

Exists(k) == object[k].phase # "absent"

Fault == faults < MaxFaults /\ faults' = faults + 1

\* A write gives an object a new resourceVersion: copies of it are out of date.
Write(k, new) ==
  /\ object' = [object EXCEPT ![k] = new]
  /\ current' = current \ {k}
  /\ cached' = cached

Remove(k) ==
  Write(k, IF k \in Finalized THEN [object[k] EXCEPT !.phase = "deleting"]
                              ELSE NoObject)

-----------------------------------------------------------------------------
(* MLInferenceReconciler.Reconcile, Process and Reconcile *)

Validate(v) == v \in Valid

\* Mutant: the pass works on the object of the event that queued it.
StartPassFromEvent ==
  /\ stage = "idle" /\ queued
  /\ queued' = FALSE
  /\ \E v \in 1..seen : spec' = v
  /\ stage' = IF Validate(seen) THEN "isbsvc" ELSE "idle"
  /\ UNCHANGED <<mlinference, cluster, call, found, bounds>>

\* Mutant: a spec that is not valid is replaced by an empty one.
StartPassEmptied ==
  /\ stage = "idle" /\ queued
  /\ queued' = FALSE
  /\ spec' = IF Validate(seen) THEN seen ELSE 0
  /\ stage' = IF Validate(seen) THEN "isbsvc" ELSE "idle"
  /\ UNCHANGED <<mlinference, cluster, call, found, bounds>>

\* A worker takes the request and reads the MLInference; passes of one object
\* never overlap.  If the spec is not valid only Process's Update is left, as at
\* the end of every pass: it carries a new status, which an Update of an object
\* with a status subresource ignores, and is refused if the copy is old.
StartPass ==
  /\ stage = "idle" /\ queued
  /\ queued' = FALSE
  /\ spec' = seen
  /\ stage' = IF Validate(seen) THEN "isbsvc" ELSE "idle"
  /\ UNCHANGED <<mlinference, cluster, call, found, bounds>>

After(k) ==
  CASE k = "isbsvc" -> "pipeline"
    [] k \in {"pipeline", "pipelineService"} -> "service"
    [] k = "service" -> "application"
    [] k = "application" -> "idle"

GoTo(k, next) == stage' = k /\ call' = next /\ UNCHANGED <<spec, found>>

Proceed(k) == GoTo(After(k), "get")

\* return err: logged by MLInferenceReconciler.Reconcile, not returned by it.
Abandon == GoTo("idle", "get")

\* What createFrontlineApplication and its like make of the spec: the frontline's
\* --sync depends on it, the ISB service and the services do not.
Content(k) == IF k = "application" THEN spec ELSE 0

\* Mutant: what exists is left as it is.
GetIsEnough(k) ==
  /\ stage = k /\ call = "get"
  /\ IF k \in cached THEN Proceed(k) ELSE GoTo(k, "create")
  /\ UNCHANGED <<mlinference, cluster, queued, bounds>>

\* Get, of a kind that is updated when it exists.
Get(k) ==
  /\ stage = k /\ call = "get"
  /\ call' = IF k \in cached THEN "update" ELSE "create"
  /\ found' = (k \in current)
  /\ UNCHANGED <<mlinference, cluster, queued, stage, spec, bounds>>

\* An error of Get other than NotFound.
GetFails(k) ==
  /\ stage = k /\ call = "get"
  /\ Fault
  /\ Abandon
  /\ UNCHANGED <<mlinference, cluster, queued, outside, crashes>>

\* Update of the object Get returned, with its spec replaced.  One that changes
\* nothing leaves the resourceVersion as it is.
Update(k) ==
  LET new == [object[k] EXCEPT !.spec = Content(k)] IN
  /\ stage = k /\ call = "update"
  /\ found
  /\ IF new = object[k] THEN UNCHANGED cluster ELSE Write(k, new)
  /\ Proceed(k)
  /\ UNCHANGED <<mlinference, queued, bounds>>

\* "will trying deleting/recreating": for a conflict, too.
UpdateFails(k) ==
  /\ stage = k /\ call = "update"
  /\ IF found THEN Fault ELSE UNCHANGED faults
  /\ GoTo(k, "delete")
  /\ UNCHANGED <<mlinference, cluster, queued, outside, crashes>>

\* By name: whatever has it now.
Delete(k) ==
  /\ stage = k /\ call = "delete"
  /\ Exists(k)
  /\ Remove(k)
  /\ GoTo(k, "create")
  /\ UNCHANGED <<mlinference, queued, bounds>>

DeleteFails(k) ==
  /\ stage = k /\ call = "delete"
  /\ IF Exists(k) THEN Fault ELSE UNCHANGED faults
  /\ Abandon
  /\ UNCHANGED <<mlinference, cluster, queued, outside, crashes>>

\* next is what follows: of a new pipeline, and of no other, its service.
Create(k, next) ==
  /\ stage = k /\ call = "create"
  /\ ~Exists(k)
  /\ Write(k, [phase |-> "live", spec |-> Content(k)])
  /\ next
  /\ UNCHANGED <<mlinference, queued, bounds>>

\* The name is taken, by an object that is being deleted or that the cache does
\* not hold yet; or the call fails.
CreateFails(k) ==
  /\ stage = k /\ call = "create"
  /\ IF Exists(k) THEN UNCHANGED faults ELSE Fault
  /\ Abandon
  /\ UNCHANGED <<mlinference, cluster, queued, outside, crashes>>

GetUpdateOrCreate(k) ==
  \/ Get(k) \/ GetFails(k)
  \/ Update(k) \/ UpdateFails(k)
  \/ Delete(k) \/ DeleteFails(k)
  \/ Create(k, Proceed(k)) \/ CreateFails(k)

ReconcileISBSvc == GetUpdateOrCreate("isbsvc")

\* Mutant: with a pipeline found there is taken to be nothing left to do.
ListPipelinesAndReturn ==
  /\ stage = "pipeline" /\ call = "get"
  /\ IF "pipeline" \in cached THEN Abandon
                              ELSE GoTo("pipeline", "create")
  /\ UNCHANGED <<mlinference, cluster, queued, bounds>>

\* A pipeline that is found is left alone, or rolled over (see Rollout).
ListPipelines ==
  /\ stage = "pipeline" /\ call = "get"
  /\ IF "pipeline" \in cached THEN Proceed("pipeline")
                              ELSE GoTo("pipeline", "create")
  /\ UNCHANGED <<mlinference, cluster, queued, bounds>>

\* An error of List is not looked at: no pipeline is taken to be there.  Unless one
\* of this spec is, a pipeline is made, be it next to one of another spec.
ListFails ==
  /\ stage = "pipeline" /\ call = "get"
  /\ Fault
  /\ \/ GoTo("pipeline", "create")
     \/ Exists("pipeline") /\ GoTo("pipelineService", "create")
  /\ UNCHANGED <<mlinference, cluster, queued, outside, crashes>>

\* The Create of the pipeline of a changed spec fails.
SuccessorFails ==
  /\ stage = "pipeline" /\ call = "get"
  /\ "pipeline" \in cached
  /\ Fault
  /\ Abandon
  /\ UNCHANGED <<mlinference, cluster, queued, outside, crashes>>

\* An AlreadyExists of the pipeline's service is no error.
PipelineServiceExists ==
  /\ stage = "pipelineService"
  /\ Exists("pipelineService")
  /\ Proceed("pipelineService")
  /\ UNCHANGED <<mlinference, cluster, queued, bounds>>

PipelineServiceFails ==
  /\ ~Exists("pipelineService")
  /\ CreateFails("pipelineService")

ReconcilePipeline ==
  \/ ListPipelines \/ ListFails \/ SuccessorFails
  \/ Create("pipeline", GoTo("pipelineService", "create"))
  \/ CreateFails("pipeline")
  \/ Create("pipelineService", Proceed("pipelineService"))
  \/ PipelineServiceExists
  \/ PipelineServiceFails

ReconcileFrontlineService == GetUpdateOrCreate("service")

ReconcileFrontlineApplication == GetUpdateOrCreate("application")

Reconcile ==
  \/ StartPass
  \/ ReconcileISBSvc \/ ReconcilePipeline
  \/ ReconcileFrontlineService \/ ReconcileFrontlineApplication

\* The restarted controller lists everything, which queues the MLInference.
Crash ==
  /\ crashes < MaxCrashes /\ crashes' = crashes + 1
  /\ GoTo("idle", "get")
  /\ seen' = desired
  /\ cached' = {k \in Read : Exists(k)} /\ current' = Read
  /\ queued' = TRUE
  /\ UNCHANGED <<desired, object, faults, outside>>

-----------------------------------------------------------------------------
(* The user, the informers, and whoever else writes these objects *)

EditSpec ==
  /\ desired < NVersions
  /\ desired' = desired + 1
  /\ UNCHANGED <<seen, cluster, queued, pass, bounds>>

SyncSpec ==
  /\ seen # desired
  /\ seen' = desired
  /\ queued' = TRUE
  /\ UNCHANGED <<desired, cluster, pass, bounds>>

SyncObject(k) ==
  /\ k \in Read \ current
  /\ current' = current \cup {k}
  /\ cached' = IF Exists(k) THEN cached \cup {k} ELSE cached \ {k}
  /\ queued' = (queued \/ k \in Owned)
  /\ UNCHANGED <<mlinference, object, pass, bounds>>

\* The informers' resync, every ten hours: by then they have long caught up.
Resync ==
  /\ current = Read /\ seen = desired
  /\ ~queued /\ queued' = TRUE
  /\ UNCHANGED <<mlinference, cluster, pass, bounds>>

\* What Get returned goes out of date with the object.
Outdate(k) == found' = (found /\ stage # k)

\* A status is updated, or somebody deletes the object.
WriteOutside(k) ==
  /\ outside < MaxOutside /\ outside' = outside + 1
  /\ Exists(k)
  /\ Write(k, object[k]) \/ Remove(k)
  /\ Outdate(k)
  /\ UNCHANGED <<mlinference, queued, stage, call, spec, faults, crashes>>

Finalize(k) ==
  /\ object[k].phase = "deleting"
  /\ Write(k, NoObject)
  /\ Outdate(k)
  /\ UNCHANGED <<mlinference, queued, stage, call, spec, bounds>>

Others ==
  \/ EditSpec \/ SyncSpec \/ Resync
  \/ \E k \in Kinds : SyncObject(k) \/ WriteOutside(k) \/ Finalize(k)

Next == Reconcile \/ Crash \/ Others

Spec == Init /\ [][Next]_vars

\* A queued MLInference is worked on, informers catch up, finalizers are removed
\* and the resync comes.  Nothing is assumed of the user or of other writers.
\* Informers are not late every time: again and again they catch up between two
\* passes.  A pass whose reads are old deletes and recreates what it reads, and
\* so makes the next pass's reads old; nothing in the code ends that.
Fairness ==
  /\ WF_vars(Reconcile)
  /\ WF_vars(SyncSpec) /\ WF_vars(Resync)
  /\ \A k \in Kinds : /\ WF_vars(SyncObject(k)) /\ WF_vars(Finalize(k))
                     /\ SF_vars(stage = "idle" /\ SyncObject(k))

FairSpec == Spec /\ Fairness

-----------------------------------------------------------------------------
(* Correctness *)

AsDesired(k) ==
  object[k].phase = "live" /\ (k = "application" => object[k].spec = desired)

\* Whatever fails, is deleted by others or is interrupted between a delete and
\* the create after it: with a valid spec that stays, the objects are all there
\* in the end, and the frontline is made for that spec (installer.go:166-218,
\* 278-392).  The pipeline's service is another matter, see below.
Converges ==
  <>[](desired \in Valid) =>
    <>[](\A k \in Kinds \ {"pipelineService"} : AsDesired(k))

Undisturbed == faults = 0 /\ outside = 0

\* Without failed calls and without writes by others, nothing is missing when the
\* controller rests: no pass under way or queued, and none to be queued by a late
\* informer.  Passes whose reads are old, which delete what they find changed and
\* end early at what they do not find, and restarts at any point, between a Delete
\* and the Create after it too, leave no object to the resync
\* (installer.go:24-57, 166-218, 278-392, controller.go:76-83).
NothingMissing ==
  stage = "idle" /\ ~queued /\ Owned \subseteq current /\ seen \in Valid /\ Undisturbed
    => \A k \in Read : object[k].phase = "live"

\* The frontline never goes back to an older spec, although passes work on a
\* copy of the MLInference that may be old (controller.go:67-76).
SpecNeverGoesBack ==
  [][object["application"].phase = "live" /\ object'["application"].phase = "live"
       => object["application"].spec <= object'["application"].spec]_vars

\* What installer.go:28-30 says of each resource type, "if it doesn't exist: get
\* the spec and create it": the service the frontline posts to is there in the
\* end.
PipelineServiceFollows ==
  <>[](desired \in Valid) => <>[](AsDesired("pipelineService"))

=============================================================================
