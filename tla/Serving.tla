------------------------------ MODULE Serving ------------------------------
(***************************************************************************)
(* Passes of the controller over one MLInference, seen as wholes: which    *)
(* pipelines a series of specs leads to, and which status a pass computes  *)
(* (pkg/controller).  The API calls inside a pass, stale reads and what a  *)
(* rollout does turn by turn are the subject of OwnedObjects and Rollout;  *)
(* here a rollout retires its pipeline in one step.                        *)
(***************************************************************************)
EXTENDS PipelineSpec, FiniteSetsExt

CONSTANTS
  Specs,        \* the specs a user may give the MLInference, in this order
  MaxReplicas,  \* bound: replicas of the frontline; createFrontlineApplication asks for 3
  MaxFaults     \* bound: failed calls of Create

Versions == 1..Len(Specs)

ASSUME ServingAssumption ==
  /\ Specs # <<>> /\ IsList(Specs) /\ \A v \in Versions : HasLists(Specs[v])
  /\ MaxReplicas \in Nat /\ MaxFaults \in Nat

VARIABLES
  desired,    \* the spec of the MLInference
  pipelines,  \* the pipelines there are, each named for the spec it was made from
  retiring,   \* those a RolloutModel goroutine works on
  phase,      \* Status.Phase of each pipeline
  frontline,  \* Status of the StatefulSet, if there is one: a sequence of at most one
  queued,     \* whether the MLInference is in the workqueue
  status,     \* the Status that the last pass to reach its Update sent
  faults

vars == <<desired, pipelines, retiring, phase, frontline, queued, status, faults>>

\* What numaflow reports, as far as the controller can tell phases apart.
PipelinePhases == {"", "Running", "Failed", "Paused"}
FrontlineStatus == [replicas : 0..MaxReplicas, current : 0..MaxReplicas,
                    available : 0..MaxReplicas]
PrioritizedPhases == <<"Failed", "Error", "Degraded", "Pending", "Running">>
Known == {PrioritizedPhases[i] : i \in 1..Len(PrioritizedPhases)}
NoStatus == [frontline |-> "", pipeline |-> "", phase |-> ""]

\* There are never more than two pipelines, and one of the two is on its way out.
TypeOK ==
  /\ desired \in Versions
  /\ pipelines \subseteq Versions /\ Cardinality(pipelines) <= 2
  /\ retiring \subseteq pipelines
  /\ Cardinality(pipelines) = 2 => retiring # {}
  /\ phase \in [Versions -> PipelinePhases]
  /\ frontline = <<>> \/ \E s \in FrontlineStatus : frontline = <<s>>
  /\ queued \in BOOLEAN
  /\ status.frontline \in {"", "Running", "Pending"}
  /\ status.pipeline \in PipelinePhases /\ status.phase \in {""} \cup Known
  /\ faults \in 0..MaxFaults

Init ==
  /\ desired = 1
  /\ pipelines = {} /\ retiring = {} /\ phase = [v \in Versions |-> ""]
  /\ frontline = <<>>
  /\ queued = TRUE
  /\ status = NoStatus
  /\ faults = 0

-----------------------------------------------------------------------------
(* Status *)

\* All replicas there are, be they none, are current and available.
ExtractStatefulSetStatus(s) ==
  IF s.available = s.replicas /\ s.current = s.replicas THEN "Running" ELSE "Pending"

\* Mutant: the best phase is taken.
PropagateBest(components) ==
  LET at == {i \in 1..Len(PrioritizedPhases) : PrioritizedPhases[i] \in components}
  IN  IF at = {} THEN "" ELSE PrioritizedPhases[CHOOSE i \in at : \A j \in at : i >= j]

\* The first of the prioritized phases that a component has; a phase that is not
\* among them counts for nothing, and none leaves what there was.
PropagateStatus(components) ==
  LET at == {i \in 1..Len(PrioritizedPhases) : PrioritizedPhases[i] \in components}
  IN  IF at = {} THEN "" ELSE PrioritizedPhases[CHOOSE i \in at : \A j \in at : i <= j]

\* Every pass starts from the stored Status, which is empty: the Update that ends
\* a pass goes to the object, and its status is a subresource, so it is dropped.
StatusOf(pipelinePhase) ==
  LET service == IF frontline = <<>> THEN "" ELSE ExtractStatefulSetStatus(frontline[1])
  IN  [frontline |-> service, pipeline |-> pipelinePhase,
       phase |-> PropagateStatus({service, pipelinePhase})]

-----------------------------------------------------------------------------
(* The pass *)

\* Mutant: only the names of the vertices are compared.
HashOfNames == [v \in Versions |-> Names(Specs[v])]

\* structhash of the vertices, of which the code compares the last six digits: they
\* are taken to tell apart what the vertices do.  What a rollout changes in the
\* vertices is in Rollout.
Hash == [v \in Versions |-> Vertices(Specs[v])]

SameHash(v, w) == Hash[v] = Hash[w]

\* createPipelineSpec and client.Create.  An object of that name may be there.
Created ==
  /\ ~CreatePipelineFails(Specs[desired])
  /\ \A v \in pipelines : ~SameHash(desired, v)
  /\ pipelines' = pipelines \cup {desired}
  /\ phase' = [phase EXCEPT ![desired] = ""]

\* numFound == 0
CreateFirst == pipelines = {} /\ Created /\ UNCHANGED retiring

\* Mutant: no rollout is begun for the old pipeline.
CreateBeside ==
  /\ \E old \in Versions : pipelines = {old} /\ ~SameHash(desired, old)
  /\ Created
  /\ UNCHANGED retiring

\* Mutant: the rollout is given the pipeline that was just made.
CreateAndRollOutNew ==
  /\ \E old \in Versions : pipelines = {old} /\ ~SameHash(desired, old)
  /\ retiring' = retiring \cup {desired}
  /\ Created

\* numFound == 1, another hash
CreateAndRollOut ==
  /\ \E old \in Versions :
       /\ pipelines = {old} /\ ~SameHash(desired, old)
       /\ retiring' = retiring \cup {old}
  /\ Created

\* numFound == 1 with the same hash, or numFound > 1
NoUpdate ==
  /\ pipelines # {}
  /\ \A v \in pipelines : pipelines = {v} => SameHash(desired, v)
  /\ UNCHANGED <<pipelines, retiring, phase>>

\* The status of a pipeline is only looked at when it is the only one.
ReconcilePipeline ==
  /\ CreateFirst \/ CreateAndRollOut \/ NoUpdate
  /\ status' = StatusOf(IF Cardinality(pipelines) = 1
                        THEN phase[CHOOSE v \in pipelines : TRUE] ELSE "")

\* The StatefulSet is created, or updated and its status taken.
ReconcileFrontlineApplication ==
  frontline' = IF frontline = <<>>
               THEN <<[replicas |-> 0, current |-> 0, available |-> 0]>>
               ELSE frontline

TakeRequest == queued /\ Validate(Specs[desired])

\* What is created is an event, and has the MLInference queued again.
Pass ==
  /\ TakeRequest
  /\ ReconcilePipeline
  /\ ReconcileFrontlineApplication
  /\ queued' = (pipelines' # pipelines \/ frontline' # frontline)
  /\ UNCHANGED <<desired, faults>>

\* createPipelineSpec or Create fails: Process returns before its Update, and
\* nothing is queued again.
PassFails ==
  /\ TakeRequest
  /\ Cardinality(pipelines) < 2
  /\ \A v \in pipelines : ~SameHash(desired, v)
  /\ IF CreatePipelineFails(Specs[desired])
     THEN UNCHANGED faults
     ELSE faults < MaxFaults /\ faults' = faults + 1
  /\ queued' = FALSE
  /\ UNCHANGED <<desired, pipelines, retiring, phase, frontline, status>>

\* Nothing is reconciled; the Status that is sent is the stored one.
PassInvalid ==
  /\ queued /\ ~Validate(Specs[desired])
  /\ queued' = FALSE
  /\ status' = NoStatus
  /\ UNCHANGED <<desired, pipelines, retiring, phase, frontline, faults>>

Process == Pass \/ PassFails \/ PassInvalid

-----------------------------------------------------------------------------
(* The user, numaflow, the StatefulSet controller.  Their changes are events. *)

\* Going back to an earlier spec is the subject of RolloutRevert.
EditSpec ==
  /\ \E v \in Versions : v > desired /\ desired' = v
  /\ queued' = TRUE
  /\ UNCHANGED <<pipelines, retiring, phase, frontline, status, faults>>

\* Mutant: the controller does not watch for pipelines that go.
RetireUnnoticed ==
  /\ \E v \in retiring :
       /\ pipelines' = pipelines \ {v} /\ retiring' = retiring \ {v}
       /\ phase' = [phase EXCEPT ![v] = ""]
  /\ UNCHANGED <<desired, frontline, queued, status, faults>>

\* The rollout's work is done, and the pipeline is gone.
Retire ==
  /\ \E v \in retiring :
       /\ pipelines' = pipelines \ {v} /\ retiring' = retiring \ {v}
       /\ phase' = [phase EXCEPT ![v] = ""]
  /\ queued' = TRUE
  /\ UNCHANGED <<desired, frontline, status, faults>>

SetPhase ==
  /\ \E v \in pipelines, ph \in PipelinePhases \ {""} : phase' = [phase EXCEPT ![v] = ph]
  /\ queued' = TRUE
  /\ UNCHANGED <<desired, pipelines, retiring, frontline, status, faults>>

ReportReplicas ==
  /\ frontline # <<>>
  /\ \E s \in FrontlineStatus :
       /\ s.current <= s.replicas /\ s.available <= s.replicas
       /\ frontline' = <<s>>
  /\ queued' = TRUE
  /\ UNCHANGED <<desired, pipelines, retiring, phase, status, faults>>

\* controller-runtime lists everything again every ten hours.
Resync ==
  /\ ~queued /\ queued' = TRUE
  /\ UNCHANGED <<desired, pipelines, retiring, phase, frontline, status, faults>>

Next ==
  \/ Process
  \/ EditSpec \/ Retire \/ SetPhase \/ ReportReplicas \/ Resync

Spec == Init /\ [][Next]_vars

\* A queued MLInference is worked on, a rollout that was begun gets done, and the
\* resync comes.
Fairness == WF_vars(Process) /\ WF_vars(Retire) /\ WF_vars(Resync)

FairSpec == Spec /\ Fairness

-----------------------------------------------------------------------------
(* Correctness *)

\* The versions whose pipeline does the work that version v asks for, and those
\* whose pipeline does it but for what the aliased loop variables lose: the UDF of a
\* step that differs from that of the last of its list, and a store's secret that
\* differs from the last one's.
Serves == [v \in Versions |->
            {w \in Versions : Carries(Vertices(Specs[w]), Specs[v])}]
ServesButAliased == [v \in Versions |->
            {w \in Versions : CarriesButAliased(Vertices(Specs[w]), Specs[v])}]

\* What events call for has been done: nothing is queued and no rollout is under
\* way, no Create failed, and the spec is one that Validate accepts.
Idle == ~queued /\ retiring = {} /\ faults = 0 /\ Validate(Specs[desired])

\* The versions whose pipeline is one chain.
Chains == {v \in Versions : IsChain(Names(Specs[v]), Edges(Vertices(Specs[v])))}

\* A pipeline made from a spec whose names differ is one chain through all its
\* steps and predictors, in the user's order (installer.go:734-747).
DeployedIsChain == \A v \in pipelines : WellNamed(Specs[v]) => v \in Chains

\* What README.md:4 says, "Create new canary inference pipeline if any atomic unit
\* changes which will help to assess the new change with end to end pipeline": when
\* the controller is idle the pipeline that is left does the work of the spec, with
\* the UDF of every step of it.
IdleIsServed == Idle => \E w \in Serves[desired] : pipelines = {w}

\* What events call for is enough: when the controller is idle one pipeline is left,
\* and it does the work of the spec, but for aliased steps and secrets.  An edit of
\* anything else that a pass met in the middle of a rollout, and did nothing about,
\* is taken up when the rollout is over, and no resync is needed for it
\* (installer.go:112-164).
IdleIsServedButAliased ==
  Idle => \E w \in ServesButAliased[desired] : pipelines = {w}

Plan == INSTANCE Deployment WITH
          Namespaces <- {"default"},
          newest     <- [n \in {"default"} |-> Max({0} \cup pipelines)],
          standing   <- {"default"} \X pipelines

\* Passes deploy each version after those that were deployed before it and once
\* only, whichever of them they skip, and what is given up is never the newest
\* there was (installer.go:104-139).
DeploysInOrder == Plan!Spec

\* However specs follow each other, and whatever a rollout in progress or a
\* failed Create makes a pass skip: from some time on one pipeline is left, and it
\* does the work of the last spec, but for aliased steps and secrets, provided that
\* spec is valid.  So no change of a name, a model or a last step is taken for none,
\* and what Validate accepts can be built; of a change of an earlier step alone
\* nothing is said here, see IdleIsServed (installer.go:59-164, 593-604,
\* validate.go:5-34).
LastSpecIsServedButAliased ==
  <>[](Validate(Specs[desired]) =>
         \E w \in ServesButAliased[desired] : pipelines = {w})

\* The phase of a pass is at least as bad as that of each component it knows of,
\* and is the phase of one of them (installer.go:766-787).
PhaseIsWorst ==
  LET severity == [Running |-> 1, Pending |-> 2, Degraded |-> 3, Error |-> 4,
                   Failed |-> 5]
      components == {status.frontline, status.pipeline} \cap Known
  IN  IF components = {} THEN status.phase = ""
      ELSE /\ status.phase \in components
           /\ \A c \in components : severity[c] <= severity[status.phase]

=============================================================================
