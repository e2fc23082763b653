--------------------------- MODULE ServingProofs ---------------------------
(***************************************************************************)
(* What holds of every pass, for any series of specs, however long their   *)
(* lists, any number of replicas and of failed calls: there are two        *)
(* pipelines at most, one of them on its way out; those there are were     *)
(* built as one chain; and the phase a pass sends is the worst one.        *)
(***************************************************************************)
EXTENDS Serving, PipelineSpecProofs, FiniteSetTheorems

-----------------------------------------------------------------------------
(* Specs and sets of pipelines *)

LEMMA VersionsFacts ==
  /\ Len(Specs) \in Nat /\ 1 \in Versions
  /\ IsFiniteSet(Versions)
<1> DEFINE S == {Specs[v] : v \in Versions}
<1>1. Len(Specs) \in Nat /\ Specs \in [1..Len(Specs) -> S]
  BY ServingAssumption DEF IsList, Versions
<1>2. Specs \in Seq(S)
  BY <1>1, ListLemma
<1>3. 1 \in Versions
  BY <1>2, ServingAssumption, EmptySeq DEF Versions
<1>4. IsFiniteSet(1..Len(Specs))
  BY <1>1, FS_Interval
<1> QED
  BY <1>1, <1>3, <1>4 DEF Versions

LEMMA BoundTypes == MaxReplicas \in Nat /\ MaxFaults \in Nat
BY ServingAssumption

\* One more pipeline beside one, and one of at most two less.
LEMMA FewPipelines ==
  ASSUME NEW S \in SUBSET Versions
  PROVE  /\ IsFiniteSet(S) /\ Cardinality(S) \in Nat
         /\ Cardinality(S) = 0 <=> S = {}
         /\ Cardinality(S) = 1 <=> \E v \in Versions : S = {v}
         /\ \A v \in Versions : /\ Cardinality(S \cup {v}) <= Cardinality(S) + 1
                                /\ v \in S => Cardinality(S \ {v}) = Cardinality(S) - 1
<1>1. IsFiniteSet(S)
  BY VersionsFacts, FS_Subset
<1>2. Cardinality(S) \in Nat
  BY <1>1, FS_CardinalityType
<1>3. Cardinality(S) = 0 <=> S = {}
  BY <1>1, FS_EmptySet
<1>4. Cardinality(S) = 1 <=> \E v \in Versions : S = {v}
  BY <1>1, FS_Singleton
<1>5. ASSUME NEW v \in Versions
      PROVE  /\ Cardinality(S \cup {v}) <= Cardinality(S) + 1
             /\ v \in S => Cardinality(S \ {v}) = Cardinality(S) - 1
  BY <1>1, <1>2, FS_AddElement, FS_RemoveElement
<1> QED
  BY <1>1, <1>2, <1>3, <1>4, <1>5

-----------------------------------------------------------------------------
(* The phase *)

Severity == [Running |-> 1, Pending |-> 2, Degraded |-> 3, Error |-> 4, Failed |-> 5]

\* The worst of the phases that are known, or none.
IsWorst(phases, worst) ==
  IF phases \cap Known = {} THEN worst = ""
  ELSE /\ worst \in phases \cap Known
       /\ \A c \in phases \cap Known : Severity[c] <= Severity[worst]

LEMMA KnownPhases ==
  /\ Known = {"Failed", "Error", "Degraded", "Pending", "Running"}
  /\ \A i \in 1..5 : Severity[PrioritizedPhases[i]] = 6 - i
  /\ Len(PrioritizedPhases) = 5
<1>1. /\ Len(PrioritizedPhases) = 5
      /\ PrioritizedPhases[1] = "Failed" /\ PrioritizedPhases[2] = "Error"
      /\ PrioritizedPhases[3] = "Degraded" /\ PrioritizedPhases[4] = "Pending"
      /\ PrioritizedPhases[5] = "Running"
  BY DEF PrioritizedPhases
<1>2. \A i \in 1..5 : i = 1 \/ i = 2 \/ i = 3 \/ i = 4 \/ i = 5
  OBVIOUS
<1>3. Known = {"Failed", "Error", "Degraded", "Pending", "Running"}
  BY <1>1, <1>2 DEF Known
<1>4. \A i \in 1..5 : Severity[PrioritizedPhases[i]] = 6 - i
  BY <1>1, <1>2 DEF Severity
<1> QED
  BY <1>1, <1>3, <1>4

\* The first of the prioritized phases that a component has is the worst of the
\* components' phases (installer.go:766-787).
LEMMA PropagateLemma ==
  ASSUME NEW components
  PROVE  IsWorst(components, PropagateStatus(components))
<1> DEFINE at == {i \in 1..Len(PrioritizedPhases) : PrioritizedPhases[i] \in components}
           first == CHOOSE i \in at : \A j \in at : i <= j
<1>1. Len(PrioritizedPhases) = 5
  BY KnownPhases
<1>2. \A c \in components \cap Known : \E i \in at : c = PrioritizedPhases[i]
  BY DEF Known
<1>3. \A i \in at : PrioritizedPhases[i] \in components \cap Known
  BY DEF Known
<1>4. CASE at = {}
  BY <1>2, <1>4 DEF PropagateStatus, IsWorst
<1>5. CASE at # {}
  <2>1. at \in SUBSET Nat
    BY <1>1
  <2>2. \E i \in at : \A j \in at : i <= j
    BY <1>5, <2>1, LeastElement
  <2>3. first \in at /\ \A j \in at : first <= j
    BY <2>2
  <2>4. PropagateStatus(components) = PrioritizedPhases[first]
    BY <1>5 DEF PropagateStatus
  <2> HIDE DEF first
  <2>5. ASSUME NEW c \in components \cap Known
        PROVE  Severity[c] <= Severity[PrioritizedPhases[first]]
    <3>1. PICK i \in at : c = PrioritizedPhases[i]
      BY <1>2
    <3>2. i \in 1..5 /\ first \in 1..5 /\ first <= i
      BY <1>1, <2>3
    <3> QED
      BY <3>1, <3>2, KnownPhases
  <2> QED
    BY <1>3, <2>3, <2>4, <2>5 DEF IsWorst
<1> QED
  BY <1>4, <1>5

LEMMA PhaseInit == Init => PhaseIsWorst
<1> SUFFICES ASSUME Init
             PROVE  PhaseIsWorst
  OBVIOUS
<1>1. status.frontline = "" /\ status.pipeline = "" /\ status.phase = ""
  BY DEF Init, NoStatus
<1>2. {status.frontline, status.pipeline} \cap Known = {}
  BY <1>1, KnownPhases
<1> QED
  BY <1>1, <1>2 DEF PhaseIsWorst

LEMMA WorstIsWorst ==
  IsWorst({status.frontline, status.pipeline}, status.phase) => PhaseIsWorst
BY DEF IsWorst, PhaseIsWorst, Severity

\* A pass computes the phase from the two it sends, and one that found the spec
\* invalid sends neither.
LEMMA PhaseStep == PhaseIsWorst /\ [Next]_vars => PhaseIsWorst'
<1> SUFFICES ASSUME PhaseIsWorst, [Next]_vars
             PROVE  PhaseIsWorst'
  OBVIOUS
<1>1. CASE UNCHANGED status
  BY <1>1 DEF PhaseIsWorst
<1>2. CASE Pass
  <2>1. PICK pipelinePhase : status' = StatusOf(pipelinePhase)
    BY <1>2 DEF Pass, ReconcilePipeline
  <2>2. PICK service : status' = [frontline |-> service, pipeline |-> pipelinePhase,
                                  phase |-> PropagateStatus({service, pipelinePhase})]
    BY <2>1 DEF StatusOf
  <2>3. /\ status'.frontline = service /\ status'.pipeline = pipelinePhase
        /\ status'.phase = PropagateStatus({service, pipelinePhase})
    BY <2>2
  <2>4. IsWorst({service, pipelinePhase}, status'.phase)
    BY <2>3, PropagateLemma
  <2> QED
    BY <2>3, <2>4 DEF IsWorst, PhaseIsWorst, Severity
<1>3. CASE PassInvalid
  <2>1. "" \notin Known
    BY KnownPhases
  <2> QED
    BY <1>3, <2>1 DEF PassInvalid, NoStatus, PhaseIsWorst
<1> QED
  BY <1>1, <1>2, <1>3 DEF Next, Process, PassFails, EditSpec, Retire, SetPhase,
                          ReportReplicas, Resync, vars

\* The phase that is sent is the worst of those known, for any phases that numaflow
\* reports and any counts of the StatefulSet.
THEOREM PhaseCorrect == Spec => []PhaseIsWorst
<1> QED
  BY PhaseInit, PhaseStep, PTL DEF Spec

-----------------------------------------------------------------------------
(* Types *)

PipelineTypes ==
  /\ pipelines \subseteq Versions /\ Cardinality(pipelines) <= 2
  /\ retiring \subseteq pipelines
  /\ Cardinality(pipelines) = 2 => retiring # {}
  /\ phase \in [Versions -> PipelinePhases]

FrontlineTypes == frontline = <<>> \/ \E s \in FrontlineStatus : frontline = <<s>>

StatusTypes ==
  /\ status.frontline \in {"", "Running", "Pending"}
  /\ status.pipeline \in PipelinePhases /\ status.phase \in {""} \cup Known

PlainTypes == desired \in Versions /\ queued \in BOOLEAN /\ faults \in 0..MaxFaults

LEMMA TypesSplit ==
  TypeOK <=> PipelineTypes /\ FrontlineTypes /\ StatusTypes /\ PlainTypes
BY DEF TypeOK, PipelineTypes, FrontlineTypes, StatusTypes, PlainTypes

\* A pipeline is only made beside one that is given to a rollout.
LEMMA ReconcileTypes ==
  ASSUME TypeOK, CreateFirst \/ CreateAndRollOut \/ NoUpdate
  PROVE  PipelineTypes'
<1>1. PipelineTypes /\ desired \in Versions
  BY TypesSplit DEF PlainTypes
<1>2. pipelines \in SUBSET Versions
  BY <1>1 DEF PipelineTypes
<1>3. ASSUME Created
      PROVE  /\ pipelines' = pipelines \cup {desired}
             /\ phase' \in [Versions -> PipelinePhases]
  BY <1>1, <1>3 DEF Created, PipelineTypes, PipelinePhases
<1>4. Cardinality(pipelines \cup {desired}) <= Cardinality(pipelines) + 1
      /\ Cardinality(pipelines) \in Nat
      /\ Cardinality(pipelines \cup {desired}) \in Nat
  <2>1. pipelines \cup {desired} \in SUBSET Versions
    BY <1>1, <1>2
  <2> QED
    BY <1>1, <1>2, <2>1, FewPipelines
<1>5. CASE CreateFirst
  <2>1. pipelines = {} /\ Cardinality(pipelines) = 0
    BY <1>2, <1>5, FewPipelines DEF CreateFirst
  <2>2. retiring' = {}
    BY <1>1, <1>5, <2>1 DEF CreateFirst, PipelineTypes
  <2>3. Cardinality(pipelines') <= 1 /\ Cardinality(pipelines') \in Nat
    BY <1>3, <1>4, <1>5, <2>1 DEF CreateFirst
  <2> QED
    BY <1>1, <1>2, <1>3, <1>5, <2>2, <2>3 DEF PipelineTypes, CreateFirst
<1>6. CASE CreateAndRollOut
  <2>1. PICK old \in Versions : pipelines = {old} /\ retiring' = retiring \cup {old}
    BY <1>6 DEF CreateAndRollOut
  <2>2. Cardinality(pipelines) = 1
    BY <1>2, <2>1, FewPipelines
  <2>3. Cardinality(pipelines') <= 2
    BY <1>3, <1>4, <1>6, <2>2 DEF CreateAndRollOut
  <2> QED
    BY <1>1, <1>2, <1>3, <1>6, <2>1, <2>3 DEF PipelineTypes, CreateAndRollOut
<1>7. CASE NoUpdate
  BY <1>1, <1>7 DEF NoUpdate, PipelineTypes
<1> QED
  BY <1>5, <1>6, <1>7

Statuses == [frontline : {"", "Running", "Pending"}, pipeline : PipelinePhases,
             phase : {""} \cup Known]

LEMMA StatusOfType ==
  ASSUME NEW pipelinePhase \in PipelinePhases
  PROVE  StatusOf(pipelinePhase) \in Statuses
<1>1. PICK service \in {"", "Running", "Pending"} :
        StatusOf(pipelinePhase)
          = [frontline |-> service, pipeline |-> pipelinePhase,
             phase |-> PropagateStatus({service, pipelinePhase})]
  BY DEF StatusOf, ExtractStatefulSetStatus
<1>2. PropagateStatus({service, pipelinePhase}) \in {""} \cup Known
  BY PropagateLemma DEF IsWorst
<1> DEFINE worst == PropagateStatus({service, pipelinePhase})
<1> HIDE DEF worst
<1>3. [frontline |-> service, pipeline |-> pipelinePhase, phase |-> worst] \in Statuses
  BY <1>2 DEF Statuses, worst
<1> QED
  BY <1>1, <1>3 DEF worst

LEMMA PassTypes ==
  ASSUME TypeOK, Pass
  PROVE  TypeOK'
<1>1. PipelineTypes'
  BY ReconcileTypes DEF Pass, ReconcilePipeline
<1>2. FrontlineTypes'
  <2>1. [replicas |-> 0, current |-> 0, available |-> 0] \in FrontlineStatus
    BY BoundTypes DEF FrontlineStatus
  <2> QED
    BY <2>1, TypesSplit DEF FrontlineTypes, Pass, ReconcileFrontlineApplication
<1>3. StatusTypes'
  <2> DEFINE seen == IF Cardinality(pipelines) = 1
                     THEN phase[CHOOSE v \in pipelines : TRUE] ELSE ""
  <2>1. pipelines \in SUBSET Versions /\ phase \in [Versions -> PipelinePhases]
    BY TypesSplit DEF PipelineTypes
  <2>2. seen \in PipelinePhases
    <3>1. CASE Cardinality(pipelines) = 1
      <4>1. PICK v \in Versions : pipelines = {v}
        BY <2>1, <3>1, FewPipelines
      <4>2. (CHOOSE w \in pipelines : TRUE) \in pipelines
        BY <4>1
      <4> QED
        BY <2>1, <3>1, <4>2
    <3>2. CASE Cardinality(pipelines) # 1
      BY <3>2 DEF PipelinePhases
    <3> QED
      BY <3>1, <3>2
  <2>3. status' = StatusOf(seen)
    BY DEF Pass, ReconcilePipeline
  <2> HIDE DEF seen
  <2>4. PICK pipelinePhase \in PipelinePhases : pipelinePhase = seen
    BY <2>2
  <2>5. status' \in Statuses
    BY <2>3, <2>4, StatusOfType
  <2> QED
    BY <2>5 DEF Statuses, StatusTypes
<1>4. PlainTypes'
  BY TypesSplit DEF PlainTypes, Pass
<1> QED
  BY <1>1, <1>2, <1>3, <1>4 DEF TypeOK, PipelineTypes, FrontlineTypes, StatusTypes,
                                PlainTypes

\* A rollout that is done leaves one pipeline less.
LEMMA RetireTypes ==
  ASSUME TypeOK, Retire
  PROVE  PipelineTypes'
<1>1. PICK v \in retiring :
        /\ pipelines' = pipelines \ {v} /\ retiring' = retiring \ {v}
        /\ phase' = [phase EXCEPT ![v] = ""]
  BY DEF Retire
<1>2. PipelineTypes
  BY TypesSplit
<1>3. v \in pipelines /\ v \in Versions /\ pipelines \in SUBSET Versions
  BY <1>2 DEF PipelineTypes
<1>4. /\ Cardinality(pipelines') = Cardinality(pipelines) - 1
      /\ Cardinality(pipelines) \in Nat
  BY <1>1, <1>3, FewPipelines
<1>5. phase' \in [Versions -> PipelinePhases]
  BY <1>1, <1>2 DEF PipelineTypes, PipelinePhases
<1>6. Cardinality(pipelines') <= 2 /\ Cardinality(pipelines') # 2
  BY <1>2, <1>4 DEF PipelineTypes
<1>7. pipelines' \subseteq Versions /\ retiring' \subseteq pipelines'
  BY <1>1, <1>2 DEF PipelineTypes
<1> QED
  BY <1>5, <1>6, <1>7 DEF PipelineTypes

LEMMA TypeInit == Init => TypeOK
<1>1. {} \in SUBSET Versions
  OBVIOUS
<1>2. Cardinality({}) = 0
  BY <1>1, FewPipelines
<1> SUFFICES ASSUME Init
             PROVE  TypeOK
  OBVIOUS
<1>3. PipelineTypes
  <2>1. pipelines = {} /\ retiring = {} /\ phase \in [Versions -> PipelinePhases]
    BY DEF Init, PipelinePhases
  <2>2. Cardinality(pipelines) = 0
    BY <1>2, <2>1
  <2> QED
    BY <2>1, <2>2 DEF PipelineTypes
<1>4. StatusTypes
  BY DEF Init, NoStatus, StatusTypes, PipelinePhases
<1>5. FrontlineTypes
  BY DEF Init, FrontlineTypes
<1>6. PlainTypes
  <2>1. desired = 1 /\ queued = TRUE /\ faults = 0
    BY DEF Init
  <2>2. 0 \in 0..MaxFaults
    BY BoundTypes
  <2> QED
    BY <2>1, <2>2, VersionsFacts DEF PlainTypes
<1> QED
  BY <1>3, <1>4, <1>5, <1>6, TypesSplit

LEMMA TypeStep == TypeOK /\ [Next]_vars => TypeOK'
<1> SUFFICES ASSUME TypeOK, [Next]_vars
             PROVE  TypeOK'
  OBVIOUS
<1>1. CASE Pass
  BY <1>1, PassTypes
<1>2. CASE PassFails
  <2>1. faults' = faults \/ (faults < MaxFaults /\ faults' = faults + 1)
    BY <1>2 DEF PassFails
  <2>2. faults' \in 0..MaxFaults
    BY <2>1, BoundTypes, TypesSplit DEF PlainTypes
  <2> QED
    BY <1>2, <2>2 DEF PassFails, TypeOK
<1>3. CASE PassInvalid
  BY <1>3 DEF PassInvalid, NoStatus, TypeOK, PipelinePhases
<1>4. CASE EditSpec
  BY <1>4 DEF EditSpec, TypeOK
<1>5. CASE Retire
  <2>1. PipelineTypes'
    BY <1>5, RetireTypes
  <2> QED
    BY <1>5, <2>1 DEF Retire, TypeOK, PipelineTypes
<1>6. CASE SetPhase
  <2>1. phase' \in [Versions -> PipelinePhases]
    BY <1>6 DEF SetPhase, TypeOK
  <2> QED
    BY <1>6, <2>1 DEF SetPhase, TypeOK
<1>7. CASE ReportReplicas
  <2>1. \E s \in FrontlineStatus : frontline' = <<s>>
    BY <1>7 DEF ReportReplicas
  <2> QED
    BY <1>7, <2>1 DEF ReportReplicas, TypeOK
<1>8. CASE Resync \/ UNCHANGED vars
  BY <1>8 DEF Resync, vars, TypeOK
<1> QED
  BY <1>1, <1>2, <1>3, <1>4, <1>5, <1>6, <1>7, <1>8 DEF Next, Process

\* Types, and with them: however specs follow each other, there are two pipelines
\* at most, and of two one is being retired.
THEOREM Typing == Spec => []TypeOK
<1> QED
  BY TypeInit, TypeStep, PTL DEF Spec

-----------------------------------------------------------------------------
(* The pipelines *)

\* Every pipeline there is, was built from a spec of the user's, and is one chain
\* if the names of that spec differ.
THEOREM ChainsDeployed == Spec => []DeployedIsChain
<1>1. TypeOK => DeployedIsChain
  BY PipelineIsChain, ServingAssumption DEF TypeOK, DeployedIsChain, Chains
<1> QED
  BY <1>1, Typing, PTL

\* A pipeline that a pass takes for up to date, because its hash is that of the
\* spec, does the work of the spec, but for aliased steps and secrets: no change of
\* a name, of a model or of a last step is missed.  A change of an earlier step's UDF
\* may be (installer.go:119-127, 604, 718).
THEOREM NoChangeMissedButAliased ==
  ASSUME NEW v \in Versions, NEW w \in Versions, SameHash(v, w)
  PROVE  w \in ServesButAliased[v]
<1>1. Vertices(Specs[v]) = Vertices(Specs[w])
  BY DEF SameHash, Hash
<1>2. CarriesButAliased(Vertices(Specs[v]), Specs[v])
  BY PipelineCarriesSpecButAliased, ServingAssumption
<1> QED
  BY <1>1, <1>2 DEF ServesButAliased

\* And it does all the work of a spec from which aliasing takes nothing.
LEMMA NoChangeMissed ==
  ASSUME NEW v \in Versions, NEW w \in Versions, SameHash(v, w), Unaliased(Specs[v])
  PROVE  w \in Serves[v]
<1>1. Vertices(Specs[v]) = Vertices(Specs[w])
  BY DEF SameHash, Hash
<1>2. Carries(Vertices(Specs[v]), Specs[v])
  BY PipelineCarriesSpec, ServingAssumption
<1> QED
  BY <1>1, <1>2 DEF Serves

-----------------------------------------------------------------------------
(* What no event is left to do *)

\* A pass that leaves the MLInference out of the queue found the only pipeline up to
\* date, or two of them.
UpToDate ==
  ~queued /\ faults = 0 /\ Validate(Specs[desired])
    => /\ pipelines # {}
       /\ \A v \in Versions : pipelines = {v} => SameHash(desired, v)

LEMMA UpToDateStep == TypeOK /\ UpToDate /\ [Next]_vars => UpToDate'
<1> SUFFICES ASSUME TypeOK, UpToDate, [Next]_vars
             PROVE  UpToDate'
  OBVIOUS
<1>1. CASE Pass
  <2> SUFFICES ASSUME ~queued'
               PROVE  /\ pipelines' # {}
                      /\ \A v \in Versions : pipelines' = {v} => SameHash(desired', v)
    BY DEF UpToDate
  <2>1. pipelines' = pipelines /\ desired' = desired
    BY <1>1 DEF Pass
  <2>2. desired \notin pipelines \/ ~Created
    BY DEF Created, SameHash
  <2>3. NoUpdate
    BY <1>1, <2>1, <2>2 DEF Pass, ReconcilePipeline, CreateFirst, CreateAndRollOut, Created
  <2>4. \A v \in Versions : pipelines = {v} => SameHash(desired, v)
    BY <2>3 DEF NoUpdate
  <2> QED
    BY <2>1, <2>3, <2>4 DEF NoUpdate, SameHash
<1>2. CASE PassFails
  <2>1. CASE CreatePipelineFails(Specs[desired])
    BY <1>2, <2>1 DEF PassFails, TakeRequest, Validate, CreatePipelineFails
  <2>2. CASE ~CreatePipelineFails(Specs[desired])
    <3>1. faults' = faults + 1 /\ faults \in Nat
      BY <1>2, <2>2, TypesSplit, BoundTypes DEF PassFails, PlainTypes
    <3> QED
      BY <3>1 DEF UpToDate
  <2> QED
    BY <2>1, <2>2
<1>3. CASE PassInvalid
  BY <1>3 DEF PassInvalid, UpToDate
<1>4. CASE EditSpec \/ Retire \/ SetPhase \/ ReportReplicas \/ Resync
  BY <1>4 DEF EditSpec, Retire, SetPhase, ReportReplicas, Resync, UpToDate
<1>5. CASE UNCHANGED vars
  BY <1>5 DEF vars, UpToDate, SameHash
<1> QED
  BY <1>1, <1>2, <1>3, <1>4, <1>5 DEF Next, Process

\* An idle controller has left one pipeline, which has the hash of the spec.
LEMMA IdleIsUpToDate ==
  ASSUME TypeOK, UpToDate, Idle
  PROVE  \E w \in Versions : pipelines = {w} /\ SameHash(desired, w)
<1>1. pipelines \in SUBSET Versions /\ Cardinality(pipelines) <= 2
  BY DEF TypeOK
<1>2. Cardinality(pipelines) # 2 /\ pipelines # {}
  BY DEF TypeOK, UpToDate, Idle
<1>3. Cardinality(pipelines) = 1
  BY <1>1, <1>2, FewPipelines
<1>4. PICK w \in Versions : pipelines = {w}
  BY <1>1, <1>3, FewPipelines
<1>5. SameHash(desired, w)
  BY <1>4 DEF UpToDate, Idle
<1> QED
  BY <1>4, <1>5

LEMMA UpToDateAlways == Spec => [](TypeOK /\ UpToDate)
<1>1. Init => UpToDate
  BY DEF Init, UpToDate
<1> QED
  BY <1>1, TypeInit, TypeStep, UpToDateStep, PTL DEF Spec

\* When nothing is queued, no rollout is under way and no Create failed, one
\* pipeline is left, and it does the work of a valid spec but for what the aliased
\* loop variables lose: the UDF of a step that differs from the last one's of its
\* list, and a secret that differs from the last one's.  What passes skip while a
\* rollout is under way is taken up when it is over (installer.go:112-164).
THEOREM IdleServedButAliased == Spec => []IdleIsServedButAliased
<1>1. TypeOK /\ UpToDate => IdleIsServedButAliased
  <2> SUFFICES ASSUME TypeOK, UpToDate, Idle
               PROVE  \E w \in ServesButAliased[desired] : pipelines = {w}
    BY DEF IdleIsServedButAliased
  <2>1. desired \in Versions
    BY DEF TypeOK
  <2>2. PICK w \in Versions : pipelines = {w} /\ SameHash(desired, w)
    BY IdleIsUpToDate
  <2> QED
    BY <2>1, <2>2, NoChangeMissedButAliased
<1> QED
  BY <1>1, UpToDateAlways, PTL

\* The README's promise of a new pipeline for every change is kept for the specs in
\* which no list has steps of different UDFs, nor predictors different secrets: when
\* the controller is idle, the one pipeline does all the work of such a spec,
\* whatever it was changed from (README.md:4, installer.go:112-164, 593-604, 718).
THEOREM IdleServedIfUnaliased ==
  Spec => [](Unaliased(Specs[desired]) => IdleIsServed)
<1>1. TypeOK /\ UpToDate => (Unaliased(Specs[desired]) => IdleIsServed)
  <2> SUFFICES ASSUME TypeOK, UpToDate, Idle, Unaliased(Specs[desired])
               PROVE  \E w \in Serves[desired] : pipelines = {w}
    BY DEF IdleIsServed
  <2>1. desired \in Versions
    BY DEF TypeOK
  <2>2. PICK w \in Versions : pipelines = {w} /\ SameHash(desired, w)
    BY IdleIsUpToDate
  <2> QED
    BY <2>1, <2>2, NoChangeMissed
<1> QED
  BY <1>1, UpToDateAlways, PTL

-----------------------------------------------------------------------------
(* The plan that passes carry out *)

\* No pipeline is newer than the spec, and each that is being retired has a newer
\* one beside it that is not.
OrderInv ==
  /\ \A v \in pipelines : v <= desired
  /\ \A v \in retiring : \E w \in pipelines \ retiring : w > v

LEMMA NumberedPipelines ==
  ASSUME TypeOK
  PROVE  /\ Versions \subseteq Nat \ {0} /\ desired \in Versions
         /\ pipelines \subseteq Versions /\ retiring \subseteq pipelines
<1>1. Versions \subseteq Nat \ {0}
  BY VersionsFacts DEF Versions
<1> QED
  BY <1>1, TypesSplit DEF PipelineTypes, PlainTypes

LEMMA OrderStep == TypeOK /\ OrderInv /\ [Next]_vars => OrderInv'
<1> SUFFICES ASSUME TypeOK, OrderInv, [Next]_vars
             PROVE  OrderInv'
  OBVIOUS
<1>0. desired \in Nat /\ pipelines \subseteq Nat /\ retiring \subseteq pipelines
  BY NumberedPipelines
<1>1. CASE UNCHANGED <<pipelines, retiring>> /\ desired' \in Nat /\ desired' >= desired
  BY <1>0, <1>1 DEF OrderInv
<1>2. CASE CreateFirst /\ UNCHANGED desired
  <2>1. pipelines' = {desired} /\ retiring' = {} /\ desired' = desired
    BY <1>0, <1>2 DEF CreateFirst, Created
  <2> QED
    BY <1>0, <2>1 DEF OrderInv
<1>3. CASE CreateAndRollOut /\ UNCHANGED desired
  <2>1. PICK old \in Versions :
          /\ pipelines = {old} /\ ~SameHash(desired, old)
          /\ retiring' = retiring \cup {old}
    BY <1>3 DEF CreateAndRollOut
  <2>2. pipelines' = {old, desired} /\ retiring' = {old}
    BY <1>0, <1>3, <2>1 DEF CreateAndRollOut, Created
  <2>3. old # desired
    BY <2>1 DEF SameHash
  <2>4. old < desired
    BY <1>0, <2>1, <2>3 DEF OrderInv
  <2>5. desired' = desired /\ \A v \in pipelines' : v <= desired
    BY <1>0, <1>3, <2>1, <2>2, <2>4
  <2>6. desired \in pipelines' \ retiring' /\ \A v \in retiring' : desired > v
    BY <1>0, <2>1, <2>2, <2>4
  <2> QED
    BY <2>5, <2>6 DEF OrderInv
<1>4. CASE Retire
  <2>1. PICK v \in retiring : pipelines' = pipelines \ {v} /\ retiring' = retiring \ {v}
    BY <1>4 DEF Retire
  <2>2. desired' = desired
    BY <1>4 DEF Retire
  <2>3. ASSUME NEW u \in retiring'
        PROVE  \E w \in pipelines' \ retiring' : w > u
    <3>1. PICK w \in pipelines \ retiring : w > u
      BY <2>1 DEF OrderInv
    <3>2. w \in pipelines' \ retiring'
      BY <2>1, <3>1
    <3> QED
      BY <3>1, <3>2
  <2> QED
    BY <2>1, <2>2, <2>3 DEF OrderInv
<1>5. CASE EditSpec
  <2>1. desired' \in Nat /\ desired' >= desired
    BY <1>0, <1>5, NumberedPipelines DEF EditSpec
  <2> QED
    BY <1>1, <1>5, <2>1 DEF EditSpec
<1>6. CASE Pass
  <2>1. UNCHANGED desired /\ (CreateFirst \/ CreateAndRollOut \/ NoUpdate)
    BY <1>6 DEF Pass, ReconcilePipeline
  <2> QED
    BY <1>0, <1>1, <1>2, <1>3, <2>1 DEF NoUpdate
<1>7. CASE PassFails \/ PassInvalid \/ SetPhase \/ ReportReplicas \/ Resync \/ UNCHANGED vars
  <2>1. UNCHANGED <<pipelines, retiring, desired>>
    BY <1>7 DEF PassFails, PassInvalid, SetPhase, ReportReplicas, Resync, vars
  <2> QED
    BY <1>0, <1>1, <2>1
<1> QED
  BY <1>4, <1>5, <1>6, <1>7 DEF Next, Process

\* A largest element of a set is its Max.
LEMMA MaxLemma ==
  ASSUME NEW S \in SUBSET Nat, NEW m \in S, \A k \in S : k <= m
  PROVE  Max(S) = m
<1>1. \A k \in S : m >= k
  OBVIOUS
<1>2. PICK top : top = Max(S)
  OBVIOUS
<1>3. top \in S /\ \A k \in S : top >= k
  BY <1>1, <1>2 DEF Max
<1>4. top \in Nat /\ m \in Nat /\ top >= m /\ top <= m
  BY <1>3
<1> QED
  BY <1>2, <1>4

\* A set of natural numbers with a bound has a largest element: the bound's distance
\* to it is the least.
LEMMA LargestElement ==
  ASSUME NEW S \in SUBSET Nat, S # {}, NEW b \in Nat, \A k \in S : k <= b
  PROVE  \E m \in S : \A k \in S : k <= m
<1> DEFINE T == {d \in Nat : b - d \in S}
<1>1. \A k \in S : b - k \in T
  <2> TAKE k \in S
  <2>1. b - k \in Nat /\ b - (b - k) = k
    OBVIOUS
  <2> QED
    BY <2>1
<1>2. T \in SUBSET Nat /\ T # {}
  BY <1>1
<1>3. PICK d \in T : \A e \in T : d <= e
  BY <1>2, LeastElement
<1>4. b - d \in S /\ d \in Nat
  OBVIOUS
<1>5. \A k \in S : k <= b - d
  <2> TAKE k \in S
  <2>1. d <= b - k
    BY <1>1, <1>3
  <2> QED
    BY <1>4, <2>1
<1> QED
  BY <1>4, <1>5

Deployed == {0} \cup pipelines

\* The newest of the pipelines is one of them, and is the newest before and after a
\* rollout is over; a pass that makes one makes a newer one.
LEMMA NewestLemma ==
  ASSUME TypeOK, OrderInv
  PROVE  /\ Max(Deployed) \in Deployed /\ \A v \in Deployed : v <= Max(Deployed)
         /\ Created => /\ \A v \in Deployed : v < desired
                       /\ Max(Deployed \cup {desired}) = desired
         /\ \A v \in retiring : v < Max(Deployed) /\ Max(Deployed \ {v}) = Max(Deployed)
<1>0. /\ Deployed \in SUBSET Nat /\ Deployed # {} /\ desired \in Nat /\ desired > 0
      /\ retiring \subseteq pipelines /\ pipelines \subseteq Deployed
      /\ 0 \notin pipelines
  BY NumberedPipelines DEF Deployed
<1>1. \A v \in Deployed : v <= desired
  BY <1>0 DEF OrderInv, Deployed
<1>2. PICK m \in Deployed : \A v \in Deployed : v <= m
  BY <1>0, <1>1, LargestElement
<1>3. Max(Deployed) = m
  BY <1>0, <1>2, MaxLemma
<1>4. ASSUME Created
      PROVE  /\ \A v \in Deployed : v < desired
             /\ Max(Deployed \cup {desired}) = desired
  <2>1. desired \notin Deployed
    <3>1. desired \notin pipelines
      BY <1>4 DEF Created, SameHash
    <3> QED
      BY <1>0, <3>1 DEF Deployed
  <2>2. \A v \in Deployed : v < desired
    BY <1>0, <1>1, <2>1
  <2>3. Deployed \cup {desired} \in SUBSET Nat
        /\ \A v \in Deployed \cup {desired} : v <= desired
    BY <1>0, <1>1
  <2> QED
    BY <2>2, <2>3, MaxLemma
<1>5. ASSUME NEW v \in retiring
      PROVE  v < m /\ Max(Deployed \ {v}) = m
  <2>1. PICK w \in pipelines \ retiring : w > v
    BY DEF OrderInv
  <2>2. w <= m /\ w \in Nat /\ v \in Nat /\ m \in Nat
    BY <1>0, <1>2
  <2>3. v < m
    BY <2>1, <2>2
  <2>4. Deployed \ {v} \in SUBSET Nat /\ m \in Deployed \ {v}
        /\ \A k \in Deployed \ {v} : k <= m
    BY <1>0, <1>2, <2>3
  <2> QED
    BY <2>3, <2>4, MaxLemma
<1> QED
  BY <1>2, <1>3, <1>4, <1>5

PlanVars == <<[n \in {"default"} |-> Max({0} \cup pipelines)], {"default"} \X pipelines>>

\* A pass deploys what it creates, and a rollout that is over retires its pipeline;
\* no other step of the system changes what is deployed.
LEMMA PlanStep ==
  ASSUME TypeOK, OrderInv, [Next]_vars
  PROVE  [Plan!Next]_PlanVars
<1> DEFINE newest == [n \in {"default"} |-> Max({0} \cup pipelines)]
<1>0. /\ newest["default"] = Max(Deployed)
      /\ newest' = [n \in {"default"} |-> Max(Deployed')]
      /\ \A v : newest' = [newest EXCEPT !["default"] = v] <=> Max(Deployed') = v
      /\ Max(Deployed') = Max(Deployed) => newest' = newest
      /\ PlanVars = <<newest, {"default"} \X pipelines>>
      /\ "default" \in {"default"}
  BY DEF Deployed, PlanVars
<1> HIDE DEF newest
<1>1. CASE UNCHANGED pipelines
  BY <1>1 DEF PlanVars
<1>2. ASSUME Created
      PROVE  Plan!Next
  <2>1. pipelines' = pipelines \cup {desired} /\ Deployed' = Deployed \cup {desired}
    BY <1>2 DEF Created, Deployed
  <2>2. Max(Deployed') = desired /\ desired > Max(Deployed) /\ desired \in Versions
    <3>1. Max(Deployed) < desired /\ Max(Deployed \cup {desired}) = desired
      BY <1>2, NewestLemma
    <3>2. Max(Deployed) \in Nat /\ desired \in Nat /\ desired \in Versions
      <4>1. Deployed \subseteq Nat /\ desired \in Versions /\ Versions \subseteq Nat
        BY NumberedPipelines DEF Deployed
      <4>2. Max(Deployed) \in Deployed
        BY NewestLemma
      <4> QED
        BY <4>1, <4>2
    <3> QED
      BY <2>1, <3>1, <3>2
  <2>3. {"default"} \X pipelines' = ({"default"} \X pipelines) \cup {<<"default", desired>>}
    BY <2>1
  <2>4. Plan!Deploy("default", desired)
    BY <1>0, <2>2, <2>3 DEF Plan!Deploy, newest
  <2> QED
    BY <2>2, <2>4 DEF Plan!Next
<1>3. ASSUME NEW v \in retiring, pipelines' = pipelines \ {v}
      PROVE  Plan!Next
  <2>1. v \in pipelines /\ v \in Versions /\ v # 0
    BY NumberedPipelines
  <2>2. Deployed' = Deployed \ {v}
    BY <1>3, <2>1 DEF Deployed
  <2>3. v < Max(Deployed) /\ Max(Deployed') = Max(Deployed)
    BY <2>2, NewestLemma
  <2>4. {"default"} \X pipelines' = ({"default"} \X pipelines) \ {<<"default", v>>}
    BY <1>3
  <2>5. Plan!Retire("default", v)
    BY <1>0, <2>1, <2>3, <2>4 DEF Plan!Retire, newest
  <2> QED
    BY <2>1, <2>5 DEF Plan!Next
<1>4. CASE Pass
  BY <1>1, <1>2, <1>4 DEF Pass, ReconcilePipeline, CreateFirst, CreateAndRollOut, NoUpdate
<1>5. CASE Retire
  BY <1>3, <1>5 DEF Retire
<1> QED
  BY <1>1, <1>4, <1>5 DEF Next, Process, PassFails, PassInvalid, EditSpec, SetPhase,
                          ReportReplicas, Resync, vars

\* Passes, over any series of specs and with any Creates that fail, deploy versions
\* in their order, once each, and a rollout only ever retires one that a newer
\* pipeline has taken over from (installer.go:104-139).
THEOREM PlanCarriedOut == Spec => DeploysInOrder
<1>1. Init => Plan!Init
  <2>1. Init => pipelines = {}
    BY DEF Init
  <2>2. Max({0} \cup {}) = 0
    BY MaxLemma
  <2> QED
    BY <2>1, <2>2 DEF Plan!Init
<1>2. Init => OrderInv
  BY DEF Init, OrderInv
<1>3. TypeOK /\ OrderInv /\ [Next]_vars => [Plan!Next]_PlanVars
  BY PlanStep
<1> QED
  BY <1>1, <1>2, <1>3, TypeInit, TypeStep, OrderStep, PTL
  DEF Spec, DeploysInOrder, Plan!Spec, PlanVars

=============================================================================
