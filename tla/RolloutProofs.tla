--------------------------- MODULE RolloutProofs ---------------------------
(***************************************************************************)
(* What holds of rollouts for any number of versions, goroutines, replicas *)
(* and failures.                                                           *)
(*                                                                         *)
(* That a pipeline always stands is proved for one MLInference of its name *)
(* that is never given an earlier spec again: without the former, the run  *)
(* RolloutNamespaces has another's pipeline retired, and without the       *)
(* latter, RolloutRevert ends with no pipeline.  The argument              *)
(* is that versions are created in order, so what a rollout deletes has a  *)
(* successor, however old the list was that the rollout began with.        *)
(***************************************************************************)
EXTENDS Rollout, TLAPS

-----------------------------------------------------------------------------
(* Types *)

\* What createPipelineSpec asks for is a scale that the rollout may change.
LEMMA NewScaleType ==
  /\ NewScale \in Scales
  /\ NoObject \in Objects
  /\ NoCopy \in Copies
BY RolloutAssumption DEF NewScale, Scales, NoObject, Objects, Phases, NoCopy, Copies

LEMMA PipelinesNotEmpty == (CHOOSE p \in Pipelines : TRUE) \in Pipelines
<1>1. PICK n \in Namespaces : TRUE
  BY RolloutAssumption
<1>2. 1 \in Versions
  BY RolloutAssumption DEF Versions
<1>3. <<n, 1>> \in Pipelines
  BY <1>2 DEF Pipelines
<1> QED
  BY <1>3

\* One turn of the loop leaves bounds that are no scale but a smaller Min, and it
\* leaves alone a Max that is down to one (installer.go:246-262).
LEMMA LowerLemma ==
  ASSUME NEW copy \in Copies, NEW replicas \in 0..MaxReplicas
  PROVE  LET low == Lower(copy, replicas) IN
         /\ low \in Copies
         /\ low.loaded = copy.loaded /\ low.gen = copy.gen /\ low.read = copy.read
         /\ low.scale.min <= copy.scale.min
         /\ copy.scale.max <= 1 => low.scale = copy.scale
<1> DEFINE scale == [min |-> NotNegative(copy.scale.min - 1),
                     max |-> NotNegative(replicas - 1)]
<1>1. copy.scale \in Scales /\ copy.scale.min \in 0..2
      /\ copy.scale.max \in 0..MaxReplicas
  BY DEF Copies, Scales
<1>2. scale \in Scales /\ scale.min <= copy.scale.min
  BY <1>1, RolloutAssumption DEF Scales, NotNegative
<1> HIDE DEF scale
<1>3. [copy EXCEPT !.scale = scale] \in Copies
  BY <1>2 DEF Copies
<1>4. Lower(copy, replicas) = IF copy.scale.max > 1
                              THEN [copy EXCEPT !.scale = scale] ELSE copy
  BY DEF Lower, scale
<1>5. CASE copy.scale.max > 1
  <2>1. Lower(copy, replicas) = [copy EXCEPT !.scale = scale]
    BY <1>4, <1>5
  <2>2. ~(copy.scale.max <= 1)
    BY <1>1, <1>5, RolloutAssumption
  <2> QED
    BY <1>2, <1>3, <2>1, <2>2 DEF Copies
<1>6. CASE ~(copy.scale.max > 1)
  BY <1>1, <1>4, <1>6, RolloutAssumption
<1> QED
  BY <1>5, <1>6

\* What a goroutine has in its hands after client.Get.
LEMMA FetchedLemma ==
  ASSUME TypeOK, NEW g \in Rollouts
  PROVE  /\ Fetched(g) \in Copies
         /\ \/ Fetched(g) = rCopy[g]
            \/ Fetched(g).scale = Fetched(g).read
<1>1. cache[rOld[g]] \in Objects /\ rCopy[g] \in Copies
  BY DEF TypeOK
<1>2. CASE Exists(cache[rOld[g]])
  BY <1>1, <1>2 DEF Fetched, Copies, Objects
<1>3. CASE ~Exists(cache[rOld[g]])
  BY <1>1, <1>3 DEF Fetched
<1> QED
  BY <1>2, <1>3

LEMMA TypeInit == Init => TypeOK
BY NewScaleType, PipelinesNotEmpty, RolloutAssumption DEF Init, TypeOK, Versions, NoVertex

LEMMA EditSpecType ==
  ASSUME TypeOK, NEW n \in Namespaces, NEW v \in Versions, EditSpec(n, v)
  PROVE  TypeOK'
BY RolloutAssumption DEF TypeOK, EditSpec, controller

LEMMA SyncCacheType ==
  ASSUME TypeOK, SyncCache
  PROVE  TypeOK'
BY DEF TypeOK, SyncCache, controller, bounds

\* Create makes an object of the next generation, and none of another name.
LEMMA CreateLemma ==
  ASSUME TypeOK, NEW n \in Namespaces, CreatePipeline(n)
  PROVE  LET p == <<n, desired[n]>> IN
         /\ p \in Pipelines /\ desired[n] \in Versions
         /\ pipe' \in [Pipelines -> Objects]
         /\ ~Exists(pipe[p])
         /\ pipe'[p].gen = pipe[p].gen + 1 /\ pipe'[p].phase = "standing"
         /\ \A q \in Pipelines \ {p} : pipe'[q] = pipe[q]
<1> DEFINE p == <<n, desired[n]>>
           new == [phase |-> "standing", gen |-> pipe[p].gen + 1, scale |-> NewScale]
<1>1. p \in Pipelines /\ desired[n] \in Versions
  BY DEF TypeOK, Pipelines
<1>2. pipe \in [Pipelines -> Objects]
  BY DEF TypeOK
<1>3. pipe[p].gen \in 0..MaxGen /\ pipe[p].gen < MaxGen
  BY <1>1, <1>2 DEF Objects, CreatePipeline
<1>4. new \in Objects
  BY <1>3, NewScaleType, RolloutAssumption DEF Objects, Phases
<1>5. pipe' = [pipe EXCEPT ![p] = new] /\ ~Exists(pipe[p])
  BY DEF CreatePipeline
<1>6. new.gen = pipe[p].gen + 1 /\ new.phase = "standing"
  OBVIOUS
<1> HIDE DEF p, new
<1>7. /\ pipe' \in [Pipelines -> Objects]
      /\ pipe'[p] = new
      /\ \A q \in Pipelines \ {p} : pipe'[q] = pipe[q]
  BY <1>1, <1>2, <1>4, <1>5
<1> QED
  BY <1>1, <1>5, <1>6, <1>7 DEF p

LEMMA ReconcileType ==
  ASSUME TypeOK, NEW n \in Namespaces, ReconcilePipeline(n)
  PROVE  TypeOK'
<1>1. CASE CreateFirst(n)
  <2>1. pipe' \in [Pipelines -> Objects]
    BY <1>1, CreateLemma DEF CreateFirst
  <2> QED
    BY <1>1, <2>1 DEF CreateFirst, TypeOK, controller, bounds
<1>2. CASE CreateAfterListError(n)
  <2>1. pipe' \in [Pipelines -> Objects]
    BY <1>2, CreateLemma DEF CreateAfterListError
  <2>2. faults' \in 0..MaxFaults
    BY <1>2, RolloutAssumption DEF CreateAfterListError, Fault, TypeOK
  <2> QED
    BY <1>2, <2>1, <2>2 DEF CreateAfterListError, TypeOK, controller
<1>3. CASE CreateAndRollOut(n)
  <2>1. PICK old \in Found, g \in Rollouts :
          /\ CreatePipeline(n)
          /\ rPc' = [rPc EXCEPT ![g] = "looping"]
          /\ rOld' = [rOld EXCEPT ![g] = old]
    BY <1>3 DEF CreateAndRollOut
  <2>2. old \in Pipelines
    BY DEF Found
  <2>3. pipe' \in [Pipelines -> Objects]
    BY <2>1, CreateLemma
  <2>4. UNCHANGED <<desired, cache, vertex, rCopy, rDelete, bounds>>
    BY <1>3 DEF CreateAndRollOut
  <2> QED
    BY <2>1, <2>2, <2>3, <2>4 DEF TypeOK, bounds
<1> QED
  BY <1>1, <1>2, <1>3 DEF ReconcilePipeline

LEMMA ScaleDownType ==
  ASSUME TypeOK, NEW g \in Rollouts, ScaleDown(g)
  PROVE  TypeOK'
<1>1. PICK p \in Vertices(g) :
        IF Fetched(g).loaded
        THEN /\ rCopy' = [rCopy EXCEPT ![g] = Lower(Fetched(g), vertex[p])]
             /\ rDelete' = [rDelete EXCEPT ![g] = @ \/ vertex[p] = 1]
        ELSE UNCHANGED <<rCopy, rDelete>>
  BY DEF ScaleDown
<1>2. vertex[p] \in 0..MaxReplicas
  BY DEF Vertices, TypeOK
<1>3. PICK fetched \in Copies, replicas \in 0..MaxReplicas :
        fetched = Fetched(g) /\ replicas = vertex[p]
  BY <1>2, FetchedLemma
<1>4. Lower(fetched, replicas) \in Copies
  BY LowerLemma
<1>5. rCopy' \in [Rollouts -> Copies]
  BY <1>1, <1>3, <1>4 DEF TypeOK
<1>6. rDelete' \in [Rollouts -> BOOLEAN]
  <2>1. (rDelete[g] \/ vertex[p] = 1) \in BOOLEAN
    OBVIOUS
  <2> QED
    BY <1>1, <2>1 DEF TypeOK
<1>7. rPc' = [rPc EXCEPT ![g] = "updating"]
      /\ UNCHANGED <<desired, pipe, cache, vertex, rOld, bounds>>
  BY DEF ScaleDown, RGoTo
<1> QED
  BY <1>5, <1>6, <1>7 DEF TypeOK, bounds

LEMMA EndRolloutType ==
  ASSUME TypeOK, NEW g \in Rollouts, EndRollout(g)
  PROVE  TypeOK'
BY NewScaleType, RolloutAssumption DEF TypeOK, EndRollout, RGoTo, Fault

\* An accepted Update writes the bounds over those that were read, and one that
\* failed leaves everything as it is.
LEMMA RescaleLemma ==
  ASSUME TypeOK, NEW g \in Rollouts, Rescale(g)
  PROVE  LET p == rOld[g] IN
         /\ p \in Pipelines
         /\ pipe' \in [Pipelines -> Objects] /\ rCopy' \in [Rollouts -> Copies]
         /\ pipe[p].scale = rCopy[g].read /\ pipe'[p].scale = rCopy[g].scale
         /\ pipe'[p].gen = pipe[p].gen /\ pipe'[p].phase = pipe[p].phase
         /\ \A q \in Pipelines \ {p} : pipe'[q] = pipe[q]
         /\ rCopy'[g].read = rCopy[g].scale /\ rCopy'[g].scale = rCopy[g].scale
         /\ \A h \in Rollouts \ {g} : rCopy'[h] = rCopy[h]
<1>1. PICK p \in Pipelines : p = rOld[g]
  BY DEF TypeOK
<1>2. PICK copy \in Copies : copy = rCopy[g]
  BY DEF TypeOK
<1>3. /\ pipe' = [pipe EXCEPT ![p].scale = copy.scale]
      /\ rCopy' = [rCopy EXCEPT ![g].read = copy.scale]
      /\ pipe[p].scale = copy.read
  BY <1>1, <1>2 DEF Rescale
<1>4. copy.scale \in Scales /\ pipe[p] \in Objects
  BY DEF Copies, TypeOK
<1>5. /\ [pipe[p] EXCEPT !.scale = copy.scale] \in Objects
      /\ [copy EXCEPT !.read = copy.scale] \in Copies
  BY <1>4 DEF Objects, Copies
<1>6. pipe' = [pipe EXCEPT ![p] = [pipe[p] EXCEPT !.scale = copy.scale]]
      /\ rCopy' = [rCopy EXCEPT ![g] = [copy EXCEPT !.read = copy.scale]]
  BY <1>2, <1>3 DEF TypeOK
<1>7. pipe \in [Pipelines -> Objects] /\ rCopy \in [Rollouts -> Copies]
  BY DEF TypeOK
<1>8. pipe' \in [Pipelines -> Objects] /\ rCopy' \in [Rollouts -> Copies]
  BY <1>5, <1>6, <1>7
<1>9. /\ pipe'[p] = [pipe[p] EXCEPT !.scale = copy.scale]
      /\ rCopy'[g] = [copy EXCEPT !.read = copy.scale]
      /\ \A q \in Pipelines \ {p} : pipe'[q] = pipe[q]
      /\ \A h \in Rollouts \ {g} : rCopy'[h] = rCopy[h]
  BY <1>6, <1>7
<1> QED
  BY <1>1, <1>2, <1>3, <1>4, <1>8, <1>9 DEF Objects, Copies

LEMMA RescaleType ==
  ASSUME TypeOK, NEW g \in Rollouts, Rescale(g) \/ RescaleFails(g)
  PROVE  TypeOK'
<1>1. CASE Rescale(g)
  <2>1. pipe' \in [Pipelines -> Objects] /\ rCopy' \in [Rollouts -> Copies]
    BY <1>1, RescaleLemma
  <2> QED
    BY <1>1, <2>1 DEF TypeOK, Rescale, RGoTo, bounds
<1>2. CASE RescaleFails(g)
  BY <1>2 DEF TypeOK, RescaleFails, RGoTo, bounds
<1> QED
  BY <1>1, <1>2

\* A step that only moves one pipeline to another phase.
LEMMA PhaseLemma ==
  ASSUME TypeOK, NEW p \in Pipelines, NEW to \in Phases,
         pipe' = [pipe EXCEPT ![p].phase = to]
  PROVE  /\ pipe' \in [Pipelines -> Objects]
         /\ pipe'[p].phase = to
         /\ \A q \in Pipelines \ {p} : pipe'[q] = pipe[q]
         /\ \A q \in Pipelines : /\ pipe'[q].gen = pipe[q].gen
                                 /\ pipe'[q].scale = pipe[q].scale
BY DEF TypeOK, Objects

LEMMA DeletePipelineType ==
  ASSUME TypeOK, NEW g \in Rollouts, DeletePipeline(g)
  PROVE  TypeOK'
<1>1. pipe' \in [Pipelines -> Objects]
  <2>1. PICK p \in Pipelines : p = rOld[g]
    BY DEF TypeOK
  <2>2. "deleting" \in Phases
    BY DEF Phases
  <2>3. pipe' = [pipe EXCEPT ![p].phase = "deleting"] \/ UNCHANGED pipe
    BY <2>1 DEF DeletePipeline
  <2> QED
    BY <2>2, <2>3, PhaseLemma DEF TypeOK
<1>2. faults' \in 0..MaxFaults
  BY RolloutAssumption DEF DeletePipeline, Fault, TypeOK
<1> QED
  BY <1>1, <1>2 DEF TypeOK, DeletePipeline, RGoTo

LEMMA CrashType ==
  ASSUME TypeOK, Crash
  PROVE  TypeOK'
BY NewScaleType, RolloutAssumption DEF TypeOK, Crash

LEMMA NumaflowType ==
  ASSUME TypeOK, NEW p \in Pipelines, Numaflow(p)
  PROVE  TypeOK'
<1>1. pipe[p].scale.min \in 0..MaxReplicas /\ pipe[p].scale.max \in 0..MaxReplicas
  <2>1. pipe[p].scale \in Scales
    BY DEF TypeOK, Objects
  <2> QED
    BY <2>1, RolloutAssumption DEF Scales
<1>2. CASE Finalize(p)
  <2>1. PICK to \in Phases : pipe' = [pipe EXCEPT ![p].phase = to]
    BY <1>2 DEF Finalize, Phases
  <2>2. UNCHANGED <<desired, cache, vertex, controller, bounds>>
    BY <1>2 DEF Finalize
  <2> QED
    BY <2>1, <2>2, PhaseLemma DEF TypeOK, controller, bounds
<1>3. ASSUME NEW replicas \in {NoVertex} \cup 0..MaxReplicas, SetVertex(p, replicas)
      PROVE  TypeOK'
  BY <1>3 DEF SetVertex, TypeOK, controller, bounds
<1>4. CASE CreateVertex(p)
  BY <1>1, <1>3, <1>4 DEF CreateVertex
<1>5. CASE Scale(p)
  <2> DEFINE min == pipe[p].scale.min
             max == pipe[p].scale.max
  <2>1. PICK n \in (IF min <= max THEN min ELSE max)..MaxReplicas : SetVertex(p, n)
    BY <1>5 DEF Scale
  <2>2. n \in 0..MaxReplicas
    BY <1>1, RolloutAssumption
  <2> QED
    BY <1>3, <2>1, <2>2
<1>6. CASE CollectVertex(p)
  BY <1>3, <1>6 DEF CollectVertex
<1> QED
  BY <1>2, <1>4, <1>5, <1>6 DEF Numaflow

LEMMA TypeStep == TypeOK /\ [Next]_vars => TypeOK'
<1> SUFFICES ASSUME TypeOK, [Next]_vars
             PROVE  TypeOK'
  OBVIOUS
<1>1. CASE \E n \in Namespaces : \E v \in Versions : EditSpec(n, v)
  BY <1>1, EditSpecType
<1>2. CASE \E n \in Namespaces : ReconcilePipeline(n)
  BY <1>2, ReconcileType
<1>3. CASE SyncCache
  BY <1>3, SyncCacheType
<1>4. CASE \E g \in Rollouts : RolloutModel(g)
  BY <1>4, ScaleDownType, EndRolloutType, RescaleType, DeletePipelineType
  DEF RolloutModel
<1>5. CASE \E p \in Pipelines : Numaflow(p)
  BY <1>5, NumaflowType
<1>6. CASE Crash
  BY <1>6, CrashType
<1>7. CASE UNCHANGED vars
  BY <1>7 DEF TypeOK, vars, controller, bounds
<1> QED
  BY <1>1, <1>2, <1>3, <1>4, <1>5, <1>6, <1>7 DEF Next

\* Types: bounds of http-in never leave what numaflow accepts, and the goroutines,
\* the cache and the API server agree on what a pipeline is.
THEOREM Typing == Spec => []TypeOK
<1> QED
  BY TypeInit, TypeStep, PTL DEF Spec

-----------------------------------------------------------------------------
(* What a rollout does to the bounds *)

\* A goroutine never has a larger Min in its hands than it read, and where Max was
\* down to one it has changed nothing; a failed Update leaves this so, and the
\* next turn starts from it when Get fails.
CopySettles ==
  \A g \in Rollouts :
    /\ rCopy[g].scale.min <= rCopy[g].read.min
    /\ rCopy[g].read.max <= 1 => rCopy[g].scale = rCopy[g].read

\* What a step may do to the bounds of a pipeline.
KeepsScale ==
  \A p \in Pipelines :
    Exists(pipe[p]) /\ pipe'[p].gen = pipe[p].gen
      => /\ pipe'[p].scale.min <= pipe[p].scale.min
         /\ pipe[p].scale.max <= 1 => pipe'[p].scale = pipe[p].scale

LEMMA CopySettlesInit == Init => CopySettles
BY NewScaleType DEF Init, CopySettles, NoCopy, Scales

\* Only ScaleDown computes new bounds; Get gives a copy in which nothing was
\* changed, and so does an Update that was accepted.
LEMMA CopySettlesStep == TypeOK /\ CopySettles /\ [Next]_vars => CopySettles'
<1> SUFFICES ASSUME TypeOK, CopySettles, [Next]_vars
             PROVE  CopySettles'
  OBVIOUS
<1> DEFINE Settled(copy) == /\ copy.scale.min <= copy.read.min
                            /\ copy.read.max <= 1 => copy.scale = copy.read
<1>1. CASE UNCHANGED rCopy
  BY <1>1 DEF CopySettles
<1>2. ASSUME NEW g \in Rollouts, ScaleDown(g)
      PROVE  CopySettles'
  <2>1. PICK p \in Vertices(g) :
          \/ rCopy' = [rCopy EXCEPT ![g] = Lower(Fetched(g), vertex[p])]
          \/ UNCHANGED rCopy
    BY <1>2 DEF ScaleDown
  <2>2. vertex[p] \in 0..MaxReplicas
    BY DEF Vertices, TypeOK
  <2>3. PICK fetched \in Copies, replicas \in 0..MaxReplicas :
          fetched = Fetched(g) /\ replicas = vertex[p]
    BY <2>2, FetchedLemma
  <2>4. Settled(fetched) /\ fetched.read \in Scales /\ fetched.scale \in Scales
    BY <2>3, FetchedLemma DEF CopySettles, Copies, Scales
  <2> DEFINE low == Lower(fetched, replicas)
  <2>5. /\ low \in Copies /\ low.read = fetched.read
        /\ low.scale.min <= fetched.scale.min
        /\ fetched.scale.max <= 1 => low.scale = fetched.scale
    BY LowerLemma
  <2>6. low.scale \in Scales
    BY <2>5 DEF Copies
  <2> HIDE DEF low
  <2>7. Settled(low)
    <3>1. low.scale.min <= low.read.min
      BY <2>4, <2>5, <2>6 DEF Scales
    <3>2. ASSUME low.read.max <= 1
          PROVE  low.scale = low.read
      <4>1. fetched.scale = fetched.read
        BY <2>4, <2>5, <3>2
      <4> QED
        BY <2>5, <3>2, <4>1
    <3> QED
      BY <3>1, <3>2
  <2>8. rCopy' = [rCopy EXCEPT ![g] = low] \/ UNCHANGED rCopy
    BY <2>1, <2>3 DEF low
  <2> QED
    BY <2>7, <2>8 DEF CopySettles, TypeOK
<1>3. ASSUME NEW g \in Rollouts, EndRollout(g)
      PROVE  CopySettles'
  BY <1>3, NewScaleType DEF EndRollout, CopySettles, NoCopy, Scales, TypeOK
<1>4. ASSUME NEW g \in Rollouts, Rescale(g)
      PROVE  CopySettles'
  <2>1. /\ rCopy' \in [Rollouts -> Copies]
        /\ rCopy'[g].read = rCopy[g].scale /\ rCopy'[g].scale = rCopy[g].scale
        /\ \A h \in Rollouts \ {g} : rCopy'[h] = rCopy[h]
    BY <1>4, RescaleLemma
  <2>2. rCopy[g].scale.min \in Int
    BY DEF TypeOK, Copies, Scales
  <2> QED
    BY <2>1, <2>2 DEF CopySettles
<1>5. CASE Crash
  BY <1>5, NewScaleType DEF Crash, CopySettles, NoCopy, Scales
<1>6. CASE \E n \in Namespaces : (\E v \in Versions : EditSpec(n, v)) \/ ReconcilePipeline(n)
  BY <1>1, <1>6 DEF EditSpec, ReconcilePipeline, CreateFirst, CreateAfterListError,
                    CreateAndRollOut, controller
<1>7. CASE SyncCache
  BY <1>1, <1>7 DEF SyncCache, controller
<1>8. CASE \E p \in Pipelines : Numaflow(p)
  BY <1>1, <1>8 DEF Numaflow, Finalize, CreateVertex, Scale,
                    CollectVertex, SetVertex, controller
<1>9. CASE \E g \in Rollouts : RolloutModel(g)
  BY <1>1, <1>2, <1>3, <1>4, <1>9 DEF RolloutModel, RescaleFails, DeletePipeline
<1> QED
  BY <1>1, <1>5, <1>6, <1>7, <1>8, <1>9 DEF Next, vars, controller

\* Every write of an object that is there is one of the three kinds: an accepted
\* Update of its bounds, a change of phase, or the creation of another.
LEMMA KeepsScaleStep == TypeOK /\ CopySettles /\ [Next]_vars => KeepsScale
<1> SUFFICES ASSUME TypeOK, CopySettles, [Next]_vars
             PROVE  KeepsScale
  OBVIOUS
<1>1. ASSUME NEW p \in Pipelines
      PROVE  pipe[p].scale.min \in Int
  <2>1. pipe[p] \in Objects
    BY DEF TypeOK
  <2>2. pipe[p].scale \in Scales
    BY <2>1 DEF Objects
  <2> QED
    BY <2>2 DEF Scales
<1>2. ASSUME \A p \in Pipelines : pipe'[p].scale = pipe[p].scale
      PROVE  KeepsScale
  BY <1>1, <1>2 DEF KeepsScale
<1>3. ASSUME NEW n \in Namespaces, CreatePipeline(n)
      PROVE  KeepsScale
  <2>1. PICK p \in Pipelines :
          /\ ~Exists(pipe[p])
          /\ \A q \in Pipelines \ {p} : pipe'[q] = pipe[q]
    BY <1>3, CreateLemma
  <2> QED
    BY <1>1, <2>1 DEF KeepsScale
<1>4. ASSUME NEW g \in Rollouts, Rescale(g)
      PROVE  KeepsScale
  <2>1. PICK p \in Pipelines : p = rOld[g]
    BY DEF TypeOK
  <2>2. /\ pipe[p].scale = rCopy[g].read /\ pipe'[p].scale = rCopy[g].scale
        /\ \A q \in Pipelines \ {p} : pipe'[q] = pipe[q]
    BY <1>4, <2>1, RescaleLemma
  <2>3. /\ pipe'[p].scale.min <= pipe[p].scale.min
        /\ pipe[p].scale.max <= 1 => pipe'[p].scale = pipe[p].scale
    BY <2>2 DEF CopySettles
  <2> QED
    BY <1>1, <2>2, <2>3 DEF KeepsScale
<1>5. ASSUME NEW g \in Rollouts, DeletePipeline(g)
      PROVE  KeepsScale
  <2>1. PICK p \in Pipelines : p = rOld[g]
    BY DEF TypeOK
  <2>2. "deleting" \in Phases
    BY DEF Phases
  <2>3. pipe' = [pipe EXCEPT ![p].phase = "deleting"] \/ UNCHANGED pipe
    BY <1>5, <2>1 DEF DeletePipeline
  <2> QED
    BY <1>2, <2>2, <2>3, PhaseLemma
<1>6. ASSUME NEW p \in Pipelines, Numaflow(p)
      PROVE  KeepsScale
  <2>1. UNCHANGED pipe \/ \E to \in Phases : pipe' = [pipe EXCEPT ![p].phase = to]
    BY <1>6 DEF Numaflow, Finalize, CreateVertex, Scale,
                CollectVertex, SetVertex, Phases
  <2> QED
    BY <1>2, <2>1, PhaseLemma
<1>7. CASE UNCHANGED pipe
  BY <1>2, <1>7
<1>8. CASE \E n \in Namespaces : (\E v \in Versions : EditSpec(n, v)) \/ ReconcilePipeline(n)
  BY <1>3, <1>7, <1>8 DEF EditSpec, ReconcilePipeline, CreateFirst,
                          CreateAfterListError, CreateAndRollOut
<1>9. CASE \E g \in Rollouts : RolloutModel(g)
  BY <1>4, <1>5, <1>7, <1>9 DEF RolloutModel, ScaleDown, EndRollout, RescaleFails
<1> QED
  BY <1>6, <1>7, <1>8, <1>9 DEF Next, SyncCache, Crash, vars

\* Rollouts of one pipeline do not undo each other's bounds, however many there
\* are, and whatever replicas the pipeline has.
THEOREM Settling == Spec => ScaleSettles
<1>1. TypeOK /\ CopySettles /\ [Next]_vars => [KeepsScale]_vars
  BY KeepsScaleStep
<1> QED
  BY <1>1, TypeInit, TypeStep, CopySettlesInit, CopySettlesStep, PTL
  DEF Spec, ScaleSettles, KeepsScale

-----------------------------------------------------------------------------
(* The order in which versions are created *)

\* The name stands for one MLInference, and its user does not go back.
OneInference == \A m, n \in Namespaces : m = n
NeverBack == Reverts = FALSE

Created(p) == pipe[p].gen > 0
Superseded(p) == \E v \in Versions : v > p[2] /\ Created(<<p[1], v>>)
Active(g) == rPc[g] \in {"looping", "updating", "deleting"}

\* Nothing newer than the spec was created, nor anything seen that was not.
CreatedInOrder ==
  \A p \in Pipelines :
    /\ Created(p) => p[2] <= desired[p[1]]
    /\ Exists(pipe[p]) => Created(p)
    /\ Exists(cache[p]) => Created(p)

\* One of the pipelines that were created is the last.
HasNewest ==
  \A n \in Namespaces :
    (\E v \in Versions : Created(<<n, v>>))
      => \E v \in Versions : /\ Created(<<n, v>>)
                             /\ \A w \in Versions : Created(<<n, w>>) => w <= v

\* What was deleted, and what a goroutine is to delete, has a successor.
SupersededFirst ==
  /\ \A p \in Pipelines : Created(p) /\ ~Standing(pipe[p]) => Superseded(p)
  /\ \A g \in Rollouts : Active(g) => Superseded(rOld[g])

OrderInv == CreatedInOrder /\ HasNewest /\ SupersededFirst

LEMMA OrderInit == Init => OrderInv
BY DEF Init, OrderInv, CreatedInOrder, HasNewest, SupersededFirst, NoObject, Created,
       Exists, Active, Pipelines

\* A successor that was created stays one: what counts is that it was, not that it
\* still stands.
LEMMA SupersededStays ==
  ASSUME TypeOK, TypeOK', \A q \in Pipelines : Created(q) => Created(q)',
         NEW p \in Pipelines, Superseded(p)
  PROVE  Superseded(p)'
<1>1. PICK v \in Versions : v > p[2] /\ Created(<<p[1], v>>)
  BY DEF Superseded
<1>2. <<p[1], v>> \in Pipelines
  BY DEF Pipelines
<1> QED
  BY <1>1, <1>2 DEF Superseded

\* A step that creates nothing, gives up nothing that has no successor, sees only
\* what was created, and starts no rollout.
Quiet ==
  /\ \A p \in Pipelines :
       /\ pipe'[p].gen = pipe[p].gen
       /\ Exists(pipe'[p]) => Exists(pipe[p])
       /\ Exists(cache'[p]) => Exists(pipe[p]) \/ Exists(cache[p])
       /\ Standing(pipe[p]) => Standing(pipe'[p]) \/ Superseded(p)
  /\ \A n \in Namespaces : desired[n] <= desired'[n]
  /\ \A g \in Rollouts : Active(g)' => Active(g) /\ rOld'[g] = rOld[g]

LEMMA QuietKeeps ==
  ASSUME TypeOK, TypeOK', OrderInv, Quiet
  PROVE  OrderInv'
<1>1. \A p \in Pipelines : Created(p)' <=> Created(p)
  BY DEF Quiet, Created
<1>2. \A p \in Pipelines : Superseded(p) => Superseded(p)'
  BY <1>1, SupersededStays
<1>3. \A n \in Namespaces, v \in Versions : <<n, v>> \in Pipelines
  BY DEF Pipelines
<1>4. CreatedInOrder'
  <2> SUFFICES ASSUME NEW p \in Pipelines
               PROVE  /\ Created(p)' => p[2] <= desired'[p[1]]
                      /\ Exists(pipe'[p]) => Created(p)'
                      /\ Exists(cache'[p]) => Created(p)'
    BY DEF CreatedInOrder
  <2>1. p[1] \in Namespaces /\ p[2] \in Int
    BY DEF Pipelines, Versions
  <2>2. desired[p[1]] \in Int /\ desired'[p[1]] \in Int
    BY <2>1 DEF TypeOK, Versions
  <2>3. desired[p[1]] <= desired'[p[1]]
    BY <2>1 DEF Quiet
  <2>4. /\ Created(p) => p[2] <= desired[p[1]]
        /\ Exists(pipe[p]) => Created(p)
        /\ Exists(cache[p]) => Created(p)
    BY DEF OrderInv, CreatedInOrder
  <2>5. Created(p)' => p[2] <= desired'[p[1]]
    BY <1>1, <2>1, <2>2, <2>3, <2>4
  <2> QED
    BY <1>1, <2>4, <2>5 DEF Quiet
<1>5. HasNewest'
  BY <1>1, <1>3 DEF OrderInv, HasNewest
<1>6. SupersededFirst'
  <2>1. \A p \in Pipelines : Created(p)' /\ ~Standing(pipe'[p]) => Superseded(p)'
    BY <1>1, <1>2 DEF OrderInv, SupersededFirst, Quiet
  <2>2. \A g \in Rollouts : rOld[g] \in Pipelines
    BY DEF TypeOK
  <2>3. \A g \in Rollouts : Active(g)' => Superseded(rOld[g])' /\ rOld'[g] = rOld[g]
    BY <1>2, <2>2 DEF OrderInv, SupersededFirst, Quiet
  <2>4. ASSUME NEW g \in Rollouts, Active(g)'
        PROVE  Superseded(rOld[g])'
    BY <2>3, <2>4 DEF Superseded
  <2> QED
    BY <2>1, <2>4 DEF SupersededFirst
<1> QED
  BY <1>4, <1>5, <1>6 DEF OrderInv

\* The version that is created is that of the spec, so it is the newest.  It is not
\* the same again: the newest still stands, and Create found the name free.
LEMMA CreationIsNewest ==
  ASSUME TypeOK, OrderInv, NEW n \in Namespaces, CreatePipeline(n)
  PROVE  \A p \in Pipelines : Created(p) /\ p[1] = n => p[2] < desired[n]
<1> DEFINE new == <<n, desired[n]>>
<1>1. new \in Pipelines /\ desired[n] \in Versions /\ ~Exists(pipe[new])
  BY CreateLemma
<1>2. \A m \in Namespaces, v \in Versions : <<m, v>> \in Pipelines
  BY DEF Pipelines
<1>3. \A p \in Pipelines : p[1] = n => p[2] \in Versions /\ p = <<n, p[2]>>
  BY DEF Pipelines
<1>4. \A v \in Versions : v \in Int
  BY DEF Versions
<1>5. \A p \in Pipelines : Created(p) /\ p[1] = n => p[2] <= desired[n]
  BY DEF OrderInv, CreatedInOrder
<1>6. ~Created(new)
  <2> SUFFICES ASSUME Created(new)
               PROVE  FALSE
    OBVIOUS
  <2>1. Superseded(new)
    BY <1>1 DEF OrderInv, SupersededFirst, Exists, Standing
  <2>2. PICK v \in Versions : v > desired[n] /\ Created(<<n, v>>)
    BY <2>1 DEF Superseded
  <2>3. v <= desired[n]
    BY <1>2, <1>5, <2>2
  <2> QED
    BY <1>1, <1>4, <2>2, <2>3
<1> SUFFICES ASSUME NEW p \in Pipelines, Created(p), p[1] = n
             PROVE  p[2] < desired[n]
  OBVIOUS
<1>7. p[2] # desired[n]
  BY <1>3, <1>6
<1> QED
  BY <1>1, <1>3, <1>4, <1>5, <1>7

\* Whatever the list of pipelines said: a pipeline found in an old list was
\* created, so it is older than the one that is created now.
LEMMA CreationKeeps ==
  ASSUME TypeOK, TypeOK', OrderInv, OneInference,
         NEW n \in Namespaces, CreatePipeline(n), UNCHANGED <<desired, cache>>,
         \A g \in Rollouts :
           Active(g)' => \/ Active(g) /\ rOld'[g] = rOld[g]
                         \/ rOld'[g] \in Found
  PROVE  OrderInv'
<1> DEFINE new == <<n, desired[n]>>
<1>1. /\ new \in Pipelines /\ desired[n] \in Versions
      /\ pipe'[new].gen = pipe[new].gen + 1 /\ pipe'[new].phase = "standing"
      /\ \A q \in Pipelines \ {new} : pipe'[q] = pipe[q]
  BY CreateLemma
<1>2. pipe[new].gen \in Nat
  BY <1>1 DEF TypeOK, Objects
<1>3. Created(new)' /\ Standing(pipe'[new])
  BY <1>1, <1>2 DEF Created, Standing
<1>4. \A p \in Pipelines : Created(p)' <=> Created(p) \/ p = new
  BY <1>1, <1>3 DEF Created
<1>5. \A p \in Pipelines : Superseded(p) => Superseded(p)'
  BY <1>4, SupersededStays
<1>6. \A m \in Namespaces, v \in Versions : <<m, v>> \in Pipelines
  BY DEF Pipelines
<1>7. \A p \in Pipelines : p[1] = n
  BY DEF Pipelines, OneInference
<1>8. \A v \in Versions : v \in Int
  BY DEF Versions
<1>9. \A p \in Pipelines : Created(p) => p[2] < desired[n]
  BY <1>7, CreationIsNewest
<1>10. \A p \in Pipelines : Created(p) => Superseded(p)'
  <2> SUFFICES ASSUME NEW p \in Pipelines, Created(p)
               PROVE  Superseded(p)'
    OBVIOUS
  <2>1. p[2] \in Versions
    BY DEF Pipelines
  <2>2. desired[n] > p[2]
    BY <1>1, <1>8, <1>9, <2>1
  <2>3. Created(<<p[1], desired[n]>>)'
    BY <1>3, <1>7
  <2> QED
    BY <1>1, <2>2, <2>3 DEF Superseded
<1>11. CreatedInOrder'
  <2>1. \A p \in Pipelines : Created(p)' => p[2] <= desired[n]
    <3>1. \A p \in Pipelines : p[2] \in Versions
      BY DEF Pipelines
    <3> QED
      BY <1>1, <1>4, <1>8, <1>9, <3>1
  <2> QED
    BY <1>1, <1>3, <1>4, <1>7, <2>1 DEF OrderInv, CreatedInOrder
<1>12. HasNewest'
  <2> SUFFICES ASSUME NEW m \in Namespaces
               PROVE  \E v \in Versions :
                        /\ Created(<<m, v>>)'
                        /\ \A w \in Versions : Created(<<m, w>>)' => w <= v
    BY DEF HasNewest
  <2>1. m = n
    BY DEF OneInference
  <2>2. \A w \in Versions : Created(<<n, w>>)' => w <= desired[n]
    BY <1>1, <1>4, <1>6, <1>8, <1>9
  <2> QED
    BY <1>1, <1>3, <2>1, <2>2
<1>13. SupersededFirst'
  <2>1. \A p \in Pipelines : Created(p)' /\ ~Standing(pipe'[p]) => Superseded(p)'
    BY <1>3, <1>4, <1>10
  <2>2. ASSUME NEW g \in Rollouts, Active(g)'
        PROVE  Superseded(rOld[g])'
    <3>1. PICK p \in Pipelines : p = rOld'[g]
      BY DEF TypeOK
    <3>2. Superseded(p)'
      <4>1. CASE Active(g) /\ p = rOld[g]
        BY <1>5, <4>1 DEF OrderInv, SupersededFirst
      <4>2. CASE p \in Found
        <5>1. Created(p)
          BY <4>2 DEF Found, OrderInv, CreatedInOrder
        <5> QED
          BY <1>10, <5>1
      <4> QED
        BY <2>2, <3>1, <4>1, <4>2
    <3> QED
      BY <3>1, <3>2 DEF Superseded
  <2> QED
    BY <2>1, <2>2 DEF SupersededFirst
<1> QED
  BY <1>11, <1>12, <1>13 DEF OrderInv

\* A step that writes no pipeline but perhaps its bounds.
LEMMA QuietWhenPhasesStay ==
  ASSUME TypeOK, TypeOK', OrderInv,
         \A p \in Pipelines : /\ pipe'[p].gen = pipe[p].gen
                              /\ pipe'[p].phase = pipe[p].phase,
         UNCHANGED cache \/ cache' = pipe,
         UNCHANGED desired,
         \A g \in Rollouts : Active(g)' => Active(g) /\ rOld'[g] = rOld[g]
  PROVE  OrderInv'
<1>1. \A n \in Namespaces : desired[n] \in Int
  BY DEF TypeOK, Versions
<1>2. Quiet
  BY <1>1 DEF Quiet, Exists, Standing
<1> QED
  BY <1>2, QuietKeeps

\* A step that moves one pipeline on; only one with a successor may be given up.
LEMMA QuietWhenPhaseMoves ==
  ASSUME TypeOK, TypeOK', OrderInv, NEW p \in Pipelines,
         NEW from \in Phases, NEW to \in Phases,
         pipe[p].phase = from, from # "absent",
         pipe' = [pipe EXCEPT ![p].phase = to],
         from = "standing" => Superseded(p),
         UNCHANGED <<desired, cache>>,
         \A g \in Rollouts : Active(g)' => Active(g) /\ rOld'[g] = rOld[g]
  PROVE  OrderInv'
<1>1. \A n \in Namespaces : desired[n] \in Int
  BY DEF TypeOK, Versions
<1>2. /\ pipe'[p].phase = to
      /\ \A q \in Pipelines \ {p} : pipe'[q] = pipe[q]
      /\ \A q \in Pipelines : pipe'[q].gen = pipe[q].gen
  BY PhaseLemma
<1>3. Quiet
  BY <1>1, <1>2 DEF Quiet, Exists, Standing
<1> QED
  BY <1>3, QuietKeeps

LEMMA OrderRollout ==
  ASSUME TypeOK, TypeOK', OrderInv, NEW g \in Rollouts, RolloutModel(g)
  PROVE  OrderInv'
<1>1. \A h \in Rollouts : Active(h)' => Active(h) /\ rOld'[h] = rOld[h]
  BY DEF RolloutModel, ScaleDown, EndRollout, Rescale, RescaleFails, DeletePipeline,
         RGoTo, Active, TypeOK
<1>2. UNCHANGED <<desired, cache>>
  BY DEF RolloutModel, ScaleDown, EndRollout, Rescale, RescaleFails, DeletePipeline
<1>3. CASE UNCHANGED pipe
  BY <1>1, <1>2, <1>3, QuietWhenPhasesStay
<1>4. CASE Rescale(g)
  <2>1. \A p \in Pipelines : /\ pipe'[p].gen = pipe[p].gen
                             /\ pipe'[p].phase = pipe[p].phase
    BY <1>4, RescaleLemma
  <2> QED
    BY <1>1, <1>2, <2>1, QuietWhenPhasesStay
<1>5. CASE DeletePipeline(g)
  <2>1. PICK p \in Pipelines : p = rOld[g]
    BY DEF TypeOK
  <2>2. Superseded(p)
    <3>1. Active(g)
      BY <1>5 DEF DeletePipeline, Active
    <3> QED
      BY <2>1, <3>1 DEF OrderInv, SupersededFirst
  <2>3. CASE Standing(pipe[p]) /\ pipe' = [pipe EXCEPT ![p].phase = "deleting"]
    <3>1. pipe[p].phase \in Phases /\ "deleting" \in Phases /\ pipe[p].phase # "absent"
      BY <2>3 DEF Phases, Standing
    <3> QED
      BY <1>1, <1>2, <2>2, <2>3, <3>1, QuietWhenPhaseMoves DEF Phases, Standing
  <2> QED
    BY <1>3, <1>5, <2>1, <2>3 DEF DeletePipeline
<1> QED
  BY <1>3, <1>4, <1>5 DEF RolloutModel, ScaleDown, EndRollout, RescaleFails

LEMMA OrderNumaflow ==
  ASSUME TypeOK, TypeOK', OrderInv, NEW p \in Pipelines, Numaflow(p)
  PROVE  OrderInv'
<1>1. UNCHANGED <<desired, cache, controller>>
  BY DEF Numaflow, Finalize, CreateVertex, Scale, CollectVertex,
         SetVertex
<1>2. \A g \in Rollouts : Active(g)' => Active(g) /\ rOld'[g] = rOld[g]
  BY <1>1 DEF controller, Active
<1>3. CASE Finalize(p)
  <2>1. pipe[p].phase = "deleting" /\ pipe' = [pipe EXCEPT ![p].phase = "absent"]
    BY <1>3 DEF Finalize
  <2>2. "deleting" \in Phases /\ "absent" \in Phases
    BY DEF Phases
  <2> QED
    BY <1>1, <1>2, <2>1, <2>2, QuietWhenPhaseMoves
<1>4. CASE UNCHANGED pipe
  BY <1>1, <1>2, <1>4, QuietWhenPhasesStay
<1> QED
  BY <1>3, <1>4 DEF Numaflow, CreateVertex, Scale, CollectVertex, SetVertex

LEMMA OrderReconcile ==
  ASSUME TypeOK, TypeOK', OrderInv, OneInference,
         NEW n \in Namespaces, ReconcilePipeline(n)
  PROVE  OrderInv'
<1>1. CASE CreateFirst(n) \/ CreateAfterListError(n)
  <2>1. CreatePipeline(n) /\ UNCHANGED <<desired, cache, controller>>
    BY <1>1 DEF CreateFirst, CreateAfterListError
  <2>2. \A g \in Rollouts : Active(g)' => Active(g) /\ rOld'[g] = rOld[g]
    BY <2>1 DEF controller, Active
  <2> QED
    BY <2>1, <2>2, CreationKeeps
<1>2. CASE CreateAndRollOut(n)
  <2>1. PICK old \in Found, g \in Rollouts :
          /\ CreatePipeline(n)
          /\ rPc' = [rPc EXCEPT ![g] = "looping"]
          /\ rOld' = [rOld EXCEPT ![g] = old]
    BY <1>2 DEF CreateAndRollOut
  <2>2. \A h \in Rollouts : Active(h)' => \/ Active(h) /\ rOld'[h] = rOld[h]
                                          \/ rOld'[h] \in Found
    BY <2>1 DEF Active, TypeOK
  <2>3. UNCHANGED <<desired, cache>>
    BY <1>2 DEF CreateAndRollOut
  <2> QED
    BY <2>1, <2>2, <2>3, CreationKeeps
<1> QED
  BY <1>1, <1>2 DEF ReconcilePipeline

LEMMA OrderStep ==
  ASSUME OneInference, NeverBack, TypeOK, TypeOK', OrderInv, [Next]_vars
  PROVE  OrderInv'
<1>1. CASE \E n \in Namespaces : \E v \in Versions : EditSpec(n, v)
  <2>1. PICK n \in Namespaces, v \in Versions : EditSpec(n, v)
    BY <1>1
  <2>2. \A m \in Namespaces : desired[m] \in Int /\ desired'[m] \in Int
    BY DEF TypeOK, Versions
  <2>3. v > desired[n] /\ desired' = [desired EXCEPT ![n] = v]
    BY <2>1 DEF EditSpec, NeverBack
  <2>4. \A m \in Namespaces : desired[m] <= desired'[m]
    BY <2>2, <2>3 DEF TypeOK
  <2>5. UNCHANGED <<pipe, cache, controller>>
    BY <2>1 DEF EditSpec
  <2>6. Quiet
    BY <2>4, <2>5 DEF Quiet, Active, controller
  <2> QED
    BY <2>6, QuietKeeps
<1>2. CASE \E n \in Namespaces : ReconcilePipeline(n)
  BY <1>2, OrderReconcile
<1>3. CASE SyncCache
  <2>1. \A g \in Rollouts : Active(g)' => Active(g) /\ rOld'[g] = rOld[g]
    BY <1>3 DEF SyncCache, controller, Active
  <2> QED
    BY <1>3, <2>1, QuietWhenPhasesStay DEF SyncCache
<1>4. CASE \E g \in Rollouts : RolloutModel(g)
  BY <1>4, OrderRollout
<1>5. CASE \E p \in Pipelines : Numaflow(p)
  BY <1>5, OrderNumaflow
<1>6. CASE Crash
  <2>1. \A g \in Rollouts : Active(g)' => Active(g) /\ rOld'[g] = rOld[g]
    BY <1>6 DEF Crash, Active
  <2> QED
    BY <1>6, <2>1, QuietWhenPhasesStay DEF Crash
<1>7. CASE UNCHANGED vars
  <2>1. \A g \in Rollouts : Active(g)' => Active(g) /\ rOld'[g] = rOld[g]
    BY <1>7 DEF vars, controller, Active
  <2> QED
    BY <1>7, <2>1, QuietWhenPhasesStay DEF vars
<1> QED
  BY <1>1, <1>2, <1>3, <1>4, <1>5, <1>6, <1>7 DEF Next

\* The newest of the pipelines that were created stands: it has no successor.
LEMMA NewestStands == TypeOK /\ OrderInv => AlwaysAPipeline
<1> SUFFICES ASSUME TypeOK, OrderInv, NEW n \in Namespaces,
                    \E v \in Versions : pipe[<<n, v>>].gen > 0
             PROVE  \E v \in Versions : Standing(pipe[<<n, v>>])
  BY DEF AlwaysAPipeline
<1>1. PICK v \in Versions :
        Created(<<n, v>>) /\ \A w \in Versions : Created(<<n, w>>) => w <= v
  BY DEF OrderInv, HasNewest, Created
<1>2. <<n, v>> \in Pipelines
  BY DEF Pipelines
<1>3. ~Superseded(<<n, v>>)
  <2>1. Superseded(<<n, v>>) <=> \E w \in Versions : w > v /\ Created(<<n, w>>)
    BY DEF Superseded
  <2>2. \A w \in Versions : w <= v => ~(w > v)
    BY DEF Versions
  <2> QED
    BY <1>1, <2>1, <2>2
<1> QED
  BY <1>1, <1>2, <1>3 DEF OrderInv, SupersededFirst

\* An MLInference that has had a pipeline has one that stands, through rollouts
\* that outlive one another, reads of old lists, Lists, Creates and Deletes that
\* fail, and restarts of the controller, as long as its name is its own and its
\* user does not go back.
THEOREM PipelineStands ==
  ASSUME OneInference, NeverBack
  PROVE  Spec => []AlwaysAPipeline
<1>1. TypeOK /\ OrderInv /\ [Next]_vars => TypeOK' /\ OrderInv'
  BY OrderStep, TypeStep
<1> QED
  BY <1>1, TypeInit, OrderInit, NewestStands, PTL DEF Spec

-----------------------------------------------------------------------------
(* The plan that rollouts carry out *)

\* A largest element of a set is its Max.
LEMMA MaxLemma ==
  ASSUME NEW S \in SUBSET Nat, NEW m \in S, \A k \in S : k <= m
  PROVE  Max(S) = m
<1>1. \A k \in S : m >= k
  OBVIOUS
<1>2. PICK top : top = Max(S)
  OBVIOUS
<1>3. top \in S /\ \A k \in S : top >= k
  BY <1>1, <1>2 DEF Max
<1>4. top \in Nat /\ m \in Nat /\ top >= m /\ top <= m
  BY <1>3
<1> QED
  BY <1>2, <1>4

VersionsOf(n) == {0} \cup {v \in Versions : Created(<<n, v>>)}

LEMMA NewestIsMax == NewestCreated = [n \in Namespaces |-> Max(VersionsOf(n))]
BY DEF NewestCreated, VersionsOf, Created

\* The newest version of which there was a pipeline is one of them, unless there
\* was none.
LEMMA NewestLemma ==
  ASSUME HasNewest, NEW n \in Namespaces
  PROVE  /\ NewestCreated[n] \in VersionsOf(n)
         /\ \A v \in VersionsOf(n) : v <= NewestCreated[n]
<1>1. VersionsOf(n) \in SUBSET Nat /\ 0 \in VersionsOf(n)
  BY DEF VersionsOf, Versions
<1>2. PICK m \in VersionsOf(n) : \A v \in VersionsOf(n) : v <= m
  <2>1. CASE \E v \in Versions : Created(<<n, v>>)
    <3>1. PICK v \in Versions :
            Created(<<n, v>>) /\ \A w \in Versions : Created(<<n, w>>) => w <= v
      BY <2>1 DEF HasNewest
    <3>2. v \in VersionsOf(n) /\ 0 <= v
      BY <3>1 DEF VersionsOf, Versions
    <3>3. \A w \in VersionsOf(n) : w <= v
      BY <3>1, <3>2 DEF VersionsOf
    <3> QED
      BY <3>2, <3>3
  <2>2. CASE ~\E v \in Versions : Created(<<n, v>>)
    <3>1. VersionsOf(n) = {0}
      BY <2>2 DEF VersionsOf
    <3> QED
      BY <3>1
  <2> QED
    BY <2>1, <2>2
<1>3. Max(VersionsOf(n)) = m
  BY <1>1, <1>2, MaxLemma
<1> QED
  BY <1>2, <1>3, NewestIsMax

\* What a step does to the newest version and to the pipelines that stand.
LEMMA PlanStep ==
  ASSUME TypeOK, TypeOK', OrderInv, [Next]_vars
  PROVE  [Plan!Next]_<<NewestCreated, StandingPipelines>>
<1>1. ASSUME \A p \in Pipelines : /\ pipe'[p].gen = pipe[p].gen
                                  /\ Standing(pipe'[p]) <=> Standing(pipe[p])
      PROVE  UNCHANGED <<NewestCreated, StandingPipelines>>
  <2>1. \A n \in Namespaces, v \in Versions : Created(<<n, v>>)' <=> Created(<<n, v>>)
    BY <1>1 DEF Created, Pipelines
  <2>2. \A n \in Namespaces : VersionsOf(n)' = VersionsOf(n)
    BY <2>1 DEF VersionsOf
  <2>3. NewestCreated' = [n \in Namespaces |-> Max(VersionsOf(n)')]
    BY DEF NewestCreated, VersionsOf, Created
  <2>4. UNCHANGED NewestCreated
    BY <2>2, <2>3, NewestIsMax
  <2> QED
    BY <1>1, <2>4 DEF StandingPipelines
<1>2. ASSUME NEW n \in Namespaces, CreatePipeline(n)
      PROVE  Plan!Next
  <2> DEFINE new == <<n, desired[n]>>
  <2>1. /\ new \in Pipelines /\ ~Exists(pipe[new])
        /\ pipe'[new].gen = pipe[new].gen + 1 /\ pipe'[new].phase = "standing"
        /\ \A q \in Pipelines \ {new} : pipe'[q] = pipe[q]
    BY <1>2, CreateLemma
  <2>2. pipe'[new].gen > 0 /\ Standing(pipe'[new])
    BY <2>1 DEF TypeOK, Objects, Standing
  <2>3. StandingPipelines' = StandingPipelines \cup {new}
    BY <2>1, <2>2 DEF StandingPipelines
  <2>4. \A q \in Pipelines : Created(q)' <=> Created(q) \/ q = new
    BY <2>1, <2>2 DEF Created
  <2>5. \A v \in VersionsOf(n) : v < desired[n]
    <3>1. \A v \in Versions : Created(<<n, v>>) => v < desired[n]
      BY <1>2, CreationIsNewest DEF Pipelines
    <3> QED
      BY <3>1 DEF VersionsOf, TypeOK, Versions
  <2>6. VersionsOf(n)' = VersionsOf(n) \cup {desired[n]}
    BY <2>4 DEF VersionsOf, Pipelines, TypeOK
  <2>7. \A m \in Namespaces \ {n} : VersionsOf(m)' = VersionsOf(m)
    BY <2>4 DEF VersionsOf, Pipelines
  <2>8. Max(VersionsOf(n)') = desired[n]
    <3>1. VersionsOf(n)' \in SUBSET Nat /\ desired[n] \in VersionsOf(n)'
      BY <2>6 DEF VersionsOf, Versions, TypeOK
    <3>2. \A k \in VersionsOf(n)' : k <= desired[n]
      BY <2>5, <2>6, <3>1
    <3> QED
      BY <3>1, <3>2, MaxLemma
  <2>9. NewestCreated' = [NewestCreated EXCEPT ![n] = desired[n]]
    <3>1. NewestCreated' = [m \in Namespaces |-> Max(VersionsOf(m)')]
      BY DEF NewestCreated, VersionsOf, Created
    <3> QED
      BY <2>7, <2>8, <3>1, NewestIsMax
  <2>10. NewestCreated[n] < desired[n]
    BY <2>5, NewestLemma DEF OrderInv
  <2>11. desired[n] \in Versions /\ desired[n] > NewestCreated[n]
    BY <2>5, <2>10, NewestLemma DEF TypeOK, Versions, OrderInv
  <2>12. Plan!Deploy(n, desired[n])
    BY <2>3, <2>9, <2>11 DEF Plan!Deploy
  <2> QED
    BY <2>11, <2>12 DEF Plan!Next
<1>3. ASSUME NEW p \in Pipelines, Standing(pipe[p]), Superseded(p),
             pipe' = [pipe EXCEPT ![p].phase = "deleting"]
      PROVE  Plan!Next
  <2>1. "deleting" \in Phases
    BY DEF Phases
  <2>2. /\ pipe'[p].phase = "deleting"
        /\ \A q \in Pipelines \ {p} : pipe'[q] = pipe[q]
        /\ \A q \in Pipelines : pipe'[q].gen = pipe[q].gen
    BY <1>3, <2>1, PhaseLemma
  <2>3. UNCHANGED NewestCreated
    <3>1. \A n \in Namespaces, v \in Versions : Created(<<n, v>>)' <=> Created(<<n, v>>)
      BY <2>2 DEF Created, Pipelines
    <3>2. \A n \in Namespaces : VersionsOf(n)' = VersionsOf(n)
      BY <3>1 DEF VersionsOf
    <3>3. NewestCreated' = [n \in Namespaces |-> Max(VersionsOf(n)')]
      BY DEF NewestCreated, VersionsOf, Created
    <3> QED
      BY <3>2, <3>3, NewestIsMax
  <2>4. p \in StandingPipelines /\ StandingPipelines' = StandingPipelines \ {p}
    BY <1>3, <2>2 DEF StandingPipelines, Standing
  <2>5. PICK n \in Namespaces, v \in Versions : p = <<n, v>>
    BY DEF Pipelines
  <2>6. PICK w \in Versions : w > v /\ Created(<<n, w>>)
    BY <1>3, <2>5 DEF Superseded
  <2>7. v < NewestCreated[n]
    <3>1. w \in VersionsOf(n) /\ VersionsOf(n) \in SUBSET Nat
      BY <2>6 DEF VersionsOf, Versions
    <3>2. w <= NewestCreated[n] /\ NewestCreated[n] \in Nat
      BY <3>1, NewestLemma DEF OrderInv
    <3> QED
      BY <2>6, <3>2 DEF Versions
  <2>8. Plan!Retire(n, v)
    BY <2>3, <2>4, <2>5, <2>7 DEF Plan!Retire
  <2> QED
    BY <2>8 DEF Plan!Next
<1>4. CASE UNCHANGED pipe
  BY <1>1, <1>4
<1>5. CASE \E n \in Namespaces : (\E v \in Versions : EditSpec(n, v)) \/ ReconcilePipeline(n)
  BY <1>2, <1>4, <1>5 DEF EditSpec, ReconcilePipeline, CreateFirst,
                          CreateAfterListError, CreateAndRollOut
<1>6. ASSUME NEW g \in Rollouts, Rescale(g)
      PROVE  UNCHANGED <<NewestCreated, StandingPipelines>>
  <2>1. \A p \in Pipelines : /\ pipe'[p].gen = pipe[p].gen
                             /\ pipe'[p].phase = pipe[p].phase
    BY <1>6, RescaleLemma
  <2> QED
    BY <1>1, <2>1 DEF Standing
<1>7. ASSUME NEW g \in Rollouts, DeletePipeline(g)
      PROVE  UNCHANGED pipe \/ Plan!Next
  <2>1. PICK p \in Pipelines : p = rOld[g]
    BY DEF TypeOK
  <2>2. Superseded(p)
    <3>1. Active(g)
      BY <1>7 DEF DeletePipeline, Active
    <3> QED
      BY <2>1, <3>1 DEF OrderInv, SupersededFirst
  <2>3. \/ UNCHANGED pipe
        \/ Standing(pipe[p]) /\ pipe' = [pipe EXCEPT ![p].phase = "deleting"]
    BY <1>7, <2>1 DEF DeletePipeline
  <2> QED
    BY <1>3, <2>2, <2>3
<1>8. CASE \E g \in Rollouts : RolloutModel(g)
  BY <1>4, <1>6, <1>7, <1>8 DEF RolloutModel, ScaleDown, EndRollout, RescaleFails
<1>9. ASSUME NEW p \in Pipelines, Finalize(p)
      PROVE  UNCHANGED <<NewestCreated, StandingPipelines>>
  <2>1. /\ pipe[p].phase = "deleting" /\ "absent" \in Phases
        /\ pipe' = [pipe EXCEPT ![p].phase = "absent"]
    BY <1>9 DEF Finalize, Phases
  <2>2. /\ pipe'[p].phase = "absent"
        /\ \A q \in Pipelines \ {p} : pipe'[q] = pipe[q]
        /\ \A q \in Pipelines : pipe'[q].gen = pipe[q].gen
    BY <2>1, PhaseLemma
  <2> QED
    BY <1>1, <2>1, <2>2 DEF Standing
<1>10. CASE \E p \in Pipelines : Numaflow(p)
  BY <1>4, <1>9, <1>10 DEF Numaflow, CreateVertex, Scale, CollectVertex, SetVertex
<1> QED
  BY <1>4, <1>5, <1>8, <1>10 DEF Next, SyncCache, Crash, vars

\* Rollouts, with all they do through stale reads, failed calls and restarts, do no
\* more than deploy the versions in their order, once each, and retire what has a
\* successor.
THEOREM PlanCarriedOut ==
  ASSUME OneInference, NeverBack
  PROVE  Spec => DeploysInOrder
<1>1. Init => Plan!Init
  <2> SUFFICES ASSUME Init PROVE Plan!Init
    OBVIOUS
  <2>1. \A p \in Pipelines : ~Created(p) /\ ~Standing(pipe[p])
    BY DEF Init, NoObject, Created, Standing
  <2>2. \A n \in Namespaces : VersionsOf(n) = {0}
    BY <2>1 DEF VersionsOf, Pipelines
  <2>3. Max({0}) = 0
    BY MaxLemma
  <2>4. NewestCreated = [n \in Namespaces |-> 0]
    BY <2>2, <2>3, NewestIsMax
  <2>5. StandingPipelines = {}
    BY <2>1 DEF StandingPipelines
  <2> QED
    BY <2>4, <2>5 DEF Plan!Init
<1>2. TypeOK /\ OrderInv /\ [Next]_vars => TypeOK' /\ OrderInv'
  BY OrderStep, TypeStep
<1>3. TypeOK /\ TypeOK' /\ OrderInv /\ [Next]_vars
        => [Plan!Next]_<<NewestCreated, StandingPipelines>>
  BY PlanStep
<1> QED
  BY <1>1, <1>2, <1>3, TypeInit, OrderInit, PTL DEF Spec, DeploysInOrder, Plan!Spec

=============================================================================
