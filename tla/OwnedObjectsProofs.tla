------------------------- MODULE OwnedObjectsProofs -------------------------
(***************************************************************************)
(* The frontline is never taken back to an older spec, for any number of   *)
(* versions, valid or not, failed calls, outside writes and restarts; and  *)
(* undisturbed passes leave nothing missing when there is no more to do.   *)
(*                                                                         *)
(* A pass works on a copy of the spec that may be old, and writes objects  *)
(* it read from a cache that may be old.  What keeps the order is that all *)
(* copies are taken in one direction: from the MLInference to the cache,   *)
(* from there to a pass when it starts, from the pass to the StatefulSet.  *)
(***************************************************************************)
EXTENDS OwnedObjects, TLAPS

\* Each copy is at most as new as the one it was taken from.
CopiesInOrder ==
  /\ object["application"].spec <= spec
  /\ spec <= seen
  /\ seen <= desired

Inv == TypeOK /\ CopiesInOrder

\* What a step may do to the StatefulSet.
NotBack ==
  object["application"].phase = "live" /\ object'["application"].phase = "live"
    => object["application"].spec <= object'["application"].spec

\* The variables of TypeOK that say nothing of specs.
PlainTypes ==
  /\ cached \subseteq Read /\ current \subseteq Read
  /\ queued \in BOOLEAN
  /\ stage \in Kinds \cup {"idle"}
  /\ call \in {"get", "update", "delete", "create"}
  /\ found \in BOOLEAN
  /\ faults \in 0..MaxFaults /\ outside \in 0..MaxOutside
  /\ crashes \in 0..MaxCrashes

SpecTypes ==
  /\ desired \in Versions /\ seen \in Versions /\ spec \in Versions
  /\ object \in [Kinds -> Objects]

LEMMA TypesSplit == TypeOK <=> PlainTypes /\ SpecTypes
BY DEF TypeOK, PlainTypes, SpecTypes

-----------------------------------------------------------------------------
(* Writes of objects *)

\* Write replaces one object, and nothing of the others.
LEMMA WriteLemma ==
  ASSUME Inv, NEW k \in Kinds, NEW new \in Objects, Write(k, new)
  PROVE  /\ object' \in [Kinds -> Objects]
         /\ cached' \subseteq Read /\ current' \subseteq Read
         /\ object'["application"] = IF k = "application" THEN new
                                     ELSE object["application"]
BY DEF Inv, TypeOK, Write, Kinds

\* An object that is removed is not live any more, and has no newer spec.
LEMMA RemoveLemma ==
  ASSUME Inv, NEW k \in Kinds, Remove(k)
  PROVE  /\ object' \in [Kinds -> Objects]
         /\ cached' \subseteq Read /\ current' \subseteq Read
         /\ object'["application"].spec <= object["application"].spec
         /\ NotBack
<1> DEFINE new == IF k \in Finalized THEN [object[k] EXCEPT !.phase = "deleting"]
                                     ELSE NoObject
<1>1. object[k] \in Objects /\ object["application"] \in Objects
  BY DEF Inv, TypeOK, Kinds
<1>2. new \in Objects /\ new.spec <= object[k].spec /\ new.phase # "live"
  BY <1>1, OwnedAssumption DEF Objects, NoObject
<1>3. Write(k, new)
  BY DEF Remove
<1>4. object["application"].spec \in Nat
  BY <1>1 DEF Objects
<1> HIDE DEF new
<1> QED
  BY <1>2, <1>3, <1>4, WriteLemma DEF NotBack

\* A copy of the spec, and so what an object is made of it, is a spec.
LEMMA ContentLemma ==
  ASSUME Inv, NEW k \in Kinds
  PROVE  Content(k) \in 0..NVersions /\ Content("application") = spec
BY OwnedAssumption DEF Inv, TypeOK, Content, Versions

-----------------------------------------------------------------------------
(* Steps that write no object *)

\* The copies are in order after a step that leaves them, or moves one on.
LEMMA QuietStep ==
  ASSUME Inv, PlainTypes', UNCHANGED object,
         \/ UNCHANGED <<desired, seen, spec>>
         \/ UNCHANGED <<desired, seen>> /\ spec' = seen
         \/ UNCHANGED <<desired, spec>> /\ seen' = desired
         \/ UNCHANGED <<seen, spec>> /\ desired < NVersions /\ desired' = desired + 1
  PROVE  Inv' /\ NotBack
<1>1. object["application"].spec \in Nat
  BY DEF Inv, TypeOK, Kinds, Objects
<1>2. desired \in Nat /\ seen \in Nat /\ spec \in Nat
  BY DEF Inv, TypeOK, Versions
<1>3. SpecTypes'
  BY OwnedAssumption DEF Inv, TypeOK, SpecTypes, Versions
<1>4. CopiesInOrder'
  BY <1>1, <1>2 DEF Inv, CopiesInOrder
<1>5. TypeOK'
  BY <1>3, TypesSplit, PTL
<1> QED
  BY <1>1, <1>4, <1>5 DEF Inv, NotBack

-----------------------------------------------------------------------------
(* One lemma per part of a pass *)

LEMMA StartPassLemma == Inv /\ StartPass => Inv' /\ NotBack
<1> SUFFICES ASSUME Inv, StartPass PROVE Inv' /\ NotBack
  OBVIOUS
<1>1. PlainTypes'
  BY DEF Inv, TypeOK, StartPass, PlainTypes, Kinds, cluster, bounds
<1>2. UNCHANGED <<object, desired, seen>> /\ spec' = seen
  BY DEF StartPass, mlinference, cluster
<1> QED
  BY <1>1, <1>2, QuietStep

\* Where a pass goes next is a kind, or the end.
LEMMA GoToLemma ==
  ASSUME NEW k \in Kinds \cup {"idle"},
         NEW next \in {"get", "update", "delete", "create"}, GoTo(k, next)
  PROVE  /\ stage' \in Kinds \cup {"idle"}
         /\ call' \in {"get", "update", "delete", "create"}
         /\ UNCHANGED <<spec, found>>
BY DEF GoTo

LEMMA ProceedLemma ==
  ASSUME NEW k \in Kinds, Proceed(k)
  PROVE  /\ stage' \in Kinds \cup {"idle"}
         /\ call' \in {"get", "update", "delete", "create"}
         /\ UNCHANGED <<spec, found>>
<1>1. After(k) \in Kinds \cup {"idle"}
  BY DEF After, Kinds
<1> QED
  BY <1>1, GoToLemma DEF Proceed

LEMMA AbandonLemma ==
  ASSUME Abandon
  PROVE  /\ stage' \in Kinds \cup {"idle"}
         /\ call' \in {"get", "update", "delete", "create"}
         /\ UNCHANGED <<spec, found>>
BY GoToLemma DEF Abandon

\* A fault is counted within its bound.
LEMMA FaultLemma ==
  ASSUME faults \in 0..MaxFaults, Fault
  PROVE  faults' \in 0..MaxFaults
BY OwnedAssumption DEF Fault

\* The calls of a pass that fail, or only read.
LEMMA ReadOrFailLemma ==
  ASSUME Inv, NEW k \in Kinds,
         Get(k) \/ GetFails(k) \/ UpdateFails(k) \/ DeleteFails(k) \/ CreateFails(k)
  PROVE  Inv' /\ NotBack
<1>1. CASE Get(k)
  <2>1. PlainTypes'
    BY <1>1 DEF Inv, TypeOK, Get, PlainTypes, cluster, bounds
  <2> QED
    BY <1>1, <2>1, QuietStep DEF Get, mlinference, cluster
<1>2. CASE UpdateFails(k)
  <2>1. faults' \in 0..MaxFaults
    BY <1>2, FaultLemma DEF UpdateFails, Inv, TypeOK
  <2>2. PlainTypes'
    BY <1>2, <2>1, GoToLemma DEF UpdateFails, Inv, TypeOK, PlainTypes, cluster
  <2> QED
    BY <1>2, <2>2, QuietStep DEF UpdateFails, GoTo, mlinference, cluster
<1>3. CASE DeleteFails(k)
  <2>1. faults' \in 0..MaxFaults
    BY <1>3, FaultLemma DEF DeleteFails, Inv, TypeOK
  <2>2. PlainTypes'
    BY <1>3, <2>1, AbandonLemma DEF DeleteFails, Inv, TypeOK, PlainTypes, cluster
  <2> QED
    BY <1>3, <2>2, QuietStep, AbandonLemma DEF DeleteFails, mlinference, cluster
<1>4. CASE CreateFails(k)
  <2>1. faults' \in 0..MaxFaults
    BY <1>4, FaultLemma DEF CreateFails, Inv, TypeOK
  <2>2. PlainTypes'
    BY <1>4, <2>1, AbandonLemma DEF CreateFails, Inv, TypeOK, PlainTypes, cluster
  <2> QED
    BY <1>4, <2>2, QuietStep, AbandonLemma DEF CreateFails, mlinference, cluster
<1>5. CASE GetFails(k)
  <2>1. faults' \in 0..MaxFaults
    BY <1>5, FaultLemma DEF GetFails, Inv, TypeOK
  <2>2. PlainTypes'
    BY <1>5, <2>1, AbandonLemma DEF GetFails, Inv, TypeOK, PlainTypes, cluster
  <2> QED
    BY <1>5, <2>2, QuietStep, AbandonLemma DEF GetFails, mlinference, cluster
<1> QED
  BY <1>1, <1>2, <1>3, <1>4, <1>5

\* What Update writes to the StatefulSet is made of the spec of the pass, and
\* what it had was made of that spec or of an older one.
LEMMA UpdateLemma ==
  ASSUME Inv, NEW k \in Kinds, Update(k)
  PROVE  Inv' /\ NotBack
<1> DEFINE new == [object[k] EXCEPT !.spec = Content(k)]
<1>1. object[k] \in Objects /\ object["application"] \in Objects
  BY DEF Inv, TypeOK, Kinds
<1>2. new \in Objects /\ new.spec = Content(k)
  BY <1>1, ContentLemma DEF Objects
<1>3. UNCHANGED <<desired, seen, spec, found, queued, faults, outside, crashes>>
      /\ stage' \in Kinds \cup {"idle"}
      /\ call' \in {"get", "update", "delete", "create"}
  BY ProceedLemma DEF Update, mlinference, bounds
<1>4. CASE UNCHANGED cluster
  <2>1. PlainTypes'
    BY <1>3, <1>4 DEF Inv, TypeOK, PlainTypes, cluster
  <2> QED
    BY <1>3, <1>4, <2>1, QuietStep DEF cluster
<1>5. CASE Write(k, new)
  <2> HIDE DEF new
  <2>1. /\ object' \in [Kinds -> Objects]
        /\ cached' \subseteq Read /\ current' \subseteq Read
        /\ object'["application"] = IF k = "application" THEN new
                                    ELSE object["application"]
    BY <1>2, <1>5, WriteLemma
  <2>2. TypeOK'
    BY <1>3, <2>1 DEF Inv, TypeOK
  <2>3. object["application"].spec <= object'["application"].spec
        /\ object'["application"].spec <= spec
    BY <1>1, <1>2, <2>1, ContentLemma DEF Inv, TypeOK, CopiesInOrder, Objects, Versions
  <2> QED
    BY <1>3, <2>2, <2>3 DEF Inv, CopiesInOrder, NotBack
<1> QED
  BY <1>4, <1>5 DEF Update

LEMMA DeleteLemma ==
  ASSUME Inv, NEW k \in Kinds, Delete(k)
  PROVE  Inv' /\ NotBack
<1>1. UNCHANGED <<desired, seen, spec, found, queued, faults, outside, crashes>>
      /\ stage' \in Kinds \cup {"idle"}
      /\ call' \in {"get", "update", "delete", "create"}
  BY GoToLemma DEF Delete, mlinference, bounds
<1>2. /\ object' \in [Kinds -> Objects]
      /\ cached' \subseteq Read /\ current' \subseteq Read
      /\ object'["application"].spec <= object["application"].spec
      /\ NotBack
  BY RemoveLemma DEF Delete
<1>3. TypeOK'
  BY <1>1, <1>2 DEF Inv, TypeOK
<1>4. object["application"].spec \in Nat /\ object'["application"].spec \in Nat
      /\ spec \in Nat
  BY <1>2 DEF Inv, TypeOK, Kinds, Objects, Versions
<1> QED
  BY <1>1, <1>2, <1>3, <1>4 DEF Inv, CopiesInOrder

\* Create makes an object where there was none.
LEMMA CreateLemma ==
  ASSUME Inv, NEW k \in Kinds, ~Exists(k),
         Write(k, [phase |-> "live", spec |-> Content(k)]),
         UNCHANGED <<mlinference, queued, bounds, spec, found>>,
         stage' \in Kinds \cup {"idle"},
         call' \in {"get", "update", "delete", "create"}
  PROVE  Inv' /\ NotBack
<1> DEFINE new == [phase |-> "live", spec |-> Content(k)]
<1>1. new \in Objects /\ new.spec = Content(k)
  BY ContentLemma DEF Objects
<1>2. UNCHANGED <<desired, seen, queued, faults, outside, crashes>>
      /\ ~Exists(k) /\ Write(k, new)
  BY DEF mlinference, bounds
<1> HIDE DEF new
<1>3. /\ object' \in [Kinds -> Objects]
      /\ cached' \subseteq Read /\ current' \subseteq Read
      /\ object'["application"] = IF k = "application" THEN new
                                  ELSE object["application"]
  BY <1>1, <1>2, WriteLemma
<1>4. TypeOK'
  BY <1>2, <1>3 DEF Inv, TypeOK
<1>5. object'["application"].spec <= spec
  BY <1>1, <1>3, ContentLemma DEF Inv, TypeOK, CopiesInOrder, Versions
<1>6. NotBack
  BY <1>2, <1>3 DEF NotBack, Exists, Inv, TypeOK, Kinds, Objects
<1> QED
  BY <1>2, <1>4, <1>5, <1>6 DEF Inv, CopiesInOrder

LEMMA GetUpdateOrCreateLemma ==
  ASSUME Inv, NEW k \in Kinds, GetUpdateOrCreate(k)
  PROVE  Inv' /\ NotBack
<1>1. CASE Create(k, Proceed(k))
  BY <1>1, CreateLemma, ProceedLemma DEF Create
<1> QED
  BY <1>1, ReadOrFailLemma, UpdateLemma, DeleteLemma DEF GetUpdateOrCreate

LEMMA ReconcilePipelineLemma ==
  ASSUME Inv, ReconcilePipeline
  PROVE  Inv' /\ NotBack
<1> "pipeline" \in Kinds /\ "pipelineService" \in Kinds
  BY DEF Kinds
<1>1. CASE ListPipelines
  <2>1. /\ stage' \in Kinds \cup {"idle"}
        /\ call' \in {"get", "update", "delete", "create"}
        /\ UNCHANGED <<spec, found>>
    BY <1>1, ProceedLemma, GoToLemma DEF ListPipelines
  <2>2. PlainTypes'
    BY <1>1, <2>1 DEF ListPipelines, Inv, TypeOK, PlainTypes, cluster, bounds
  <2> QED
    BY <1>1, <2>1, <2>2, QuietStep DEF ListPipelines, mlinference, cluster
<1>2. CASE Create("pipeline", GoTo("pipelineService", "create"))
  BY <1>2, CreateLemma, GoToLemma DEF Create
<1>3. CASE CreateFails("pipeline")
  BY <1>3, ReadOrFailLemma
<1>4. CASE Create("pipelineService", Proceed("pipelineService"))
  BY <1>4, CreateLemma, ProceedLemma DEF Create
<1>5. CASE PipelineServiceExists
  <2>1. /\ stage' \in Kinds \cup {"idle"}
        /\ call' \in {"get", "update", "delete", "create"}
        /\ UNCHANGED <<spec, found>>
    BY <1>5, ProceedLemma DEF PipelineServiceExists
  <2>2. PlainTypes'
    BY <1>5, <2>1 DEF PipelineServiceExists, Inv, TypeOK, PlainTypes, cluster, bounds
  <2> QED
    BY <1>5, <2>1, <2>2, QuietStep DEF PipelineServiceExists, mlinference, cluster
<1>6. CASE PipelineServiceFails
  BY <1>6, ReadOrFailLemma DEF PipelineServiceFails
<1>7. CASE ListFails \/ SuccessorFails
  <2>1. /\ stage' \in Kinds \cup {"idle"}
        /\ call' \in {"get", "update", "delete", "create"}
        /\ UNCHANGED <<spec, found>>
    BY <1>7, GoToLemma, AbandonLemma DEF ListFails, SuccessorFails
  <2>2. faults' \in 0..MaxFaults
    BY <1>7, FaultLemma DEF ListFails, SuccessorFails, Inv, TypeOK
  <2>3. PlainTypes'
    BY <1>7, <2>1, <2>2 DEF ListFails, SuccessorFails, Inv, TypeOK, PlainTypes, cluster
  <2> QED
    BY <1>7, <2>1, <2>3, QuietStep DEF ListFails, SuccessorFails, mlinference, cluster
<1> QED
  BY <1>1, <1>2, <1>3, <1>4, <1>5, <1>6, <1>7 DEF ReconcilePipeline

LEMMA CrashLemma == Inv /\ Crash => Inv' /\ NotBack
<1> SUFFICES ASSUME Inv, Crash PROVE Inv' /\ NotBack
  OBVIOUS
<1>1. crashes' \in 0..MaxCrashes
  BY OwnedAssumption DEF Crash, Inv, TypeOK
<1>2. stage' = "idle" /\ call' = "get" /\ UNCHANGED <<spec, found>>
  BY DEF Crash, GoTo
<1>3. PlainTypes'
  BY <1>1, <1>2 DEF Crash, Inv, TypeOK, PlainTypes
<1> QED
  BY <1>2, <1>3, QuietStep DEF Crash

-----------------------------------------------------------------------------
(* Everybody else *)

LEMMA OthersLemma == Inv /\ Others => Inv' /\ NotBack
<1> SUFFICES ASSUME Inv, Others PROVE Inv' /\ NotBack
  OBVIOUS
<1>1. CASE EditSpec
  <2>1. PlainTypes'
    BY <1>1 DEF EditSpec, Inv, TypeOK, PlainTypes, cluster, pass, bounds
  <2> QED
    BY <1>1, <2>1, QuietStep DEF EditSpec, cluster, pass
<1>2. CASE SyncSpec
  <2>1. PlainTypes'
    BY <1>2 DEF SyncSpec, Inv, TypeOK, PlainTypes, cluster, pass, bounds
  <2> QED
    BY <1>2, <2>1, QuietStep DEF SyncSpec, cluster, pass
<1>3. CASE Resync
  <2>1. PlainTypes'
    BY <1>3 DEF Resync, Inv, TypeOK, PlainTypes, cluster, pass, bounds
  <2> QED
    BY <1>3, <2>1, QuietStep DEF Resync, mlinference, cluster, pass
<1>4. ASSUME NEW k \in Kinds, SyncObject(k) PROVE Inv' /\ NotBack
  <2>1. PlainTypes'
    BY <1>4 DEF SyncObject, Inv, TypeOK, PlainTypes, pass, bounds
  <2> QED
    BY <1>4, <2>1, QuietStep DEF SyncObject, mlinference, pass
<1>5. ASSUME NEW k \in Kinds, WriteOutside(k) PROVE Inv' /\ NotBack
  <2>1. object[k] \in Objects /\ object["application"] \in Objects
        /\ object["application"].spec \in Nat /\ spec \in Nat
    BY DEF Inv, TypeOK, Kinds, Objects, Versions
  <2>2. outside' \in 0..MaxOutside /\ found' \in BOOLEAN
    BY <1>5, OwnedAssumption DEF WriteOutside, Outdate, Inv, TypeOK
  <2>3. UNCHANGED <<desired, seen, spec, queued, stage, call, faults, crashes>>
    BY <1>5 DEF WriteOutside, mlinference
  <2>4. /\ object' \in [Kinds -> Objects]
        /\ cached' \subseteq Read /\ current' \subseteq Read
        /\ object'["application"].spec <= object["application"].spec
        /\ NotBack
    <3>1. CASE Write(k, object[k])
      <4>1. object'["application"] = object["application"]
            /\ object' \in [Kinds -> Objects]
            /\ cached' \subseteq Read /\ current' \subseteq Read
        BY <2>1, <3>1, WriteLemma
      <4> QED
        BY <2>1, <4>1 DEF NotBack
    <3>2. CASE Remove(k)
      BY <3>2, RemoveLemma
    <3> QED
      BY <1>5, <3>1, <3>2 DEF WriteOutside
  <2>5. TypeOK'
    BY <2>2, <2>3, <2>4 DEF Inv, TypeOK
  <2>6. object'["application"].spec \in Nat
    BY <2>4 DEF Kinds, Objects
  <2> QED
    BY <2>1, <2>3, <2>4, <2>5, <2>6 DEF Inv, CopiesInOrder
<1>6. ASSUME NEW k \in Kinds, Finalize(k) PROVE Inv' /\ NotBack
  <2>1. NoObject \in Objects /\ NoObject.spec = 0 /\ NoObject.phase = "absent"
    BY OwnedAssumption DEF NoObject, Objects
  <2>2. object["application"] \in Objects /\ spec \in Nat
    BY DEF Inv, TypeOK, Kinds, Versions
  <2>3. UNCHANGED <<desired, seen, spec, queued, stage, call, faults, outside,
                    crashes>>
        /\ found' \in BOOLEAN
    BY <1>6 DEF Finalize, Outdate, mlinference, bounds, Inv, TypeOK
  <2>4. /\ object' \in [Kinds -> Objects]
        /\ cached' \subseteq Read /\ current' \subseteq Read
        /\ object'["application"] = IF k = "application" THEN NoObject
                                    ELSE object["application"]
    BY <1>6, <2>1, WriteLemma DEF Finalize
  <2>5. TypeOK'
    BY <2>3, <2>4 DEF Inv, TypeOK
  <2>6. object'["application"].spec <= spec /\ NotBack
    BY <2>1, <2>2, <2>4 DEF NotBack, Inv, CopiesInOrder, Objects
  <2> QED
    BY <2>3, <2>5, <2>6 DEF Inv, CopiesInOrder
<1> QED
  BY <1>1, <1>2, <1>3, <1>4, <1>5, <1>6 DEF Others

-----------------------------------------------------------------------------
(* The theorems *)

LEMMA InitLemma == Init => Inv
<1> SUFFICES ASSUME Init PROVE Inv
  OBVIOUS
<1>1. NoObject \in Objects /\ NoObject.spec = 0
  BY OwnedAssumption DEF NoObject, Objects
<1>2. object \in [Kinds -> Objects] /\ object["application"].spec = 0
  BY <1>1 DEF Init, Kinds
<1>3. 1 \in Versions
  BY OwnedAssumption DEF Versions
<1>4. PlainTypes
  <2>1. 0 \in 0..MaxFaults /\ 0 \in 0..MaxOutside /\ 0 \in 0..MaxCrashes
    BY OwnedAssumption
  <2>2. cached \subseteq Read /\ current \subseteq Read
    BY DEF Init
  <2> QED
    BY <2>1, <2>2 DEF Init, PlainTypes
<1>5. SpecTypes
  BY <1>2, <1>3 DEF Init, SpecTypes
<1> QED
  BY <1>2, <1>4, <1>5, TypesSplit DEF Init, Inv, CopiesInOrder

LEMMA StepLemma == Inv /\ [Next]_vars => Inv' /\ [NotBack]_vars
<1> SUFFICES ASSUME Inv, [Next]_vars PROVE Inv' /\ [NotBack]_vars
  OBVIOUS
<1>1. CASE Reconcile
  <2> "isbsvc" \in Kinds /\ "service" \in Kinds /\ "application" \in Kinds
    BY DEF Kinds
  <2> QED
    BY <1>1, StartPassLemma, GetUpdateOrCreateLemma, ReconcilePipelineLemma
       DEF Reconcile, ReconcileISBSvc, ReconcileFrontlineService,
           ReconcileFrontlineApplication
<1>2. CASE Crash
  BY <1>2, CrashLemma
<1>3. CASE Others
  BY <1>3, OthersLemma
<1>4. CASE UNCHANGED vars
  <2>1. Inv'
    BY <1>4 DEF Inv, TypeOK, CopiesInOrder, vars, mlinference, cluster, pass, bounds
  <2> QED
    BY <1>4, <2>1
<1> QED
  BY <1>1, <1>2, <1>3, <1>4 DEF Next

\* The types of the controller's state and of the cluster's, and the order of
\* the copies of the spec.
THEOREM CopiesStayInOrder == Spec => []Inv
<1> QED
  BY InitLemma, StepLemma, PTL DEF Spec

\* The types alone.
THEOREM OwnedTyping == Spec => []TypeOK
<1>1. Inv => TypeOK
  BY DEF Inv
<1> QED
  BY <1>1, CopiesStayInOrder, PTL

\* However old the copies are that a pass works on, whatever fails and whoever
\* else writes: a frontline that stands is never taken back to an older spec
\* (installer.go:301-331, controller.go:67-76).
THEOREM NeverGoesBack == Spec => SpecNeverGoesBack
<1>1. [NotBack]_vars <=>
      [object["application"].phase = "live" /\ object'["application"].phase = "live"
         => object["application"].spec <= object'["application"].spec]_vars
  BY DEF NotBack
<1> QED
  BY <1>1, InitLemma, StepLemma, PTL DEF Spec, SpecNeverGoesBack

-----------------------------------------------------------------------------
(* What is left to the resync *)

Live(k) == object[k].phase = "live"

\* The kinds that are written only when they are made: an Update changes nothing.
Steady == {"isbsvc", "pipeline", "service"}

\* What is made stays, but for the StatefulSet between Delete and Create.
Standing ==
  /\ \A k \in Kinds : object[k].phase \in {"absent", "live"}
  /\ \A k \in Steady : object[k].spec = 0

\* A steady kind in the cache is there, as cached; one that informers have caught
\* up with is in the cache.
Cached ==
  /\ \A k \in Steady : k \in cached => Live(k) /\ k \in current
  /\ \A k \in Steady : k \in current /\ Live(k) => k \in cached
  /\ "application" \in cached
       => Live("application") \/ (stage = "application" /\ call = "create")

\* Updates of a steady kind do not fail, and a StatefulSet about to be updated or
\* deleted is there.
Calls ==
  /\ stage = "idle" => call = "get"
  /\ stage \in Steady => call # "delete"
  /\ stage \in Steady /\ call = "update" => found /\ Live(stage)
  /\ stage = "pipeline" => call # "update"
  /\ stage = "pipelineService" => call = "create"
  /\ stage = "application" /\ call \in {"update", "delete"} => Live("application")

\* What a pass has behind it is there.
Behind ==
  /\ stage \in {"pipeline", "pipelineService", "service", "application"} => Live("isbsvc")
  /\ stage \in {"pipelineService", "service", "application"} => Live("pipeline")
  /\ stage = "application" => Live("service")

\* A pass that ends at the frontline's service, which it does not find, leaves no
\* StatefulSet to be made: the pass that made the service went on to it.
LateService ==
  Live("service") /\ "service" \notin cached
    => Live("application") \/ stage = "application"

AllLive == \A k \in Read : Live(k)

\* What is missing is taken care of: by a pass that is queued, or will be when an
\* informer catches up, or by the one under way, if that can make what it is at.
TakenCareOf ==
  \/ AllLive
  \/ queued
  \/ seen \notin Valid
  \/ ~(Owned \subseteq current)
  \/ stage # "idle" /\ (call = "create" /\ stage \in Read => ~Live(stage))

AtWork == Standing /\ Cached /\ Calls /\ Behind /\ LateService /\ TakenCareOf

LEMMA AtWorkInit == Init => AtWork
BY DEF Init, AtWork, Standing, Cached, Calls, Behind, LateService, TakenCareOf, Live,
       NoObject, Steady, Kinds, Read

\* The kinds as a case distinction.
LEMMA KindsFacts ==
  /\ Read = {"isbsvc", "pipeline", "service", "application"}
  /\ Owned \subseteq Read /\ Owned = {"isbsvc", "pipeline", "application"}
  /\ Steady \subseteq Read /\ Read \subseteq Kinds
BY DEF Read, Kinds, Owned, Steady

\* Reads keep the invariant.
LEMMA AtWorkRead ==
  ASSUME Inv, AtWork, NEW k \in {"isbsvc", "service", "application"}, Get(k)
  PROVE  AtWork'
<1>1. /\ stage = k /\ stage' = k /\ call = "get"
      /\ call' = (IF k \in cached THEN "update" ELSE "create")
      /\ found' = (k \in current)
      /\ UNCHANGED <<object, cached, current, queued, seen>>
  BY DEF Get, mlinference, cluster
<1> USE DEF AtWork, Live
<1>2. Standing'
  BY <1>1 DEF Standing
<1>3. Cached'
  BY <1>1 DEF Cached
<1>4. Calls'
  BY <1>1 DEF Calls, Cached, Steady
<1>5. Behind' /\ LateService'
  BY <1>1 DEF Behind, LateService
<1>6. TakenCareOf'
  <2>1. CASE AllLive
    BY <1>1, <2>1 DEF TakenCareOf, AllLive
  <2>2. CASE ~AllLive
    <3>1. k \notin cached /\ Live(k) => ~(Owned \subseteq current)
      BY <1>1, <2>2 DEF Cached, Behind, LateService, AllLive, Steady, Owned, Read, Kinds
    <3> QED
      BY <1>1, <2>2, <3>1 DEF TakenCareOf
  <2> QED
    BY <2>1, <2>2
<1> QED
  BY <1>2, <1>3, <1>4, <1>5, <1>6

\* Updates of steady kinds change nothing, one of the StatefulSet leaves it where it
\* is.
LEMMA AtWorkUpdate ==
  ASSUME Inv, AtWork, NEW k \in {"isbsvc", "service", "application"}, Update(k)
  PROVE  AtWork'
<1>1. /\ stage = k /\ call = "update" /\ stage' = After(k) /\ call' = "get"
      /\ UNCHANGED <<queued, seen, found>>
  BY DEF Update, Proceed, GoTo, mlinference
<1>2. /\ \A j \in Kinds : object'[j].phase = object[j].phase
      /\ \A j \in Steady : object'[j].spec = object[j].spec /\ (j \in current' <=> j \in current)
      /\ cached' = cached /\ current' \subseteq current
  <2> DEFINE new == [object[k] EXCEPT !.spec = Content(k)]
  <2>1. object \in [Kinds -> Objects] /\ k \in Kinds
    BY DEF Inv, TypeOK, Kinds
  <2>2. object[k] \in Objects /\ new.phase = object[k].phase
    BY <2>1 DEF Objects
  <2>3. k \in Steady => new = object[k]
    BY <2>2 DEF AtWork, Standing, Steady, Content, Objects
  <2>4. UNCHANGED cluster \/ (new # object[k] /\ Write(k, new))
    BY DEF Update
  <2> HIDE DEF new
  <2>5. CASE UNCHANGED cluster
    BY <2>5 DEF cluster
  <2>6. CASE k = "application" /\ Write(k, new)
    BY <2>1, <2>2, <2>6 DEF Write, Kinds, Steady
  <2> QED
    BY <2>3, <2>4, <2>5, <2>6 DEF Steady
<1>3. \A j \in Kinds : Live(j)' <=> Live(j)
  BY <1>2 DEF Live
<1> USE DEF AtWork
<1>4. Live(k)
  BY <1>1 DEF Calls, Steady
<1>5. After("isbsvc") = "pipeline" /\ After("service") = "application"
      /\ After("application") = "idle"
  BY DEF After
<1>6. Standing'
  BY <1>2, KindsFacts DEF Standing
<1>7. Cached'
  BY <1>1, <1>2, <1>3, KindsFacts DEF Cached, Kinds
<1>8. Calls'
  BY <1>1, <1>5 DEF Calls, Steady
<1>9. Behind' /\ LateService'
  BY <1>1, <1>2, <1>3, <1>4, <1>5 DEF Behind, LateService, Kinds
<1>10. TakenCareOf'
  <2>1. CASE k = "application"
    BY <1>1, <1>3, <1>4, <2>1, KindsFacts DEF Behind, TakenCareOf, AllLive
  <2>2. CASE k # "application"
    BY <1>1, <1>5, <2>2 DEF TakenCareOf
  <2> QED
    BY <2>1, <2>2
<1> QED
  BY <1>6, <1>7, <1>8, <1>9, <1>10

\* Without failed calls, only an Update of the StatefulSet is refused.
LEMMA AtWorkUpdateFails ==
  ASSUME AtWork, NEW k \in {"isbsvc", "service", "application"}, UpdateFails(k),
         faults' = 0, faults \in Nat
  PROVE  AtWork'
<1>1. /\ stage = k /\ call = "update" /\ ~found /\ stage' = k /\ call' = "delete"
      /\ UNCHANGED <<object, cached, current, queued, seen, found>>
  BY DEF UpdateFails, GoTo, Fault, mlinference, cluster
<1>2. k = "application"
  BY <1>1 DEF AtWork, Calls, Steady
<1> QED
  BY <1>1, <1>2 DEF AtWork, Standing, Cached, Calls, Behind, LateService, TakenCareOf,
                    AllLive, Live, Steady

\* Only the StatefulSet is deleted, and is then made again.
LEMMA AtWorkDelete ==
  ASSUME Inv, AtWork, NEW k \in {"isbsvc", "service", "application"}, Delete(k),
         "application" \notin Finalized
  PROVE  AtWork'
<1>1. /\ stage = k /\ call = "delete" /\ stage' = k /\ call' = "create"
      /\ UNCHANGED <<queued, seen, found>> /\ Remove(k)
  BY DEF Delete, GoTo, mlinference
<1>2. k = "application"
  BY <1>1 DEF AtWork, Calls, Steady
<1>3. /\ \A j \in Kinds : object'[j] = IF j = "application" THEN NoObject ELSE object[j]
      /\ cached' = cached /\ current' = current \ {"application"}
  BY <1>1, <1>2 DEF Remove, Write, Inv, TypeOK, Kinds
<1>4. \A j \in Kinds : Live(j)' <=> (j # "application" /\ Live(j))
  BY <1>3 DEF Live, NoObject
<1> USE DEF AtWork
<1>5. Standing'
  BY <1>3, KindsFacts DEF Standing, NoObject, Steady
<1>6. Cached'
  BY <1>1, <1>2, <1>3, <1>4, KindsFacts DEF Cached, Steady
<1>7. Calls' /\ Behind' /\ LateService'
  BY <1>1, <1>2, <1>4 DEF Calls, Behind, LateService, Steady, Kinds
<1>8. TakenCareOf'
  BY <1>1, <1>2, <1>4, KindsFacts DEF TakenCareOf
<1> QED
  BY <1>5, <1>6, <1>7, <1>8

\* Without failed calls, what is to be deleted is there.
LEMMA NoDeleteFails ==
  ASSUME AtWork, NEW k \in {"isbsvc", "service", "application"}, DeleteFails(k),
         faults' = 0, faults \in Nat
  PROVE  FALSE
<1>1. stage = k /\ call = "delete" /\ ~Exists(k)
  BY DEF DeleteFails, Fault
<1> QED
  BY <1>1 DEF AtWork, Calls, Steady, Live, Exists

\* Where a pass goes on to after it made an object of kind k.
Onward(k) ==
  \/ k = "isbsvc" /\ stage' = "pipeline" /\ call' = "get"
  \/ k = "pipeline" /\ stage' = "pipelineService" /\ call' = "create"
  \/ k = "pipelineService" /\ stage' = "service" /\ call' = "get"
  \/ k = "service" /\ stage' = "application" /\ call' = "get"
  \/ k = "application" /\ stage' = "idle" /\ call' = "get"

LEMMA ProceedIsOnward ==
  ASSUME NEW k \in Kinds \ {"pipeline"}, Proceed(k)
  PROVE  Onward(k)
BY DEF Proceed, GoTo, After, Onward, Kinds

LEMMA AtWorkCreate ==
  ASSUME Inv, AtWork, NEW k \in Kinds, stage = k, call = "create", ~Exists(k),
         Write(k, [phase |-> "live", spec |-> Content(k)]), Onward(k),
         UNCHANGED <<queued, seen, found>>
  PROVE  AtWork'
<1>1. /\ \A j \in Kinds : j # k => object'[j] = object[j]
      /\ object'[k].phase = "live" /\ (k \in Steady => object'[k].spec = 0)
      /\ cached' = cached /\ current' = current \ {k}
  BY DEF Write, Inv, TypeOK, Content, Steady
<1>2. (\A j \in Kinds : Live(j)' <=> (j = k \/ Live(j))) /\ ~Live(k)
  BY <1>1 DEF Live, Exists
<1> USE DEF AtWork
<1>3. Standing'
  BY <1>1, KindsFacts DEF Standing
<1>4. Cached'
  BY <1>1, <1>2, KindsFacts DEF Cached, Kinds
<1>5. Calls'
  BY DEF Calls, Onward, Steady
<1>6. Behind' /\ LateService'
  BY <1>1, <1>2 DEF Behind, LateService, Onward, Kinds
<1>7. TakenCareOf'
  <2>1. CASE k = "application"
    BY <1>2, <2>1, KindsFacts DEF Behind, TakenCareOf, AllLive
  <2>2. CASE k # "application"
    BY <2>2, KindsFacts DEF TakenCareOf, Onward
  <2> QED
    BY <2>1, <2>2
<1> QED
  BY <1>3, <1>4, <1>5, <1>6, <1>7

\* Without failed calls a Create fails only of what is there, and that was in hand
\* for another reason.
LEMMA AtWorkCreateFails ==
  ASSUME AtWork, NEW k \in Read, CreateFails(k), faults' = 0, faults \in Nat
  PROVE  AtWork'
<1>1. /\ stage = k /\ call = "create" /\ Exists(k) /\ stage' = "idle" /\ call' = "get"
      /\ UNCHANGED <<object, cached, current, queued, seen, found>>
  BY DEF CreateFails, Abandon, GoTo, Fault, mlinference, cluster
<1>2. Live(k)
  BY <1>1, KindsFacts DEF AtWork, Standing, Exists, Live
<1> USE DEF AtWork
<1>3. \A j \in Kinds : Live(j)' <=> Live(j)
  BY <1>1 DEF Live
<1>4. Standing'
  BY <1>1 DEF Standing
<1>5. Cached' /\ LateService'
  BY <1>1, <1>2, <1>3, KindsFacts DEF Cached, LateService, Kinds
<1>6. Calls' /\ Behind'
  BY <1>1 DEF Calls, Behind, Steady
<1>7. TakenCareOf'
  BY <1>1, <1>2, <1>3, KindsFacts DEF TakenCareOf, AllLive
<1> QED
  BY <1>4, <1>5, <1>6, <1>7

LEMMA AtWorkListPipelines ==
  ASSUME AtWork, ListPipelines
  PROVE  AtWork'
<1>1. /\ stage = "pipeline" /\ call = "get"
      /\ \/ "pipeline" \in cached /\ stage' = "service" /\ call' = "get"
         \/ "pipeline" \notin cached /\ stage' = "pipeline" /\ call' = "create"
      /\ UNCHANGED <<object, cached, current, queued, seen, found>>
  BY DEF ListPipelines, Proceed, After, GoTo, mlinference, cluster
<1> USE DEF AtWork
<1>2. \A j \in Kinds : Live(j)' <=> Live(j)
  BY <1>1 DEF Live
<1>3. Standing'
  BY <1>1 DEF Standing
<1>4. "pipeline" \in cached => Live("pipeline")
  BY DEF Cached, Steady
<1>5. Cached' /\ LateService'
  BY <1>1, <1>2, KindsFacts DEF Cached, LateService, Kinds
<1>6. Calls' /\ Behind'
  BY <1>1, <1>2, <1>4 DEF Calls, Behind, Steady, Kinds
<1>7. TakenCareOf'
  <2>1. "pipeline" \notin cached /\ Live("pipeline") => ~(Owned \subseteq current)
    BY DEF Cached, Steady, Owned
  <2> QED
    BY <1>1, <1>2, <2>1, KindsFacts DEF TakenCareOf, AllLive, Kinds
<1> QED
  BY <1>3, <1>5, <1>6, <1>7

LEMMA AtWorkPipelineServiceExists ==
  ASSUME AtWork, PipelineServiceExists
  PROVE  AtWork'
<1>1. /\ stage = "pipelineService" /\ stage' = "service" /\ call' = "get"
      /\ UNCHANGED <<object, cached, current, queued, seen, found>>
  BY DEF PipelineServiceExists, Proceed, After, GoTo, mlinference, cluster
<1> QED
  BY <1>1 DEF AtWork, Standing, Cached, Calls, Behind, LateService, TakenCareOf,
              AllLive, Live, Steady

LEMMA AtWorkStart ==
  ASSUME AtWork, StartPass
  PROVE  AtWork'
<1>1. /\ stage = "idle" /\ call = "get" /\ call' = call
      /\ stage' = IF seen \in Valid THEN "isbsvc" ELSE "idle"
      /\ UNCHANGED <<object, cached, current, seen, found>>
  BY DEF AtWork, Calls, StartPass, Validate, mlinference, cluster
<1>2. Standing' /\ Cached' /\ LateService'
  BY <1>1 DEF AtWork, Standing, Cached, LateService, Live
<1>3. Calls' /\ Behind'
  BY <1>1 DEF Calls, Behind, Steady
<1>4. TakenCareOf'
  BY <1>1 DEF TakenCareOf
<1> QED
  BY <1>2, <1>3, <1>4 DEF AtWork

\* A pass without failed calls.
LEMMA AtWorkReconcile ==
  ASSUME Inv, AtWork, Reconcile, faults' = 0, faults \in Nat,
         "application" \notin Finalized
  PROVE  AtWork'
<1>1. ASSUME NEW k \in {"isbsvc", "service", "application"}, GetUpdateOrCreate(k)
      PROVE  AtWork'
  <2>0. k \in Kinds \ {"pipeline"} /\ k \in Read
    BY DEF Kinds, Read
  <2>1. CASE Create(k, Proceed(k))
    BY <2>0, <2>1, AtWorkCreate, ProceedIsOnward
    DEF Create, Proceed, GoTo, mlinference
  <2> QED
    BY <1>1, <2>0, <2>1, AtWorkRead, AtWorkUpdate, AtWorkUpdateFails, AtWorkDelete,
       NoDeleteFails, AtWorkCreateFails DEF GetUpdateOrCreate, GetFails, Fault
<1>2. ASSUME ReconcilePipeline PROVE AtWork'
  <2>0. "pipeline" \in Kinds /\ "pipelineService" \in Kinds \ {"pipeline"} /\ "pipeline" \in Read
    BY DEF Kinds, Read
  <2>1. CASE Create("pipeline", GoTo("pipelineService", "create"))
    BY <2>0, <2>1, AtWorkCreate DEF Create, GoTo, Onward, mlinference
  <2>2. CASE Create("pipelineService", Proceed("pipelineService"))
    BY <2>0, <2>2, AtWorkCreate, ProceedIsOnward DEF Create, Proceed, GoTo, mlinference
  <2>3. ~PipelineServiceFails /\ ~ListFails /\ ~SuccessorFails
    BY DEF PipelineServiceFails, CreateFails, ListFails, SuccessorFails, Fault
  <2> QED
    BY <1>2, <2>0, <2>1, <2>2, <2>3, AtWorkListPipelines, AtWorkCreateFails,
       AtWorkPipelineServiceExists DEF ReconcilePipeline
<1> QED
  BY <1>1, <1>2, AtWorkStart DEF Reconcile, ReconcileISBSvc, ReconcileFrontlineService,
                                 ReconcileFrontlineApplication

\* A restart finds what there is, and queues a pass.
LEMMA AtWorkCrash ==
  ASSUME AtWork, Crash
  PROVE  AtWork'
<1>1. /\ stage' = "idle" /\ call' = "get" /\ queued' = TRUE
      /\ object' = object /\ cached' = {k \in Read : Exists(k)} /\ current' = Read
  BY DEF Crash, GoTo
<1>2. \A k \in Kinds : Exists(k) <=> Live(k)
  BY DEF AtWork, Standing, Exists, Live
<1>3. \A k \in Kinds : Live(k)' <=> Live(k)
  BY <1>1 DEF Live
<1>4. Standing'
  BY <1>1 DEF AtWork, Standing
<1>5. Cached' /\ LateService'
  BY <1>1, <1>2, <1>3, KindsFacts DEF Cached, LateService, Kinds
<1>6. Calls' /\ Behind' /\ TakenCareOf'
  BY <1>1 DEF Calls, Behind, TakenCareOf, Steady
<1> QED
  BY <1>4, <1>5, <1>6 DEF AtWork

\* An informer that catches up queues a pass, or it is that of the frontline's
\* service.
LEMMA AtWorkSync ==
  ASSUME AtWork, NEW k \in Kinds, SyncObject(k)
  PROVE  AtWork'
<1>1. /\ UNCHANGED <<object, stage, call, found, seen>>
      /\ k \in Read \ current /\ current' = current \cup {k}
      /\ cached' = IF Exists(k) THEN cached \cup {k} ELSE cached \ {k}
      /\ queued' = (queued \/ k \in Owned)
  BY DEF SyncObject, mlinference, pass
<1>2. \A j \in Kinds : Exists(j) <=> Live(j)
  BY DEF AtWork, Standing, Exists, Live
<1>3. \A j \in Kinds : Live(j)' <=> Live(j)
  BY <1>1 DEF Live
<1> USE DEF AtWork
<1>4. Standing' /\ Calls' /\ Behind'
  BY <1>1 DEF Standing, Calls, Behind, Live
<1>5. Cached' /\ LateService'
  BY <1>1, <1>2, <1>3, KindsFacts DEF Cached, LateService, Kinds
<1>6. TakenCareOf'
  <2>1. CASE k \in Owned
    BY <1>1, <2>1 DEF TakenCareOf
  <2>2. CASE k \notin Owned
    <3>1. Owned \subseteq current' <=> Owned \subseteq current
      BY <1>1, <2>2
    <3>2. queued' <=> queued
      BY <1>1, <2>2
    <3>3. AllLive' <=> AllLive
      BY <1>1 DEF AllLive, Live
    <3>4. Live(stage)' <=> Live(stage)
      BY <1>1 DEF Live
    <3> QED
      BY <1>1, <3>1, <3>2, <3>3, <3>4 DEF TakenCareOf
  <2> QED
    BY <2>1, <2>2
<1> QED
  BY <1>4, <1>5, <1>6

\* Everybody else, as long as nobody writes from outside.
LEMMA AtWorkOthers ==
  ASSUME Inv, AtWork, Others, outside' = 0, outside \in Nat
  PROVE  AtWork'
<1>1. CASE EditSpec
  BY <1>1 DEF EditSpec, AtWork, Standing, Cached, Calls, Behind, LateService,
              TakenCareOf, AllLive, Live, cluster, pass
<1>2. CASE SyncSpec \/ Resync
  <2>1. UNCHANGED <<object, cached, current, stage, call, found>> /\ queued' = TRUE
    BY <1>2 DEF SyncSpec, Resync, cluster, pass
  <2> QED
    BY <2>1 DEF AtWork, Standing, Cached, Calls, Behind, LateService, TakenCareOf, Live
<1>3. ASSUME NEW k \in Kinds, WriteOutside(k) PROVE FALSE
  BY <1>3 DEF WriteOutside
<1>4. ASSUME NEW k \in Kinds, Finalize(k) PROVE FALSE
  BY <1>4 DEF Finalize, AtWork, Standing
<1> QED
  BY <1>1, <1>2, <1>3, <1>4, AtWorkSync DEF Others

\* Failed calls and writes from outside are never taken back.
LEMMA StaysUndisturbed ==
  ASSUME Inv, [Next]_vars, Undisturbed'
  PROVE  Undisturbed
<1>1. faults \in Nat /\ outside \in Nat
  BY OwnedAssumption DEF Inv, TypeOK
<1>2. (faults' = faults \/ faults' = faults + 1) /\ (outside' = outside \/ outside' = outside + 1)
  BY DEF Next, Reconcile, StartPass, ReconcileISBSvc, ReconcilePipeline,
         ReconcileFrontlineService, ReconcileFrontlineApplication, GetUpdateOrCreate,
         Get, GetFails, Update, UpdateFails, Delete, DeleteFails, Create, CreateFails,
         ListPipelines, ListFails, SuccessorFails, PipelineServiceExists, PipelineServiceFails, Fault, Crash,
         Others, EditSpec, SyncSpec, Resync, SyncObject, WriteOutside, Finalize,
         bounds, vars
<1> QED
  BY <1>1, <1>2 DEF Undisturbed

\* Without failed calls and writes by others, and if a StatefulSet goes as soon as it
\* is deleted, a controller with nothing left to do has made all that the spec asks
\* for, over any number of specs, stale reads and restarts (installer.go:24-57,
\* 278-336, controller.go:64-84).
THEOREM RestIsComplete ==
  ASSUME "application" \notin Finalized
  PROVE  Spec => []NothingMissing
<1>1. Init => (Undisturbed => AtWork)
  BY AtWorkInit
<1>2. Inv /\ (Undisturbed => AtWork) /\ [Next]_vars => (Undisturbed => AtWork)'
  <2> SUFFICES ASSUME Inv, Undisturbed => AtWork, [Next]_vars, Undisturbed'
               PROVE  AtWork'
    OBVIOUS
  <2>1. AtWork
    BY StaysUndisturbed
  <2>2. faults' = 0 /\ outside' = 0 /\ faults \in Nat /\ outside \in Nat
    BY OwnedAssumption DEF Undisturbed, Inv, TypeOK
  <2>3. CASE UNCHANGED vars
    BY <2>1, <2>3 DEF vars, mlinference, cluster, pass, AtWork, Standing, Cached, Calls,
                      Behind, LateService, TakenCareOf, AllLive, Live
  <2> QED
    BY <2>1, <2>2, <2>3, AtWorkReconcile, AtWorkCrash, AtWorkOthers DEF Next
<1>3. (Undisturbed => AtWork) => NothingMissing
  BY DEF NothingMissing, AtWork, TakenCareOf, AllLive, Live
<1> QED
  BY <1>1, <1>2, <1>3, CopiesStayInOrder, PTL DEF Spec

=============================================================================
