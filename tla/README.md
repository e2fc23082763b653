# numaserve: TLA+ models and proofs

numaserve serves machine-learning models on Kubernetes. A user creates an
`MLInference`; a controller turns it into a numaflow pipeline
(`http-in -> pre-steps -> predictors -> post-steps -> http-out`) and a frontline
web service. A client's `POST /predict` is forwarded into the pipeline, and the
pipeline's sink brings the answer back to the frontline pod as a second HTTP call.

This directory holds TLA+ models of that program, the TLC configurations that
check them on small instances, and proofs (TLAPS) of every invariant, action
property and refinement that is checked, for every value of the constants.
`PROJECT.json` maps every definition to the lines it translates. Source paths
below are relative to the repository.

    tlc -workers 2 -config Frontline.cfg Frontline.tla
    tlc -workers 2 -config HttpSink.cfg MCHttpSink.tla
    tlc -workers 2 -config Rollout.cfg Rollout.tla
    tlc -workers 2 -config OwnedObjects.cfg OwnedObjects.tla
    tlc -workers 2 -config RequestPath.cfg RequestPath.tla
    tlc -workers 2 -config Serving.cfg MCServing.tla
    tlapm FrontlineProofs.tla
    tlapm HttpSinkProofs.tla
    tlapm OwnedObjectsProofs.tla
    tlapm RequestPathProofs.tla
    tlapm RolloutProofs.tla
    tlapm PipelineSpecProofs.tla
    tlapm ServingProofs.tla

## 1. The system

### 1.1 Components

| component | code | state it keeps | operations |
|---|---|---|---|
| Frontline service | `pkg/frontline` | `requestQueue` (uuid -> session) under `rwlock`; one unbuffered channel per session | `synchandle` (POST /predict), `handleResponse` (POST /callback/:reqId) |
| HTTP sink | `pkg/sink/httpsink.go`, `cmd/commands/sink.go` | per call: the lists `ok` and `failed`, the backoff's steps | `Sink`, `sendHTTPRequest` |
| Pipeline rollout | `pkg/controller/installer.go:59-164, 220-276` | the Pipeline objects; per goroutine: `pipeline`, `canDeletePipeline` | `reconcilePipeline`, `RolloutModel` |
| Owned objects | `pkg/controller/installer.go:24-57, 166-218, 278-392`, `operate.go`, `controller.go` | ISB service, two Services and a StatefulSet on the API server | `Process`, `Reconcile`, `reconcileISBSvc`, `reconcileFrontlineService`, `reconcileFrontlineApplication` |
| Pipeline specification | `pkg/controller/installer.go:560-764`, `validate.go` | none: a function of the MLInference | `createPipelineSpec`, `Validate` |
| Serving status | `pkg/controller/installer.go:766-830` | `Status` of the MLInference | `propagateStatus` and the functions it reads from |
| Model init container | `pkg/init/s3.go` | the model file | `DownloadModel` |
| Inference UDF | `serve/` | the loaded model | `exec` |
| Metrics recorder | `pkg/common/prometheus.go` | counters | none that others depend on |
| Command line, manager | `cmd/` | flags | wiring |

### 1.2 How they interact

* client -> frontline: one HTTP call, held open until the answer is there.
* frontline -> pipeline: `client.Post` to the source vertex, with the pod's own
  callback URL and a uuid in the metadata. It has no timeout.
* pipeline -> sink: numaflow streams batches over gRPC and its SDK passes them on
  through an unbuffered Go channel; what is not reported as forwarded is written
  again. `createPipelineSpec` sets the batch size to 1.
* sink -> frontline: POST of the message to `<callback>/<uuid>`, with a client
  timeout and a bounded number of attempts.
* inside a frontline pod: one goroutine per HTTP call; `requestQueue` and a
  session's channel are what they share.
* controller -> API server: reads through the manager's cache, writes directly.
  Reconciliations of one object are serialised; the rollouts are goroutines of
  their own that run beside them, and beside each other.

### 1.3 What is hard about it, and what makes each part correct

* **Frontline.** The answer is another call, possibly early, late, repeated, cut
  short, or for a request of an earlier life of the pod. Correct means: a client
  gets at most one answer; no callback goroutine is left blocked on a channel; a
  waiting request can always still be reached; and a callback for it answers it.
* **Sink.** Two lists, two ways to give up, and an SDK that deadlocks if the
  handler stops reading. Correct means: nothing is acknowledged that was not
  delivered; calls return; a deliverable message is acknowledged in the end.
* **Rollout.** Stale reads, failed writes, several goroutines on one object,
  restarts, a second change of spec before the first rollout is over. Correct
  means: a pipeline always stands; versions go live in order and are given up only
  for a newer one; no goroutine undoes what another has scaled down; a rollout that
  has begun to delete ends; no other MLInference is touched.
* **Owned objects.** Get, update, and on failure delete and create again, one
  after the other, with the first failure ending the pass and no retry. Correct
  means: what the spec asks for exists in the end, and exists once.
* **Specification and status.** Loop variables whose address outlives the turn,
  names nobody checks, changes of spec that a rollout in progress keeps a pass
  from looking at. Correct means: one chain of vertices in the user's order, a
  phase that is the worst of the components', and in the end one pipeline that
  does the work of the last spec. The last holds but for what the loop variables
  lose, and the README's promise of a new pipeline for every change does not.
* **Predictor.** A pod without its model, and a payload that nothing can be
  computed from, are both tried for ever. Correct means: neither loses what the
  other pods can still work on.
* **The whole request path.** Late replies, retries, redelivery and restarts
  meet in the session map. Correct means, to the client: at most one answer, made
  of what the pipeline computed; and an answer, unless something on the way is
  stuck for good or lost.

The hazards of the code, each at its line and with the properties that watch it,
are in `PROJECT.json`.

## 2. The modules

### Frontline

One pod. `pc[r]` says where the `synchandle` goroutine of request `r` stands,
`cbPc[c]` where the `handleResponse` goroutine of callback `c` stands;
`requestQueue` is the key set of the map.

| action | code |
|---|---|
| `Predict`, `Printed` | `handle.go:18-39`: uuid, session, `Println` of the unlocked map, the request goes out |
| `PostReturns`, `PostFails` | `handle.go:39-46`: any HTTP status is taken; a transport error writes a 500 and carries on |
| `Register` | `handle.go:47-53`, and the first receive of `session.go:18` |
| `TakeSession`, `SessionNotFound` | `handle.go:57-65`: lookup and delete in one critical section |
| `ReadBody` | `handle.go:66-75`: errors of reading and decoding are dropped |
| `HandOver` | `session.go:13-25`: the rendezvous, after which both handlers write and return |
| `MapRace`, `PodKilled` | the runtime's abort on a map iterated while written; loss of the pod |
| `BackendDecides`, `CallBack` | external: the pipeline |

A write by `ctx.JSON` and the return after it are one step, as nothing of the pod
can observe the difference. A request stands for its uuid: uuids never collide
and a pod that restarts never issues one again. The client is not modelled:
`wait` does not look at its context, so a client that leaves changes nothing.

### HttpSink

One sink container and the vertex that feeds it. `toWrite` is the batch in
numaflow's hands, `received` what the call has taken from the channel, `ok`,
`failed` and `reported` the lists of the code.

| action | code |
|---|---|
| `ReceiveUndecodable`, `ReceiveDecodable` | `httpsink.go:79-106` |
| `Attempt`, `PostAnswered`, `PostFails` | `httpsink.go:42-73, 102-114`: `Steps = Retries` bounds attempts, not retries; any HTTP status counts as success |
| `RecordFailure` | `httpsink.go:115-123`: to `failed`, and for want of a `continue` to `ok` too |
| `Drop` | `httpsink.go:117-120`: returns out of the loop |
| `EndOfStream` | `httpsink.go:124-130` |
| `ReadBatch`, `CallSink`, `Reply`, `Abort` | external: numaflow and its SDK |

`Abort` is the death of the sink's container, and with it of the goroutine that ran
`Sink`. Where only the gRPC stream breaks, the goroutine would live on and go on
posting next to the call that writes the batch again. It is not kept, in
`RequestPath` neither; a POST that has left the container before its death is (its
callback goroutine is in the pod and may run at any time later), and `Frontline`
alone takes any callback at any time.

`RecordFailure` keeps the id in both lists, as the code does: that nothing false
is acknowledged rests on `EndOfStream` reporting no success at all once anything
failed, and this is what `NoFalseAck` is about.

### Rollout

The Pipeline objects of the MLInferences of one name, `pipe` on the API server
and `cache` as the informers last saw them, and the `RolloutModel` goroutines. A
pipeline's name is made of the MLInference's name and six digits of a hash of its
vertices, so `<<namespace, version>>` identifies it. `gen` tells two objects of
one name apart, as their UIDs do.

| action | code |
|---|---|
| `CreateFirst`, `CreateAfterListError` | `installer.go:59-89`: the error of `List` is not looked at |
| `CreateAndRollOut` | `installer.go:102-140` |
| `ScaleDown` | `installer.go:227-262`: `Get`, `List` of vertices, one turn of scaling down |
| `EndRollout` | `installer.go:237-244` |
| `Rescale`, `RescaleFails` | `installer.go:263-268`: after twenty seconds, refused if the object changed |
| `DeletePipeline` | `installer.go:269-273`: by name |
| `Crash` | the goroutines are the only record of a rollout |
| `SyncCache`, `Finalize`, `SetVertex` and what uses it | external: informers and numaflow |

`vertex` is what the informers show of the http-in vertices, as the `List` of them
goes through the cache like the `List` of pipelines: a vertex may be seen late, or
be seen after it is gone, and its replicas go from any number to any other in one
step of `Scale`. Whether a pipeline's pods are up is not in the module: nothing in
`RolloutModel` looks at it.

The twenty seconds are between reading and writing, and the model puts any number
of other steps there; the minute at the start is one way of not being scheduled.
A conflict with another write is a failed `Update` (`RescaleFails`, at any time);
`EndRollout` and `DeletePipeline` spend `MaxFaults` on API errors, which are rare
where conflicts are not. Creation of the pipeline's service is left to the module
of owned objects: no rollout depends on it.

`Get` goes by namespace and name, `List` of pipelines and of vertices by labels
alone, as in the code; this is why `Namespaces` is a constant.

The cache jumps to the state of the API server, at any time; the states in
between it may show in the code are reached in the model by jumping earlier.

`Deployment` is what rollouts are for, without the reads, writes and goroutines
they are made of: versions of an MLInference go live in their order, once each
(`Deploy`), and one is given up only when a newer one has gone live (`Retire`).
`Rollout` implements it (`DeploysInOrder`) with `newest` as the newest version of
which there ever was an object, and `standing` as the pipelines whose object is
neither deleted nor being deleted:

| step of `Rollout` | step of `Deployment` |
|---|---|
| `CreateFirst`, `CreateAfterListError`, `CreateAndRollOut` | `Deploy` |
| `DeletePipeline`, if the pipeline stands and the call succeeds | `Retire` |
| all others | none |

### OwnedObjects

The objects of one MLInference other than its later pipelines. One pass of
`Reconcile` is a walk through the kinds (`stage`), with one step per API call
(`call`), so that everything else happens between any two of them. `spec` is the
copy of the MLInference the pass works on, `found` says whether what `Get`
returned is still what the API server holds: an `Update` of anything else is a
conflict. Instead of counting resourceVersions the module keeps the set
`current` of kinds whose cached copy is the present one.

| action | code |
|---|---|
| `StartPass` | `controller.go:64-84`, `operate.go:27-36`, `validate.go` |
| `Get`, `GetFails`, `Update`, `UpdateFails`, `Delete`, `DeleteFails`, `Create`, `CreateFails` | the same sequence three times: `installer.go:338-392` (ISB service), `166-218` (frontline's service), `278-336` (StatefulSet) |
| `ListPipelines`, `Create("pipeline", ...)`, `PipelineServiceExists`, `PipelineServiceFails` | `installer.go:59-101` |
| `ListFails`, `SuccessorFails` | `installer.go:62-63`, whose error is not looked at, and `132-135`: a later pipeline that cannot be created ends the pass. That its name may be taken is in `Rollout`; here it counts as a failed call |
| `Proceed`, `Abandon` | the order and the early returns of `installer.go:24-57`; `controller.go:76-83` returns no error, so nothing is queued again |
| `SyncObject` | external: informers. Only for the kinds of `Owns` (`controller.go:102-105`) does it queue the MLInference; Services are not among them |
| `Resync` | external: controller-runtime lists everything again every ten hours |
| `EditSpec`, `SyncSpec`, `WriteOutside`, `Finalize`, `Crash` | external, and the restart |

The `Update` of the MLInference that ends `Process` is no step: it carries a
changed status only, which the API server drops from an Update of an object with
a status subresource. The StatefulSet's contents depend on the spec
(`--sync`), the others' do not; `Content` says so. Roles are assumed to permit
what the code reads (the generated one does not, see the hazards).

### Predictor

The vertex between source and sink: pods that fetch a model, load it and map one
message after the other. `hand[p]` is the message a pod has and `arrived` what the
sink will find, in that order.

| action | code |
|---|---|
| `ListFails` | `s3.go:38-42`: the container ends with status 0, and the pod goes on without a model |
| `Download` | `s3.go:46-50`; a failed download is `log.Fatalln`, after which init runs again: no step |
| `Load` | `udf.py:18-22`: without a file it raises, and the container starts again: no step |
| `Infer` | `udf.py:39-59`: the metadata is kept; for a payload it cannot use it raises, and is called again: no step |
| `Read`, `Restart`, `Evict` | external: numaflow and kubelet |

What repeats without changing anything is no step; `Stuck` names the pods that are
in such a loop for good.

### RequestPath and InferenceService

`RequestPath` instantiates `Frontline`, `Predictor` and `HttpSink` as they are,
over one set of variables, and joins their external actions:

| action | joins |
|---|---|
| `SourceReplies` | a Post the source vertex accepts (`BackendDecides`) is a message in the predictor's buffer |
| `ReadMessage` | the i-th message of the sink is `arrived[i]` |
| `Deliver` | an attempt in flight is a callback goroutine of the pod that `GetDestination` names (`common.go:30-32`) |
| `ReplyArrives` | `handleResponse` has returned: the attempt is answered |
| `PostFails`, `LoseCall` | the attempt fails, before or after it reached the pod; in the latter case the goroutine stays, and a retry meets it |
| `PodDies` | the pod and, with it, the connection it was serving |
| `SinkDies`, `Disturb` | loss of the sink's call, of a predictor's container or of its pod |

`call` is the callback that serves the attempt in flight. A body is cut short only
for a callback the sink has given up on (`ReadBody`). Assumed: the buffers between
vertices neither lose nor repeat messages, and one vertex of map pods stands for
all steps and predictors. The frontline is one pod: messages carry the name of the
pod they came from, and pods share nothing.

`InferenceService` is what a client is promised: a call gets at most one answer,
as the last thing it gets, and only after the pipeline has computed it; before it
there may be one error; and nothing is computed twice or uncalled. Open calls may
be lost together, with their pod. `RequestPath` implements it (`KeepsPromise`)
under this mapping: `status[r]` is `idle`, `open`, `answered` or `lost` as the
handler of `r` has not started, runs, has returned or died; `computed` are the
elements of `arrived`; `replies` is `written`.

| step of `RequestPath` | step of `InferenceService` |
|---|---|
| `Predict` | `Call` |
| `PostFails` of the pod | `Excuse`: the handler writes a 500 and carries on, so the answer may follow it in one response (`handle.go:39-46`) |
| `Infer` | `Compute` |
| `HandOver` | `Answer`, which may be the empty one, as a callback whose body was cut short is answered with (`handle.go:67-76`) |
| `PodDies` | `Lose` |
| all others | none |

`AcceptedIsWorkedOff` and `WaiterIsAnswered` have the form "it is never so that
from some time on for ever ...": their exceptions (a payload nobody can compute,
pods left without a model) are themselves states a behaviour may enter and leave.

### PipelineSpec

`Validate` and `createPipelineSpec` as operators on a spec: a sequence of vertices
(name, what it runs, the secret its store is opened with), a set of edges, and the
error for an unknown format. `StepVertices` has every step of a list run the UDF of
the last one, and `PredictorVertices` every store opened with the secret of the
last predictor, because the code keeps addresses of its loop variables and
`go.mod` says Go 1.20. `IsChain`, `Names` and `Carries` say what a pipeline should
be, for comparison: `Carries`, that it has all the names, the UDF of every step and
every predictor's model and secret. `CarriesButAliased` leaves out the UDFs and
secrets that differ from the last of their list, which aliasing loses, and
`Unaliased` describes the specs in which there are none.

### Serving

Passes of the controller as wholes, over a series of specs. Where `Rollout` and
`OwnedObjects` look at what happens between two API calls, `Serving` looks at which
pipelines and which status the passes lead to.

| action | code |
|---|---|
| `Pass` | `controller.go:64-84`, `operate.go:27-47`, with `CreateFirst`, `CreateAndRollOut`, `NoUpdate` for the cases of `installer.go:66-161`, `StatusOf` for `789-830` and `PropagateStatus` for `766-787` |
| `PassFails` | `operate.go:32-35`: Reconcile fails before its status is sent, and nothing is queued again |
| `PassInvalid` | `operate.go:31, 41`: the stored status is sent |
| `Retire` | the end of a rollout, in one step; `Rollout` has the steps |
| `EditSpec`, `SetPhase`, `ReportReplicas`, `Resync` | external |

`status` is what the last pass sent. Each pass starts from the stored status, and
that stays empty, because `Update` does not reach a status subresource
(`mlinference_types.go` declares one). The pipelines are found as they are: stale
reads are in `Rollout`. `Hash` stands for six digits of a hash (`installer.go:76, 114,
119`) and is taken to differ wherever the vertices do: of two specs in 16 million
that collide, the change from one to the other would be missed, and this is in no
module. Versions are given in order and never repeated, as going
back is the subject of `rollout_revert`, and a controller that restarts leaves two
pipelines for ever (section 5).

`Serving` implements `Deployment`, too (`DeploysInOrder`), with `newest` as the
newest of the pipelines found and `standing` as all of them: `CreateFirst` and
`CreateAndRollOut` are `Deploy`, `Retire` is `Retire`, and the rest are no step. So
both views of the controller, whole passes over whole specs here and single API
calls in `Rollout`, keep the same promise; they meet in it and are not refinements
of each other.

## 3. What is checked

| run | states | shows |
|---|---|---|
| `frontline` | 81,864 | `SenderHasReceiver`, `WaitingIsReachable`, `AnsweredOnce`, `OneCallbackPerAnswer`, and `CallbackAnswersWaiter` under fairness |
| `sink` | 6,337 | `NoFalseAck`, `OnlyDropBlocks`, and under fairness `CallReturns`, `WrittenAloneIsAcked` |
| `rollout` | 193,140 | `AlwaysAPipeline`, `ScaleSettles`, the refinement `DeploysInOrder`, and under fairness `RolloutFinishes`, `OneReplicaIsEnough` |
| `owned` | 338,500 | `NothingMissing`, `SpecNeverGoesBack`, and under fairness `Converges` |
| `request_path` | 311,659 | `ForgottenIsCalled`, `NothingLost`, the refinement `KeepsPromise`, and under fairness `AcceptedIsWorkedOff`, `WaiterIsAnswered` |
| `serving` | 50,242 | `DeployedIsChain`, `PhaseIsWorst`, `IdleIsServedButAliased`, the refinement `DeploysInOrder`, and under fairness `LastSpecIsServedButAliased` |

Six more runs find what the code does against what it or its documentation says
(section 5).

### Bounds, and why they are enough

* `frontline`: two requests, three callbacks. Races over one session need one
  request and two callbacks, the race on the map two handlers or a handler and a
  callback; the third callback makes a duplicate for one request meet the other.
  The proofs lift the bound for the safety properties.
* `sink`: five messages, one of which never decodes, batches of one to three,
  `--retries` 0 to 2 with and without `--dropIfError`, two lost calls. Every
  combination of failed, dropped and undecodable in a batch occurs, and so does a
  batch that is written again without what was reported. The controller always
  sets a batch size of 1; the larger ones are for the sink as it is written.
* `rollout`: one namespace, three specs in a row, two rollouts, one failed API
  call, one restart. `MaxReplicas` is numaflow's default for a nil `Max`, of
  which only its being above one, and the steps below it, matter to the liveness
  properties; the safety properties are proved for every value. One thing happens
  only from `MaxReplicas = 4` on: a rollout reads three replicas, the autoscaler
  goes to four before `Update` has brought `Max` to two, and the next turn, which
  reads four, sets `Max` to three. `ScaleSettles` therefore says of `Max` that one
  is final, not that it never rises. `MaxGen = 2` leaves room for a name to be used
  twice; that none is, is part of `DeploysInOrder`. With a second failed call
  everything holds as well (313,828 states); only then does a rollout leave its
  pipeline standing, as `RolloutFinishes` says, after a `Delete` and the `List` that
  follows both failed. The run is at one to keep it short.
* `owned`: three specs of which the second does not validate (a pass that started
  on the first, one that stops at the second, one that brings the third), one
  failed call, one write or deletion by somebody else, one restart, and a
  finalizer on the ISB service, which numaflow sets when it is persistent. Each
  of these may fall between any two API calls of any pass. `SpecNeverGoesBack` and
  `NothingMissing` are proved without the bounds.

* `request_path`: two requests, of which one may have a payload nobody can
  compute, one predictor pod, `--retries` 2, and one fault: a lost sink call, a
  POST given up on after it was delivered, or a restart or loss of the predictor.
  Crashes of the frontline pod come on top. Two requests are what it takes for an
  answer to go to the wrong client or to be held up by the other's; one pod is the
  hard case for progress, since nobody takes over. The safety properties and the
  refinement hold with two faults as well (2.5 million states), and everything
  holds with `--retries` at its default of 3.
* `serving`: seven specs in a row, any of which may be skipped: a change that the
  aliased UDFs hide, one of a last step, one that does not validate, two
  predictors, another model under the same names, a name used twice. One failed
  Create; a frontline of one replica, which can be there or not and available or
  not. `serving_units` has two specs and no failures: the second changes the UDF of
  the first of two steps, and nothing else.

### Fairness, and why the code justifies it

* `frontline`: goroutines that can run, run (`Printed`, `Register`, the callback
  handlers). `ReadBody` ends because the sink's client closes the connection
  after `--timeout`. Nothing is assumed of `client.Post`, which has no timeout,
  or of the pipeline: callbacks need not come.
* `sink`: the vertex and the sink's goroutine run, and a POST ends within
  `--timeout`. `PostAnswered` has strong fairness: a receiver that is tried for
  ever answers in the end. Without it no delivery can be promised.
* `rollout`: `RolloutModel` runs, informers catch up, and vertices of deleted
  pipelines are collected. Nothing is assumed of the autoscaler, of new pods or of
  the user. `OneReplicaIsEnough` therefore makes its one assumption about numaflow
  in the property: that the replicas stay at one.
* `request_path`: the pod's callbacks, the predictor's containers and the sink
  run; for each of the three it is enough that something in it runs, as none can
  go on for ever. Strong fairness of `Deliver`: a pod that is tried for ever is
  reached in the end, as in `sink`. Clients, the source vertex and `Post` promise
  nothing. The exceptions in the two liveness properties are not assumptions but
  loops the code has: a pod without a model, and a message that raises.
* `serving`: a queued MLInference is worked on, a rollout that was begun gets done
  (with `OneReplicaIsEnough` and the exceptions named there), and the resync comes.
* `owned`: a queued MLInference is worked on, informers catch up, finalizers are
  removed and the resync comes. Strong fairness of `SyncObject` between passes
  says that informers are not late every time. It is needed, and it is an
  assumption about the cluster, not about the code: without it TLC finds the loop
  in which each pass reads just before the informer delivers, has its `Update`
  refused, deletes and recreates the healthy object, and so makes the next pass's
  read old.

Deadlock is not checked in the first three and in `request_path`: the environment
may simply stop (no more requests, messages or changes), and the bounds stop it.
`owned` and `serving` have no deadlock, as the resync goes on.

## 4. What is proved

For every value of the constants, from the named assumptions only:

* `FrontlineProofs`: `Typing`, `SenderAlwaysHasReceiver`,
  `WaitingAlwaysReachable`, `AnsweredAtMostOnce` and `OneCallbackEach`, for any
  number of requests and callbacks. The first two safety properties are not
  inductive: that a sender has a receiver depends on a session never being both in the map and in a
  callback's hands, and that again on the receiver waiting from the moment the
  session is registered. `SessionInv` says this of each session at once: a
  session in the map belongs to a waiting request that nobody holds; a held one
  to a waiting request, held once; a waiting request has one or the other. It is
  preserved by each action (`Sessions`), and the properties follow.
  `AnsweredAtMostOnce` needs in addition that writing appends (`AppendAnswers`)
  and that all other steps are silent (`SilentStep`); `OneCallbackEach` pairs the
  answered requests with the callbacks that delivered, and each answer with what
  its callback had decoded (`SpentInv`).
* `HttpSinkProofs`: `SinkTyping` (no datum is attempted more than `--retries`
  times in a call) and `AckMeansAnswered` (`NoFalseAck`), for every batch size,
  any set of undecodable messages and every setting of the flags. The invariant
  `Lists` says that what is in `ok` was answered or is in `failed`, and that what
  is reported was answered; in it, the repeated id of line 123 is harmless only
  because `failed` is then not empty. `NothingDropsOut`: what numaflow has read it
  writes again until it is acknowledged (`KeptOrAcked`), so a message that was
  "dropped" is not. `OthersReadToTheEnd` (`OnlyDropBlocks`): a call that returns
  with messages left in its stream has dropped one of several. It is the safety
  behind `CallReturns`: no other call leaves the SDK blocked on the channel.
* `OwnedObjectsProofs`: `CopiesStayInOrder`, `OwnedTyping` and `NeverGoesBack`
  (`SpecNeverGoesBack`), for any number of specs and failures. The spec is copied
  from the MLInference to the cache, from there to the pass, from the pass to the
  StatefulSet; `CopiesInOrder` says that each copy is at most as new as the one
  before it. Every action moves at most one copy on (`QuietStep`) or writes one
  object (`WriteLemma`, `RemoveLemma`).

  `RestIsComplete` (`NothingMissing`): without failed calls and writes by others,
  nothing is missing when the controller has nothing left to do. `AtWork` says why,
  although passes read old copies, delete what conflicts, stop at the first error
  and are not queued again, and although changes of Services queue nothing. The
  other kinds than the StatefulSet are written when they are made and not again, so
  a cached copy of one is a good one and its Update succeeds (`Cached`, `Calls`). A
  pass has behind it only what is there (`Behind`); it can fail only at what it does
  not find in the cache, though it is there. Then the informer's event is still to
  come, unless it is the frontline's Service: but the pass that made that went on to
  make the StatefulSet (`LateService`). The theorem's hypothesis is that a
  StatefulSet is gone when it is deleted, which is so without a finalizer. With one,
  TLC finds a behaviour in which the Create after the Delete is refused and the next
  pass stops at the Service.

* `RequestPathProofs`: for any number of clients, predictor pods, retries and
  faults, `PathTyping` (`TypeOK`), `NothingForgottenUncalled` (`ForgottenIsCalled`)
  and `PromiseKept`: that the whole path implements `InferenceService`. The
  argument has three layers. `Joints` says what holds the components together:
  what is read, in hand and in flight at the sink is among what the predictor has
  sent on. From it follows that every step of the composition is a step, or none,
  of `Frontline` and of `HttpSink` (`PodInPath`, `SinkInPath`), so what is proved of
  these alone holds here too, and `PodTypes` and `SinkTypes` cite it instead of
  proving it again. `Messages` is the invariant of the promise: an accepted request
  is one message in one place (`OneMessage`), so it is computed once; a request
  that was not sent is unknown to the pipeline, and its client has been written
  nothing before `Post` returned (`Early`), so an error comes first if at all; a
  callback is for a request that has arrived (`CalledHasArrived`), so no answer
  comes before it is computed. That there is one answer and nothing after it is
  the guard of `InferenceService!Answer`, met because a handler that is handed an
  answer stops waiting.

  `PodIsSafeInPath` carries the four safety properties of `Frontline` over to the
  path. `ForgottenIsCalled` joins both sides. `CallInv` says that the callback in
  flight is for the message in hand, which `Joints` keeps from changing under it,
  and carries its data unless the sink has given it up: so an attempt that is
  answered is one of a whole body. `Served` then says that what was answered for is
  closed, since by `OneCallbackPerAnswer` a callback that delivered has its client
  given what it decoded. `NothingLostOnTheWay` (`NothingLost`) puts the parts in a
  row: an accepted request is in the buffer, in a pod's hands or has arrived
  (`OneMessage`, over restarts and evictions of the predictor); what has arrived and
  was read is being written or is acknowledged (`Kept`, which is `KeptOrAcked` of
  the sink in the path); and what is acknowledged is closed.

* `RolloutProofs`, for any number of versions, goroutines, replicas, failures and
  restarts:
  * `Typing` (`TypeOK`): what a turn of `RolloutModel` writes stays in the bounds
    numaflow reads.
  * `Settling` (`ScaleSettles`): a copy that was read and changed, however old,
    has a `Min` no higher than it read and leaves a `Max` of at most one as it was
    (`CopySettles`); and `Update` takes it only if the object is as it was read.
    Two goroutines on one pipeline thus lower it in turn.
  * `PipelineStands` (`AlwaysAPipeline`) and `PlanCarriedOut` (`DeploysInOrder`),
    under two hypotheses: the name is that of one MLInference (`OneInference`), and
    its user does not go back to an earlier spec (`NeverBack`). Neither can be
    left out: `rollout_namespaces` shows another MLInference's pipeline retired,
    and `rollout_revert` no pipeline left. The properties are not inductive, as a
    rollout deletes what it was given when it began, and the list it was chosen
    from was old even then. `OrderInv` says why this does no harm. Nothing newer
    than the spec was ever created, nor seen in the cache without having been
    created (`CreatedInOrder`); so a new pipeline is newer than all before it, and
    the old one of a rollout, which was in the cache and is another version, has a
    successor from the moment the goroutine starts. Successors stay created
    (`SupersededFirst`), so what is being deleted is never the newest, which
    exists (`HasNewest`) and stands.
* `PipelineSpecProofs`, for lists of steps and predictors of any length:
  `VerticesKeepNames`, `PipelineIsChain` (names that differ give one chain from
  `http-in` to `http-out`, through everything), `PipelineCarriesSpecButAliased`
  (whatever the names, each predictor's model is there, and the UDF of every step
  that agrees with the last of its list) and `PipelineCarriesSpec` (all of the work
  of a spec that is `Unaliased`). That the
  edges reach every vertex takes an induction along the list; it is done by the
  least vertex that is not reached, which exists as `<` is well-founded on the
  natural numbers (`LeastElement`), and which its predecessor has an edge to.
* `ServingProofs`: `Typing` (`TypeOK`, with at most two pipelines, of which one is on
  its way out), `PhaseCorrect` (`PhaseIsWorst`, for any phases and replicas that may
  be reported), `ChainsDeployed` (`DeployedIsChain`, from `PipelineIsChain`), and
  `NoChangeMissedButAliased`: specs with the same hash do the same work except for
  the UDFs and secrets that the aliased loop variables lose.
  `IdleServedButAliased` (`IdleIsServedButAliased`) rests on it: as long as no Create
  has failed, either something is queued, or a rollout will queue it when it ends, or
  the one pipeline has the spec's hash (`UpToDate`). What the README of the
  repository promises, `IdleIsServed`, is proved of the specs from which aliasing
  takes nothing (`IdleServedIfUnaliased`), and `serving_units` shows that it is false
  of others. Each event that makes a pipeline old queues a pass,
  and a pass that skips the new spec does so only while a rollout is on its way.
  `PlanCarriedOut` (`DeploysInOrder`): no pipeline is newer than the spec, and one
  that is being retired has a newer one beside it (`OrderInv`); so what is created
  is newer than what there was, and the newest stays through every `Retire`
  (`NewestLemma`).
  The assumption on `Specs` is that its members are specs: their steps and
  predictors are lists (`HasLists`, `mlinference_types.go:58-71`).

Every invariant, action property and refinement of the passing runs is proved.
Only model-checked are the liveness properties, as fairness is outside the
prover's reach: `CallbackAnswersWaiter`, `CallReturns`, `WrittenAloneIsAcked`,
`RolloutFinishes`, `OneReplicaIsEnough`, `Converges`, `AcceptedIsWorkedOff`,
`WaiterIsAnswered` and `LastSpecIsServedButAliased`. Of five of them the part that
does not depend on time is proved: `OnlyDropBlocks` of `CallReturns`, `NothingLost` of
`AcceptedIsWorkedOff` and `WaiterIsAnswered` (there is always somebody whose turn it
is), `IdleIsServedButAliased` of `LastSpecIsServedButAliased` and `NothingMissing` of
`Converges` (nothing that is missing waits for the resync).

## 5. Where the code does something else than it says

* `frontline_lost`: the session is registered only after `client.Post` returned,
  so the answer may come first. It is logged as "request is not found" and
  acknowledged, and the handler then waits for ever.
* `sink_drop`: "Messages will drop after retry" says the flag; the message is not
  in the list that is returned, so numaflow writes it again, for ever.
* `rollout_revert`: after v1 -> v2 -> v1 the rollout of the first v1 deletes the
  second, and the rollout of v2 deletes v2: no pipeline is left.
* `rollout_namespaces`: "in the same namespace", says the comment of `Reconcile`;
  `List` gets no namespace, and the pipeline of another MLInference is retired.
* `owned_service`: "if it doesn't exist: get the spec and create it"; if the first
  `Create` of the pipeline's service fails, no later pass looks for it.
* `serving_units`: "Create new canary inference pipeline if any atomic unit changes"
  (`README.md:4`); but all steps of a list run the last one's UDF
  (`installer.go:604, 718`), so a change of any other leaves the vertices as they
  were. It is taken for no update, and the old pipeline stays. The properties of
  `serving` that hold say in their names that they leave this out.

The following is in the modules as the code has it, and has no run of its own:

* `installer.go:248-251`: the old pipeline is deleted on its own replica count,
  whether or not the new one ever came up (`ScaleDown`).
* `installer.go:682-689`: all predictors' stores are opened with the last one's
  secrets (`PredictorVertices`); and `SECRETKEYACCESS` is set where
  `constant.go:5` reads `SECRETACCESSKEY`, so listing a private bucket fails, which
  `s3.go:40-43` passes over (`ListFails`).
* `operate.go:41`: the computed status is dropped by the API server (`StatusOf`).
* `installer.go:803`: a StatefulSet with no replicas yet counts as running.
* `installer.go:242-255`: a rollout whose replicas skip one never ends, and
  `installer.go:138, 160`: after a restart in the middle of a rollout, two
  pipelines stay (`OneReplicaIsEnough`, `RolloutFinishes` except both).
* `installer.go:237-244, 271`: a `List` that fails is taken for an empty one and ends
  the rollout, so that a `Delete` whose error was dropped just before is not tried
  again, and the old pipeline stays (`RolloutFinishes` excepts it).
* `controller.go:83`: a failed pass is not queued again. A spec that is changed just
  after the MLInference was created may have its pass stop at the frontline's
  Service, which is there but not yet in the cache; that informer's event queues
  nothing, and the StatefulSet keeps the old `--sync` until some other event or the
  resync. `NothingMissing` is therefore about what is there, and only `Converges`
  about what it was made for.
* `handle.go:44`: a request that the source refused waits for ever.
* `installer.go:400-411`: the frontline's Service selects the http-in pods as well.
  This one is not in any module.

## 6. Not modelled, and why

* Deletion of an MLInference: the controller filters the event
  (`controller.go:92-98`) and leaves the rest to garbage collection.
* What steps and models compute, and the contents of images, labels, volumes and
  ports: data and constants. In `RequestPath` several map vertices in a row are
  one.
* Metrics, the command line, generated code, CRDs and manifests: no control of
  their own. Leader election is off unless asked for; one active controller is
  assumed.

## 7. Plan

Done, in this order: `Frontline` (sessions are what clients see), `HttpSink` (the
delivery they depend on), `Rollout` (the controller's concurrent part),
`OwnedObjects` (its sequential part, with failures), the first proofs about three
of them, then `Predictor`, `RequestPath` with `InferenceService` (the whole way of
a request, and what it promises), `PipelineSpec` and `Serving`, then
`RequestPathProofs` (that the promise is kept, for all sizes), and last
`RolloutProofs` with `Deployment`, `PipelineSpecProofs` and `ServingProofs`.

Then the joints between them: `Serving` as an implementation of `Deployment`, so
that whole passes and single rollouts keep one promise, the safety that the
liveness properties rest on (`NothingLost`, `IdleIsServedButAliased`,
`NothingMissing`, `OnlyDropBlocks`), and what the README promises of every change
(`IdleIsServed`).

What is left:

1. `Rollout` and `Serving` meet in `Deployment` only. That every step of `Rollout`
   is one of `Serving`, or none, would need versions that are specs in `Rollout`
   and stale reads in `Serving`.
2. `NothingMissing` with failed calls and writes by others: the controller then may
   come to rest with an object missing until the resync, ten hours later; which
   ones, and after what, is not stated.
