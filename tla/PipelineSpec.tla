---------------------------- MODULE PipelineSpec ----------------------------
(***************************************************************************)
(* From the spec of an MLInference to the numaflow pipeline                *)
(* (createPipelineSpec), and what Validate lets through.                   *)
(*                                                                         *)
(* A step has a name and a UDF, a predictor a name, a model format, the    *)
(* key of its model and the secret its store is opened with.  Images,      *)
(* volumes and labels, which are the same for every spec, are left out;    *)
(* Scale, which a rollout changes, is in Rollout.                          *)
(***************************************************************************)
EXTENDS Naturals, Sequences

\* The steps before the model, the predictors and the steps after it are lists.
IsList(items) == Len(items) \in Nat /\ items = [i \in 1..Len(items) |-> items[i]]

HasLists(spec) ==
  IsList(spec.preSteps) /\ IsList(spec.predictors) /\ IsList(spec.postSteps)

\* The predictors' formats and the type are what Validate looks at.  It asks
\* nothing of names, of steps or of the model store.
Validate(spec) ==
  /\ spec.predictors # <<>>
  /\ spec.inferenceType \in {"async", "sync"}
  /\ \A i \in 1..Len(spec.predictors) : spec.predictors[i].format = "pytorch"

-----------------------------------------------------------------------------
(* Vertices: a name, what the container runs and the secret it gets. *)

Vertex(name, runs, secret) == [name |-> name, runs |-> runs, secret |-> secret]

HttpIn == Vertex("http-in", "source", "none")
HttpOut == Vertex("http-out", "sink", "none")

\* Mutant: UDF points to the first step.
StepVerticesOfFirst(steps) ==
  [i \in 1..Len(steps) |-> Vertex(steps[i].name, steps[1].udf, "none")]

\* UDF points to the loop's variable, which under Go 1.20 is one for all turns:
\* when the loop is over, every vertex runs the UDF of the last step.
StepVertices(steps) ==
  [i \in 1..Len(steps) |-> Vertex(steps[i].name, steps[Len(steps)].udf, "none")]

\* The same holds for the secret references of the predictors' stores; the
\* strings are copied.
PredictorVertices(predictors) ==
  [i \in 1..Len(predictors) |->
     Vertex(predictors[i].name, predictors[i].key,
            predictors[Len(predictors)].secret)]

Vertices(spec) ==
  <<HttpIn>> \o StepVertices(spec.preSteps) \o PredictorVertices(spec.predictors)
    \o StepVertices(spec.postSteps) \o <<HttpOut>>

\* Mutant: the edge into the first vertex that is not http-in is skipped.
EdgesFromSecond(vertices) ==
  {<<vertices[i - 1].name, vertices[i].name>> : i \in 3..Len(vertices)}

\* prevVtx starts as http-in and ends each turn as the name of the vertex just
\* seen; a vertex with the same name as the one before it gets no edge.
Edges(vertices) ==
  LET edge(i) == <<vertices[i - 1].name, vertices[i].name>>
  IN  {edge(i) : i \in {j \in 2..Len(vertices) : edge(j)[1] # edge(j)[2]}}

\* The default case of the switch: "no known image".
CreatePipelineFails(spec) ==
  \E i \in 1..Len(spec.predictors) : spec.predictors[i].format # "pytorch"

-----------------------------------------------------------------------------
(* What a pipeline should be, for comparison. *)

Names(spec) ==
  LET namesOf(items) == [i \in 1..Len(items) |-> items[i].name]
  IN  <<"http-in">> \o namesOf(spec.preSteps) \o namesOf(spec.predictors)
        \o namesOf(spec.postSteps) \o <<"http-out">>

WellNamed(spec) ==
  \A i, j \in 1..Len(Names(spec)) : Names(spec)[i] = Names(spec)[j] => i = j

\* One way leads from http-in to http-out, through all the names, and every edge
\* goes from an earlier to a later one.
IsChain(names, edges) ==
  LET all == {names[i] : i \in 1..Len(names)}
      at(n) == CHOOSE i \in 1..Len(names) : names[i] = n
  IN  /\ edges \subseteq all \X all
      /\ \A e \in edges : at(e[1]) < at(e[2])
      /\ \A e, f \in edges : e[1] = f[1] <=> e[2] = f[2]
      /\ \A part \in SUBSET all :
           "http-in" \in part /\ (\A e \in edges : e[1] \in part => e[2] \in part)
             => part = all

\* What the spec asks of one vertex.
StepVertex(step) == Vertex(step.name, step.udf, "none")
PredictorVertex(predictor) == Vertex(predictor.name, predictor.key, predictor.secret)

Last(items) == items[Len(items)]

\* The vertices do the work of the spec: all names in their order, the UDF of every
\* step, and the model of every predictor, from a store that is opened with the
\* predictor's own secret.
Carries(vertices, spec) ==
  LET made == {vertices[i] : i \in 1..Len(vertices)}
  IN  /\ [i \in 1..Len(vertices) |-> vertices[i].name] = Names(spec)
      /\ \A steps \in {spec.preSteps, spec.postSteps} :
           \A i \in 1..Len(steps) : StepVertex(steps[i]) \in made
      /\ \A i \in 1..Len(spec.predictors) : PredictorVertex(spec.predictors[i]) \in made

\* The same, but nothing is asked of the UDF of a step that differs from that of the
\* last step of its list, nor of a secret that differs from the last predictor's:
\* these are what the aliased loop variables lose.
CarriesButAliased(vertices, spec) ==
  LET made == {vertices[i] : i \in 1..Len(vertices)}
  IN  /\ [i \in 1..Len(vertices) |-> vertices[i].name] = Names(spec)
      /\ \A steps \in {spec.preSteps, spec.postSteps} :
           \A i \in 1..Len(steps) :
             steps[i].udf = Last(steps).udf => StepVertex(steps[i]) \in made
      /\ \A i \in 1..Len(spec.predictors) :
           LET predictor == spec.predictors[i] IN
           \E vertex \in made :
             /\ vertex.name = predictor.name /\ vertex.runs = predictor.key
             /\ predictor.secret = Last(spec.predictors).secret
                  => vertex.secret = predictor.secret

\* A spec from which the loop variables lose nothing.
Unaliased(spec) ==
  /\ \A steps \in {spec.preSteps, spec.postSteps} :
       \A i \in 1..Len(steps) : steps[i].udf = Last(steps).udf
  /\ \A i \in 1..Len(spec.predictors) :
       spec.predictors[i].secret = Last(spec.predictors).secret

=============================================================================
