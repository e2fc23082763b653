----------------------------- MODULE MCServing -----------------------------
(***************************************************************************)
(* A series of specs for Serving: a first one, a change the aliased UDFs   *)
(* hide, a change of the last step, a predictor that is not pytorch, two   *)
(* predictors with a post-step, another model, and a name used twice.      *)
(*                                                                         *)
(* And two specs of which the second changes one atomic unit, the first of *)
(* two steps, after a pipeline from which aliasing takes nothing.          *)
(***************************************************************************)
EXTENDS Serving

Step(n, u) == [name |-> n, udf |-> u]
Predictor(n, k) == [name |-> n, format |-> "pytorch", key |-> k, secret |-> "s-" \o k]
Inference(pre, predictors, post) ==
  [inferenceType |-> "sync", preSteps |-> pre, predictors |-> predictors,
   postSteps |-> post]

MCSpecs == <<
  Inference(<<Step("a", "u1"), Step("b", "u2")>>, <<Predictor("m", "k1")>>, <<>>),
  Inference(<<Step("a", "u3"), Step("b", "u2")>>, <<Predictor("m", "k1")>>, <<>>),
  Inference(<<Step("a", "u3"), Step("b", "u4")>>, <<Predictor("m", "k1")>>, <<>>),
  Inference(<<>>, <<Predictor("m", "k1"),
                    [Predictor("n", "k2") EXCEPT !.format = "sklearn"]>>, <<>>),
  Inference(<<Step("a", "u3")>>, <<Predictor("m", "k1"), Predictor("n", "k2")>>,
            <<Step("c", "u5")>>),
  Inference(<<Step("a", "u3")>>, <<Predictor("m", "k3"), Predictor("n", "k2")>>,
            <<Step("c", "u5")>>),
  Inference(<<Step("m", "u1")>>, <<Predictor("m", "k1")>>, <<>>)
>>

MCUnitSpecs == <<
  Inference(<<Step("a", "u1"), Step("b", "u1")>>, <<Predictor("m", "k1")>>, <<>>),
  Inference(<<Step("a", "u2"), Step("b", "u1")>>, <<Predictor("m", "k1")>>, <<>>)
>>

=============================================================================
