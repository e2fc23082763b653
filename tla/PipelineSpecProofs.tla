------------------------- MODULE PipelineSpecProofs -------------------------
(***************************************************************************)
(* What createPipelineSpec makes of a spec, for lists of steps and         *)
(* predictors of any length: vertices with the names of the spec in their  *)
(* order, and, if the names differ, edges that make one chain of them.     *)
(*                                                                         *)
(* That the chain leads everywhere takes an induction along the vertices.  *)
(* It is done by the least vertex that is not reached; that there is one   *)
(* follows from the well-foundedness of < on the natural numbers.          *)
(***************************************************************************)
EXTENDS PipelineSpec, SequenceTheorems, WellFoundedInduction, TLAPS

-----------------------------------------------------------------------------
(* Numbers and sequences *)

\* A non-empty set of natural numbers has a least one.
LEMMA LeastElement ==
  ASSUME NEW S \in SUBSET Nat, S # {}
  PROVE  \E n \in S : \A m \in S : n <= m
<1> DEFINE R == OpToRel(<, Nat)
<1>1. IsWellFoundedOn(R, Nat)
  BY NatLessThanWellFounded
<1>2. \A m, n \in Nat : m < n => <<m, n>> \in R
  BY DEF OpToRel
<1> HIDE DEF R
<1>3. \E n \in S : \A m \in S : ~(<<m, n>> \in R)
  BY <1>1, WFMin
<1>4. PICK n \in S : \A m \in S : ~(<<m, n>> \in R)
  BY <1>3
<1>5. \A m \in S : ~(m < n)
  BY <1>2, <1>4
<1> QED
  BY <1>5

\* A function on 1..n is a sequence of that length.
LEMMA ListLemma ==
  ASSUME NEW S, NEW n \in Nat, NEW f \in [1..n -> S]
  PROVE  f \in Seq(S) /\ Len(f) = n
<1>1. f \in Seq(S)
  BY SeqDef
<1>2. Len(f) \in Nat /\ 1..Len(f) = 1..n
  BY <1>1, LenProperties
<1> QED
  BY <1>1, <1>2

\* The i-th of vs has the i-th of the names ns.
Named(vs, ns) ==
  /\ Len(vs) = Len(ns)
  /\ \A i \in 1..Len(vs) : vs[i].name = ns[i]

\* Lists whose names agree can be put one after the other.
LEMMA ConcatNamed ==
  ASSUME NEW S, NEW T,
         NEW a \in Seq(S), NEW b \in Seq(T), Named(a, b),
         NEW c \in Seq(S), NEW d \in Seq(T), Named(c, d)
  PROVE  /\ a \o c \in Seq(S) /\ b \o d \in Seq(T) /\ Named(a \o c, b \o d)
         /\ Len(b) > 0 => Len(b \o d) > 0 /\ (b \o d)[1] = b[1]
<1>1. /\ a \o c \in Seq(S) /\ Len(a \o c) = Len(a) + Len(c)
      /\ \A i \in 1..Len(a) + Len(c) :
           (a \o c)[i] = IF i <= Len(a) THEN a[i] ELSE c[i - Len(a)]
  BY ConcatProperties
<1>2. /\ b \o d \in Seq(T) /\ Len(b \o d) = Len(b) + Len(d)
      /\ \A i \in 1..Len(b) + Len(d) :
           (b \o d)[i] = IF i <= Len(b) THEN b[i] ELSE d[i - Len(b)]
  BY ConcatProperties
<1>3. Len(a) \in Nat /\ Len(c) \in Nat /\ Len(a) = Len(b) /\ Len(c) = Len(d)
  BY LenProperties DEF Named
<1>4. ASSUME NEW i \in 1..Len(a) + Len(c)
      PROVE  (a \o c)[i].name = (b \o d)[i]
  <2>1. CASE i <= Len(a)
    BY <1>1, <1>2, <1>3, <1>4, <2>1 DEF Named
  <2>2. CASE ~(i <= Len(a))
    <3>1. i - Len(a) \in 1..Len(c)
      BY <1>3, <1>4, <2>2
    <3>2. (a \o c)[i] = c[i - Len(a)] /\ (b \o d)[i] = d[i - Len(a)]
      BY <1>1, <1>2, <1>3, <1>4, <2>2
    <3> QED
      BY <3>1, <3>2 DEF Named
  <2> QED
    BY <2>1, <2>2
<1>5. Len(b) > 0 => Len(b \o d) > 0 /\ (b \o d)[1] = b[1]
  BY <1>2, <1>3
<1> QED
  BY <1>1, <1>2, <1>3, <1>4, <1>5 DEF Named

LEMMA SingleNamed ==
  ASSUME NEW S, NEW T, NEW v \in S, NEW x \in T, v.name = x
  PROVE  /\ <<v>> \in Seq(S) /\ <<x>> \in Seq(T) /\ Named(<<v>>, <<x>>)
         /\ Len(<<x>>) > 0 /\ <<x>>[1] = x
<1>1. <<v>> \in Seq(S) /\ <<x>> \in Seq(T)
  OBVIOUS
<1>2. Len(<<v>>) = 1 /\ Len(<<x>>) = 1 /\ <<v>>[1] = v /\ <<x>>[1] = x
  OBVIOUS
<1>3. \A i \in 1..1 : i = 1
  OBVIOUS
<1> QED
  BY <1>1, <1>2, <1>3 DEF Named

-----------------------------------------------------------------------------
(* The vertices *)

NamesOf(items) == [i \in 1..Len(items) |-> items[i].name]

\* Vertices that were made of items one by one, in their order.
MadeOf(vs, items) ==
  /\ vs = [i \in 1..Len(items) |-> vs[i]]
  /\ \A i \in 1..Len(items) : vs[i].name = items[i].name

\* Each turn of the loops over steps and predictors gives its vertex the item's
\* own name, whichever item the UDF and the secret come from
\* (installer.go:593-700).
LEMMA MadeOfItems ==
  ASSUME NEW items
  PROVE  MadeOf(StepVertices(items), items) /\ MadeOf(PredictorVertices(items), items)
<1>1. \A name, runs, secret : Vertex(name, runs, secret).name = name
  BY DEF Vertex
<1>2. MadeOf(StepVertices(items), items)
  BY <1>1 DEF MadeOf, StepVertices
<1>3. MadeOf(PredictorVertices(items), items)
  BY <1>1 DEF MadeOf, PredictorVertices
<1> QED
  BY <1>2, <1>3

LEMMA MadeOfNamed ==
  ASSUME NEW items, Len(items) \in Nat, NEW vs, MadeOf(vs, items),
         NEW S, NEW T,
         \A i \in 1..Len(items) : vs[i] \in S /\ items[i].name \in T
  PROVE  vs \in Seq(S) /\ NamesOf(items) \in Seq(T) /\ Named(vs, NamesOf(items))
<1>1. vs \in [1..Len(items) -> S] /\ NamesOf(items) \in [1..Len(items) -> T]
  BY DEF MadeOf, NamesOf
<1>2. /\ vs \in Seq(S) /\ Len(vs) = Len(items)
      /\ NamesOf(items) \in Seq(T) /\ Len(NamesOf(items)) = Len(items)
  BY <1>1, ListLemma
<1> QED
  BY <1>2 DEF MadeOf, NamesOf, Named

\* The vertices of a pipeline have the names of the spec, in the user's order,
\* between http-in and http-out.
THEOREM VerticesKeepNames ==
  ASSUME NEW spec, HasLists(spec)
  PROVE  \E S, T : /\ Vertices(spec) \in Seq(S) /\ Names(spec) \in Seq(T)
                   /\ Named(Vertices(spec), Names(spec))
                   /\ Names(spec) # <<>> /\ Names(spec)[1] = "http-in"
<1> DEFINE pre == StepVertices(spec.preSteps)
           predictors == PredictorVertices(spec.predictors)
           post == StepVertices(spec.postSteps)
           S == {HttpIn, HttpOut} \cup {pre[i] : i \in 1..Len(spec.preSteps)}
                  \cup {predictors[i] : i \in 1..Len(spec.predictors)}
                  \cup {post[i] : i \in 1..Len(spec.postSteps)}
           T == {v.name : v \in S}
           a == <<HttpIn>>           b == <<"http-in">>
           c == <<HttpOut>>          d == <<"http-out">>
<1>1. /\ MadeOf(pre, spec.preSteps) /\ MadeOf(predictors, spec.predictors)
      /\ MadeOf(post, spec.postSteps)
  BY MadeOfItems
<1>2. /\ \A i \in 1..Len(spec.preSteps) : pre[i] \in S
      /\ \A i \in 1..Len(spec.predictors) : predictors[i] \in S
      /\ \A i \in 1..Len(spec.postSteps) : post[i] \in S
      /\ HttpIn \in S /\ HttpOut \in S
  OBVIOUS
<1>3. HttpIn.name = "http-in" /\ HttpOut.name = "http-out"
  BY DEF HttpIn, HttpOut, Vertex
<1> HIDE DEF S, pre, predictors, post
<1>4. /\ \A i \in 1..Len(spec.preSteps) : spec.preSteps[i].name \in T
      /\ \A i \in 1..Len(spec.predictors) : spec.predictors[i].name \in T
      /\ \A i \in 1..Len(spec.postSteps) : spec.postSteps[i].name \in T
      /\ "http-in" \in T /\ "http-out" \in T
  <2>1. \A i \in 1..Len(spec.preSteps) : spec.preSteps[i].name \in T
    BY <1>1, <1>2 DEF MadeOf
  <2>2. \A i \in 1..Len(spec.predictors) : spec.predictors[i].name \in T
    BY <1>1, <1>2 DEF MadeOf
  <2>3. \A i \in 1..Len(spec.postSteps) : spec.postSteps[i].name \in T
    BY <1>1, <1>2 DEF MadeOf
  <2>4. "http-in" \in T /\ "http-out" \in T
    BY <1>2, <1>3
  <2> QED
    BY <2>1, <2>2, <2>3, <2>4
<1> HIDE DEF T
<1>5. /\ pre \in Seq(S) /\ NamesOf(spec.preSteps) \in Seq(T)
      /\ Named(pre, NamesOf(spec.preSteps))
  BY <1>1, <1>2, <1>4, MadeOfNamed DEF HasLists, IsList
<1>6. /\ predictors \in Seq(S) /\ NamesOf(spec.predictors) \in Seq(T)
      /\ Named(predictors, NamesOf(spec.predictors))
  BY <1>1, <1>2, <1>4, MadeOfNamed DEF HasLists, IsList
<1>7. /\ post \in Seq(S) /\ NamesOf(spec.postSteps) \in Seq(T)
      /\ Named(post, NamesOf(spec.postSteps))
  BY <1>1, <1>2, <1>4, MadeOfNamed DEF HasLists, IsList
<1>8. /\ a \in Seq(S) /\ b \in Seq(T) /\ Named(a, b)
      /\ c \in Seq(S) /\ d \in Seq(T) /\ Named(c, d)
      /\ Len(b) > 0 /\ b[1] = "http-in"
  BY <1>2, <1>3, <1>4, SingleNamed
<1> HIDE DEF a, b, c, d
<1> DEFINE a1 == a \o pre          b1 == b \o NamesOf(spec.preSteps)
           a2 == a1 \o predictors  b2 == b1 \o NamesOf(spec.predictors)
           a3 == a2 \o post        b3 == b2 \o NamesOf(spec.postSteps)
<1>9. /\ a1 \in Seq(S) /\ b1 \in Seq(T) /\ Named(a1, b1)
      /\ Len(b1) > 0 /\ b1[1] = "http-in"
  BY <1>5, <1>8, ConcatNamed
<1> HIDE DEF a1, b1
<1>10. /\ a2 \in Seq(S) /\ b2 \in Seq(T) /\ Named(a2, b2)
       /\ Len(b2) > 0 /\ b2[1] = "http-in"
  BY <1>6, <1>9, ConcatNamed
<1> HIDE DEF a2, b2
<1>11. /\ a3 \in Seq(S) /\ b3 \in Seq(T) /\ Named(a3, b3)
       /\ Len(b3) > 0 /\ b3[1] = "http-in"
  BY <1>7, <1>10, ConcatNamed
<1> HIDE DEF a3, b3
<1>12. /\ a3 \o c \in Seq(S) /\ b3 \o d \in Seq(T) /\ Named(a3 \o c, b3 \o d)
       /\ Len(b3 \o d) > 0 /\ (b3 \o d)[1] = "http-in"
  BY <1>8, <1>11, ConcatNamed
<1>13. Vertices(spec) = a3 \o c
  BY DEF Vertices, a, c, a1, a2, a3, pre, predictors, post
<1>14. Names(spec) = b3 \o d
  BY DEF Names, NamesOf, b, d, b1, b2, b3
<1>15. b3 \o d # <<>>
  BY <1>12
<1> QED
  BY <1>12, <1>13, <1>14, <1>15

-----------------------------------------------------------------------------
(* The edges *)

Distinct(names) == \A i, j \in 1..Len(names) : names[i] = names[j] => i = j

\* When names differ, every vertex but the first gets the edge from the one before
\* it: none is skipped as an edge to itself (installer.go:734-747).
LEMMA EdgesLemma ==
  ASSUME NEW T, NEW ns \in Seq(T), Distinct(ns), NEW vs, Named(vs, ns)
  PROVE  Edges(vs) = {<<ns[i - 1], ns[i]>> : i \in 2..Len(ns)}
<1> DEFINE edge(i) == <<vs[i - 1].name, vs[i].name>>
<1>1. Len(vs) = Len(ns) /\ Len(ns) \in Nat
  BY LenProperties DEF Named
<1>2. ASSUME NEW i \in 2..Len(ns)
      PROVE  /\ edge(i) = <<ns[i - 1], ns[i]>>
             /\ ns[i - 1] # ns[i]
  <2>1. i \in 1..Len(ns) /\ i - 1 \in 1..Len(ns) /\ i - 1 # i
    BY <1>1, <1>2
  <2> QED
    BY <1>1, <2>1 DEF Named, Distinct
<1>3. \A i \in 2..Len(ns) : edge(i)[1] # edge(i)[2]
  BY <1>2
<1>4. Edges(vs) = {edge(i) : i \in {j \in 2..Len(vs) : edge(j)[1] # edge(j)[2]}}
  BY DEF Edges
<1>5. {j \in 2..Len(vs) : edge(j)[1] # edge(j)[2]} = 2..Len(ns)
  BY <1>1, <1>3
<1> HIDE DEF edge
<1>6. Edges(vs) = {edge(i) : i \in 2..Len(ns)}
  BY <1>4, <1>5
<1> QED
  BY <1>2, <1>6

\* Whatever contains the first name, and with a name the next one, has them all:
\* consider the least that it has not.
LEMMA ChainReachesAll ==
  ASSUME NEW T, NEW ns \in Seq(T), ns # <<>>,
         NEW part, ns[1] \in part,
         \A i \in 2..Len(ns) : ns[i - 1] \in part => ns[i] \in part
  PROVE  \A i \in 1..Len(ns) : ns[i] \in part
<1> DEFINE missed == {i \in 1..Len(ns) : ns[i] \notin part}
<1>1. Len(ns) \in Nat
  BY LenProperties
<1>2. ASSUME missed # {}
      PROVE  FALSE
  <2>1. missed \in SUBSET Nat
    BY <1>1
  <2>2. PICK i \in missed : \A j \in missed : i <= j
    BY <1>2, <2>1, LeastElement
  <2>3. i # 1 /\ i \in 1..Len(ns)
    BY <2>2
  <2>4. i \in 2..Len(ns) /\ i - 1 \in 1..Len(ns)
    BY <1>1, <2>3
  <2>5. i - 1 \notin missed
    BY <1>1, <2>2, <2>3
  <2>6. ns[i - 1] \in part
    BY <2>4, <2>5
  <2> QED
    BY <2>2, <2>4, <2>6
<1> QED
  BY <1>2

LEMMA ChainLemma ==
  ASSUME NEW T, NEW ns \in Seq(T), ns # <<>>, Distinct(ns), ns[1] = "http-in",
         NEW edges, edges = {<<ns[i - 1], ns[i]>> : i \in 2..Len(ns)}
  PROVE  IsChain(ns, edges)
<1> DEFINE all == {ns[i] : i \in 1..Len(ns)}
           at(n) == CHOOSE i \in 1..Len(ns) : ns[i] = n
<1>1. Len(ns) \in Nat
  BY LenProperties
<1>2. \A i \in 2..Len(ns) : i \in 1..Len(ns) /\ i - 1 \in 1..Len(ns)
  BY <1>1
<1>3. edges \subseteq all \X all
  BY <1>2
<1>4. \A i \in 1..Len(ns) : at(ns[i]) = i
  BY DEF Distinct
<1>5. \A e \in edges : \E i \in 2..Len(ns) : e = <<ns[i - 1], ns[i]>>
  OBVIOUS
<1>6. \A e \in edges : at(e[1]) < at(e[2])
  <2> SUFFICES ASSUME NEW e \in edges
               PROVE  at(e[1]) < at(e[2])
    OBVIOUS
  <2>1. PICK i \in 2..Len(ns) : e = <<ns[i - 1], ns[i]>>
    BY <1>5
  <2>2. e[1] = ns[i - 1] /\ e[2] = ns[i]
    BY <2>1
  <2>3. at(ns[i - 1]) = i - 1 /\ at(ns[i]) = i
    BY <1>2, <1>4
  <2> HIDE DEF at
  <2> QED
    BY <1>1, <2>2, <2>3
<1>7. \A e, f \in edges : e[1] = f[1] <=> e[2] = f[2]
  <2> SUFFICES ASSUME NEW e \in edges, NEW f \in edges
               PROVE  e[1] = f[1] <=> e[2] = f[2]
    OBVIOUS
  <2>1. PICK i \in 2..Len(ns) : e = <<ns[i - 1], ns[i]>>
    BY <1>5
  <2>2. PICK j \in 2..Len(ns) : f = <<ns[j - 1], ns[j]>>
    BY <1>5
  <2>3. ns[i - 1] = ns[j - 1] <=> i = j
    BY <1>1, <1>2 DEF Distinct
  <2>4. ns[i] = ns[j] <=> i = j
    BY <1>2 DEF Distinct
  <2> QED
    BY <2>1, <2>2, <2>3, <2>4
<1>8. ASSUME NEW part \in SUBSET all,
             "http-in" \in part, \A e \in edges : e[1] \in part => e[2] \in part
      PROVE  part = all
  <2>1. \A i \in 2..Len(ns) : <<ns[i - 1], ns[i]>> \in edges
    OBVIOUS
  <2>2. \A i \in 2..Len(ns) : ns[i - 1] \in part => ns[i] \in part
    BY <1>8, <2>1
  <2>3. \A i \in 1..Len(ns) : ns[i] \in part
    BY <1>8, <2>2, ChainReachesAll
  <2> QED
    BY <2>3
<1> QED
  BY <1>3, <1>6, <1>7, <1>8 DEF IsChain

\* The pipeline of a spec whose names differ, http-in and http-out among them, is
\* one chain from http-in through all its steps and predictors, however many.
THEOREM PipelineIsChain ==
  ASSUME NEW spec, HasLists(spec), WellNamed(spec)
  PROVE  IsChain(Names(spec), Edges(Vertices(spec)))
<1>1. PICK S, T : /\ Vertices(spec) \in Seq(S) /\ Names(spec) \in Seq(T)
                  /\ Named(Vertices(spec), Names(spec))
                  /\ Names(spec) # <<>> /\ Names(spec)[1] = "http-in"
  BY VerticesKeepNames
<1>2. Distinct(Names(spec))
  BY DEF Distinct, WellNamed
<1> QED
  BY <1>1, <1>2, EdgesLemma, ChainLemma

-----------------------------------------------------------------------------
(* The work *)

Elements(s) == {s[i] : i \in 1..Len(s)}

LEMMA ConcatElements ==
  ASSUME NEW S, NEW a \in Seq(S), NEW b \in Seq(S)
  PROVE  /\ a \o b \in Seq(S)
         /\ Elements(a) \subseteq Elements(a \o b)
         /\ Elements(b) \subseteq Elements(a \o b)
<1>1. /\ a \o b \in Seq(S) /\ Len(a \o b) = Len(a) + Len(b)
      /\ \A i \in 1..Len(a) + Len(b) :
           (a \o b)[i] = IF i <= Len(a) THEN a[i] ELSE b[i - Len(a)]
  BY ConcatProperties
<1>2. Len(a) \in Nat /\ Len(b) \in Nat
  BY LenProperties
<1>3. ASSUME NEW i \in 1..Len(a)
      PROVE  a[i] \in Elements(a \o b)
  <2>1. i \in 1..Len(a \o b) /\ (a \o b)[i] = a[i]
    BY <1>1, <1>2, <1>3
  <2> QED
    BY <2>1 DEF Elements
<1>4. ASSUME NEW i \in 1..Len(b)
      PROVE  b[i] \in Elements(a \o b)
  <2>1. Len(a) + i \in 1..Len(a \o b) /\ (a \o b)[Len(a) + i] = b[i]
    BY <1>1, <1>2, <1>4
  <2> QED
    BY <2>1 DEF Elements
<1> QED
  BY <1>1, <1>3, <1>4 DEF Elements

\* The vertices of every step and of every predictor are among those of the
\* pipeline.
LEMMA ItemsAreVertices ==
  ASSUME NEW spec, HasLists(spec)
  PROVE  /\ Elements(StepVertices(spec.preSteps)) \subseteq Elements(Vertices(spec))
         /\ Elements(PredictorVertices(spec.predictors)) \subseteq Elements(Vertices(spec))
         /\ Elements(StepVertices(spec.postSteps)) \subseteq Elements(Vertices(spec))
<1> DEFINE pre == StepVertices(spec.preSteps)
           predictors == PredictorVertices(spec.predictors)
           post == StepVertices(spec.postSteps)
           S == {HttpIn, HttpOut} \cup {pre[i] : i \in 1..Len(spec.preSteps)}
                  \cup {predictors[i] : i \in 1..Len(spec.predictors)}
                  \cup {post[i] : i \in 1..Len(spec.postSteps)}
           a1 == <<HttpIn>> \o pre
           a2 == a1 \o predictors
           a3 == a2 \o post
<1>1. /\ MadeOf(pre, spec.preSteps) /\ MadeOf(predictors, spec.predictors)
      /\ MadeOf(post, spec.postSteps)
  BY MadeOfItems
<1>2. /\ \A i \in 1..Len(spec.preSteps) : pre[i] \in S
      /\ \A i \in 1..Len(spec.predictors) : predictors[i] \in S
      /\ \A i \in 1..Len(spec.postSteps) : post[i] \in S
      /\ HttpIn \in S /\ HttpOut \in S
  OBVIOUS
<1> HIDE DEF S, pre, predictors, post
<1>3. /\ pre \in [1..Len(spec.preSteps) -> S]
      /\ predictors \in [1..Len(spec.predictors) -> S]
      /\ post \in [1..Len(spec.postSteps) -> S]
  BY <1>1, <1>2 DEF MadeOf
<1>4. pre \in Seq(S) /\ predictors \in Seq(S) /\ post \in Seq(S)
  BY <1>3, ListLemma DEF HasLists, IsList
<1>5. <<HttpIn>> \in Seq(S) /\ <<HttpOut>> \in Seq(S)
  BY <1>2
<1>6. a1 \in Seq(S) /\ Elements(pre) \subseteq Elements(a1)
  BY <1>4, <1>5, ConcatElements
<1> HIDE DEF a1
<1>7. /\ a2 \in Seq(S) /\ Elements(a1) \subseteq Elements(a2)
      /\ Elements(predictors) \subseteq Elements(a2)
  BY <1>4, <1>6, ConcatElements
<1> HIDE DEF a2
<1>8. /\ a3 \in Seq(S) /\ Elements(a2) \subseteq Elements(a3)
      /\ Elements(post) \subseteq Elements(a3)
  BY <1>4, <1>7, ConcatElements
<1> HIDE DEF a3
<1>9. Elements(a3) \subseteq Elements(a3 \o <<HttpOut>>)
  BY <1>5, <1>8, ConcatElements
<1>10. Vertices(spec) = a3 \o <<HttpOut>>
  BY DEF Vertices, a1, a2, a3, pre, predictors, post
<1> QED
  BY <1>6, <1>7, <1>8, <1>9, <1>10 DEF pre, predictors, post

\* A step with the UDF of the last one of its list has the vertex it should have,
\* all turns of the loop being given the last one's.
LEMMA UnaliasedStepVertex ==
  ASSUME NEW steps, IsList(steps), NEW i \in 1..Len(steps),
         steps[i].udf = Last(steps).udf
  PROVE  StepVertex(steps[i]) \in Elements(StepVertices(steps))
<1>1. Len(StepVertices(steps)) = Len(steps)
  <2>1. Len(steps) \in Nat
    BY DEF IsList
  <2>2. StepVertices(steps) \in
          [1..Len(steps) -> {StepVertices(steps)[j] : j \in 1..Len(steps)}]
    BY DEF StepVertices
  <2> QED
    BY <2>1, <2>2, ListLemma
<1>2. StepVertices(steps)[i] = StepVertex(steps[i])
  BY DEF StepVertices, StepVertex, Last
<1> QED
  BY <1>1, <1>2 DEF Elements

\* Every predictor has a vertex with its own model and the last one's secret.
LEMMA PredictorVertexMade ==
  ASSUME NEW spec, HasLists(spec), NEW i \in 1..Len(spec.predictors)
  PROVE  Vertex(spec.predictors[i].name, spec.predictors[i].key,
                Last(spec.predictors).secret) \in Elements(Vertices(spec))
<1> DEFINE items == spec.predictors
           made == PredictorVertices(items)
<1>1. Len(items) \in Nat
  BY DEF HasLists, IsList
<1>2. made \in [1..Len(items) -> {made[j] : j \in 1..Len(items)}]
  BY DEF PredictorVertices
<1>3. Len(made) = Len(items)
  BY <1>1, <1>2, ListLemma
<1>4. made[i] = Vertex(items[i].name, items[i].key, Last(items).secret)
  BY DEF PredictorVertices, Last
<1>5. made[i] \in Elements(made)
  BY <1>3 DEF Elements
<1>6. Elements(made) \subseteq Elements(Vertices(spec))
  BY ItemsAreVertices
<1> QED
  BY <1>4, <1>5, <1>6

\* A pipeline does the work of its spec, but for what the aliased loop variables
\* lose: it has all the names in their order, every predictor's own model, and the
\* UDFs of the steps that agree with the last one of their list.  Nothing is said
\* of other steps' UDFs, which the pipeline does not run (installer.go:593-736).
THEOREM PipelineCarriesSpecButAliased ==
  ASSUME NEW spec, HasLists(spec)
  PROVE  CarriesButAliased(Vertices(spec), spec)
<1> DEFINE vertices == Vertices(spec)
           made == Elements(vertices)
<1>1. [i \in 1..Len(vertices) |-> vertices[i].name] = Names(spec)
  <2>1. PICK S, T : /\ vertices \in Seq(S) /\ Names(spec) \in Seq(T)
                    /\ Named(vertices, Names(spec))
    BY VerticesKeepNames
  <2>2. Names(spec) \in [1..Len(Names(spec)) -> T]
    BY <2>1, LenProperties
  <2> HIDE DEF vertices
  <2> QED
    BY <2>1, <2>2 DEF Named
<1>2. ASSUME NEW steps \in {spec.preSteps, spec.postSteps}, NEW i \in 1..Len(steps),
             steps[i].udf = Last(steps).udf
      PROVE  StepVertex(steps[i]) \in made
  <2>1. IsList(steps) /\ Elements(StepVertices(steps)) \subseteq made
    BY ItemsAreVertices DEF HasLists
  <2> QED
    BY <1>2, <2>1, UnaliasedStepVertex
<1>3. ASSUME NEW i \in 1..Len(spec.predictors)
      PROVE  \E vertex \in made :
               /\ vertex.name = spec.predictors[i].name
               /\ vertex.runs = spec.predictors[i].key
               /\ spec.predictors[i].secret = Last(spec.predictors).secret
                    => vertex.secret = spec.predictors[i].secret
  BY PredictorVertexMade DEF Vertex
<1>4. made = {vertices[i] : i \in 1..Len(vertices)}
  BY DEF Elements
<1> HIDE DEF vertices, made
<1> QED
  BY <1>1, <1>2, <1>3, <1>4 DEF CarriesButAliased, vertices

\* A pipeline does all of the work of its spec, every step's UDF included, if in
\* neither list of the spec two steps have different UDFs, and no two predictors
\* different secrets (installer.go:593-736).
THEOREM PipelineCarriesSpec ==
  ASSUME NEW spec, HasLists(spec), Unaliased(spec)
  PROVE  Carries(Vertices(spec), spec)
<1> DEFINE vertices == Vertices(spec)
           made == Elements(vertices)
<1>1. CarriesButAliased(vertices, spec)
  BY PipelineCarriesSpecButAliased
<1>2. made = {vertices[i] : i \in 1..Len(vertices)}
  BY DEF Elements
<1>3. ASSUME NEW i \in 1..Len(spec.predictors)
      PROVE  PredictorVertex(spec.predictors[i]) \in made
  <2>1. spec.predictors[i].secret = Last(spec.predictors).secret
    BY DEF Unaliased
  <2> QED
    BY <2>1, PredictorVertexMade DEF PredictorVertex
<1>4. ASSUME NEW steps \in {spec.preSteps, spec.postSteps}, NEW i \in 1..Len(steps)
      PROVE  steps[i].udf = Last(steps).udf
  BY <1>4 DEF Unaliased
<1> HIDE DEF vertices, made
<1> QED
  BY <1>1, <1>2, <1>3, <1>4 DEF Carries, CarriesButAliased, vertices

=============================================================================
