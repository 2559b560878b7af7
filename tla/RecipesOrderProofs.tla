---- MODULE RecipesOrderProofs ----
(***************************************************************************)
(* A job gets its input after the jobs of its parents have completed, and  *)
(* the latest recipe has no superseded job. A job may be part of several   *)
(* recipes, and its parents are found by names in each of them, so the     *)
(* invariant says that all these recipes agree on the jobs of its parents. *)
(* Where it takes over nodes under other names a batch looks for their     *)
(* jobs under the wrong names, hence the condition BatchesKeepNames.       *)
(*                                                                         *)
(* The latest recipe also gets what it still lacks: if a job of a node is  *)
(* not there, if a job is ready and not queued, or if all jobs are         *)
(* completed and the recipe is not, then a message is on its way that will *)
(* see to it; and no job of the latest recipe is canceled. A calm step is  *)
(* one that takes no such message away before its time.                    *)
(***************************************************************************)
EXTENDS RecipesProofs

USE SMTT(30)

\* The jobs of the parents of node n, among nodes of graph g.
ParentJobs(nodes, g, n) == {z[2] : z \in {y \in nodes : y[1] \in Parents(g, n)}}

\* ParentsCompleted is about these jobs.
LEMMA ParentJobsFacts ==
  ASSUME NEW nodes, NEW g, NEW n, NEW rows, IsNodes(nodes), Parents(g, n) \subseteq NodeNames(nodes)
  PROVE  ParentsCompleted(g, nodes, rows, n)
           <=> \A j \in ParentJobs(nodes, g, n) : rows[j].status = "COMPLETED"
<1>1. /\ \A x \in nodes : JobAt(nodes, x[1]) = x[2]
      /\ \A p \in NodeNames(nodes) : <<p, JobAt(nodes, p)>> \in nodes
  BY JobAtFacts
<1>2. ASSUME ParentsCompleted(g, nodes, rows, n), NEW j \in ParentJobs(nodes, g, n)
      PROVE  rows[j].status = "COMPLETED"
  BY Zenon, <1>1, <1>2 DEF ParentsCompleted, ParentJobs
<1>3. ASSUME \A j \in ParentJobs(nodes, g, n) : rows[j].status = "COMPLETED", NEW p \in Parents(g, n)
      PROVE  rows[JobAt(nodes, p)].status = "COMPLETED"
  <2>1. <<p, JobAt(nodes, p)>> \in nodes
    BY Zenon, <1>1
  <2>2. JobAt(nodes, p) \in ParentJobs(nodes, g, n)
    <3> DEFINE z == <<p, JobAt(nodes, p)>>
    <3>1. z \in nodes /\ z[1] \in Parents(g, n) /\ z[2] = JobAt(nodes, p)
      BY Zenon, <2>1
    <3> QED
      BY Zenon, <3>1 DEF ParentJobs
  <2> QED
    BY Zenon, <2>2, <1>3
<1> QED
  BY Zenon, <1>2, <1>3 DEF ParentsCompleted

\* The jobs of the parents of node n of recipe r.
ParentsOf(r, n) == ParentJobs(NodesOf(r), GraphOf(r), n)

\* With a job its parents are part of a recipe.
ParentsThere == \A r \in RecipeIds : \A x \in NodesOf(r) : Parents(GraphOf(r), x[1]) \subseteq NodeNames(NodesOf(r))

\* A job that is taken over keeps its parents.
SameParents ==
  \A r, s \in RecipeIds : \A x \in NodesOf(r), y \in NodesOf(s) :
    x[2] = y[2] => ParentsOf(r, x[1]) = ParentsOf(s, y[1])

\* A job has its input only if its parents have completed.
InputAfterParents ==
  \A r \in RecipeIds : \A x \in NodesOf(r) :
    jobs[x[2]].has_input => \A j \in ParentsOf(r, x[1]) : jobs[j].status = "COMPLETED"

\* The jobs of the last recipe are not superseded.
Live == \A x \in NodesOf(Len(recipes)) : ~jobs[x[2]].is_superseded

\* The order of jobs and their parents.
OrderOK == ParentsThere /\ SameParents /\ InputAfterParents

\* A step that adds recipe q, or adds nodes to it.
Grow(q) ==
  /\ q \in RecipeIds'
  /\ \A r \in RecipeIds' : r # q => r \in RecipeIds /\ NodesOf(r)' = NodesOf(r) /\ GraphOf(r)' = GraphOf(r)
  /\ \A j \in JobIds : Kept(jobs[j], jobs'[j])
  /\ \A x \in NodesOf(q)' : Parents(GraphOf(q)', x[1]) \subseteq NodeNames(NodesOf(q)')
  /\ \A x \in NodesOf(q)' : x[2] \in JobIds =>
       \E o \in RecipeIds : \E y \in NodesOf(o) : y[2] = x[2] /\ ParentsOf(o, y[1]) = ParentsOf(q, x[1])'
  /\ \A x \in NodesOf(q)' : jobs'[x[2]].has_input =>
       \/ x[2] \in JobIds /\ jobs[x[2]].has_input
       \/ \A j \in ParentsOf(q, x[1])' : jobs'[j].status = "COMPLETED"
  /\ \A j \in JobIds : jobs'[j].has_input =>
       \/ jobs[j].has_input
       \/ \E x \in NodesOf(q)' : x[2] = j

\* The parents depend on the nodes and the definition of the recipe.
LEMMA ParentsOfUnchanged ==
  ASSUME NEW r, NodesOf(r)' = NodesOf(r), GraphOf(r)' = GraphOf(r), NEW n
  PROVE  ParentsOf(r, n)' = ParentsOf(r, n)
BY DEF ParentsOf

\* The jobs of parents exist.
LEMMA ParentsAreJobs ==
  ASSUME TablesOK, NodesOK, NEW r \in RecipeIds, NEW n
  PROVE  ParentsOf(r, n) \subseteq JobIds
<1>1. JobsOf(NodesOf(r)) \subseteq JobIds
  BY Zenon, RecipeJobs
<1> QED
  BY Zenon, <1>1 DEF ParentsOf, ParentJobs, JobsOf

\* The order is kept when a recipe grows.
LEMMA GrowKeepsOrder ==
  ASSUME Base, Base', OrderOK, NEW q, Grow(q)
  PROVE  OrderOK'
<1>1. /\ \A r \in RecipeIds : IsNodes(NodesOf(r)) /\ JobsOf(NodesOf(r)) \subseteq JobIds
      /\ \A r \in RecipeIds : \A n : ParentsOf(r, n) \subseteq JobIds
  BY Zenon, RecipeJobs, ParentsAreJobs DEF Base
<1>2. \A r \in RecipeIds' : IsNodes(NodesOf(r)')
  <2> SUFFICES ASSUME NEW r \in RecipeIds' PROVE IsNodes(NodesOf(r)')
    OBVIOUS
  <2>1. NodesFit(NodesOf(r)', GraphOf(r)', job_types')
    BY DEF Base, NodesOK
  <2> QED
    BY Zenon, <2>1, FittingNodes
<1>3. ASSUME NEW r \in RecipeIds', r # q, NEW x \in NodesOf(r)'
      PROVE  r \in RecipeIds /\ x \in NodesOf(r) /\ x[2] \in JobIds /\ ParentsOf(r, x[1])' = ParentsOf(r, x[1])
  <2>1. r \in RecipeIds /\ NodesOf(r)' = NodesOf(r) /\ GraphOf(r)' = GraphOf(r)
    BY Zenon, <1>3 DEF Grow
  <2>2. x[2] \in JobIds
    BY Zenon, <2>1, <1>1 DEF JobsOf
  <2>3. ParentsOf(r, x[1])' = ParentsOf(r, x[1])
    BY Zenon, <2>1, ParentsOfUnchanged
  <2> QED
    BY Zenon, <2>1, <2>2, <2>3
<1>4. ASSUME NEW r \in RecipeIds', NEW x \in NodesOf(r)', x[2] \in JobIds
      PROVE  \E o \in RecipeIds : \E y \in NodesOf(o) : y[2] = x[2] /\ ParentsOf(o, y[1]) = ParentsOf(r, x[1])'
  <2>1. CASE r # q
    BY Zenon, <2>1, <1>3
  <2>2. CASE r = q
    BY Zenon, <2>2, <1>4 DEF Grow
  <2> QED
    BY Zenon, <2>1, <2>2
<1>5. ParentsThere'
  <2> SUFFICES ASSUME NEW r \in RecipeIds', NEW x \in NodesOf(r)'
               PROVE  Parents(GraphOf(r)', x[1]) \subseteq NodeNames(NodesOf(r)')
    BY DEF ParentsThere
  <2>1. CASE r # q
    <3>1. r \in RecipeIds /\ NodesOf(r)' = NodesOf(r) /\ GraphOf(r)' = GraphOf(r)
      BY <2>1 DEF Grow
    <3> QED
      BY Zenon, <3>1 DEF OrderOK, ParentsThere
  <2>2. CASE r = q
    BY Zenon, <2>2 DEF Grow
  <2> QED
    BY Zenon, <2>1, <2>2
<1>6. SameParents'
  <2> SUFFICES ASSUME NEW r \in RecipeIds', NEW s \in RecipeIds', NEW x \in NodesOf(r)', NEW y \in NodesOf(s)',
                      x[2] = y[2]
               PROVE  ParentsOf(r, x[1])' = ParentsOf(s, y[1])'
    BY DEF SameParents
  <2>1. CASE x[2] \in JobIds
    <3>1. PICK o \in RecipeIds : \E z \in NodesOf(o) : z[2] = x[2] /\ ParentsOf(o, z[1]) = ParentsOf(r, x[1])'
      BY Zenon, <1>4, <2>1
    <3>2. PICK z \in NodesOf(o) : z[2] = x[2] /\ ParentsOf(o, z[1]) = ParentsOf(r, x[1])'
      BY Zenon, <3>1
    <3>3. y[2] \in JobIds
      BY Zenon, <2>1
    <3>4. PICK p \in RecipeIds : \E w \in NodesOf(p) : w[2] = y[2] /\ ParentsOf(p, w[1]) = ParentsOf(s, y[1])'
      BY Zenon, <1>4, <3>3
    <3>5. PICK w \in NodesOf(p) : w[2] = y[2] /\ ParentsOf(p, w[1]) = ParentsOf(s, y[1])'
      BY Zenon, <3>4
    <3>6. ParentsOf(o, z[1]) = ParentsOf(p, w[1])
      BY <3>2, <3>5 DEF OrderOK, SameParents
    <3> QED
      BY ZenonT(30), <3>2, <3>5, <3>6
  <2>2. CASE x[2] \notin JobIds
    <3>1. r = q /\ s = q
      BY Zenon, <2>2, <1>3
    <3>2. x = y
      BY Zenon, <3>1, <1>2 DEF IsNodes
    <3> QED
      BY Zenon, <3>1, <3>2
  <2> QED
    BY Zenon, <2>1, <2>2
<1>7. InputAfterParents'
  <2> SUFFICES ASSUME NEW r \in RecipeIds', NEW x \in NodesOf(r)', jobs'[x[2]].has_input
               PROVE  \A j \in ParentsOf(r, x[1])' : jobs'[j].status = "COMPLETED"
    BY DEF InputAfterParents
  <2>1. CASE x[2] \in JobIds /\ jobs[x[2]].has_input
    <3>1. PICK o \in RecipeIds : \E z \in NodesOf(o) : z[2] = x[2] /\ ParentsOf(o, z[1]) = ParentsOf(r, x[1])'
      BY Zenon, <1>4, <2>1
    <3>2. PICK z \in NodesOf(o) : z[2] = x[2] /\ ParentsOf(o, z[1]) = ParentsOf(r, x[1])'
      BY Zenon, <3>1
    <3>3. \A j \in ParentsOf(o, z[1]) : j \in JobIds /\ jobs[j].status = "COMPLETED"
      BY ZenonT(30), <3>2, <2>1, <1>1 DEF OrderOK, InputAfterParents
    <3>4. \A j \in JobIds : Kept(jobs[j], jobs'[j])
      BY DEF Grow
    <3> QED
      BY ZenonT(30), <3>2, <3>3, <3>4 DEF Kept
  <2>2. CASE ~(x[2] \in JobIds /\ jobs[x[2]].has_input)
    <3>1. \E z \in NodesOf(q)' : z[2] = x[2]
      <4>1. CASE r = q
        BY Zenon, <4>1
      <4>2. CASE r # q
        <5>1. x[2] \in JobIds
          BY Zenon, <4>2, <1>3
        <5> QED
          BY Zenon, <5>1, <2>2 DEF Grow
      <4> QED
        BY Zenon, <4>1, <4>2
    <3>2. PICK z \in NodesOf(q)' : z[2] = x[2]
      BY Zenon, <3>1
    <3>3. \A j \in ParentsOf(q, z[1])' : jobs'[j].status = "COMPLETED"
      BY ZenonT(30), <3>2, <2>2 DEF Grow
    <3>4. ParentsOf(q, z[1])' = ParentsOf(r, x[1])'
      <4>1. q \in RecipeIds'
        BY Zenon DEF Grow
      <4> QED
        BY ZenonT(30), <4>1, <1>6, <3>2 DEF SameParents
    <3> QED
      BY Zenon, <3>3, <3>4
  <2> QED
    BY Zenon, <2>1, <2>2
<1> QED
  BY Zenon, <1>5, <1>6, <1>7 DEF OrderOK

\* UpdateRecipes lets its recipe grow.
LEMMA UpdateGrows ==
  ASSUME Base, Base', OrderOK, NEW m \in msgs, NEW ack \in BOOLEAN, m.type = "update_recipes", UpdateRecipes(m, ack)
  PROVE  Grow(m.id)
<1> DEFINE r == m.id
<1> DEFINE g == GraphOf(r)
<1> DEFINE nodes == recipes'[r].nodes
<1>0. now \in 0..MaxClock
  BY Zenon, ClockFacts DEF Base, OthersOK
<1>1. /\ r \in RecipeIds
      /\ recipes' \in Seq(RecipeRows) /\ Len(recipes') = Len(recipes)
      /\ \A s \in RecipeIds : s # r => recipes'[s] = recipes[s]
      /\ recipes'[r].rev = recipes[r].rev
  BY ZenonT(30), <1>0, UpdateFacts
<1>2. /\ NodesOf(r) \subseteq nodes /\ NodeNames(nodes) = Names(g)
      /\ \A x \in nodes \ NodesOf(r) : x[1] \notin NodeNames(NodesOf(r)) /\ x[2] \notin JobIds
      /\ NodesFit(nodes, g, job_types')
  BY <1>0, UpdateFacts, Zenon
<1>3. \A j \in JobIds : InputStep(jobs[j], jobs'[j])
  BY <1>0, UpdateFacts, Zenon
<1>4. \A j \in JobIds \ JobsOf(nodes) : jobs'[j] = jobs[j]
  BY <1>0, UpdateFacts, Zenon
<1>5. \A x \in nodes : jobs'[x[2]].has_input <=> \/ x[2] \in JobIds /\ jobs[x[2]].has_input
                                                 \/ ParentsCompleted(g, nodes, jobs', x[1])
  BY <1>0, UpdateFacts, Zenon
<1>6. scenario' = scenario
  BY Zenon DEF UpdateRecipes
<1>7. NodesOf(r)' = nodes /\ GraphOf(r)' = g
  BY Zenon, <1>1, <1>6 DEF NodesOf, GraphOf, Graph
<1>8. RecipeIds' = RecipeIds
  <2>1. RecipeIds = 1..Len(recipes) /\ RecipeIds' = 1..Len(recipes')
    BY Ids, <1>1 DEF Base, TablesOK, RecipeIds
  <2> QED
    BY ZenonT(30), <2>1, <1>1
<1>9. \A x \in nodes : Parents(g, x[1]) \subseteq NodeNames(nodes)
  <2>1. recipes[r].rev \in 1..2 /\ scenario \in Scenarios
    BY Zenon, <1>1, Ids DEF Base, TablesOK, RecipeRows
  <2>2. \A n \in Names(g) : Parents(g, n) \subseteq Names(g)
    BY Zenon, <2>1, GraphFacts DEF GraphOf
  <2> QED
    BY Zenon, <2>2, <1>2 DEF NodeNames
<1>10. IsNodes(nodes)
  BY Zenon, <1>2, FittingNodes
<1> HIDE DEF nodes, g
<1>11. ASSUME NEW x \in nodes, x[2] \in JobIds
       PROVE  x \in NodesOf(r) /\ ParentsOf(r, x[1]) = ParentsOf(r, x[1])'
  <2>1. x \in NodesOf(r)
    BY Zenon, <1>2, <1>11
  <2>2. ParentsOf(r, x[1]) = {z[2] : z \in {y \in NodesOf(r) : y[1] \in Parents(g, x[1])}}
    BY Zenon DEF ParentsOf, ParentJobs, g
  <2>3. ParentsOf(r, x[1])' = {z[2] : z \in {y \in nodes : y[1] \in Parents(g, x[1])}}
    BY Zenon, <1>7 DEF ParentsOf, ParentJobs
  <2>4. Parents(g, x[1]) \subseteq NodeNames(NodesOf(r))
    BY Zenon, <2>1, <1>1 DEF OrderOK, ParentsThere, g
  <2>5. \A y \in nodes : y[1] \in Parents(g, x[1]) => y \in NodesOf(r)
    BY ZenonT(30), <2>4, <1>2
  <2>6. {y \in nodes : y[1] \in Parents(g, x[1])} = {y \in NodesOf(r) : y[1] \in Parents(g, x[1])}
    BY ZenonT(30), <2>5, <1>2
  <2> QED
    BY ZenonT(30), <2>1, <2>2, <2>3, <2>6
<1>12. \A x \in nodes : ParentsCompleted(g, nodes, jobs', x[1])
                          => \A j \in ParentsOf(r, x[1])' : jobs'[j].status = "COMPLETED"
  <2> SUFFICES ASSUME NEW x \in nodes, ParentsCompleted(g, nodes, jobs', x[1])
               PROVE  \A j \in ParentsOf(r, x[1])' : jobs'[j].status = "COMPLETED"
    OBVIOUS
  <2>1. ParentsOf(r, x[1])' = ParentJobs(nodes, g, x[1])
    BY Zenon, <1>7 DEF ParentsOf
  <2>2. \A j \in ParentJobs(nodes, g, x[1]) : jobs'[j].status = "COMPLETED"
    BY <1>9, <1>10, ParentJobsFacts
  <2> QED
    BY ZenonT(30), <2>1, <2>2
<1>13. \A s \in RecipeIds' : s # r => s \in RecipeIds /\ NodesOf(s)' = NodesOf(s) /\ GraphOf(s)' = GraphOf(s)
  BY ZenonT(30), <1>1, <1>6, <1>8 DEF NodesOf, GraphOf, Graph
<1>14. \A j \in JobIds : Kept(jobs[j], jobs'[j])
  BY Zenon, <1>3 DEF InputStep
<1>15. \A x \in nodes : x[2] \in JobIds =>
         \E o \in RecipeIds : \E y \in NodesOf(o) : y[2] = x[2] /\ ParentsOf(o, y[1]) = ParentsOf(r, x[1])'
  BY Zenon, <1>1, <1>11
<1>16. \A j \in JobIds : jobs'[j].has_input => jobs[j].has_input \/ \E x \in nodes : x[2] = j
  BY Zenon, <1>4 DEF JobsOf
<1>17. \A x \in nodes : jobs'[x[2]].has_input =>
         \/ x[2] \in JobIds /\ jobs[x[2]].has_input
         \/ \A j \in ParentsOf(r, x[1])' : jobs'[j].status = "COMPLETED"
  BY Zenon, <1>5, <1>12
<1>18. r \in RecipeIds'
  BY Zenon, <1>1, <1>8
<1> QED
  BY ZenonT(30), <1>7, <1>9, <1>13, <1>14, <1>15, <1>16, <1>17, <1>18 DEF Grow

\* A recipe is added, and the others keep their nodes.
LEMMA NewRecipeFacts ==
  ASSUME Base, NEW rev, NEW event, NEW nodes, NewRecipe(rev, event, nodes), NEW q, q = Len(recipes) + 1
  PROVE  /\ q \in RecipeIds' /\ q \notin RecipeIds /\ NodesOf(q)' = nodes /\ GraphOf(q)' = Graph(rev)
         /\ RecipeIds' = RecipeIds \cup {q} /\ q = Len(recipes')
         /\ \A r \in RecipeIds' : r # q => r \in RecipeIds /\ NodesOf(r)' = NodesOf(r) /\ GraphOf(r)' = GraphOf(r)
         /\ \A j \in JobIds : Kept(jobs[j], jobs'[j])
         /\ IsNodes(nodes)
<1>1. RecipeIds' = RecipeIds \cup {q}
  BY Zenon, NewRecipeKeepsTables
<1>2. RecipeIds = 1..Len(recipes) /\ Len(recipes) \in Nat
  BY Zenon, Ids DEF Base
<1>3. recipes'[q] = create_recipe(rev, event, Len(recipes), nodes) /\ scenario' = scenario /\ Len(recipes') = q
  BY Zenon DEF NewRecipe
<1>4. NodesOf(q)' = nodes /\ GraphOf(q)' = Graph(rev)
  BY <1>3 DEF NodesOf, GraphOf, Graph, create_recipe
<1>5. \A r \in RecipeIds : NodesOf(r)' = NodesOf(r) /\ GraphOf(r)' = GraphOf(r)
  BY Zenon DEF NewRecipe, NodesOf, GraphOf, Graph
<1>6. (\A j \in JobIds : Kept(jobs[j], jobs'[j])) /\ IsNodes(nodes)
  BY ZenonT(30), FittingNodes DEF NewRecipe
<1>7. q \notin RecipeIds
  BY <1>2
<1> QED
  BY ZenonT(30), <1>1, <1>3, <1>4, <1>5, <1>6, <1>7

\* The revisions of the scenario are as the assumption says.
LEMMA RevisionFacts ==
  ASSUME TablesOK, NEW r \in RecipeIds
  PROVE  /\ scenario \in Scenarios /\ recipes[r].rev \in 1..2 /\ CurrentRev \in 1..2
         /\ \A rev \in 1..2 : /\ IsFiniteSet(Names(Graph(rev)))
                              /\ \A n \in Names(Graph(rev)) : Parents(Graph(rev), n) \subseteq Names(Graph(rev))
         /\ Delta(recipes[r].rev) = RecipeGraphDelta(GraphOf(r), Graph(CurrentRev), scenario.names)
<1>1. scenario \in Scenarios /\ recipes[r].rev \in 1..2
  BY Zenon, Ids DEF TablesOK, RecipeRows
<1>2. \A rev \in 1..2 : /\ IsFiniteSet(Names(Graph(rev)))
                        /\ \A n \in Names(Graph(rev)) : Parents(Graph(rev), n) \subseteq Names(Graph(rev))
  BY ZenonT(30), <1>1, GraphFacts
<1> QED
  BY <1>1, <1>2 DEF Delta, DeltaIn, GraphOf, Graph, CurrentRev

\* The recipe that ReprocessRecipes creates grows from nothing.
LEMMA ReprocessGrows ==
  ASSUME BatchesKeepNames, Base, OrderOK, Reprocesses, NEW q, q = Len(recipes) + 1
  PROVE  Grow(q)
<1>1. PICK m \in msgs, ack \in BOOLEAN, r \in RecipeIds : m.type = "reprocess_recipes" /\ ReprocessNew(m, r, ack)
  BY DEF Reprocesses
<1>2. PICK d \in Delta(recipes[r].rev) :
        /\ NewRecipe(recipes[r].rev, m.id, {x \in NodesOf(r) : x[1] \in DOMAIN d.identical})
        /\ \A j \in JobIds : jobs'[j].has_input = jobs[j].has_input
        /\ Len(jobs') = Len(jobs)
  BY ZenonT(30), <1>1, ReprocessNewFacts
<1> DEFINE nodes == {x \in NodesOf(r) : x[1] \in DOMAIN d.identical}
<1> DEFINE a == GraphOf(r)
<1> DEFINE b == Graph(CurrentRev)
<1>3. /\ q \in RecipeIds' /\ NodesOf(q)' = nodes /\ GraphOf(q)' = a
      /\ \A s \in RecipeIds' : s # q => s \in RecipeIds /\ NodesOf(s)' = NodesOf(s) /\ GraphOf(s)' = GraphOf(s)
      /\ \A j \in JobIds : Kept(jobs[j], jobs'[j])
  <2> DEFINE rev == recipes[r].rev
  <2> HIDE DEF rev, nodes
  <2>1. NewRecipe(rev, m.id, nodes)
    BY Zenon, <1>2 DEF rev, nodes
  <2> QED
    BY ZenonT(30), <2>1, NewRecipeFacts DEF GraphOf, rev
<1>4. /\ scenario \in Scenarios /\ recipes[r].rev \in 1..2 /\ IsFiniteSet(Names(b))
      /\ d \in RecipeGraphDelta(a, b, scenario.names)
  BY ZenonT(30), <1>1, <1>2, RevisionFacts DEF Base
<1>5. scenario.events # {}
  BY Zenon, <1>1 DEF Base, MessagesOK, MessageOK
<1>6. \A n \in DOMAIN d.identical : d.identical[n] = n
  BY ZenonT(30), <1>2, <1>4, <1>5, BatchDelta
<1>7. ParentsMatch(a, b, d.identical)
  <2> HIDE DEF a, b
  <2> QED
    BY ZenonT(30), <1>4, DeltaFacts
<1>8. \A n \in DOMAIN d.identical : Parents(a, n) \subseteq DOMAIN d.identical
  <2> HIDE DEF a, b
  <2>1. \A n \in DOMAIN d.identical : \A p \in Parents(a, n) :
          \E o \in Parents(b, n) : o \in DOMAIN d.identical /\ p = d.identical[o]
    BY ZenonT(30), <1>6, <1>7 DEF ParentsMatch
  <2>2. ASSUME NEW n \in DOMAIN d.identical, NEW p \in Parents(a, n) PROVE p \in DOMAIN d.identical
    <3>1. PICK o \in Parents(b, n) : o \in DOMAIN d.identical /\ p = d.identical[o]
      BY Zenon, <2>1
    <3>2. d.identical[o] = o
      BY Zenon, <1>6, <3>1
    <3> QED
      BY Zenon, <3>1, <3>2
  <2> QED
    BY Zenon, <2>2
<1>9. \A x \in nodes : Parents(a, x[1]) \subseteq NodeNames(NodesOf(r)) /\ Parents(a, x[1]) \subseteq DOMAIN d.identical
  BY <1>8 DEF OrderOK, ParentsThere
<1>10. \A x \in nodes : Parents(a, x[1]) \subseteq NodeNames(nodes)
  BY ZenonT(30), <1>9 DEF NodeNames
<1>11. ASSUME NEW x \in nodes
       PROVE  ParentsOf(r, x[1]) = ParentsOf(q, x[1])'
  <2>1. ParentsOf(r, x[1]) = {z[2] : z \in {y \in NodesOf(r) : y[1] \in Parents(a, x[1])}}
    BY Zenon DEF ParentsOf, ParentJobs
  <2>2. ParentsOf(q, x[1])' = {z[2] : z \in {y \in nodes : y[1] \in Parents(a, x[1])}}
    BY Zenon, <1>3 DEF ParentsOf, ParentJobs
  <2>3. {y \in nodes : y[1] \in Parents(a, x[1])} = {y \in NodesOf(r) : y[1] \in Parents(a, x[1])}
    BY Zenon, <1>9
  <2> QED
    BY Zenon, <2>1, <2>2, <2>3
<1>12. \A x \in nodes : x[2] \in JobIds =>
         \E o \in RecipeIds : \E y \in NodesOf(o) : y[2] = x[2] /\ ParentsOf(o, y[1]) = ParentsOf(q, x[1])'
  BY Zenon, <1>11
<1>13. \A x \in nodes : x[2] \in JobIds
  BY Zenon, RecipeJobs DEF Base, JobsOf
<1> HIDE DEF nodes, a, b
<1> QED
  BY ZenonT(30), <1>2, <1>3, <1>10, <1>12, <1>13 DEF Grow

\* Nodes of b that take over jobs from nodes of a, with the jobs of all their
\* parents.
LEMMA TakenOver ==
  ASSUME NEW a, NEW b, NEW identical, ParentsMatch(a, b, identical),
         NEW old, IsNodes(old), NEW nodes, NEW copied \in SUBSET nodes, NodeNames(copied) = DOMAIN identical,
         \A x \in copied : <<identical[x[1]], x[2]>> \in old,
         \A x \in nodes \ copied : x[1] \notin DOMAIN identical,
         NEW n \in DOMAIN identical
  PROVE  ParentJobs(old, a, identical[n]) = ParentJobs(nodes, b, n)
<1>1. /\ Parents(b, n) \subseteq DOMAIN identical
      /\ \A p : p \in Parents(a, identical[n]) <=> \E o \in Parents(b, n) : p = identical[o]
  BY DEF ParentsMatch
<1>2. ASSUME NEW z \in old, z[1] \in Parents(a, identical[n])
      PROVE  \E w \in nodes : w[1] \in Parents(b, n) /\ w[2] = z[2]
  <2>1. PICK o \in Parents(b, n) : z[1] = identical[o]
    BY ZenonT(30), <1>1, <1>2
  <2>2. o \in NodeNames(copied)
    BY Zenon, <1>1
  <2>3. PICK w \in copied : w[1] = o
    BY Zenon, <2>2 DEF NodeNames
  <2> DEFINE y == <<identical[w[1]], w[2]>>
  <2>4. y \in old /\ y[1] = z[1] /\ y[2] = w[2]
    BY Zenon, <2>1, <2>3
  <2> HIDE DEF y
  <2>5. y = z
    BY Zenon, <2>4 DEF IsNodes
  <2> QED
    BY ZenonT(30), <2>3, <2>4, <2>5
<1>3. ASSUME NEW w \in nodes, w[1] \in Parents(b, n)
      PROVE  \E z \in old : z[1] \in Parents(a, identical[n]) /\ z[2] = w[2]
  <2>1. w[1] \in DOMAIN identical
    BY Zenon, <1>1, <1>3
  <2>2. w \in copied
    BY Zenon, <2>1
  <2> DEFINE y == <<identical[w[1]], w[2]>>
  <2>3. y \in old /\ y[1] = identical[w[1]] /\ y[2] = w[2]
    BY Zenon, <2>2
  <2> HIDE DEF y
  <2>4. identical[w[1]] \in Parents(a, identical[n])
    BY Zenon, <1>1, <1>3
  <2> QED
    BY Zenon, <2>3, <2>4
<1>4. \A j : j \in ParentJobs(old, a, identical[n]) <=> \E z \in old : z[1] \in Parents(a, identical[n]) /\ z[2] = j
  BY Zenon DEF ParentJobs
<1>5. \A j : j \in ParentJobs(nodes, b, n) <=> \E w \in nodes : w[1] \in Parents(b, n) /\ w[2] = j
  BY Zenon DEF ParentJobs
<1>6. \A j : j \in ParentJobs(old, a, identical[n]) <=> j \in ParentJobs(nodes, b, n)
  BY ZenonT(30), <1>2, <1>3, <1>4, <1>5
<1> QED
  BY ZenonT(30), <1>6

\* So does that of queue_new_recipe.
LEMMA RequestGrows ==
  ASSUME Base, Base', OrderOK, Requests, NEW q, q = Len(recipes) + 1
  PROVE  Grow(q)
<1>1. PICK s \in started : /\ s.type = "request"
                           /\ \E d \in Delta(recipes[s.recipe].rev) : queue_new_recipe(s, d)
                           /\ scenario' = scenario
  BY Zenon DEF Requests
<1>2. PICK d \in Delta(recipes[s.recipe].rev) : queue_new_recipe(s, d)
  BY Zenon, <1>1
<1> DEFINE r == s.recipe
<1> DEFINE a == GraphOf(r)
<1> DEFINE b == Graph(CurrentRev)
<1> DEFINE nodes == recipes'[q].nodes
<1> DEFINE copied == Copied(d, NodesOf(r))
<1>3. /\ r = Len(recipes) /\ r \in RecipeIds
      /\ NewRecipe(CurrentRev, 0, nodes)
      /\ copied \subseteq nodes /\ NodeNames(nodes) = Names(b) /\ NodeNames(copied) = DOMAIN d.identical
      /\ \A x \in copied : <<d.identical[x[1]], x[2]>> \in NodesOf(r)
      /\ \A x \in nodes \ copied : x[1] \notin DOMAIN d.identical /\ x[2] \notin JobIds
  BY ZenonT(30), <1>1, <1>2, RequestFacts
<1>4. \A j \in JobIds' : jobs'[j].has_input =>
        \/ j \in JobIds /\ jobs[j].has_input
        \/ \E x \in nodes : x[2] = j /\ ParentsCompleted(b, nodes, jobs', x[1])
  BY ZenonT(30), <1>1, <1>2, RequestFacts
<1> HIDE DEF nodes, copied
<1>5. /\ q \in RecipeIds' /\ NodesOf(q)' = nodes /\ GraphOf(q)' = b
      /\ \A t \in RecipeIds' : t # q => t \in RecipeIds /\ NodesOf(t)' = NodesOf(t) /\ GraphOf(t)' = GraphOf(t)
      /\ \A j \in JobIds : Kept(jobs[j], jobs'[j])
      /\ IsNodes(nodes)
  BY ZenonT(30), <1>3, NewRecipeFacts
<1>6. /\ IsFiniteSet(Names(b)) /\ \A n \in Names(b) : Parents(b, n) \subseteq Names(b)
  BY ZenonT(30), <1>3, RevisionFacts DEF Base
<1>7. ParentsMatch(a, b, d.identical)
  <2>1. d \in RecipeGraphDelta(a, b, scenario.names)
    BY ZenonT(30), <1>2, <1>3, RevisionFacts DEF Base
  <2> HIDE DEF a, b
  <2> QED
    BY ZenonT(30), <1>6, <2>1, DeltaFacts
<1>8. \A x \in nodes : Parents(b, x[1]) \subseteq NodeNames(nodes)
  BY ZenonT(30), <1>3, <1>6 DEF NodeNames
<1>9. ASSUME NEW x \in nodes, x[2] \in JobIds
      PROVE  \E o \in RecipeIds : \E y \in NodesOf(o) : y[2] = x[2] /\ ParentsOf(o, y[1]) = ParentsOf(q, x[1])'
  <2> DEFINE y == <<d.identical[x[1]], x[2]>>
  <2>1. x \in copied /\ x[1] \in DOMAIN d.identical
    BY ZenonT(30), <1>3, <1>9 DEF NodeNames
  <2>2. y \in NodesOf(r) /\ y[2] = x[2] /\ y[1] = d.identical[x[1]]
    BY ZenonT(30), <1>3, <2>1
  <2>3. ParentJobs(NodesOf(r), a, d.identical[x[1]]) = ParentJobs(nodes, b, x[1])
    <3> DEFINE identical == d.identical
    <3> DEFINE old == NodesOf(r)
    <3>1. IsNodes(old)
      BY ZenonT(30), <1>3, RecipeJobs DEF Base
    <3>2. /\ ParentsMatch(a, b, identical) /\ copied \in SUBSET nodes /\ NodeNames(copied) = DOMAIN identical
          /\ \A z \in copied : <<identical[z[1]], z[2]>> \in old
          /\ \A z \in nodes \ copied : z[1] \notin DOMAIN identical
          /\ x[1] \in DOMAIN identical
      BY ZenonT(30), <1>3, <1>7, <2>1
    <3> HIDE DEF a, b, identical, old
    <3>3. ParentJobs(old, a, identical[x[1]]) = ParentJobs(nodes, b, x[1])
      BY <3>1, <3>2, TakenOver
    <3> QED
      BY Zenon, <3>3 DEF identical, old
  <2>4. ParentsOf(q, x[1])' = ParentJobs(nodes, b, x[1])
    BY Zenon, <1>5 DEF ParentsOf
  <2>5. ParentsOf(r, y[1]) = ParentJobs(NodesOf(r), a, d.identical[x[1]])
    BY Zenon, <2>2 DEF ParentsOf
  <2> HIDE DEF y
  <2> QED
    BY ZenonT(30), <2>2, <2>3, <2>4, <2>5, <1>3
<1>10. ASSUME NEW x \in nodes, jobs'[x[2]].has_input, ~(x[2] \in JobIds /\ jobs[x[2]].has_input)
       PROVE  \A j \in ParentsOf(q, x[1])' : jobs'[j].status = "COMPLETED"
  <2>1. x[2] \in JobIds'
    <3>1. JobsOf(NodesOf(q)') \subseteq JobIds'
      <4>1. NodesFit(NodesOf(q)', GraphOf(q)', job_types')
        BY ZenonT(30), <1>5 DEF Base, NodesOK
      <4>2. JobIds' = 1..Len(job_types')
        BY <1>3 DEF NewRecipe, JobIds
      <4> QED
        BY ZenonT(30), <4>1, <4>2, FittingNodes
    <3> QED
      BY ZenonT(30), <3>1, <1>5 DEF JobsOf
  <2>2. PICK z \in nodes : z[2] = x[2] /\ ParentsCompleted(b, nodes, jobs', z[1])
    BY ZenonT(30), <1>4, <1>10, <2>1
  <2>3. z = x
    BY ZenonT(30), <2>2, <1>5 DEF IsNodes
  <2>4. \A j \in ParentJobs(nodes, b, x[1]) : jobs'[j].status = "COMPLETED"
    BY <2>2, <2>3, <1>5, <1>8, ParentJobsFacts
  <2>5. ParentsOf(q, x[1])' = ParentJobs(nodes, b, x[1])
    BY ZenonT(30), <1>5 DEF ParentsOf
  <2> QED
    BY ZenonT(30), <2>4, <2>5
<1>11. \A j \in JobIds : jobs'[j].has_input => jobs[j].has_input \/ \E x \in nodes : x[2] = j
  <2>1. JobIds \subseteq JobIds'
    BY ZenonT(30), <1>3, NewRecipeKeepsTables
  <2> QED
    BY ZenonT(30), <2>1, <1>4
<1> HIDE DEF b
<1> QED
  BY ZenonT(30), <1>5, <1>8, <1>9, <1>10, <1>11 DEF Grow

-----------------------------------------------------------------------------
(* The jobs of the latest recipe.                                          *)

\* A quiet step gives input only to a job whose parents are completed.
LEMMA QuietKeepsOrder ==
  ASSUME Base, OrderOK, Quiet
  PROVE  OrderOK'
<1>1. RecipeIds' = RecipeIds /\ JobIds' = JobIds
  BY Zenon, QuietKeepsTables DEF Base
<1>2. \A r : NodesOf(r)' = NodesOf(r) /\ GraphOf(r)' = GraphOf(r)
  BY Zenon DEF Quiet, NodesOf, GraphOf, Graph
<1>3. \A r, n : ParentsOf(r, n)' = ParentsOf(r, n)
  BY ZenonT(30), <1>2, ParentsOfUnchanged
<1>4. \A j \in JobIds : Kept(jobs[j], jobs'[j]) /\ jobs'[j].has_input = jobs[j].has_input
  BY Zenon DEF Quiet, RowsStep, RowStep
<1>5. /\ \A r \in RecipeIds : \A x \in NodesOf(r) : x[2] \in JobIds
      /\ \A r \in RecipeIds : \A n : ParentsOf(r, n) \subseteq JobIds
  BY ZenonT(30), RecipeJobs, ParentsAreJobs DEF Base, JobsOf
<1>6. ParentsThere'
  BY ZenonT(30), <1>1, <1>2 DEF OrderOK, ParentsThere
<1>7. SameParents'
  BY <1>1, <1>2, <1>3 DEF OrderOK, SameParents
<1>8. InputAfterParents'
  BY ZenonT(30), <1>1, <1>2, <1>3, <1>4, <1>5 DEF OrderOK, InputAfterParents, Kept
<1> QED
  BY ZenonT(30), <1>6, <1>7, <1>8 DEF OrderOK

\* Both hold of the first recipe.
LEMMA InitOrder ==
  ASSUME Init
  PROVE  OrderOK /\ Live
<1> DEFINE g == Graph(1)
<1> DEFINE nodes == recipes[1].nodes
<1>1. /\ Len(recipes) = 1 /\ recipes[1] = create_recipe(1, 0, 0, nodes) /\ scenario \in Scenarios
      /\ NodeNames(nodes) = Names(g) /\ NodesFit(nodes, g, job_types)
      /\ jobs \in Seq(GoodRows) /\ Len(job_types) = Len(jobs)
      /\ \A j \in JobIds : ~jobs[j].is_superseded
  BY ZenonT(30), InitFacts
<1>2. \A j \in JobIds : jobs[j].has_input =>
        \E n \in Names(g) : j = JobAt(nodes, n) /\ ParentsCompleted(g, nodes, jobs, n)
  BY ZenonT(30), InitFacts
<1>3. RecipeIds = {1}
  BY <1>1, InitBase, Ids DEF Base
<1>4. NodesOf(1) = nodes /\ GraphOf(1) = g
  <2>1. recipes[1].rev = 1
    BY <1>1 DEF create_recipe
  <2> QED
    BY ZenonT(30), <2>1 DEF NodesOf, GraphOf
<1>5. IsNodes(nodes) /\ \A x \in nodes : x[2] \in JobIds
  BY ZenonT(30), <1>3, <1>4, InitBase, RecipeJobs DEF Base, JobsOf
<1>6. \A x \in nodes : x[1] \in Names(g) /\ Parents(g, x[1]) \subseteq NodeNames(nodes)
  BY <1>1, GraphFacts DEF NodeNames
<1>7. ASSUME NEW x \in nodes, jobs[x[2]].has_input
      PROVE  \A j \in ParentJobs(nodes, g, x[1]) : jobs[j].status = "COMPLETED"
  <2>1. PICK n \in Names(g) : x[2] = JobAt(nodes, n) /\ ParentsCompleted(g, nodes, jobs, n)
    BY ZenonT(30), <1>2, <1>5, <1>7
  <2>2. <<n, JobAt(nodes, n)>> \in nodes
    BY ZenonT(30), <1>1, <1>5, JobAtFacts
  <2> DEFINE y == <<n, JobAt(nodes, n)>>
  <2>3. y \in nodes /\ y[1] = n /\ y[2] = x[2]
    BY ZenonT(30), <2>1, <2>2
  <2> HIDE DEF y
  <2>4. x[1] = n
    BY ZenonT(30), <2>3, <1>5 DEF IsNodes
  <2> QED
    BY <2>1, <2>4, <1>5, <1>6, ParentJobsFacts
<1> HIDE DEF nodes, g
<1>8. ParentsThere
  BY ZenonT(30), <1>3, <1>4, <1>6 DEF ParentsThere
<1>9. SameParents
  BY ZenonT(30), <1>3, <1>4, <1>5 DEF SameParents, IsNodes
<1>10. InputAfterParents
  BY ZenonT(30), <1>3, <1>4, <1>7 DEF InputAfterParents, ParentsOf
<1>11. Live
  BY ZenonT(30), <1>1, <1>4, <1>5 DEF Live
<1> QED
  BY ZenonT(30), <1>8, <1>9, <1>10, <1>11 DEF OrderOK

\* Every step keeps the order.
LEMMA OrderStep ==
  ASSUME BatchesKeepNames, Base, OrderOK, [Next]_vars
  PROVE  OrderOK'
<1>1. Base'
  BY Zenon, BaseStep
<1>2. CASE Quiet
  BY Zenon, <1>2, QuietKeepsOrder
<1>3. CASE Updates
  BY ZenonT(30), <1>1, <1>3, UpdateGrows, GrowKeepsOrder DEF Updates
<1>4. CASE Reprocesses
  BY ZenonT(30), <1>1, <1>4, ReprocessGrows, GrowKeepsOrder
<1>5. CASE Requests
  BY ZenonT(30), <1>1, <1>5, RequestGrows, GrowKeepsOrder
<1> QED
  BY ZenonT(30), <1>2, <1>3, <1>4, <1>5, NextCases

\* The jobs of recipes exist, before a step and after it.
LEMMA JobsThere ==
  ASSUME Base, NEW r \in RecipeIds, NEW x \in NodesOf(r)
  PROVE  x[2] \in JobIds
BY Zenon, RecipeJobs DEF Base, JobsOf

\* JobsThere after a step.
LEMMA JobsThereNext ==
  ASSUME Base', NEW r \in RecipeIds', NEW x \in NodesOf(r)'
  PROVE  x[2] \in JobIds'
<1>1. NodesFit(NodesOf(r)', GraphOf(r)', job_types')
  BY DEF Base, NodesOK
<1>2. JobIds' = 1..Len(job_types')
  BY DEF Base, TablesOK, JobIds
<1>3. JobsOf(NodesOf(r)') \subseteq 1..Len(job_types')
  BY ZenonT(30), <1>1, FittingNodes
<1> QED
  BY ZenonT(30), <1>2, <1>3 DEF JobsOf

\* The jobs that UpdateRecipes creates are not superseded.
LEMMA UpdateKeepsLive ==
  ASSUME Base, Base', Live, Updates
  PROVE  Live'
<1>1. PICK m \in msgs, ack \in BOOLEAN : m.type = "update_recipes" /\ UpdateRecipes(m, ack)
  BY DEF Updates
<1>2. now \in 0..MaxClock
  BY Zenon, ClockFacts DEF Base, OthersOK
<1> DEFINE r == m.id
<1> DEFINE nodes == recipes'[r].nodes
<1>3. /\ r \in RecipeIds /\ Len(recipes') = Len(recipes)
      /\ \A s \in RecipeIds : s # r => recipes'[s] = recipes[s]
      /\ \A x \in nodes \ NodesOf(r) : x[2] \notin JobIds
      /\ \A j \in JobIds : InputStep(jobs[j], jobs'[j])
      /\ \A j \in JobIds' \ JobIds : jobs'[j].status = "PENDING" /\ ~jobs'[j].is_superseded
  BY ZenonT(30), <1>1, <1>2, UpdateFacts
<1>4. Len(recipes) \in RecipeIds /\ Len(recipes) \in RecipeIds'
  <2>1. Len(recipes) \in RecipeIds
    BY Ids DEF Base
  <2>2. RecipeIds' = 1..Len(recipes') /\ RecipeIds = 1..Len(recipes)
    BY DEF Base, TablesOK, RecipeIds
  <2> QED
    BY ZenonT(30), <2>1, <2>2, <1>3
<1> SUFFICES ASSUME NEW x \in NodesOf(Len(recipes))'
             PROVE  ~jobs'[x[2]].is_superseded
  BY DEF Live
<1> DEFINE l == Len(recipes)
<1>5. PICK k : k = l
  BY Zenon
<1>6. NodesOf(k)' = NodesOf(Len(recipes))'
  BY ZenonT(30), <1>3, <1>5 DEF NodesOf
<1>7. x \in NodesOf(k)' /\ k \in RecipeIds /\ k \in RecipeIds'
  BY ZenonT(30), <1>4, <1>5, <1>6
<1>8. x[2] \in JobIds'
  BY ZenonT(30), <1>7, JobsThereNext
<1>9. CASE x \in NodesOf(k)
  <2>1. x[2] \in JobIds
    BY ZenonT(30), <1>7, <1>9, JobsThere
  <2>2. ~jobs[x[2]].is_superseded
    BY ZenonT(30), <1>5, <1>9 DEF Live
  <2> QED
    BY ZenonT(30), <2>1, <2>2, <1>3 DEF InputStep
<1>10. CASE x \notin NodesOf(k)
  <2>1. k = r
    BY ZenonT(30), <1>3, <1>7, <1>10 DEF NodesOf
  <2>2. x \in nodes \ NodesOf(r)
    BY ZenonT(30), <2>1, <1>7, <1>10 DEF NodesOf
  <2> QED
    BY ZenonT(30), <2>2, <1>3, <1>8
<1> QED
  BY ZenonT(30), <1>9, <1>10

\* In the difference d the nodes that keep their jobs keep their names: none of
\* their jobs is superseded.
LEMMA CopiedAreNotSuperseded ==
  ASSUME BatchesKeepNames, Base, scenario.events # {}, NEW r \in RecipeIds, NEW d \in Delta(recipes[r].rev),
         NEW x \in NodesOf(r), x[1] \in DOMAIN d.identical
  PROVE  x[2] \notin SupersededJobs(d, NodesOf(r))
<1> DEFINE a == GraphOf(r)
<1> DEFINE b == Graph(CurrentRev)
<1>1. /\ scenario \in Scenarios /\ recipes[r].rev \in 1..2 /\ IsFiniteSet(Names(b))
      /\ d \in RecipeGraphDelta(a, b, scenario.names)
  BY Zenon, RevisionFacts DEF Base
<1>2. \A n \in DOMAIN d.identical : d.identical[n] = n
  BY ZenonT(30), <1>1, BatchDelta
<1>3. \A n \in DOMAIN d.identical : n \notin DOMAIN d.changed /\ d.identical[n] \notin Range(d.changed) \cup d.deleted
  <2> HIDE DEF a, b
  <2> QED
    BY Zenon, <1>1, DeltaFacts
<1>4. x[1] \notin DOMAIN d.changed \cup d.deleted
  BY ZenonT(30), <1>2, <1>3
<1>5. IsNodes(NodesOf(r))
  BY Zenon, RecipeJobs DEF Base
<1> QED
  BY ZenonT(30), <1>4, <1>5 DEF SupersededJobs, IsNodes

\* ReprocessRecipes takes over jobs that it does not supersede.
LEMMA ReprocessKeepsLive ==
  ASSUME BatchesKeepNames, Base, Live, Reprocesses
  PROVE  Live'
<1>1. PICK m \in msgs, ack \in BOOLEAN, r \in RecipeIds : m.type = "reprocess_recipes" /\ ReprocessNew(m, r, ack)
  BY Zenon DEF Reprocesses
<1>2. r = Len(recipes)
  BY ZenonT(30), <1>1, ReprocessNewFacts
<1>3. PICK d \in Delta(recipes[r].rev) :
        /\ NewRecipe(recipes[r].rev, m.id, {x \in NodesOf(r) : x[1] \in DOMAIN d.identical})
        /\ \A j \in JobIds : jobs'[j].is_superseded <=> jobs[j].is_superseded \/ j \in SupersededJobs(d, NodesOf(r))
  BY ZenonT(30), <1>1, ReprocessNewFacts
<1>4. NodesOf(Len(recipes))' = {x \in NodesOf(r) : x[1] \in DOMAIN d.identical}
  <2>1. Len(recipes') = Len(recipes) + 1
    BY ZenonT(30), <1>3 DEF NewRecipe
  <2>2. recipes'[Len(recipes) + 1].nodes = {x \in NodesOf(r) : x[1] \in DOMAIN d.identical}
    BY <1>3 DEF NewRecipe, create_recipe
  <2> QED
    BY ZenonT(30), <2>1, <2>2 DEF NodesOf
<1>5. scenario.events # {}
  BY Zenon, <1>1 DEF Base, MessagesOK, MessageOK
<1>6. ASSUME NEW x \in NodesOf(r), x[1] \in DOMAIN d.identical
      PROVE  ~jobs'[x[2]].is_superseded
  <2>1. x[2] \notin SupersededJobs(d, NodesOf(r))
    BY ZenonT(30), <1>5, <1>6, CopiedAreNotSuperseded
  <2>2. ~jobs[x[2]].is_superseded
    BY ZenonT(30), <1>2 DEF Live
  <2>3. x[2] \in JobIds
    BY ZenonT(30), JobsThere
  <2> QED
    BY ZenonT(30), <1>3, <2>1, <2>2, <2>3
<1> QED
  BY ZenonT(30), <1>4, <1>6 DEF Live

\* queue_new_recipe takes over jobs that it does not supersede.
LEMMA RequestKeepsLive ==
  ASSUME Base, Base', Live, Requests
  PROVE  Live'
<1>1. PICK s \in started : /\ s.type = "request"
                           /\ \E d \in Delta(recipes[s.recipe].rev) : queue_new_recipe(s, d)
                           /\ scenario' = scenario
  BY Zenon DEF Requests
<1>2. PICK d \in Delta(recipes[s.recipe].rev) : queue_new_recipe(s, d)
  BY ZenonT(30), <1>1
<1> DEFINE r == s.recipe
<1> DEFINE nodes == recipes'[Len(recipes) + 1].nodes
<1> DEFINE copied == Copied(d, NodesOf(r))
<1> DEFINE gone == {JobAt(NodesOf(r), n) : n \in Range(d.changed) \cup d.deleted}
<1>3. /\ r = Len(recipes) /\ r \in RecipeIds /\ Names(GraphOf(r)) = NodeNames(NodesOf(r))
      /\ NewRecipe(CurrentRev, 0, nodes)
      /\ NodeNames(copied) = DOMAIN d.identical
      /\ \A x \in copied : <<d.identical[x[1]], x[2]>> \in NodesOf(r)
      /\ \A x \in nodes \ copied : x[1] \notin DOMAIN d.identical /\ x[2] \notin JobIds
  BY ZenonT(30), <1>1, <1>2, RequestFacts
<1>4. /\ \A j \in JobIds : jobs'[j].is_superseded <=> jobs[j].is_superseded \/ j \in gone
      /\ \A j \in JobIds' \ JobIds : ~jobs'[j].is_superseded
  BY ZenonT(30), <1>1, <1>2, RequestFacts
<1>5. Range(d.changed) \cup d.deleted \subseteq Names(GraphOf(r))
      /\ \A n \in DOMAIN d.identical : d.identical[n] \notin Range(d.changed) \cup d.deleted
  <2> DEFINE a == GraphOf(r)
  <2> DEFINE b == Graph(CurrentRev)
  <2>1. IsFiniteSet(Names(b)) /\ d \in RecipeGraphDelta(a, b, scenario.names)
    BY ZenonT(30), <1>2, <1>3, RevisionFacts DEF Base
  <2> HIDE DEF a, b
  <2>2. Range(d.changed) \cup d.deleted \subseteq Names(a)
        /\ \A n \in DOMAIN d.identical : d.identical[n] \notin Range(d.changed) \cup d.deleted
    BY ZenonT(30), <2>1, DeltaFacts
  <2> QED
    BY Zenon, <2>2 DEF a
<1>6. NodesOf(Len(recipes))' = nodes
  BY ZenonT(30), <1>3 DEF NodesOf, NewRecipe
<1>7. \A x \in nodes : x[2] \in JobIds'
  <2>1. Len(recipes') \in RecipeIds'
    BY Ids, <1>3 DEF Base, TablesOK, RecipeIds
  <2>2. PICK k : k = Len(recipes')
    BY Zenon
  <2>3. NodesOf(k)' = nodes
    BY ZenonT(30), <2>2, <1>6 DEF NodesOf
  <2> QED
    BY ZenonT(30), <2>1, <2>2, <2>3, JobsThereNext
<1>8. IsNodes(NodesOf(r))
  BY ZenonT(30), <1>3, RecipeJobs DEF Base
<1> HIDE DEF nodes, copied
<1>9. ASSUME NEW x \in nodes
      PROVE  ~jobs'[x[2]].is_superseded
  <2>1. CASE x \notin copied
    BY ZenonT(30), <2>1, <1>3, <1>4, <1>7
  <2>2. CASE x \in copied
    <3> DEFINE y == <<d.identical[x[1]], x[2]>>
    <3>1. y \in NodesOf(r) /\ y[1] = d.identical[x[1]] /\ y[2] = x[2] /\ x[1] \in DOMAIN d.identical
      BY ZenonT(30), <2>2, <1>3 DEF NodeNames
    <3> HIDE DEF y
    <3>2. y[2] \in JobIds /\ ~jobs[y[2]].is_superseded
      BY ZenonT(30), <3>1, <1>3, JobsThere DEF Live
    <3>3. y[2] \notin gone
      <4> SUFFICES ASSUME NEW n \in Range(d.changed) \cup d.deleted, y[2] = JobAt(NodesOf(r), n)
                   PROVE  FALSE
        BY Zenon
      <4> DEFINE z == <<n, JobAt(NodesOf(r), n)>>
      <4>1. z \in NodesOf(r) /\ z[1] = n /\ z[2] = y[2]
        BY ZenonT(30), <1>3, <1>5, <1>8, JobAtFacts
      <4> HIDE DEF z
      <4>2. y = z
        BY ZenonT(30), <3>1, <4>1, <1>8 DEF IsNodes
      <4> QED
        BY ZenonT(30), <4>1, <4>2, <3>1, <1>5
    <3> HIDE DEF gone
    <3> QED
      BY ZenonT(30), <3>1, <3>2, <3>3, <1>4
  <2> QED
    BY ZenonT(30), <2>1, <2>2
<1> QED
  BY ZenonT(30), <1>6, <1>9 DEF Live

\* Every step keeps the jobs of the last recipe from being superseded.
LEMMA LiveStep ==
  ASSUME BatchesKeepNames, Base, Live, [Next]_vars
  PROVE  Live'
<1>1. Base'
  BY Zenon, BaseStep
<1>2. CASE Quiet
  <2>1. Len(recipes) \in RecipeIds /\ recipes' = recipes
    BY <1>2, Ids DEF Base, Quiet
  <2>2. \A x \in NodesOf(Len(recipes)) : x[2] \in JobIds
    BY ZenonT(30), <2>1, JobsThere
  <2>3. \A j \in JobIds : jobs'[j].is_superseded = jobs[j].is_superseded
    BY Zenon, <1>2 DEF Quiet, RowsStep, RowStep
  <2> QED
    BY ZenonT(30), <2>1, <2>2, <2>3 DEF Live, NodesOf
<1>3. CASE Updates
  BY ZenonT(30), <1>1, <1>3, UpdateKeepsLive
<1>4. CASE Reprocesses
  BY ZenonT(30), <1>4, ReprocessKeepsLive
<1>5. CASE Requests
  BY Zenon, <1>1, <1>5, RequestKeepsLive
<1> QED
  BY Zenon, <1>2, <1>3, <1>4, <1>5, NextCases

\* The invariant.
OrderInv == Base /\ OrderOK /\ Live

\* Recipes that share a job agree on the jobs of its parents, and the last recipe has
\* no superseded job, where batches keep the names of nodes.
THEOREM OrderInvariant ==
  BatchesKeepNames => (Spec => []OrderInv)
<1> SUFFICES ASSUME BatchesKeepNames PROVE Spec => []OrderInv
  OBVIOUS
<1>1. Init => OrderInv
  BY ZenonT(30), InitBase, InitOrder DEF OrderInv
<1>2. OrderInv /\ [Next]_vars => OrderInv'
  BY ZenonT(30), BaseStep, OrderStep, LiveStep DEF OrderInv
<1> QED
  BY <1>1, <1>2, PTL DEF Spec

\* Jobs that the latest recipe has taken over are never superseded, whoever reprocesses
\* the recipe at the same time, where batches keep the names of nodes.
THEOREM LatestRecipeIsLive ==
  BatchesKeepNames => (Spec => []LatestIsLive)
<1> SUFFICES ASSUME BatchesKeepNames PROVE Spec => []LatestIsLive
  OBVIOUS
<1>1. OrderInv => LatestIsLive
  BY Zenon, LastIsLatest DEF OrderInv, Base, Live, LatestIsLive, NodesOf
<1>2. Spec => []OrderInv
  BY ZenonT(30), OrderInvariant
<1> QED
  BY <1>1, <1>2, PTL

\* No job gets its input (and can be queued) before the jobs of its parents have completed,
\* in any recipe that it is part of, where batches keep the names of nodes.
THEOREM ParentsCompleteFirst ==
  BatchesKeepNames => (Spec => []ParentsFirst)
<1> SUFFICES ASSUME BatchesKeepNames PROVE Spec => []ParentsFirst
  OBVIOUS
<1>1. OrderInv => ParentsFirst
  <2> SUFFICES ASSUME OrderInv, NEW r \in RecipeIds, NEW x \in NodesOf(r), NEW y \in NodesOf(r),
                      has_been_queued(jobs[x[2]]), y[1] \in Parents(GraphOf(r), x[1])
               PROVE  jobs[y[2]].status = "COMPLETED"
    BY Zenon DEF ParentsFirst, NodesOf, GraphOf
  <2>1. x[2] \in JobIds /\ jobs[x[2]] \in GoodRows
    BY ZenonT(30), JobsThere, Ids DEF OrderInv, Base
  <2>2. jobs[x[2]].has_input
    BY Zenon, <2>1 DEF GoodRows, has_been_queued
  <2>3. y[2] \in ParentsOf(r, x[1])
    BY Zenon DEF ParentsOf, ParentJobs
  <2> QED
    BY ZenonT(30), <2>2, <2>3 DEF OrderInv, OrderOK, InputAfterParents
<1>2. Spec => []OrderInv
  BY OrderInvariant
<1> QED
  BY <1>1, <1>2, PTL

-----------------------------------------------------------------------------
(* Nothing is forgotten.                                                   *)

\* An update of recipe r is to come: a message about it is on its way, or the message
\* that created it and will be executed again.
Told(r) ==
  \E m \in msgs : \/ m.type \in RecipeMessages /\ m.id = r
                  \/ m.type = "reprocess_recipes" /\ r \in RecipeIds /\ recipes[r].event = m.id

\* One of these messages is about recipe r.
Tells(new, r) == \E o \in new : o.type \in RecipeMessages /\ o.id = r

\* The recipes of job j are still to be told of it: the message that ended or canceled it
\* is executed again.
Reporting(j) == \E m \in msgs : m.type = "from_jobs" /\ m.id = j

\* Job j may be canceled again: the recipe of an event has replaced it.
Replaced(j) ==
  \E r \in RecipeIds : /\ recipes[r].event # 0
                       /\ \E d \in Delta(recipes[r].rev) : j \in SupersededJobs(d, NodesOf(r - 1))

\* A message to cancel the job is on its way.
Canceling(j) == \E m \in msgs : m.type = "cancel_jobs" /\ m.id = j

\* Messages to recipes tell them.
LEMMA MsgsTell ==
  ASSUME NEW type \in RecipeMessages, NEW ids, NEW r \in ids
  PROVE  Tells(Msgs(type, ids, 0), r)
<1>1. Msg(type, r, 0) \in Msgs(type, ids, 0)
  BY Zenon DEF Msgs
<1>2. Msg(type, r, 0).type = type /\ Msg(type, r, 0).id = r
  BY DEF Msg
<1> QED
  BY Zenon, <1>1, <1>2 DEF Tells

\* A step of messages that does not lose what recipes and jobs are to be told.
CalmMessages ==
  /\ \A r : Told(r) => Told(r)'
  /\ \A j : Reporting(j) => Reporting(j)' \/ \A r \in get_latest_recipe_ids_for_jobs(j) : Told(r)'
  /\ \A m \in msgs' : m.type = "cancel_jobs" => Canceling(m.id) \/ Replaced(m.id)
  /\ \A m \in msgs : m.type = "process_job_input" => m \in msgs' \/ ~can_be_queued(jobs'[m.id])

\* Jobs that complete are reported, and only messages cancel jobs.
CalmRows ==
  \A j \in JobIds :
    /\ jobs'[j].status = "COMPLETED" => \/ jobs[j].status = "COMPLETED" \/ j \in overtaken' \/ Reporting(j)'
                                        \/ \A r \in get_latest_recipe_ids_for_jobs(j) : Told(r)'
    /\ jobs'[j].status = "CANCELED" => jobs[j].status = "CANCELED" \/ Canceling(j)

\* A calm step.
Calm == Quiet /\ CalmMessages /\ CalmRows /\ overtaken \subseteq overtaken'

\* Executing a message is calm if its work is done or is handed on.
LEMMA CalmMessage ==
  ASSUME NEW m \in msgs, NEW new, NEW ack \in BOOLEAN, Executed(m, new, ack), recipes' = recipes,
         m.type # "update_recipes",
         m.type = "process_recipe_input" => Tells(new, m.id),
         m.type = "reprocess_recipes" => \A r \in RecipeIds : recipes[r].event = m.id => Tells(new, r),
         m.type = "from_jobs" => \A r \in get_latest_recipe_ids_for_jobs(m.id) : Tells(new, r),
         m.type = "process_job_input" => ~can_be_queued(jobs'[m.id]),
         \A o \in new : o.type = "cancel_jobs" => Replaced(o.id)
  PROVE  CalmMessages
<1>1. /\ msgs' \subseteq msgs \cup new
      /\ \A o \in msgs : o \in msgs' \/ (o = m /\ new \subseteq msgs')
  BY ZenonT(30) DEF Executed
<1>2. RecipeIds' = RecipeIds /\ \A r : recipes'[r].event = recipes[r].event
  BY Zenon DEF RecipeIds
<1>3. ASSUME NEW r, Tells(new, r), new \subseteq msgs' PROVE Told(r)'
  BY ZenonT(30), <1>3 DEF Told, Tells
<1>4. ASSUME NEW r, Told(r) PROVE Told(r)'
  <2>1. PICK o \in msgs : \/ o.type \in RecipeMessages /\ o.id = r
                          \/ o.type = "reprocess_recipes" /\ r \in RecipeIds /\ recipes[r].event = o.id
    BY Zenon, <1>4 DEF Told
  <2>2. CASE o \in msgs'
    BY ZenonT(30), <2>1, <2>2, <1>2 DEF Told
  <2>3. CASE o = m /\ new \subseteq msgs'
    <3>1. Tells(new, r)
      BY ZenonT(30), <2>1, <2>3 DEF RecipeMessages
    <3> QED
      BY ZenonT(30), <3>1, <2>3, <1>3
  <2> QED
    BY Zenon, <2>2, <2>3, <1>1
<1>5. ASSUME NEW j, Reporting(j)
      PROVE  Reporting(j)' \/ \A r \in get_latest_recipe_ids_for_jobs(j) : Told(r)'
  <2>1. PICK o \in msgs : o.type = "from_jobs" /\ o.id = j
    BY Zenon, <1>5 DEF Reporting
  <2>2. CASE o \in msgs'
    BY ZenonT(30), <2>1, <2>2 DEF Reporting
  <2>3. CASE o = m /\ new \subseteq msgs'
    BY ZenonT(30), <2>1, <2>3, <1>3
  <2> QED
    BY Zenon, <2>2, <2>3, <1>1
<1>6. \A o \in msgs' : o.type = "cancel_jobs" => Canceling(o.id) \/ Replaced(o.id)
  BY Zenon, <1>1 DEF Canceling
<1>7. \A o \in msgs : o.type = "process_job_input" => o \in msgs' \/ ~can_be_queued(jobs'[o.id])
  BY Zenon, <1>1
<1> QED
  BY ZenonT(30), <1>4, <1>5, <1>6, <1>7 DEF CalmMessages

\* New messages are calm.
LEMMA CalmAddition ==
  ASSUME NEW new, msgs' = msgs \cup new, \A o \in new : o.type # "cancel_jobs", recipes' = recipes
  PROVE  CalmMessages
<1>1. \A r : Told(r) => Told(r)'
  BY ZenonT(30) DEF Told, RecipeIds
<1>2. \A j : Reporting(j) => Reporting(j)'
  BY Zenon DEF Reporting
<1> QED
  BY ZenonT(30), <1>1, <1>2 DEF CalmMessages, Canceling

\* A step that changes none of this is calm.
LEMMA CalmIfSame ==
  ASSUME Quiet, UNCHANGED <<jobs, msgs, overtaken>>
  PROVE  Calm
<1> DEFINE new == {}
<1>1. msgs' = msgs \cup new /\ \A o \in new : o.type # "cancel_jobs"
  BY Zenon
<1> HIDE DEF new
<1>2. CalmMessages
  BY Zenon, <1>1, CalmAddition DEF Quiet
<1> QED
  BY Zenon, <1>2 DEF Calm, CalmRows

\* Messages about one job are executed calmly.
LEMMA CalmJobMessages ==
  ASSUME Base, NEW m \in msgs, NEW ack \in BOOLEAN,
         \/ m.type = "process_job_input" /\ ProcessJobInput(m, ack)
         \/ m.type = "blocked_jobs" /\ BlockedJobs(m, ack)
         \/ m.type = "pending_jobs" /\ PendingJobs(m, ack)
         \/ m.type = "cancel_jobs" /\ CancelJobs(m, ack)
  PROVE  Calm
<1> DEFINE j == m.id
<1>1. j \in JobIds /\ jobs[j] \in GoodRows /\ JobIds = DOMAIN jobs
  BY Zenon, Ids DEF Base, MessagesOK, MessageOK, JobMessages, JobIds
<1>2. Quiet
  BY Zenon, JobMessageSteps
<1>3. ASSUME NEW row, NEW new, Changes(m, row, new, ack), \A o \in new : o.type # "cancel_jobs",
             row.status = "COMPLETED" => jobs[j].status = "COMPLETED",
             row.status = "CANCELED" => jobs[j].status = "CANCELED" \/ Canceling(j),
             m.type = "process_job_input" => ~can_be_queued(row),
             m.type \notin {"update_recipes", "process_recipe_input", "reprocess_recipes", "from_jobs"}
      PROVE  Calm
  <2>1. jobs' = [jobs EXCEPT ![j] = row] /\ Executed(m, new, ack) /\ overtaken' = overtaken
    BY Zenon, <1>3 DEF Changes
  <2>2. jobs'[j] = row /\ \A i \in JobIds : i # j => jobs'[i] = jobs[i]
    BY ZenonT(30), <1>1, <2>1
  <2>3. CalmMessages
    BY ZenonT(30), <1>2, <1>3, <2>1, <2>2, CalmMessage DEF Quiet
  <2>4. CalmRows
    BY Zenon, <1>3, <2>2 DEF CalmRows
  <2> QED
    BY ZenonT(30), <1>2, <2>1, <2>3, <2>4 DEF Calm
<1>4. CASE m.type = "process_job_input" /\ ProcessJobInput(m, ack)
  <2> DEFINE row == IF can_be_queued(jobs[j]) THEN update_jobs_to_queued(jobs[j]) ELSE jobs[j]
  <2>1. row = jobs[j] \/ row.status = "QUEUED"
    BY Zenon, <1>1, QueuedRow
  <2>2. ~can_be_queued(row)
    <3>1. CASE can_be_queued(jobs[j])
      <4>1. row.status = "QUEUED"
        BY ZenonT(30), <1>1, <3>1, QueuedRow
      <4> HIDE DEF row
      <4> QED
        BY Zenon, <4>1 DEF can_be_queued
    <3>2. CASE ~can_be_queued(jobs[j])
      BY Zenon, <3>2
    <3> QED
      BY ZenonT(30), <3>1, <3>2
  <2>3. Changes(m, row, {}, ack)
    BY Zenon, <1>4 DEF ProcessJobInput
  <2> HIDE DEF row
  <2> QED
    BY <1>3, <1>4, <2>1, <2>2, <2>3
<1>5. CASE m.type = "blocked_jobs" /\ BlockedJobs(m, ack)
  <2> DEFINE row == IF IsNewer(m) THEN update_jobs_to_blocked(jobs[j], m.when) ELSE jobs[j]
  <2>1. row = jobs[j] \/ row.status = "BLOCKED"
    BY Zenon, <1>1 DEF update_jobs_to_blocked, GoodRows, JobRows
  <2>2. Changes(m, row, {}, ack)
    BY Zenon, <1>5 DEF BlockedJobs
  <2> HIDE DEF row
  <2> QED
    BY <1>3, <1>5, <2>1, <2>2
<1>6. CASE m.type = "pending_jobs" /\ PendingJobs(m, ack)
  <2> DEFINE row == IF IsNewer(m) THEN update_jobs_to_pending(jobs[j], m.when) ELSE jobs[j]
  <2>1. row = jobs[j] \/ row.status = "PENDING"
    BY Zenon, <1>1 DEF update_jobs_to_pending, GoodRows, JobRows
  <2>2. Changes(m, row, {}, ack)
    BY Zenon, <1>6 DEF PendingJobs
  <2> HIDE DEF row
  <2> QED
    BY <1>3, <1>6, <2>1, <2>2
<1>7. CASE m.type = "cancel_jobs" /\ CancelJobs(m, ack)
  <2> DEFINE row == update_jobs_to_canceled(jobs[j], m.when)
  <2> DEFINE new == {Msg("from_jobs", j, 0)}
  <2>1. row = jobs[j] \/ row.status = "CANCELED"
    BY ZenonT(30), <1>1 DEF update_jobs_to_canceled, GoodRows, JobRows
  <2>2. Changes(m, row, new, ack)
    BY Zenon, <1>7 DEF CancelJobs
  <2>3. Canceling(j)
    BY Zenon, <1>7 DEF Canceling
  <2>4. \A o \in new : o.type # "cancel_jobs"
    BY DEF Msg
  <2> HIDE DEF row, new
  <2> QED
    BY ZenonT(30), <1>3, <1>7, <2>1, <2>2, <2>3, <2>4
<1> QED
  BY ZenonT(30), <1>4, <1>5, <1>6, <1>7

\* So are messages about one recipe that create nothing.
LEMMA CalmRecipeMessages ==
  ASSUME Base, NEW m \in msgs, NEW ack \in BOOLEAN,
         \/ m.type = "process_recipe_input" /\ ProcessRecipeInput(m, ack)
         \/ m.type = "from_jobs" /\ create_update_recipes_messages_from_jobs(m)
         \/ m.type = "reprocess_recipes" /\ get_locked_recipes_from_root_old(m)
  PROVE  Calm
<1>1. Quiet
  BY Zenon, RecipeMessageSteps
<1>2. ASSUME jobs' = jobs, overtaken' = overtaken, CalmMessages PROVE Calm
  BY ZenonT(30), <1>1, <1>2 DEF Calm, CalmRows
<1>3. CASE m.type = "process_recipe_input" /\ ProcessRecipeInput(m, ack)
  <2> DEFINE o == Msg("update_recipes", m.id, 0)
  <2> DEFINE new == {o}
  <2>1. o.type = "update_recipes" /\ o.id = m.id
    BY Zenon DEF Msg
  <2>2. Executed(m, new, ack) /\ jobs' = jobs /\ overtaken' = overtaken
    BY Zenon, <1>3 DEF ProcessRecipeInput
  <2>3. Tells(new, m.id) /\ \A p \in new : p.type # "cancel_jobs"
    BY Zenon, <2>1 DEF Tells, RecipeMessages
  <2> HIDE DEF new
  <2>4. CalmMessages
    BY ZenonT(30), <1>1, <1>3, <2>2, <2>3, CalmMessage DEF Quiet
  <2> QED
    BY ZenonT(30), <1>2, <2>2, <2>4
<1>4. CASE m.type = "from_jobs" /\ create_update_recipes_messages_from_jobs(m)
  <2> DEFINE new == Msgs("update_recipes", get_latest_recipe_ids_for_jobs(m.id), 0)
  <2>1. Executed(m, new, TRUE) /\ jobs' = jobs /\ overtaken' = overtaken
    BY ZenonT(30), <1>4 DEF create_update_recipes_messages_from_jobs
  <2>2. \A p \in new : p.type # "cancel_jobs"
    BY DEF Msgs, Msg
  <2>3. \A r \in get_latest_recipe_ids_for_jobs(m.id) : Tells(new, r)
    BY ZenonT(30), MsgsTell DEF RecipeMessages
  <2> HIDE DEF new
  <2>4. CalmMessages
    BY ZenonT(30), <1>1, <1>4, <2>1, <2>2, <2>3, CalmMessage DEF Quiet
  <2> QED
    BY ZenonT(30), <1>2, <2>1, <2>4
<1>5. CASE m.type = "reprocess_recipes" /\ get_locked_recipes_from_root_old(m)
  BY ZenonT(30), <1>1, <1>5, CalmIfSame DEF get_locked_recipes_from_root_old
<1> QED
  BY ZenonT(30), <1>3, <1>4, <1>5

\* So is ReprocessRecipes when it finds the recipe of this batch.
LEMMA CalmReprocessAgain ==
  ASSUME Base, NEW m \in msgs, NEW ack \in BOOLEAN, m.type = "reprocess_recipes", ReprocessAgain(m, ack),
         started' \subseteq started
  PROVE  Calm
<1> DEFINE again == {r \in RecipeIds : recipes[r].event = m.id}
           Old(r) == recipes[recipes[r].superseded_recipe].nodes
<1>1. Quiet
  BY Zenon, ReprocessAgainSteps
<1>2. PICK f : /\ \A r \in again : f[r] \in Delta(recipes[r].rev)
               /\ Executed(m, Msgs("process_recipe_input", again, 0)
                              \cup Msgs("cancel_jobs", UNION {SupersededJobs(f[r], Old(r)) : r \in again}, now), ack)
               /\ UNCHANGED <<jobs, overtaken>>
  BY Zenon DEF ReprocessAgain
<1> DEFINE new == Msgs("process_recipe_input", again, 0)
                    \cup Msgs("cancel_jobs", UNION {SupersededJobs(f[r], Old(r)) : r \in again}, now)
<1>3. m.id # 0
  BY Zenon, ScenariosAssumption DEF Base, MessagesOK, MessageOK, TablesOK
<1>4. ASSUME NEW o \in new, o.type = "cancel_jobs" PROVE Replaced(o.id)
  <2>1. o.id \in UNION {SupersededJobs(f[r], Old(r)) : r \in again}
    BY <1>4 DEF Msgs, Msg
  <2>2. PICK r \in again : o.id \in SupersededJobs(f[r], Old(r))
    BY ZenonT(30), <2>1
  <2>3. Old(r) = NodesOf(r - 1)
    BY DEF Base, ChainOK, NodesOf
  <2> QED
    BY ZenonT(30), <1>2, <1>3, <2>2, <2>3 DEF Replaced
<1>5. Executed(m, new, ack)
  BY ZenonT(30), <1>2
<1>6. \A r \in RecipeIds : recipes[r].event = m.id => Tells(new, r)
  <2>1. \A r \in again : Tells(Msgs("process_recipe_input", again, 0), r)
    BY ZenonT(30), MsgsTell DEF RecipeMessages
  <2> QED
    BY ZenonT(30), <2>1 DEF Tells
<1> HIDE DEF new
<1>7. CalmMessages
  BY ZenonT(30), <1>1, <1>4, <1>5, <1>6, CalmMessage DEF Quiet
<1> QED
  BY ZenonT(30), <1>1, <1>2, <1>7 DEF Calm, CalmRows

\* The end of a job tells its recipes, unless it was taken over meanwhile.
LEMMA CalmEnds ==
  ASSUME Base,
         \/ \E j \in JobIds, status \in EndStatuses : JobEnds(j, status)
         \/ \E e \in ending : JobEndCommits(e)
         \/ \E j \in JobIds : RequeueJobs(j)
  PROVE  Calm
<1>1. Quiet /\ JobIds = DOMAIN jobs
  BY ZenonT(30), EndSteps DEF JobIds
<1>2. ASSUME NEW j \in JobIds, NEW status \in EndStatuses, JobEnds(j, status) PROVE Calm
  BY ZenonT(30), <1>1, <1>2, CalmIfSame DEF JobEnds
<1>3. ASSUME NEW e \in ending, JobEndCommits(e) PROVE Calm
  <2> DEFINE all == Msgs("update_recipes", e.recipes, 0)
  <2>1. /\ jobs' = [jobs EXCEPT ![e.job] = Ended(@, e.status)]
        /\ overtaken' = IF get_latest_recipe_ids_for_jobs(e.job) \subseteq e.recipes THEN overtaken
                        ELSE overtaken \cup {e.job}
    BY ZenonT(30), <1>3 DEF JobEndCommits
  <2>2. PICK new : /\ msgs' = msgs \cup new
                   /\ new \subseteq all \cup {Msg("from_jobs", e.job, 0)}
                   /\ all \subseteq new \/ e.status # "COMPLETED" \/ Msg("from_jobs", e.job, 0) \in new
    <3>1. CASE msgs' = msgs \cup all
      BY ZenonT(30), <3>1
    <3>2. ASSUME NEW sent \in SUBSET all,
                 msgs' = msgs \cup sent \cup (IF e.status = "COMPLETED" THEN {Msg("from_jobs", e.job, 0)} ELSE {})
          PROVE  \E new : /\ msgs' = msgs \cup new
                          /\ new \subseteq all \cup {Msg("from_jobs", e.job, 0)}
                          /\ all \subseteq new \/ e.status # "COMPLETED" \/ Msg("from_jobs", e.job, 0) \in new
      <4> DEFINE more == sent \cup (IF e.status = "COMPLETED" THEN {Msg("from_jobs", e.job, 0)} ELSE {})
      <4>1. msgs' = msgs \cup more /\ more \subseteq all \cup {Msg("from_jobs", e.job, 0)}
        BY <3>2
      <4>2. e.status = "COMPLETED" => Msg("from_jobs", e.job, 0) \in more
        BY Zenon
      <4> HIDE DEF more
      <4> QED
        BY Zenon, <4>1, <4>2
    <3> QED
      BY ZenonT(30), <1>3, <3>1, <3>2 DEF JobEndCommits
  <2>3. \A o \in new : o.type # "cancel_jobs"
    <3>1. \A o \in all \cup {Msg("from_jobs", e.job, 0)} : o.type # "cancel_jobs"
      BY DEF Msgs, Msg
    <3> QED
      BY Zenon, <2>2, <3>1
  <2>4. CalmMessages
    BY ZenonT(30), <1>1, <2>2, <2>3, CalmAddition DEF Quiet
  <2>5. e.job \in JobIds /\ jobs[e.job] \in GoodRows
    BY ZenonT(30), Ids DEF Base, OthersOK, EndingOK
  <2>6. jobs'[e.job] = Ended(jobs[e.job], e.status) /\ \A i \in JobIds : i # e.job => jobs'[i] = jobs[i]
    BY ZenonT(30), <1>1, <2>1, <2>5
  <2>7. jobs'[e.job].status # "CANCELED" \/ jobs[e.job].status = "CANCELED"
    BY ZenonT(30), <2>5, <2>6 DEF Ended, update_jobs_to_completed, update_jobs_to_failed, GoodRows, JobRows
  <2>8. ASSUME jobs'[e.job].status = "COMPLETED"
        PROVE  \/ jobs[e.job].status = "COMPLETED" \/ e.job \in overtaken' \/ Reporting(e.job)'
               \/ \A r \in get_latest_recipe_ids_for_jobs(e.job) : Told(r)'
    <3>1. CASE all \subseteq new
      <4>1. \A r \in e.recipes : Tells(all, r)
        BY ZenonT(30), MsgsTell DEF RecipeMessages
      <4>2. \A r \in e.recipes : Told(r)'
        BY ZenonT(30), <3>1, <4>1, <2>2 DEF Tells, Told
      <4> QED
        BY ZenonT(30), <4>2, <2>1
    <3>2. CASE e.status # "COMPLETED"
      BY ZenonT(30), <3>2, <2>5, <2>6, <2>8 DEF Ended, update_jobs_to_failed, GoodRows, JobRows
    <3>3. CASE Msg("from_jobs", e.job, 0) \in new
      <4>1. Msg("from_jobs", e.job, 0).type = "from_jobs" /\ Msg("from_jobs", e.job, 0).id = e.job
        BY DEF Msg
      <4> QED
        BY Zenon, <3>3, <4>1, <2>2 DEF Reporting
    <3> QED
      BY Zenon, <3>1, <3>2, <3>3, <2>2
  <2>9. CalmRows
    BY ZenonT(30), <2>6, <2>7, <2>8 DEF CalmRows
  <2> QED
    BY ZenonT(30), <1>1, <2>1, <2>4, <2>9 DEF Calm
<1>4. ASSUME NEW j \in JobIds, RequeueJobs(j) PROVE Calm
  <2>1. jobs' = [jobs EXCEPT ![j] = update_jobs_to_queued(@)] /\ UNCHANGED <<msgs, overtaken>>
    BY ZenonT(30), <1>4 DEF RequeueJobs
  <2>2. jobs'[j].status = "QUEUED" /\ \A i \in JobIds : i # j => jobs'[i] = jobs[i]
    BY ZenonT(30), <1>1, <1>4, <2>1, Ids, QueuedRow DEF RequeueJobs, Base
  <2> DEFINE new == {}
  <2>3. msgs' = msgs \cup new /\ \A o \in new : o.type # "cancel_jobs"
    BY Zenon, <2>1
  <2> HIDE DEF new
  <2>4. CalmMessages
    BY Zenon, <1>1, <2>3, CalmAddition DEF Quiet
  <2> QED
    BY ZenonT(30), <1>1, <2>1, <2>2, <2>4 DEF Calm, CalmRows
<1> QED
  BY ZenonT(30), <1>2, <1>3, <1>4

\* Every step is calm or changes recipes.
LEMMA CalmCases ==
  ASSUME Base, [Next]_vars
  PROVE  Calm \/ Updates \/ Reprocesses \/ Requests
<1>1. ASSUME NEW m \in msgs, Step(m) PROVE Calm
  BY ZenonT(30), <1>1, CalmRecipeMessages DEF Step
<1>2. ASSUME NEW m \in msgs, NEW ack \in BOOLEAN, Execute(m, ack)
      PROVE  Calm \/ Updates \/ Reprocesses
  <2>1. CASE m.type = "update_recipes" /\ UpdateRecipes(m, ack)
    BY Zenon, <2>1 DEF Updates
  <2>2. CASE m.type = "process_recipe_input" /\ ProcessRecipeInput(m, ack)
    BY ZenonT(30), <2>2, CalmRecipeMessages
  <2>3. CASE m.type = "reprocess_recipes" /\ ReprocessRecipes(m, ack)
    <3>1. PICK s \in started :
            /\ started' = started \ {s}
            /\ IF IsLatest(s.recipe) THEN ReprocessNew(m, s.recipe, ack) ELSE ReprocessAgain(m, ack)
      BY Zenon, <2>3 DEF ReprocessRecipes
    <3>2. CASE IsLatest(s.recipe)
      BY ZenonT(30), <2>3, <3>1, <3>2 DEF IsLatest, Latest, Reprocesses
    <3>3. CASE ~IsLatest(s.recipe)
      BY ZenonT(30), <2>3, <3>1, <3>3, CalmReprocessAgain
    <3> QED
      BY ZenonT(30), <3>2, <3>3
  <2>4. CASE \/ m.type = "process_job_input" /\ ProcessJobInput(m, ack)
             \/ m.type = "blocked_jobs" /\ BlockedJobs(m, ack)
             \/ m.type = "pending_jobs" /\ PendingJobs(m, ack)
             \/ m.type = "cancel_jobs" /\ CancelJobs(m, ack)
    BY Zenon, <2>4, CalmJobMessages
  <2> QED
    BY ZenonT(30), <1>2, <2>1, <2>2, <2>3, <2>4 DEF Execute
<1>3. ASSUME \/ \E r \in RecipeIds : reprocess_recipe(r)
             \/ /\ \E s \in started : started' = started \ {s}
                /\ UNCHANGED <<recipes, jobs, job_types, clock>>
                /\ UNCHANGED <<scenario, msgs, ending, overtaken, left>>
      PROVE  Calm
  BY ZenonT(30), <1>3, RequestSteps, CalmIfSame DEF reprocess_recipe
<1>4. ASSUME FinishRequest PROVE Calm \/ Requests
  BY ZenonT(30), <1>3, <1>4 DEF FinishRequest, Requests
<1>5. ASSUME UNCHANGED vars PROVE Calm
  <2>1. Quiet
    BY ZenonT(30), <1>5, RowsStay DEF vars, Quiet, Base
  <2> QED
    BY ZenonT(30), <1>5, <2>1, CalmIfSame DEF vars
<1> QED
  BY ZenonT(30), <1>1, <1>2, <1>3, <1>4, <1>5, CalmEnds DEF Next

-----------------------------------------------------------------------------
(* What is still to come for the latest recipe, l.                         *)

\* A recipe that lacks a job has a message to come.
NamesTold(l) == NodeNames(NodesOf(l)) = Names(GraphOf(l)) \/ Told(l)

\* So has one whose jobs are all completed, unless one of them was taken over before its
\* end was committed or is still to be reported.
CompletionTold(l) ==
  (/\ NodeNames(NodesOf(l)) = Names(GraphOf(l)) /\ JobsOf(NodesOf(l)) \cap overtaken = {}
   /\ \A x \in NodesOf(l) : jobs[x[2]].status = "COMPLETED" /\ ~Reporting(x[2]))
    => recipes[l].is_completed \/ Told(l)

\* The parents of node n of recipe r have completed, and their recipes were told.
ParentsReported(r, n) ==
  \A j \in ParentsOf(r, n) : jobs[j].status = "COMPLETED" /\ j \notin overtaken /\ ~Reporting(j)

\* Job j will be queued or a recipe that has it will be updated.
JobTold(j) ==
  \/ jobs[j].has_input /\ \E m \in msgs : m.type = "process_job_input" /\ m.id = j
  \/ \E s \in RecipeIds : j \in JobsOf(NodesOf(s)) /\ Told(s)

\* A job that is ready has a message to come, or its recipe has.
ReadyTold(l) ==
  \A x \in NodesOf(l) : jobs[x[2]].status \in WaitingStatuses /\ ParentsReported(l, x[1]) => JobTold(x[2])

\* No job of the recipe is canceled or going to be.
NotCanceled(l) ==
  \A x \in NodesOf(l) : jobs[x[2]].status # "CANCELED" /\ ~Canceling(x[2]) /\ ~Replaced(x[2])

\* What is still to come for recipe l.
RestOK(l) == NamesTold(l) /\ CompletionTold(l) /\ ReadyTold(l) /\ NotCanceled(l)

\* The jobs of parents are jobs of the recipe.
LEMMA ParentsArePart ==
  ASSUME NEW r, NEW n, NEW j \in ParentsOf(r, n)
  PROVE  \E x \in NodesOf(r) : x[2] = j
BY DEF ParentsOf, ParentJobs

\* A calm step keeps this.
LEMMA CalmKeepsRest ==
  ASSUME OrderInv, NEW l, l = Len(recipes), RestOK(l), Calm
  PROVE  RestOK(l)'
<1>1. l \in RecipeIds /\ Latest = {l} /\ Base /\ Live
  BY Ids, LastIsLatest DEF OrderInv, Base
<1>2. /\ \A r : NodesOf(r)' = NodesOf(r) /\ GraphOf(r)' = GraphOf(r)
      /\ recipes' = recipes /\ scenario' = scenario /\ RecipeIds' = RecipeIds
  BY Zenon DEF Calm, Quiet, NodesOf, GraphOf, Graph, RecipeIds
<1>3. \A r : Told(r) => Told(r)'
  BY DEF Calm, CalmMessages
<1>4. \A x \in NodesOf(l) : x[2] \in JobIds
  BY ZenonT(30), <1>1, JobsThere
<1>5. \A j \in JobIds : RowStep(jobs[j], jobs'[j])
  BY DEF Calm, Quiet, RowsStep
<1>6. \A r, n : ParentsOf(r, n)' = ParentsOf(r, n)
  BY ZenonT(30), <1>2, ParentsOfUnchanged
<1>7. ASSUME NEW x \in NodesOf(l), jobs'[x[2]].status = "COMPLETED", x[2] \notin overtaken', ~Reporting(x[2])'
      PROVE  (jobs[x[2]].status = "COMPLETED" /\ x[2] \notin overtaken /\ ~Reporting(x[2])) \/ Told(l)'
  <2>1. l \in get_latest_recipe_ids_for_jobs(x[2])
    BY Zenon, <1>1 DEF get_latest_recipe_ids_for_jobs, JobsOf, NodesOf
  <2>2. x[2] \notin overtaken
    BY Zenon, <1>7 DEF Calm
  <2>3. \/ jobs[x[2]].status = "COMPLETED" \/ \A r \in get_latest_recipe_ids_for_jobs(x[2]) : Told(r)'
    BY Zenon, <1>4, <1>7 DEF Calm, CalmRows
  <2>4. Reporting(x[2]) => \A r \in get_latest_recipe_ids_for_jobs(x[2]) : Told(r)'
    BY Zenon, <1>7 DEF Calm, CalmMessages
  <2> QED
    BY ZenonT(30), <2>1, <2>2, <2>3, <2>4
<1>8. NamesTold(l)'
  BY Zenon, <1>2, <1>3 DEF RestOK, NamesTold
<1>9. CompletionTold(l)'
  <2> SUFFICES ASSUME NodeNames(NodesOf(l)) = Names(GraphOf(l)), JobsOf(NodesOf(l)) \cap overtaken' = {},
                      \A x \in NodesOf(l) : jobs'[x[2]].status = "COMPLETED" /\ ~Reporting(x[2])', ~Told(l)'
               PROVE  recipes[l].is_completed
    BY Zenon, <1>2 DEF CompletionTold
  <2>1. \A x \in NodesOf(l) : jobs[x[2]].status = "COMPLETED" /\ x[2] \notin overtaken /\ ~Reporting(x[2])
    BY Zenon, <1>7 DEF JobsOf
  <2>2. JobsOf(NodesOf(l)) \cap overtaken = {}
    BY Zenon, <2>1 DEF JobsOf
  <2> QED
    BY ZenonT(30), <2>1, <2>2, <1>3 DEF RestOK, CompletionTold
<1>10. ReadyTold(l)'
  <2> SUFFICES ASSUME NEW x \in NodesOf(l), jobs'[x[2]].status \in WaitingStatuses, ParentsReported(l, x[1])'
               PROVE  JobTold(x[2])'
    BY Zenon, <1>2 DEF ReadyTold
  <2>1. CASE Told(l)'
    BY ZenonT(30), <2>1, <1>1, <1>2 DEF JobTold, JobsOf
  <2>2. CASE ~Told(l)'
    <3>1. ParentsReported(l, x[1])
      BY <2>2, <1>6, <1>7, ParentsArePart DEF ParentsReported
    <3>2. x[2] \in JobIds /\ RowStep(jobs[x[2]], jobs'[x[2]])
      BY ZenonT(30), <1>4, <1>5
    <3>3. jobs[x[2]].status \in WaitingStatuses
      BY ZenonT(30), <3>2 DEF RestOK, NotCanceled, RowStep
    <3>4. JobTold(x[2])
      BY ZenonT(30), <3>1, <3>3 DEF RestOK, ReadyTold
    <3>5. ASSUME jobs[x[2]].has_input, NEW m \in msgs, m.type = "process_job_input", m.id = x[2]
          PROVE  JobTold(x[2])'
      <4>1. jobs'[x[2]].has_input /\ ~jobs'[x[2]].is_superseded /\ jobs'[x[2]] \in GoodRows
        BY ZenonT(30), <1>1, <3>2, <3>5 DEF Live, RowStep
      <4>2. can_be_queued(jobs'[x[2]])
        BY <4>1 DEF can_be_queued, GoodRows, JobRows, WaitingStatuses, has_been_queued
      <4>3. m \in msgs'
        BY ZenonT(30), <3>5, <4>2 DEF Calm, CalmMessages
      <4> QED
        BY ZenonT(30), <3>5, <4>1, <4>3 DEF JobTold
    <3>6. ASSUME NEW s \in RecipeIds, x[2] \in JobsOf(NodesOf(s)), Told(s)
          PROVE  JobTold(x[2])'
      BY ZenonT(30), <3>6, <1>2, <1>3 DEF JobTold
    <3> QED
      BY ZenonT(30), <3>4, <3>5, <3>6 DEF JobTold
  <2> QED
    BY ZenonT(30), <2>1, <2>2
<1>11. NotCanceled(l)'
  <2> SUFFICES ASSUME NEW x \in NodesOf(l)
               PROVE  jobs'[x[2]].status # "CANCELED" /\ ~Canceling(x[2])' /\ ~Replaced(x[2])'
    BY Zenon, <1>2 DEF NotCanceled
  <2>1. jobs[x[2]].status # "CANCELED" /\ ~Canceling(x[2]) /\ ~Replaced(x[2])
    BY Zenon DEF RestOK, NotCanceled
  <2>2. jobs'[x[2]].status # "CANCELED"
    BY ZenonT(30), <2>1, <1>4 DEF Calm, CalmRows
  <2>3. ~Canceling(x[2])'
    BY ZenonT(30), <2>1 DEF Calm, CalmMessages, Canceling
  <2>4. ~Replaced(x[2])'
    BY ZenonT(30), <2>1, <1>2 DEF Replaced, Delta
  <2> QED
    BY ZenonT(30), <2>2, <2>3, <2>4
<1> QED
  BY ZenonT(30), <1>8, <1>9, <1>10, <1>11 DEF RestOK

\* UpdateRecipes does what its message was for.
LEMMA UpdateKeepsRest ==
  ASSUME OrderInv, OrderInv', NEW l, l = Len(recipes), RestOK(l),
         NEW m \in msgs, NEW ack \in BOOLEAN, m.type = "update_recipes", UpdateRecipes(m, ack)
  PROVE  RestOK(l)'
<1> DEFINE r == m.id
<1> DEFINE g == GraphOf(r)
<1> DEFINE nodes == recipes'[r].nodes
<1>0. Base /\ Base' /\ now \in 0..MaxClock
  BY Zenon, ClockFacts DEF OrderInv, Base, OthersOK
<1>1. /\ r \in RecipeIds /\ Len(recipes') = Len(recipes)
      /\ \A s \in RecipeIds : s # r => recipes'[s] = recipes[s]
      /\ recipes'[r].rev = recipes[r].rev /\ recipes'[r].event = recipes[r].event
      /\ recipes'[r].is_completed <=> recipes[r].is_completed \/ is_completed(nodes, jobs')
  BY ZenonT(30), <1>0, UpdateFacts
<1>2. /\ NodesOf(r) \subseteq nodes /\ NodeNames(nodes) = Names(g)
      /\ \A x \in nodes \ NodesOf(r) : x[1] \notin NodeNames(NodesOf(r)) /\ x[2] \notin JobIds
  BY ZenonT(30), <1>0, UpdateFacts
<1>3. /\ \A j \in JobIds : InputStep(jobs[j], jobs'[j])
      /\ \A j \in JobIds' \ JobIds : jobs'[j].status = "PENDING" /\ ~jobs'[j].is_superseded
  BY ZenonT(30), <1>0, UpdateFacts
<1>4. \A x \in nodes : jobs'[x[2]].has_input <=> \/ x[2] \in JobIds /\ jobs[x[2]].has_input
                                                 \/ ParentsCompleted(g, nodes, jobs', x[1])
  BY ZenonT(30), <1>0, UpdateFacts
<1>5. \E new : /\ Executed(m, new, ack)
               /\ \A o \in new : o.type \in {"blocked_jobs", "pending_jobs", "process_job_input"}
               /\ \A j \in JobsOf(nodes) : can_be_queued(jobs'[j]) => Msg("process_job_input", j, 0) \in new
  BY ZenonT(30), <1>0, UpdateFacts
<1>6. scenario' = scenario /\ overtaken' = overtaken
  BY Zenon DEF UpdateRecipes
<1>7. l \in RecipeIds /\ RecipeIds' = RecipeIds /\ RecipeIds = 1..Len(recipes) /\ Len(recipes) \in Nat
  <2>1. RecipeIds' = 1..Len(recipes')
    BY <1>0 DEF Base, TablesOK, RecipeIds
  <2>2. RecipeIds = 1..Len(recipes) /\ Len(recipes) \in Nat \ {0} /\ Len(recipes') = Len(recipes)
    BY ZenonT(30), <1>0, <1>1, Ids DEF Base
  <2> QED
    BY <2>1, <2>2
<1>8. NodesOf(r)' = nodes /\ \A s \in RecipeIds : /\ GraphOf(s)' = GraphOf(s) /\ recipes'[s].event = recipes[s].event
                                                  /\ recipes'[s].rev = recipes[s].rev
                                                  /\ s # r => NodesOf(s)' = NodesOf(s)
  BY ZenonT(30), <1>1, <1>6 DEF NodesOf, GraphOf, Graph
<1> HIDE DEF nodes
<1>9. /\ \A s \in RecipeIds : NodesOf(s) \subseteq NodesOf(s)'
      /\ \A s \in RecipeIds : \A x \in NodesOf(s)' : s # r \/ x[2] \in JobIds => x \in NodesOf(s) /\ x[2] \in JobIds
      /\ \A s \in RecipeIds : \A x \in NodesOf(s)' : x[2] \in JobIds'
  <2>1. \A s \in RecipeIds : \A x \in NodesOf(s) : x[2] \in JobIds
    BY ZenonT(30), <1>0, JobsThere
  <2>2. \A s \in RecipeIds' : \A x \in NodesOf(s)' : x[2] \in JobIds'
    BY ZenonT(30), <1>0, JobsThereNext
  <2> QED
    BY ZenonT(30), <1>2, <1>7, <1>8, <2>1, <2>2
<1>10. /\ \A s : s # r /\ Told(s) => Told(s)'
       /\ \A j : Canceling(j)' => Canceling(j)
       /\ \A j : Reporting(j) => Reporting(j)'
       /\ \A o \in msgs : o.type = "process_job_input" => o \in msgs'
       /\ Told(r)' \/ \A j \in JobsOf(nodes) : can_be_queued(jobs'[j]) => Msg("process_job_input", j, 0) \in msgs'
  <2>1. PICK new : /\ Executed(m, new, ack)
                   /\ \A o \in new : o.type \in {"blocked_jobs", "pending_jobs", "process_job_input"}
                   /\ \A j \in JobsOf(nodes) : can_be_queued(jobs'[j]) => Msg("process_job_input", j, 0) \in new
    BY ZenonT(30), <1>5
  <2>2. /\ msgs' \subseteq msgs \cup new
        /\ \A o \in msgs : o # m => o \in msgs'
        /\ m \in msgs' \/ new \subseteq msgs'
    BY ZenonT(30), <2>1 DEF Executed
  <2>3. ASSUME NEW s, s # r, Told(s) PROVE Told(s)'
    <3>1. PICK o \in msgs : \/ o.type \in RecipeMessages /\ o.id = s
                            \/ o.type = "reprocess_recipes" /\ s \in RecipeIds /\ recipes[s].event = o.id
      BY Zenon, <2>3 DEF Told
    <3>2. o \in msgs'
      BY ZenonT(30), <3>1, <2>2, <2>3
    <3> QED
      BY ZenonT(30), <3>1, <3>2, <1>7, <1>8 DEF Told
  <2>4. \A j : Canceling(j)' => Canceling(j)
    BY ZenonT(30), <2>1, <2>2 DEF Canceling
  <2>5. \A j : Reporting(j) => Reporting(j)'
    BY ZenonT(30), <2>2 DEF Reporting
  <2>6. m \in msgs' => Told(r)'
    BY ZenonT(30) DEF Told, RecipeMessages
  <2> QED
    BY ZenonT(30), <2>1, <2>2, <2>3, <2>4, <2>5, <2>6
<1>11. NamesTold(l)'
  <2>1. CASE l = r
    BY ZenonT(30), <2>1, <1>2, <1>7, <1>8 DEF NamesTold
  <2>2. CASE l # r
    BY ZenonT(30), <2>2, <1>7, <1>8, <1>10 DEF NamesTold, RestOK
  <2> QED
    BY ZenonT(30), <2>1, <2>2
<1>12. CompletionTold(l)'
  <2> SUFFICES ASSUME NodeNames(NodesOf(l)') = Names(GraphOf(l)'), JobsOf(NodesOf(l)') \cap overtaken' = {},
                      \A x \in NodesOf(l)' : jobs'[x[2]].status = "COMPLETED" /\ ~Reporting(x[2])'
               PROVE  recipes'[l].is_completed \/ Told(l)'
    BY Zenon DEF CompletionTold
  <2>1. CASE l = r
    <3>1. is_completed(nodes, jobs')
      BY ZenonT(30), <2>1, <1>8 DEF is_completed, JobsOf
    <3> QED
      BY ZenonT(30), <3>1, <2>1, <1>1
  <2>2. CASE l # r
    <3>1. NodesOf(l)' = NodesOf(l) /\ GraphOf(l)' = GraphOf(l) /\ recipes'[l] = recipes[l]
      BY ZenonT(30), <2>2, <1>1, <1>7, <1>8
    <3>2. \A x \in NodesOf(l) : jobs[x[2]].status = "COMPLETED" /\ ~Reporting(x[2])
      BY ZenonT(30), <3>1, <2>2, <1>3, <1>7, <1>9, <1>10 DEF InputStep
    <3> QED
      BY ZenonT(30), <3>1, <3>2, <2>2, <1>6, <1>10 DEF RestOK, CompletionTold
  <2> QED
    BY ZenonT(30), <2>1, <2>2
<1>13. ASSUME NEW x \in NodesOf(l)', jobs'[x[2]].status \in WaitingStatuses, ParentsReported(l, x[1])'
       PROVE  JobTold(x[2])'
  <2>1. CASE x[2] \in JobsOf(nodes)
    <3>1. PICK y \in nodes : y[2] = x[2]
      BY ZenonT(30), <2>1 DEF JobsOf
    <3>2. ParentsOf(r, y[1])' = ParentsOf(l, x[1])'
      BY ZenonT(30), <3>1, <1>1, <1>7, <1>8 DEF OrderInv, OrderOK, SameParents
    <3>3. \A j \in ParentJobs(nodes, g, y[1]) : jobs'[j].status = "COMPLETED"
      BY ZenonT(30), <3>2, <1>1, <1>8, <1>13 DEF ParentsReported, ParentsOf
    <3>4. IsNodes(nodes) /\ Parents(g, y[1]) \subseteq NodeNames(nodes)
      <4>1. Parents(g, y[1]) \subseteq NodeNames(nodes)
        BY ZenonT(30), <3>1, <1>1, <1>7, <1>8 DEF OrderInv, OrderOK, ParentsThere
      <4>2. NodesFit(NodesOf(r)', GraphOf(r)', job_types')
        BY ZenonT(30), <1>0, <1>1, <1>7 DEF Base, NodesOK
      <4> QED
        BY ZenonT(30), <4>1, <4>2, <1>8, FittingNodes
    <3>5. ParentsCompleted(g, nodes, jobs', y[1])
      <4> HIDE DEF g
      <4> QED
        BY ZenonT(30), <3>3, <3>4, ParentJobsFacts
    <3>6. jobs'[x[2]].has_input
      BY ZenonT(30), <3>1, <3>5, <1>4
    <3>7. ~jobs'[x[2]].is_superseded /\ jobs'[x[2]] \in GoodRows
      <4>1. Live'
        BY Zenon DEF OrderInv
      <4>2. x[2] \in JobIds' /\ jobs' \in Seq(GoodRows)
        BY ZenonT(30), <1>0, <1>7, <1>9 DEF Base, TablesOK
      <4>3. NodesOf(Len(recipes))' = NodesOf(l)'
        BY ZenonT(30), <1>1 DEF NodesOf
      <4>4. ~jobs'[x[2]].is_superseded
        BY ZenonT(30), <4>1, <4>3, <1>13 DEF Live
      <4>5. jobs'[x[2]] \in GoodRows
        BY <4>2 DEF JobIds
      <4> QED
        BY <4>4, <4>5
    <3>8. can_be_queued(jobs'[x[2]])
      <4>1. jobs'[x[2]].status \in WaitingStatuses
        BY ZenonT(30), <1>13
      <4> QED
        BY <4>1, <3>6, <3>7 DEF can_be_queued, GoodRows, JobRows, WaitingStatuses, has_been_queued
    <3>9. CASE Told(r)'
      BY ZenonT(30), <2>1, <3>9, <1>1, <1>7, <1>8 DEF JobTold
    <3>10. CASE Msg("process_job_input", x[2], 0) \in msgs'
      BY ZenonT(30), <3>6, <3>10 DEF JobTold, Msg
    <3> QED
      BY ZenonT(30), <2>1, <3>8, <3>9, <3>10, <1>10
  <2>2. CASE x[2] \notin JobsOf(nodes)
    <3>1. l # r
      BY ZenonT(30), <2>2, <1>8, <1>13 DEF JobsOf
    <3>2. x \in NodesOf(l) /\ x[2] \in JobIds /\ NodesOf(l)' = NodesOf(l) /\ GraphOf(l)' = GraphOf(l)
      BY ZenonT(30), <3>1, <1>7, <1>8, <1>9, <1>13
    <3>3. ParentsReported(l, x[1])
      <4>1. ParentsOf(l, x[1])' = ParentsOf(l, x[1])
        BY ZenonT(30), <3>2, ParentsOfUnchanged
      <4>2. ParentsOf(l, x[1]) \subseteq JobIds
        BY ZenonT(30), <1>0, <1>7, ParentsAreJobs DEF Base
      <4> QED
        BY ZenonT(30), <4>1, <4>2, <1>3, <1>6, <1>10, <1>13 DEF ParentsReported, InputStep
    <3>4. JobTold(x[2])
      BY ZenonT(30), <3>2, <3>3, <1>3, <1>13 DEF RestOK, ReadyTold, InputStep
    <3>5. jobs[x[2]].has_input => jobs'[x[2]].has_input
      BY ZenonT(30), <3>2, <1>3 DEF InputStep, Kept
    <3>6. ASSUME NEW s \in RecipeIds, x[2] \in JobsOf(NodesOf(s)), Told(s)
          PROVE  Told(s)' /\ x[2] \in JobsOf(NodesOf(s)')
      <4>1. s # r
        <5>1. JobsOf(NodesOf(r)) \subseteq JobsOf(nodes)
          BY ZenonT(30), <1>2 DEF JobsOf
        <5> QED
          BY ZenonT(30), <5>1, <3>6, <2>2
      <4> QED
        BY ZenonT(30), <4>1, <3>6, <1>8, <1>10
    <3> QED
      BY ZenonT(30), <3>4, <3>5, <3>6, <1>7, <1>10 DEF JobTold
  <2> QED
    BY ZenonT(30), <2>1, <2>2
<1>14. ASSUME NEW x \in NodesOf(l)'
       PROVE  jobs'[x[2]].status # "CANCELED" /\ ~Canceling(x[2])' /\ ~Replaced(x[2])'
  <2>1. ASSUME Replaced(x[2])'
        PROVE  Replaced(x[2]) /\ x[2] \in JobIds
    <3>1. PICK q \in RecipeIds : /\ recipes[q].event # 0
                                 /\ \E d \in Delta(recipes[q].rev) : x[2] \in SupersededJobs(d, NodesOf(q - 1)')
      BY ZenonT(30), <2>1, <1>6, <1>7, <1>8 DEF Replaced, Delta
    <3>2. q > 1 /\ q - 1 \in RecipeIds /\ q - 1 # l
      <4>1. q > 1
        BY ZenonT(30), <3>1, <1>0 DEF Base, ChainOK
      <4> QED
        BY <4>1, <1>7
    <3>3. PICK d \in Delta(recipes[q].rev) : x[2] \in SupersededJobs(d, NodesOf(q - 1)')
      BY ZenonT(30), <3>1
    <3>4. PICK y \in NodesOf(q - 1)' : y[2] = x[2] /\ y[1] \in DOMAIN d.changed \cup d.deleted
      BY ZenonT(30), <3>3 DEF SupersededJobs
    <3>5. y \in NodesOf(q - 1) /\ y[2] \in JobIds
      <4>1. CASE q - 1 # r
        BY ZenonT(30), <4>1, <3>2, <3>4, <1>9
      <4>2. CASE q - 1 = r
        <5>1. l # r
          BY ZenonT(30), <4>2, <3>2
        <5>2. x[2] \in JobIds
          BY ZenonT(30), <5>1, <1>7, <1>9, <1>14
        <5> QED
          BY ZenonT(30), <5>2, <3>2, <3>4, <1>9
      <4> QED
        BY ZenonT(30), <4>1, <4>2
    <3>6. x[2] \in SupersededJobs(d, NodesOf(q - 1))
      BY ZenonT(30), <3>4, <3>5 DEF SupersededJobs
    <3> QED
      BY ZenonT(30), <3>1, <3>3, <3>4, <3>5, <3>6 DEF Replaced
  <2>2. Canceling(x[2])' => Canceling(x[2]) /\ x[2] \in JobIds
    BY ZenonT(30), <1>0, <1>10 DEF Canceling, Base, MessagesOK, MessageOK, JobMessages
  <2>3. CASE x[2] \in JobIds
    <3>1. x \in NodesOf(l)
      BY ZenonT(30), <2>3, <1>7, <1>9, <1>14
    <3> QED
      BY ZenonT(30), <2>1, <2>2, <2>3, <3>1, <1>3 DEF RestOK, NotCanceled, InputStep
  <2>4. CASE x[2] \notin JobIds
    <3>1. x[2] \in JobIds'
      BY ZenonT(30), <1>7, <1>9, <1>14
    <3> QED
      BY ZenonT(30), <2>1, <2>2, <2>4, <3>1, <1>3
  <2> QED
    BY ZenonT(30), <2>3, <2>4
<1>15. ReadyTold(l)'
  BY ZenonT(30), <1>13 DEF ReadyTold
<1>16. NotCanceled(l)'
  BY Zenon, <1>14 DEF NotCanceled
<1> QED
  BY ZenonT(30), <1>11, <1>12, <1>15, <1>16 DEF RestOK

\* Jobs that were replaced exist.
LEMMA ReplacedIsJob ==
  ASSUME Base, NEW j, Replaced(j)
  PROVE  j \in JobIds
<1>1. PICK r \in RecipeIds : /\ recipes[r].event # 0
                             /\ \E d \in Delta(recipes[r].rev) : j \in SupersededJobs(d, NodesOf(r - 1))
  BY Zenon DEF Replaced
<1>2. r - 1 \in RecipeIds
  BY <1>1, Ids DEF Base, ChainOK
<1>3. \E x \in NodesOf(r - 1) : x[2] = j
  BY ZenonT(30), <1>1 DEF SupersededJobs
<1> QED
  BY ZenonT(30), <1>2, <1>3, JobsThere

\* Which jobs earlier events replaced does not depend on a new recipe.
LEMMA ReplacedBefore ==
  ASSUME Base, NEW rev, NEW event, NEW nodes, NewRecipe(rev, event, nodes), NEW j, Replaced(j)'
  PROVE  \/ Replaced(j)
         \/ event # 0 /\ \E d \in Delta(rev) : j \in SupersededJobs(d, NodesOf(Len(recipes)))
<1>1. PICK q : q = Len(recipes) + 1
  BY Zenon
<1>2. /\ RecipeIds' = RecipeIds \cup {q} /\ q \notin RecipeIds
      /\ \A r \in RecipeIds' : r # q => r \in RecipeIds /\ NodesOf(r)' = NodesOf(r)
  BY ZenonT(30), <1>1, NewRecipeFacts
<1>3. /\ \A s \in RecipeIds : recipes'[s].rev = recipes[s].rev /\ recipes'[s].event = recipes[s].event
      /\ recipes'[q] = create_recipe(rev, event, Len(recipes), nodes) /\ scenario' = scenario
  BY Zenon, <1>1 DEF NewRecipe
<1>4. RecipeIds = 1..Len(recipes) /\ Len(recipes) \in Nat \ {0}
  BY Zenon, Ids DEF Base
<1>5. PICK p \in RecipeIds' : /\ recipes'[p].event # 0
                              /\ \E d \in Delta(recipes'[p].rev) : j \in SupersededJobs(d, NodesOf(p - 1)')
  BY Zenon, <1>3 DEF Replaced, Delta
<1>6. CASE p = q
  <2>1. recipes'[p].rev = rev /\ recipes'[p].event = event
    BY <1>3, <1>6 DEF create_recipe
  <2>2. p - 1 = Len(recipes) /\ p - 1 \in RecipeIds /\ p - 1 # q
    BY <1>1, <1>4, <1>6
  <2>3. NodesOf(p - 1)' = NodesOf(p - 1)
    BY ZenonT(30), <2>2, <1>2
  <2> QED
    BY ZenonT(30), <2>1, <2>2, <2>3, <1>5
<1>7. CASE p # q
  <2>1. p \in RecipeIds /\ recipes[p].event # 0
    BY ZenonT(30), <1>2, <1>3, <1>5, <1>7
  <2>2. p - 1 \in RecipeIds /\ p - 1 # q
    <3>1. p > 1
      BY ZenonT(30), <2>1 DEF Base, ChainOK
    <3> QED
      BY <3>1, <2>1, <1>1, <1>4
  <2>3. NodesOf(p - 1)' = NodesOf(p - 1)
    BY ZenonT(30), <2>2, <1>2
  <2> QED
    BY ZenonT(30), <2>1, <2>3, <1>3, <1>5 DEF Replaced
<1> QED
  BY ZenonT(30), <1>6, <1>7

\* ReprocessRecipes sends the message that lets the new recipe get its jobs.
LEMMA ReprocessKeepsRest ==
  ASSUME BatchesKeepNames, OrderInv, NEW l, l = Len(recipes), RestOK(l), Reprocesses,
         NEW q, q = Len(recipes) + 1
  PROVE  RestOK(q)'
<1>1. PICK m \in msgs, ack \in BOOLEAN, r \in RecipeIds : m.type = "reprocess_recipes" /\ ReprocessNew(m, r, ack)
  BY Zenon DEF Reprocesses
<1>2. Base /\ r = l
  BY ZenonT(30), <1>1, ReprocessNewFacts DEF OrderInv
<1>3. PICK d \in Delta(recipes[r].rev) :
        /\ NewRecipe(recipes[r].rev, m.id, {x \in NodesOf(r) : x[1] \in DOMAIN d.identical})
        /\ \A j \in JobIds : jobs'[j].status = jobs[j].status
        /\ Executed(m, {Msg("process_recipe_input", Len(recipes) + 1, 0)}
                       \cup Msgs("cancel_jobs", SupersededJobs(d, NodesOf(r)), now), ack)
  BY ZenonT(30), <1>1, <1>2, ReprocessNewFacts
<1> DEFINE nodes == {x \in NodesOf(r) : x[1] \in DOMAIN d.identical}
<1>4. q \in RecipeIds' /\ NodesOf(q)' = nodes
  <2> DEFINE rev == recipes[r].rev
  <2> HIDE DEF rev, nodes
  <2>1. NewRecipe(rev, m.id, nodes)
    BY ZenonT(30), <1>3 DEF rev, nodes
  <2> QED
    BY ZenonT(30), <2>1, <1>2, NewRecipeFacts
<1>5. scenario \in Scenarios /\ scenario.events # {} /\ recipes[r].rev \in 1..2
  BY ZenonT(30), <1>1, <1>2, RevisionFacts DEF Base, MessagesOK, MessageOK
<1>6. Told(q)'
  <2>1. CASE ack
    <3>1. Msg("process_recipe_input", q, 0) \in msgs'
      BY Zenon, <2>1, <1>3 DEF Executed
    <3> QED
      BY ZenonT(30), <3>1 DEF Told, Msg, RecipeMessages
  <2>2. CASE ~ack
    <3>1. m \in msgs'
      BY Zenon, <2>2, <1>3 DEF Executed
    <3>2. recipes'[q].event = m.id
      BY <1>3 DEF NewRecipe, create_recipe
    <3> QED
      BY ZenonT(30), <3>1, <3>2, <1>1, <1>4 DEF Told
  <2> QED
    BY Zenon, <2>1, <2>2
<1>7. NamesTold(q)' /\ CompletionTold(q)'
  BY ZenonT(30), <1>6 DEF NamesTold, CompletionTold
<1>8. ReadyTold(q)'
  BY ZenonT(30), <1>4, <1>6 DEF ReadyTold, JobTold, JobsOf
<1>9. ASSUME NEW x \in nodes
      PROVE  jobs'[x[2]].status # "CANCELED" /\ ~Canceling(x[2])' /\ ~Replaced(x[2])'
  <2>1. x \in NodesOf(r) /\ x[1] \in DOMAIN d.identical /\ x[2] \in JobIds
    BY ZenonT(30), <1>2, JobsThere
  <2>2. jobs[x[2]].status # "CANCELED" /\ ~Canceling(x[2]) /\ ~Replaced(x[2])
    BY ZenonT(30), <1>2, <2>1 DEF RestOK, NotCanceled
  <2>3. \A e \in Delta(recipes[r].rev) : x[2] \notin SupersededJobs(e, NodesOf(r))
    <3>1. \A e \in Delta(recipes[r].rev) : e = d
      <4>1. \A c, e \in Delta(recipes[r].rev) : c = e
        BY ZenonT(30), <1>5, BatchDelta
      <4> QED
        BY ZenonT(30), <4>1
    <3>2. x[2] \notin SupersededJobs(d, NodesOf(r))
      BY ZenonT(30), <1>2, <1>5, <2>1, CopiedAreNotSuperseded
    <3> QED
      BY ZenonT(30), <3>1, <3>2
  <2>4. ~Canceling(x[2])'
    <3> SUFFICES ASSUME NEW o \in msgs', o.type = "cancel_jobs", o.id = x[2] PROVE FALSE
      BY Zenon DEF Canceling
    <3>1. o \notin msgs
      BY ZenonT(30), <2>2 DEF Canceling
    <3>2. o \in {Msg("process_recipe_input", Len(recipes) + 1, 0)}
                \cup Msgs("cancel_jobs", SupersededJobs(d, NodesOf(r)), now)
      BY ZenonT(30), <3>1, <1>3 DEF Executed
    <3>3. o.id \in SupersededJobs(d, NodesOf(r))
      BY <3>2 DEF Msgs, Msg
    <3> QED
      BY ZenonT(30), <3>3, <2>3
  <2>5. ~Replaced(x[2])'
    <3> DEFINE rev == recipes[r].rev
    <3> HIDE DEF rev, nodes
    <3>1. NewRecipe(rev, m.id, nodes)
      BY Zenon, <1>3 DEF rev, nodes
    <3>2. Replaced(x[2])' => Replaced(x[2]) \/ \E e \in Delta(rev) : x[2] \in SupersededJobs(e, NodesOf(Len(recipes)))
      BY ZenonT(30), <3>1, <1>2, ReplacedBefore
    <3> QED
      BY ZenonT(30), <3>2, <1>2, <2>2, <2>3 DEF rev
  <2> QED
    BY ZenonT(30), <1>3, <2>1, <2>2, <2>4, <2>5
<1>10. NotCanceled(q)'
  BY ZenonT(30), <1>4, <1>9 DEF NotCanceled
<1> QED
  BY ZenonT(30), <1>7, <1>8, <1>10 DEF RestOK

\* queue_new_recipe queues what is ready at once.
LEMMA RequestKeepsRest ==
  ASSUME RequestsAddWork, OrderInv, OrderInv', NEW l, l = Len(recipes), RestOK(l), Requests,
         NEW q, q = Len(recipes) + 1
  PROVE  RestOK(q)'
<1>1. PICK s \in started : /\ s.type = "request"
                           /\ recipes[s.recipe].rev # CurrentRev \/ scenario.names # {}
                           /\ \E d \in Delta(recipes[s.recipe].rev) : queue_new_recipe(s, d)
                           /\ UNCHANGED <<scenario, msgs, overtaken>>
  BY Zenon DEF Requests
<1>2. PICK d \in Delta(recipes[s.recipe].rev) : queue_new_recipe(s, d)
  BY ZenonT(30), <1>1
<1>0. Base /\ Base'
  BY Zenon DEF OrderInv
<1> DEFINE r == s.recipe
<1> DEFINE b == Graph(CurrentRev)
<1> DEFINE nodes == recipes'[q].nodes
<1> DEFINE copied == Copied(d, NodesOf(r))
<1> DEFINE gone == {JobAt(NodesOf(r), n) : n \in Range(d.changed) \cup d.deleted}
<1>3. /\ r = l /\ r \in RecipeIds
      /\ NewRecipe(CurrentRev, 0, nodes)
      /\ NodeNames(nodes) = Names(b) /\ NodeNames(copied) = DOMAIN d.identical
      /\ \A x \in copied : <<d.identical[x[1]], x[2]>> \in NodesOf(r)
      /\ \A x \in nodes \ copied : x[1] \notin DOMAIN d.identical /\ x[2] \notin JobIds
  BY ZenonT(30), <1>0, <1>1, <1>2, RequestFacts
<1>4. /\ \A j \in JobIds : /\ jobs'[j].is_superseded <=> jobs[j].is_superseded \/ j \in gone
                           /\ \/ jobs'[j].status = jobs[j].status
                              \/ jobs[j].status \in WaitingStatuses /\ j \in gone /\ jobs'[j].status = "CANCELED"
                              \/ jobs[j].status \in WaitingStatuses /\ jobs'[j].status \in {"BLOCKED", "QUEUED"}
      /\ \A j \in JobIds' \ JobIds : ~jobs'[j].is_superseded /\ jobs'[j].status \in {"PENDING", "BLOCKED", "QUEUED"}
  BY ZenonT(30), <1>0, <1>1, <1>2, RequestFacts
<1>5. \A x \in nodes : /\ jobs'[x[2]].status \in WaitingStatuses /\ ~jobs'[x[2]].is_superseded
                       /\ ParentsCompleted(b, nodes, jobs', x[1])
                       => x[2] \in JobIds /\ jobs[x[2]].status \in WaitingStatuses
  BY ZenonT(30), <1>0, <1>1, <1>2, RequestFacts
<1> HIDE DEF nodes, copied, gone
<1>6. /\ q \in RecipeIds' /\ NodesOf(q)' = nodes /\ GraphOf(q)' = b /\ q = Len(recipes')
      /\ RecipeIds' = RecipeIds \cup {q} /\ q \notin RecipeIds
      /\ \A t \in RecipeIds' : t # q => t \in RecipeIds /\ NodesOf(t)' = NodesOf(t) /\ GraphOf(t)' = GraphOf(t)
      /\ \A j \in JobIds : Kept(jobs[j], jobs'[j])
      /\ IsNodes(nodes)
  BY ZenonT(30), <1>0, <1>3, NewRecipeFacts
<1>7. \A x \in nodes : x[2] \in JobIds' /\ ~jobs'[x[2]].is_superseded
  <2>1. NodesOf(Len(recipes))' = NodesOf(q)'
    BY ZenonT(30), <1>6 DEF NodesOf
  <2> QED
    BY ZenonT(30), <2>1, <1>0, <1>6, JobsThereNext DEF OrderInv, Live
<1>8. ASSUME NEW x \in nodes, x[2] \in JobIds
      PROVE  \E y \in NodesOf(l) : y[2] = x[2]
  <2> DEFINE y == <<d.identical[x[1]], x[2]>>
  <2>1. y \in NodesOf(l) /\ y[2] = x[2]
    BY ZenonT(30), <1>3, <1>8
  <2> QED
    BY ZenonT(30), <2>1
<1>9. /\ \A t : Told(t) => Told(t)'
      /\ \A j : Reporting(j)' <=> Reporting(j)
  <2>1. \A t \in RecipeIds : t \in RecipeIds' /\ recipes'[t].event = recipes[t].event
    BY ZenonT(30), <1>3, <1>6 DEF NewRecipe
  <2>2. \A t : Told(t) => Told(t)'
    BY ZenonT(30), <2>1, <1>1 DEF Told
  <2> QED
    BY ZenonT(30), <2>2, <1>1 DEF Reporting
<1>10. NamesTold(q)'
  BY ZenonT(30), <1>3, <1>6 DEF NamesTold
<1>11. CompletionTold(q)'
  <2>1. DOMAIN d.identical # Names(b)
    <3>1. scenario \in Scenarios /\ recipes[r].rev \in 1..2
      BY ZenonT(30), <1>0, <1>3, RevisionFacts DEF Base
    <3> QED
      BY ZenonT(30), <3>1, <1>1, <1>2 DEF RequestsAddWork, Delta, Graph
  <2>2. DOMAIN d.identical \subseteq Names(b)
    <3> DEFINE a == GraphOf(r)
    <3>1. IsFiniteSet(Names(b)) /\ d \in RecipeGraphDelta(a, b, scenario.names)
      BY ZenonT(30), <1>0, <1>2, <1>3, RevisionFacts DEF Base
    <3> HIDE DEF a, b
    <3> QED
      BY ZenonT(30), <3>1, DeltaFacts
  <2>3. PICK n \in Names(b) : n \notin DOMAIN d.identical
    BY ZenonT(30), <2>1, <2>2
  <2>4. PICK x \in nodes : x[1] = n
    BY ZenonT(30), <2>3, <1>3 DEF NodeNames
  <2>5. x[2] \notin JobIds
    BY ZenonT(30), <2>3, <2>4, <1>3 DEF NodeNames
  <2>6. jobs'[x[2]].status # "COMPLETED"
    BY ZenonT(30), <2>5, <1>4, <1>7
  <2> QED
    BY ZenonT(30), <2>6, <1>6 DEF CompletionTold
<1>12. ASSUME NEW x \in nodes, jobs'[x[2]].status \in WaitingStatuses, ParentsReported(q, x[1])'
       PROVE  JobTold(x[2])'
  <2>1. ParentsCompleted(b, nodes, jobs', x[1])
    <3>1. Parents(b, x[1]) \subseteq NodeNames(nodes)
      BY ZenonT(30), <1>6 DEF OrderInv, OrderOK, ParentsThere
    <3>2. \A j \in ParentJobs(nodes, b, x[1]) : jobs'[j].status = "COMPLETED"
      BY ZenonT(30), <1>6, <1>12 DEF ParentsReported, ParentsOf
    <3> HIDE DEF b
    <3> QED
      BY ZenonT(30), <3>1, <3>2, <1>6, ParentJobsFacts
  <2>2. x[2] \in JobIds /\ jobs[x[2]].status \in WaitingStatuses
    BY ZenonT(30), <2>1, <1>5, <1>7, <1>12
  <2>3. PICK y \in NodesOf(l) : y[2] = x[2]
    BY ZenonT(30), <2>2, <1>8
  <2>4. l \in RecipeIds /\ l \in RecipeIds' /\ l # q /\ NodesOf(l)' = NodesOf(l) /\ GraphOf(l)' = GraphOf(l)
    BY ZenonT(30), <1>3, <1>6
  <2>5. ParentsOf(l, y[1])' = ParentsOf(q, x[1])'
    <3>1. SameParents'
      BY Zenon DEF OrderInv, OrderOK
    <3>2. q \in RecipeIds' /\ x \in NodesOf(q)' /\ y \in NodesOf(l)'
      BY Zenon, <2>3, <2>4, <1>6
    <3> QED
      BY ZenonT(30), <3>1, <3>2, <2>3, <2>4 DEF SameParents
  <2>6. ParentsOf(l, y[1])' = ParentsOf(l, y[1]) /\ ParentsOf(l, y[1]) \subseteq JobIds
    BY ZenonT(30), <2>4, <1>0, ParentsOfUnchanged, ParentsAreJobs DEF Base
  <2>7. ParentsReported(l, y[1])
    BY ZenonT(30), <2>5, <2>6, <1>1, <1>4, <1>9, <1>12 DEF ParentsReported
  <2>8. JobTold(x[2])
    BY ZenonT(30), <2>2, <2>3, <2>7 DEF RestOK, ReadyTold
  <2>9. jobs[x[2]].has_input => jobs'[x[2]].has_input
    BY ZenonT(30), <2>2, <1>6 DEF Kept
  <2>10. \A t \in RecipeIds : t \in RecipeIds' /\ NodesOf(t)' = NodesOf(t)
    BY ZenonT(30), <1>6
  <2> QED
    BY ZenonT(30), <2>8, <2>9, <2>10, <1>1, <1>9 DEF JobTold
<1>13. ASSUME NEW x \in nodes
       PROVE  jobs'[x[2]].status # "CANCELED" /\ ~Canceling(x[2])' /\ ~Replaced(x[2])'
  <2>1. Replaced(x[2])' => Replaced(x[2]) /\ x[2] \in JobIds
    BY ZenonT(30), <1>0, <1>3, ReplacedBefore, ReplacedIsJob
  <2>2. Canceling(x[2])' => Canceling(x[2]) /\ x[2] \in JobIds
    BY ZenonT(30), <1>0, <1>1 DEF Canceling, Base, MessagesOK, MessageOK, JobMessages
  <2>3. CASE x[2] \in JobIds
    <3>1. jobs[x[2]].status # "CANCELED" /\ ~Canceling(x[2]) /\ ~Replaced(x[2])
      BY ZenonT(30), <2>3, <1>8 DEF RestOK, NotCanceled
    <3>2. x[2] \notin gone
      BY ZenonT(30), <2>3, <1>4, <1>7
    <3> QED
      BY ZenonT(30), <2>1, <2>2, <2>3, <3>1, <3>2, <1>4
  <2>4. CASE x[2] \notin JobIds
    BY ZenonT(30), <2>1, <2>2, <2>4, <1>4, <1>7
  <2> QED
    BY ZenonT(30), <2>3, <2>4
<1>14. ReadyTold(q)'
  BY ZenonT(30), <1>6, <1>12 DEF ReadyTold
<1>15. NotCanceled(q)'
  BY ZenonT(30), <1>6, <1>13 DEF NotCanceled
<1> QED
  BY ZenonT(30), <1>10, <1>11, <1>14, <1>15 DEF RestOK

\* This holds of the first recipe.
LEMMA InitRest ==
  ASSUME RequestsAddWork, Init
  PROVE  RestOK(1)
<1> DEFINE g == Graph(1)
<1> DEFINE nodes == recipes[1].nodes
<1>1. /\ Len(recipes) = 1 /\ recipes[1] = create_recipe(1, 0, 0, nodes) /\ scenario \in Scenarios
      /\ NodeNames(nodes) = Names(g)
      /\ \A j \in JobIds : ~jobs[j].is_superseded /\ jobs[j].status \in {"PENDING", "BLOCKED", "QUEUED"}
      /\ \A n \in Names(g) : ParentsCompleted(g, nodes, jobs, n) => jobs[JobAt(nodes, n)].status = "QUEUED"
  BY ZenonT(30), InitFacts
<1>2. Base /\ OrderOK /\ RecipeIds = {1}
  <2>1. Base /\ OrderOK
    BY ZenonT(30), InitBase, InitOrder
  <2>2. RecipeIds = 1..Len(recipes)
    BY ZenonT(30), <2>1, Ids DEF Base
  <2> QED
    BY <1>1, <2>1, <2>2
<1>3. NodesOf(1) = nodes /\ GraphOf(1) = g /\ recipes[1].event = 0
  <2>1. recipes[1].rev = 1 /\ recipes[1].event = 0
    BY <1>1 DEF create_recipe
  <2> QED
    BY ZenonT(30), <2>1 DEF NodesOf, GraphOf
<1>4. IsNodes(nodes) /\ \A x \in nodes : x[2] \in JobIds
  BY ZenonT(30), <1>2, <1>3, RecipeJobs DEF Base, JobsOf
<1>5. \A m \in msgs : m.type = "reprocess_recipes"
  BY DEF Init, Msgs, Msg
<1>6. NamesTold(1)
  BY ZenonT(30), <1>1, <1>3 DEF NamesTold
<1>7. CompletionTold(1)
  <2>1. Names(g) # {}
    BY ZenonT(30), <1>1 DEF RequestsAddWork, Graph
  <2>2. PICK x \in nodes : TRUE
    BY ZenonT(30), <2>1, <1>1 DEF NodeNames
  <2>3. jobs[x[2]].status # "COMPLETED"
    BY ZenonT(30), <1>1, <1>4
  <2> QED
    BY ZenonT(30), <2>3, <1>3 DEF CompletionTold
<1>8. ASSUME NEW x \in nodes, jobs[x[2]].status \in WaitingStatuses, ParentsReported(1, x[1])
      PROVE  FALSE
  <2>1. Parents(g, x[1]) \subseteq NodeNames(nodes)
    BY ZenonT(30), <1>2, <1>3 DEF OrderOK, ParentsThere
  <2>2. \A j \in ParentJobs(nodes, g, x[1]) : jobs[j].status = "COMPLETED"
    BY ZenonT(30), <1>3, <1>8 DEF ParentsReported, ParentsOf
  <2>3. ParentsCompleted(g, nodes, jobs, x[1])
    <3> HIDE DEF g, nodes
    <3> QED
      BY ZenonT(30), <2>1, <2>2, <1>4, ParentJobsFacts
  <2>4. x[1] \in Names(g) /\ JobAt(nodes, x[1]) = x[2]
    BY ZenonT(30), <1>1, <1>4, JobAtFacts DEF NodeNames
  <2> QED
    BY ZenonT(30), <2>3, <2>4, <1>1, <1>8 DEF WaitingStatuses
<1>9. ReadyTold(1)
  BY ZenonT(30), <1>3, <1>8 DEF ReadyTold
<1>10. NotCanceled(1)
  BY ZenonT(30), <1>1, <1>2, <1>3, <1>4, <1>5 DEF NotCanceled, Canceling, Replaced
<1> QED
  BY ZenonT(30), <1>6, <1>7, <1>9, <1>10 DEF RestOK

\* The invariant.
RestInv == OrderInv /\ \A l : l = Len(recipes) => RestOK(l)

\* Every step keeps the invariant.
LEMMA RestStep ==
  ASSUME BatchesKeepNames, RequestsAddWork, RestInv, [Next]_vars
  PROVE  RestInv'
<1>1. OrderInv /\ OrderInv'
  BY ZenonT(30), BaseStep, OrderStep, LiveStep DEF RestInv, OrderInv
<1>2. PICK l : l = Len(recipes)
  BY Zenon
<1>3. RestOK(l) /\ Base
  BY ZenonT(30), <1>1, <1>2 DEF RestInv, OrderInv
<1>4. PICK q : q = Len(recipes) + 1
  BY Zenon
<1>5. CASE Calm
  <2>1. RestOK(l)' /\ Len(recipes') = l
    BY ZenonT(30), <1>1, <1>2, <1>3, <1>5, CalmKeepsRest DEF Calm, Quiet
  <2> QED
    BY ZenonT(30), <2>1, <1>1 DEF RestInv
<1>6. CASE Updates
  <2>1. PICK m \in msgs, ack \in BOOLEAN : m.type = "update_recipes" /\ UpdateRecipes(m, ack)
    BY ZenonT(30), <1>6 DEF Updates
  <2>2. now \in 0..MaxClock
    BY ZenonT(30), <1>3, ClockFacts DEF Base, OthersOK
  <2>3. Len(recipes') = Len(recipes)
    BY ZenonT(30), <2>1, <2>2, <1>3, UpdateFacts
  <2>4. RestOK(l)'
    BY ZenonT(30), <2>1, <1>1, <1>2, <1>3, UpdateKeepsRest
  <2> QED
    BY ZenonT(30), <2>3, <2>4, <1>1, <1>2 DEF RestInv
<1>7. CASE Reprocesses
  <2>1. PICK m \in msgs, ack \in BOOLEAN, r \in RecipeIds : m.type = "reprocess_recipes" /\ ReprocessNew(m, r, ack)
    BY Zenon, <1>7 DEF Reprocesses
  <2>2. \E rev, nodes : NewRecipe(rev, m.id, nodes)
    BY ZenonT(30), <2>1, <1>3, ReprocessNewFacts
  <2>3. Len(recipes') = q
    BY ZenonT(30), <2>2, <1>4 DEF NewRecipe
  <2>4. RestOK(q)'
    BY ZenonT(30), <1>1, <1>2, <1>3, <1>4, <1>7, ReprocessKeepsRest
  <2> QED
    BY ZenonT(30), <2>3, <2>4, <1>1 DEF RestInv
<1>8. CASE Requests
  <2>1. PICK s \in started : /\ s.type = "request" /\ scenario' = scenario
                             /\ \E d \in Delta(recipes[s.recipe].rev) : queue_new_recipe(s, d)
    BY Zenon, <1>8 DEF Requests
  <2>2. \E nodes : NewRecipe(CurrentRev, 0, nodes)
    BY ZenonT(30), <2>1, <1>3, RequestFacts
  <2>3. Len(recipes') = q
    BY ZenonT(30), <2>2, <1>4 DEF NewRecipe
  <2>4. RestOK(q)'
    BY ZenonT(30), <1>1, <1>2, <1>3, <1>4, <1>8, RequestKeepsRest
  <2> QED
    BY ZenonT(30), <2>3, <2>4, <1>1 DEF RestInv
<1> QED
  BY ZenonT(30), <1>3, <1>5, <1>6, <1>7, <1>8, CalmCases

\* The invariant implies the property.
LEMMA RestImplies ==
  ASSUME RestInv
  PROVE  NoneForgotten
<1> SUFFICES ASSUME Quiescent, NEW l \in Latest, JobsOf(NodesOf(l)) \cap overtaken = {}
             PROVE  /\ NodeNames(NodesOf(l)) = Names(GraphOf(l))
                    /\ \A n \in Names(GraphOf(l)) : jobs[JobAt(NodesOf(l), n)].status \in {"PENDING", "BLOCKED"}
                         => ~ParentsCompleted(GraphOf(l), NodesOf(l), jobs, n)
                    /\ is_completed(NodesOf(l), jobs) => recipes[l].is_completed
  BY Zenon DEF NoneForgotten, NodesOf, GraphOf
<1> DEFINE g == GraphOf(l)
<1> DEFINE nodes == NodesOf(l)
<1>1. l = Len(recipes) /\ l \in RecipeIds /\ Base /\ OrderOK
  BY LastIsLatest, Ids DEF RestInv, OrderInv, Base
<1>2. RestOK(l) /\ msgs = {}
  BY Zenon, <1>1 DEF RestInv, Quiescent
<1>3. NodeNames(nodes) = Names(g)
  BY Zenon, <1>2 DEF RestOK, NamesTold, Told
<1>4. IsNodes(nodes)
  BY ZenonT(30), <1>1, RecipeJobs DEF Base
<1>5. ASSUME NEW n \in Names(g), jobs[JobAt(nodes, n)].status \in {"PENDING", "BLOCKED"}, ParentsCompleted(g, nodes, jobs, n)
      PROVE  FALSE
  <2> DEFINE x == <<n, JobAt(nodes, n)>>
  <2>1. x \in nodes /\ x[1] = n /\ x[2] = JobAt(nodes, n)
    BY ZenonT(30), <1>3, <1>4, JobAtFacts
  <2> HIDE DEF x
  <2>2. Parents(g, n) \subseteq NodeNames(nodes)
    BY Zenon, <2>1, <1>1 DEF OrderOK, ParentsThere
  <2>3. \A j \in ParentsOf(l, n) : jobs[j].status = "COMPLETED"
    <3>1. \A j \in ParentJobs(nodes, g, n) : jobs[j].status = "COMPLETED"
      <4> HIDE DEF g, nodes
      <4> QED
        BY Zenon, <1>4, <1>5, <2>2, ParentJobsFacts
    <3> QED
      BY Zenon, <3>1 DEF ParentsOf
  <2>4. \A j \in ParentsOf(l, n) : j \notin overtaken
    BY Zenon, ParentsArePart DEF JobsOf
  <2>5. ParentsReported(l, x[1])
    BY ZenonT(30), <2>1, <2>3, <2>4, <1>2 DEF ParentsReported, Reporting
  <2>6. JobTold(x[2])
    BY ZenonT(30), <2>1, <2>5, <1>2, <1>5 DEF RestOK, ReadyTold, WaitingStatuses
  <2> QED
    BY ZenonT(30), <2>6, <1>2 DEF JobTold, Told
<1>6. is_completed(nodes, jobs) => recipes[l].is_completed
  BY ZenonT(30), <1>2, <1>3 DEF RestOK, CompletionTold, Told, Reporting, is_completed, JobsOf
<1> QED
  BY ZenonT(30), <1>3, <1>5, <1>6

\* No job of the latest recipe is left waiting, and the recipe is not left uncompleted,
\* without a message on its way: messages that were executed twice, batches, users, ends
\* of jobs and requeues may come in any order. Batches keep the names of nodes, and a
\* user's request adds work.
THEOREM NoJobIsForgotten ==
  BatchesKeepNames /\ RequestsAddWork => (Spec => []NoneForgotten)
<1> SUFFICES ASSUME BatchesKeepNames, RequestsAddWork PROVE Spec => []NoneForgotten
  OBVIOUS
<1>1. Init => RestInv
  <2> SUFFICES ASSUME Init PROVE RestInv
    BY Zenon
  <2>1. Len(recipes) = 1
    BY Zenon DEF Init
  <2> QED
    BY ZenonT(30), <2>1, InitBase, InitOrder, InitRest DEF RestInv, OrderInv
<1>2. RestInv /\ [Next]_vars => RestInv'
  BY Zenon, RestStep
<1>3. RestInv => NoneForgotten
  BY RestImplies
<1> QED
  BY <1>1, <1>2, <1>3, PTL DEF Spec
====
