---- MODULE RecipeGraph ----
(***************************************************************************)
(* The graph of a recipe definition (recipe/handlers/graph.py) and the     *)
(* difference between two of them (recipe/handlers/graph_delta.py), from   *)
(* which a recipe is reprocessed.                                          *)
(*                                                                         *)
(* A graph is a record: inputs gives type and required of each input of    *)
(* the recipe, nodes gives for each job name its job type and version, its *)
(* parents, and the source of each of its inputs, which is an input of the *)
(* recipe or an output of a parent. Iteration over Python sets and dicts   *)
(* has no defined order, so the difference is one of several.              *)
(***************************************************************************)
EXTENDS FiniteSets, Naturals, Functions

Names(g) == DOMAIN g.nodes
Parents(g, n) == g.nodes[n].parents
Children(g, n) == {c \in Names(g) : n \in Parents(g, c)}

\* The nodes start and those that follow them along edges within the set nodes:
\* the smallest set that has start and is closed under them.
AndFollowing(g, start, nodes) ==
  {n \in nodes : \A S \in SUBSET nodes :
     start \subseteq S /\ (\A c \in nodes : Parents(g, c) \cap S # {} => c \in S) => n \in S}

\* The sequences that list each element of set S once.
Orders(S) == Bijection(1..Cardinality(S), S)

\* get_topological_order: every order that puts parents before their children
\* is the result of some order of visits.
get_topological_order(g) ==
  {s \in Orders(Names(g)) : \A i, j \in DOMAIN s : s[i] \in Parents(g, s[j]) => i < j}

-----------------------------------------------------------------------------
(* RecipeGraphDelta.                                                       *)

\* _match_recipe_inputs: the inputs of b that take over that of a.
matched_recipe_inputs(a, b) ==
  {i \in DOMAIN a.inputs \cap DOMAIN b.inputs :
     /\ a.inputs[i].type = b.inputs[i].type
     /\ b.inputs[i].required => a.inputs[i].required}

can_be_reprocessed(a, b) ==
  \A i \in DOMAIN b.inputs : i \in matched_recipe_inputs(a, b)
                             \/ (i \notin DOMAIN a.inputs /\ ~b.inputs[i].required)

\* NodeInputConnection.is_equal_to: the connection x of a job in graph a and y
\* of one in graph b have the same source, given the nodes matched so far.
is_equal_to(a, b, identical, x, y) ==
  /\ x.kind = y.kind /\ x.output = y.output
  /\ IF y.kind = "node" THEN x.from = identical[y.from]
     ELSE y.from \in matched_recipe_inputs(a, b) /\ x.from = y.from

\* _is_node_identical: same job type, parents that are identical to each other,
\* and the same inputs.
_is_node_identical(a, b, identical, m, n) ==
  /\ a.nodes[m].type = b.nodes[n].type
  /\ Parents(b, n) \subseteq DOMAIN identical
  /\ {identical[p] : p \in Parents(b, n)} = Parents(a, m)
  /\ DOMAIN a.nodes[m].inputs = DOMAIN b.nodes[n].inputs
  /\ \A i \in DOMAIN b.nodes[n].inputs :
       is_equal_to(a, b, identical, a.nodes[m].inputs[i], b.nodes[n].inputs[i])

\* The part of identical that is known when the i-th node of order s is reached.
MatchedBefore(identical, s, i) == Restrict(identical, DOMAIN identical \cap {s[k] : k \in 1..(i-1)})

\* The step of _match_identical_nodes for node n of b: the identical nodes of a
\* that are not yet taken.
Candidates(a, b, identical, n) ==
  {m \in Names(a) \ Range(identical) : _is_node_identical(a, b, identical, m, n)}

\* In topological order each node of b is matched with one of its candidates, if
\* there are any.
_match_identical_nodes(a, b) ==
  {identical \in UNION {[names -> Names(a)] : names \in SUBSET Names(b)} :
     \E s \in get_topological_order(b) : \A i \in DOMAIN s :
       LET found == Candidates(a, b, MatchedBefore(identical, s, i), s[i])
       IN  IF s[i] \in DOMAIN identical THEN identical[s[i]] \in found ELSE found = {}}

\* A node that was not matched has changed if one of the same name is left in a.
_match_changed_nodes(a, b, identical) ==
  (Names(b) \ DOMAIN identical) \cap (Names(a) \ Range(identical))

\* reprocess_identical_node for each of the names: these and the identical nodes
\* that follow them count as changed.
reprocess_identical_nodes(b, identical, names) ==
  AndFollowing(b, names \cap DOMAIN identical, DOMAIN identical)

\* The possible differences from a to b when the nodes names are to be
\* reprocessed: identical and changed lead from names in b to names in a.
RecipeGraphDelta(a, b, names) ==
  {LET forced == reprocess_identical_nodes(b, m, names)
       same == _match_changed_nodes(a, b, m)
       changed == [n \in same \cup forced |-> IF n \in forced THEN m[n] ELSE n]
   IN  [identical |-> Restrict(m, DOMAIN m \ forced),
        changed   |-> changed,
        new       |-> Names(b) \ (DOMAIN m \cup same),
        deleted   |-> Names(a) \ (Range(m) \cup same)] :
   m \in _match_identical_nodes(a, b)}
====
