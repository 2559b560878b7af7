---- MODULE MCRecipes ----
(***************************************************************************)
(* Recipe types for the model checker, each with two revisions.            *)
(***************************************************************************)
EXTENDS Recipes, TLC

In == [kind |-> "recipe", from |-> "in", output |-> ""]
Out(n) == [kind |-> "node", from |-> n, output |-> "out"]

\* A node of the given job type with the source of each of its inputs.
Node(type, sources) ==
  [type |-> type, inputs |-> sources,
   parents |-> {sources[i].from : i \in {k \in DOMAIN sources : sources[k].kind = "node"}}]
Root(type) == Node(type, "i" :> In)
After(type, p) == Node(type, "i" :> Out(p))
Join(type, p, q) == Node(type, "i" :> Out(p) @@ "j" :> Out(q))

Inputs == "in" :> [type |-> "file", required |-> TRUE]
G(nodes) == [inputs |-> Inputs, nodes |-> nodes]
Case(a, b, names, events, n, again, failures) ==
  [revs |-> <<G(a), G(b)>>, names |-> names, events |-> events, failures |-> failures > 0,
   bounds |-> [requests |-> n, repeats |-> again, requeues |-> failures]]

Chain(t) == "a" :> Root("A") @@ "b" :> After(t, "a")
Renamed == "x" :> Root("A") @@ "b" :> After("B", "x")
Joined(t) == "a" :> Root("A") @@ "b" :> Root(t) @@ "c" :> Join("C", "a", "b")
Pair == "a" :> Root("A") @@ "b" :> Root("B")
Swapped == "a" :> Root("B") @@ "b" :> Root("A") @@ "c" :> After("C", "a")

\* Two batches; a batch and a user; a job that must run again and those after
\* it; a failure and a requeue; two users; new names; names exchanged; two
\* parents of which one is changed.
RecipeCases ==
  {Case(Chain("B"), Chain("B2"), {}, {1, 2}, 0, 0, 0),
   Case(Chain("B"), Chain("B2"), {}, {1}, 1, 1, 0),
   Case(Chain("B"), Chain("B2"), {"a"}, {1}, 1, 0, 0),
   Case(Chain("B"), Chain("B2"), {}, {1}, 0, 1, 1),
   Case(Chain("B"), Chain("B"), {"b"}, {}, 2, 1, 1),
   Case(Chain("B"), Renamed, {"b"}, {}, 2, 0, 0),
   Case(Pair, Swapped, {}, {}, 2, 0, 1),
   Case(Joined("B"), Joined("B2"), {}, {1}, 0, 0, 0)}

\* The cases meet the conditions under which the theorems hold.
ASSUME BatchesKeepNamesHere == BatchesKeepNames
ASSUME RequestsAddWorkHere == RequestsAddWork
====
