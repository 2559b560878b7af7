---- MODULE NodeResources ----
(***************************************************************************)
(* NodeResources (node/resources/node_resources.py): an amount of each     *)
(* resource of a node. Two of them stand for all: gpus, which executions   *)
(* do not share, and cpus, as an example of those they do. Amounts are     *)
(* whole numbers, so that nothing has to be rounded.                       *)
(***************************************************************************)
EXTENDS Integers, FiniteSetsExt

ResourceNames == {"cpus", "gpus"}
Resources == [ResourceNames -> Int]
Amounts == [ResourceNames -> Nat]
NoResources == [n \in ResourceNames |-> 0]

add(r, s) == [n \in ResourceNames |-> r[n] + s[n]]
subtract(r, s) == [n \in ResourceNames |-> r[n] - s[n]]
is_sufficient_to_meet(r, s) == \A n \in ResourceNames : r[n] >= s[n]
increase_up_to(r, s) == [n \in ResourceNames |-> IF r[n] < s[n] THEN s[n] ELSE r[n]]
limit_to(r, s) == [n \in ResourceNames |-> IF r[n] > s[n] THEN s[n] ELSE r[n]]

\* The sum of f[x] over the members x of the set S.
Total(f, S) == [n \in ResourceNames |-> MapThenSumSet(LAMBDA x : f[x][n], S)]
====
