---- MODULE MCNodes ----
(***************************************************************************)
(* Instances of NodeManager: two agents that follow each other on one      *)
(* host, and a third on a host of its own.                                 *)
(***************************************************************************)
EXTENDS NodeManager

Shared == [a \in Agents |-> "h1"]
ThirdApart == [a \in Agents |-> IF a = "a3" THEN "h2" ELSE "h1"]
====
